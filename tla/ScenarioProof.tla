--------------------------- MODULE ScenarioProof ----------------------------
(***************************************************************************)
(* A scenario keeps its time, for every definition of it.                  *)
(*                                                                         *)
(* ScenarioKeepsTime speaks of the moments between two events.  ScenarioInv *)
(* says what holds in the middle of a march: a button that is pressed still *)
(* waits to be served, and the scenario may run; a run that was not modified *)
(* has the rule of its step and its timer, or the end of the timer is served *)
(* next, which is why one step answers it, or it has no step and waits at  *)
(* the first; what is disabled does not run.                               *)
(* A march is the rules of the scenario in their order, and which of them  *)
(* make their writes is settled by the IOs at its beginning: MarchIs follows *)
(* it through the list, three turns follow from it.                        *)
(***************************************************************************)
EXTENDS Scenario, Inductions

-----------------------------------------------------------------------------
(* What a scenario keeps between two writes of its rules                   *)

ScenarioDef == [steps : Seq(StepDef), final : BOOLEAN, cycle : BOOLEAN]
ScenarioState ==
  [button : BOOLEAN, active : BOOLEAN, step : Nat \cup {EndStep}, time : Nat,
   left : Nat \cup {NotRunning}, done : BOOLEAN, scheduled : BOOLEAN,
   schedule : BOOLEAN, range : BOOLEAN, pending : Seq(ScenarioIO),
   played : Seq(Nat \cup {EndStep}), stopped : BOOLEAN]

ScenarioWell ==
  /\ sc \in ScenarioState /\ scDef \in ScenarioDef
  /\ scRules \in [steps : Seq(StepDef), final : BOOLEAN, cycle : BOOLEAN, off : SUBSET Nat]
  /\ scRules.off \subseteq DOMAIN scRules.steps \cup {0}
  /\ scGate \in [disabled : BOOLEAN, missing : BOOLEAN]
  /\ scBusy \in [at : Handler, def : ScenarioDef]
  /\ scEdited \in BOOLEAN

Waits(s, io) == \E i \in 1..Len(s.pending) : s.pending[i] = io
Halting == scBusy.at \in {"haltStep", "haltTimer"}

\* The button is pressed only if the scenario may run, and its march is to come
PressWaits == sc.button => ~Refuses /\ Waits(sc, "scenario")

\* A disabled scenario does not run, and is being halted in no other case
DisabledIsStopped == (scGate.disabled => ~sc.active) /\ (Halting => scGate.disabled)

\* A run has the rule that its step needs, and the timer or its end that brings it
\* there, unless the scenario has no step
RunGoesOn ==
  sc.active /\ ~scEdited =>
    /\ scRules.off = {}
    /\ sc.step = EndStep \/ sc.step + 1 \in 1..Len(scRules.steps) \/ Stepless
    /\ sc.left # NotRunning \/ (sc.done /\ sc.pending = <<"timer">>) \/ Stepless

\* What is not running is timed only while it is halted
RestIsUntimed ==
  /\ sc.done => sc.left = NotRunning
  /\ scEdited => sc.active
  /\ ~sc.active => sc.left = NotRunning \/ Halting

\* The end of the timer is seen by one step
EndIsSeenOnce ==
  /\ Len(sc.played) <= 1
  /\ sc.active /\ sc.done =>
       /\ sc.played = <<>>
       /\ sc.pending = <<>> \/ \E io \in {"timer", "scenario", "range", "schedule"} :
                                 sc.pending = <<io>>

ScenarioInv ==
  /\ ScenarioWell /\ PressWaits /\ DisabledIsStopped /\ RunGoesOn /\ RestIsUntimed
  /\ EndIsSeenOnce

-----------------------------------------------------------------------------
(* The writes, and what they make of the IOs                               *)
\* What the rules write
ScenarioWrite ==
  {To(io, v) : io \in {"scenario", "active", "schedule", "start", "stopped"}, v \in BOOLEAN}
    \cup {To(io, v) : io \in {"step", "played"}, v \in Nat \cup {EndStep}}
    \cup {To("time", v) : v \in Nat}

\* They are all writes of an IO.
LEMMA WritesAre ==
  /\ \A io \in {"scenario", "active", "schedule", "start", "stopped"}, v \in BOOLEAN :
       To(io, v) \in ScenarioWrite
  /\ \A io \in {"step", "played"}, v \in Nat \cup {EndStep} : To(io, v) \in ScenarioWrite
  /\ \A v \in Nat : To("time", v) \in ScenarioWrite
  BY DEF ScenarioWrite

Joined(a, b, c, d, e, f) ==
  /\ <<a, b>> \o <<c, d, e>> \o <<f>> = <<a, b, c, d, e, f>>
  /\ <<a>> \o <<c, d, e>> \o <<f>> = <<a, c, d, e, f>>

\* Writes that are joined,
LEMMA TuplesJoin ==
  ASSUME NEW S, NEW a \in S, NEW b \in S, NEW c \in S, NEW d \in S, NEW e \in S, NEW f \in S
  PROVE  Joined(a, b, c, d, e, f)
  <1>1. /\ <<a>> \in Seq(S) /\ <<a, b>> \in Seq(S) /\ <<c, d, e>> \in Seq(S) /\ <<f>> \in Seq(S)
        /\ <<a, b, c, d, e, f>> \in Seq(S) /\ <<a, c, d, e, f>> \in Seq(S)
    OBVIOUS
  <1>2. <<a, b>> \o <<c, d, e>> \o <<f>> = <<a, b, c, d, e, f>>
    <2>1. PICK x \in Seq(S) : x = <<a, b>> \o <<c, d, e>>
      BY <1>1, ConcatProperties
    <2>2. /\ Len(x) = 5
          /\ \A i \in 1..5 : x[i] = IF i <= 2 THEN <<a, b>>[i] ELSE <<c, d, e>>[i - 2]
      BY <1>1, <2>1, ConcatProperties
    <2>3. x[1] = a /\ x[2] = b /\ x[3] = c /\ x[4] = d /\ x[5] = e
      BY <2>2
    <2>4. PICK y \in Seq(S) : y = x \o <<f>>
      BY <1>1, ConcatProperties
    <2>5. /\ Len(y) = 6
          /\ \A i \in 1..6 : y[i] = IF i <= 5 THEN x[i] ELSE <<f>>[i - 5]
      <3>1. <<f>> \in Seq(S) /\ Len(<<f>>) = 1 /\ Len(x) = 5
        BY <1>1, <2>2
      <3>2. /\ Len(x \o <<f>>) = Len(x) + Len(<<f>>)
            /\ \A i \in 1..(Len(x) + Len(<<f>>)) :
                 (x \o <<f>>)[i] = IF i <= Len(x) THEN x[i] ELSE <<f>>[i - Len(x)]
        BY <3>1, ConcatProperties
      <3>3. Len(x) + Len(<<f>>) = 6
        BY <3>1
      <3> QED BY <2>4, <3>1, <3>2, <3>3
    <2>6. y[1] = a /\ y[2] = b /\ y[3] = c /\ y[4] = d /\ y[5] = e /\ y[6] = f
      BY <2>3, <2>5
    <2>7. PICK z \in Seq(S) : z = <<a, b, c, d, e, f>>
      BY <1>1
    <2>8. Len(z) = 6 /\ z[1] = a /\ z[2] = b /\ z[3] = c /\ z[4] = d /\ z[5] = e /\ z[6] = f
      BY <2>7
    <2>9. \A i \in 1..6 : y[i] = z[i]
      BY <2>6, <2>8
    <2>10. y = z
      BY <2>5, <2>8, <2>9, SeqEqual
    <2> QED BY <2>1, <2>4, <2>7, <2>10
  <1>3. <<a>> \o <<c, d, e>> \o <<f>> = <<a, c, d, e, f>>
    <2>1. PICK x \in Seq(S) : x = <<a>> \o <<c, d, e>>
      BY <1>1, ConcatProperties
    <2>2. /\ Len(x) = 4
          /\ \A i \in 1..4 : x[i] = IF i <= 1 THEN <<a>>[i] ELSE <<c, d, e>>[i - 1]
      BY <1>1, <2>1, ConcatProperties
    <2>3. x[1] = a /\ x[2] = c /\ x[3] = d /\ x[4] = e
      BY <2>2
    <2>4. PICK y \in Seq(S) : y = x \o <<f>>
      BY <1>1, ConcatProperties
    <2>5. /\ Len(y) = 5
          /\ \A i \in 1..5 : y[i] = IF i <= 4 THEN x[i] ELSE <<f>>[i - 4]
      <3>1. <<f>> \in Seq(S) /\ Len(<<f>>) = 1 /\ Len(x) = 4
        BY <1>1, <2>2
      <3>2. /\ Len(x \o <<f>>) = Len(x) + Len(<<f>>)
            /\ \A i \in 1..(Len(x) + Len(<<f>>)) :
                 (x \o <<f>>)[i] = IF i <= Len(x) THEN x[i] ELSE <<f>>[i - Len(x)]
        BY <3>1, ConcatProperties
      <3>3. Len(x) + Len(<<f>>) = 5
        BY <3>1
      <3> QED BY <2>4, <3>1, <3>2, <3>3
    <2>6. y[1] = a /\ y[2] = c /\ y[3] = d /\ y[4] = e /\ y[5] = f
      BY <2>3, <2>5
    <2>7. PICK z \in Seq(S) : z = <<a, c, d, e, f>>
      BY <1>1
    <2>8. Len(z) = 5 /\ z[1] = a /\ z[2] = c /\ z[3] = d /\ z[4] = e /\ z[5] = f
      BY <2>7
    <2>9. \A i \in 1..5 : y[i] = z[i]
      BY <2>6, <2>8
    <2>10. y = z
      BY <2>5, <2>8, <2>9, SeqEqual
    <2> QED BY <2>1, <2>4, <2>7, <2>10
  <1> QED BY <1>2, <1>3 DEF Joined

\* such as those of a press.
LEMMA PressWrites ==
  /\ ButtonStart.does = <<To("scenario", FALSE), To("active", TRUE), To("step", 0), To("time", 0),
                          To("start", TRUE), To("stopped", FALSE)>>
  /\ ButtonStop.does = <<To("scenario", FALSE), To("step", EndStep), To("time", 0),
                         To("start", TRUE), To("stopped", TRUE)>>
  <1>1. /\ To("scenario", FALSE) \in ScenarioWrite /\ To("active", TRUE) \in ScenarioWrite
        /\ To("step", 0) \in ScenarioWrite /\ To("time", 0) \in ScenarioWrite
        /\ To("step", EndStep) \in ScenarioWrite
        /\ To("start", TRUE) \in ScenarioWrite /\ To("stopped", FALSE) \in ScenarioWrite
        /\ To("stopped", TRUE) \in ScenarioWrite
    BY WritesAre
  <1>2. ButtonStart.does = <<To("scenario", FALSE), To("active", TRUE)>> \o RestartAt(0)
                             \o <<To("stopped", FALSE)>>
    BY DEF ButtonStart, Rule
  <1>3. ButtonStop.does = <<To("scenario", FALSE)>> \o RestartAt(EndStep) \o <<To("stopped", TRUE)>>
    BY DEF ButtonStop, Rule
  <1>4. /\ RestartAt(0) = <<To("step", 0), To("time", 0), To("start", TRUE)>>
        /\ RestartAt(EndStep) = <<To("step", EndStep), To("time", 0), To("start", TRUE)>>
    BY DEF RestartAt
  <1> DEFINE w == To("scenario", FALSE)
             a == To("active", TRUE)
             s0 == To("step", 0)
             s1 == To("step", EndStep)
             t == To("time", 0)
             g == To("start", TRUE)
             f == To("stopped", FALSE)
             x == To("stopped", TRUE)
  <1>5. /\ w \in ScenarioWrite /\ a \in ScenarioWrite /\ s0 \in ScenarioWrite /\ t \in ScenarioWrite
        /\ s1 \in ScenarioWrite /\ g \in ScenarioWrite /\ f \in ScenarioWrite /\ x \in ScenarioWrite
    BY <1>1
  <1>6. ButtonStart.does = <<w, a>> \o <<s0, t, g>> \o <<f>>
    BY <1>2, <1>4
  <1>7. ButtonStop.does = <<w>> \o <<s1, t, g>> \o <<x>>
    BY <1>3, <1>4
  <1> HIDE DEF w, a, s0, s1, t, g, f, x
  <1>8. Joined(w, a, s0, t, g, f) /\ Joined(w, a, s1, t, g, x)
    BY <1>5, TuplesJoin
  <1>9. /\ ButtonStart.does = <<w, a, s0, t, g, f>>
        /\ ButtonStop.does = <<w, s1, t, g, x>>
    BY <1>6, <1>7, <1>8 DEF Joined
  <1> QED BY <1>9 DEF w, a, s0, s1, t, g, f, x

\* A timer starts with the time there is.
LEMMA TimerTypes ==
  ASSUME NEW s \in ScenarioState
  PROVE  /\ TimerStart(s) = [s EXCEPT !.left = IF s.time = 0 THEN 1 ELSE s.time, !.done = FALSE]
         /\ TimerStart(s) \in ScenarioState
  BY DEF TimerStart, ScenarioState

\* What a write makes of the IOs.
LEMMA WriteIs ==
  ASSUME NEW s \in ScenarioState
  PROVE  /\ \A v \in BOOLEAN :
              /\ WriteIO(s, To("scenario", v)) =
                   IF v /\ Refuses THEN s
                   ELSE [s EXCEPT !.button = v, !.pending = Append(s.pending, "scenario")]
              /\ WriteIO(s, To("active", v)) =
                   [s EXCEPT !.active = v, !.pending = Append(s.pending, "active")]
              /\ WriteIO(s, To("schedule", v)) =
                   [s EXCEPT !.schedule = v, !.pending = Append(s.pending, "schedule")]
              /\ WriteIO(s, To("stopped", v)) = [s EXCEPT !.stopped = v]
              /\ WriteIO(s, To("start", v)) = TimerStart(s)
         /\ \A v \in Nat \cup {EndStep} :
              /\ WriteIO(s, To("step", v)) =
                   [s EXCEPT !.step = v, !.pending = Append(s.pending, "step")]
              /\ WriteIO(s, To("played", v)) = [s EXCEPT !.played = Append(s.played, v)]
         /\ \A v \in Nat :
              WriteIO(s, To("time", v)) =
                IF s.left = NotRunning THEN [s EXCEPT !.time = v]
                ELSE [s EXCEPT !.time = v, !.left = IF v = 0 THEN 1 ELSE v, !.done = FALSE]
  <1>1. \A io, v : To(io, v).io = io /\ To(io, v).value = v
    BY DEF To
  <1>2. ASSUME NEW v \in BOOLEAN
        PROVE  /\ WriteIO(s, To("scenario", v)) =
                   IF v /\ Refuses THEN s
                   ELSE [s EXCEPT !.button = v, !.pending = Append(s.pending, "scenario")]
              /\ WriteIO(s, To("active", v)) =
                   [s EXCEPT !.active = v, !.pending = Append(s.pending, "active")]
              /\ WriteIO(s, To("schedule", v)) =
                   [s EXCEPT !.schedule = v, !.pending = Append(s.pending, "schedule")]
              /\ WriteIO(s, To("stopped", v)) = [s EXCEPT !.stopped = v]
              /\ WriteIO(s, To("start", v)) = TimerStart(s)
    <2>1. WriteIO(s, To("scenario", v)) = PressButton(s, v)
      BY <1>1 DEF WriteIO
    <2>2. WriteIO(s, To("active", v)) = Signal([s EXCEPT !.active = v], "active")
      BY <1>1 DEF WriteIO
    <2>3. WriteIO(s, To("schedule", v)) = Signal([s EXCEPT !.schedule = v], "schedule")
      BY <1>1 DEF WriteIO
    <2>4. WriteIO(s, To("stopped", v)) = [s EXCEPT !.stopped = v]
      BY <1>1 DEF WriteIO
    <2>5. WriteIO(s, To("start", v)) = TimerStart(s)
      BY <1>1 DEF WriteIO
    <2>6. Signal([s EXCEPT !.button = v], "scenario") = [s EXCEPT !.button = v, !.pending = Append(s.pending, "scenario")]
      BY DEF Signal, ScenarioState
    <2>7. Signal([s EXCEPT !.active = v], "active") = [s EXCEPT !.active = v, !.pending = Append(s.pending, "active")]
      BY DEF Signal, ScenarioState
    <2>8. Signal([s EXCEPT !.schedule = v], "schedule") = [s EXCEPT !.schedule = v, !.pending = Append(s.pending, "schedule")]
      BY DEF Signal, ScenarioState
    <2> QED BY <2>1, <2>2, <2>3, <2>4, <2>5, <2>6, <2>7, <2>8 DEF PressButton
  <1>3. ASSUME NEW v \in Nat \cup {EndStep}
        PROVE  /\ WriteIO(s, To("step", v)) =
                   [s EXCEPT !.step = v, !.pending = Append(s.pending, "step")]
              /\ WriteIO(s, To("played", v)) = [s EXCEPT !.played = Append(s.played, v)]
    <2>1. WriteIO(s, To("step", v)) = Signal([s EXCEPT !.step = v], "step")
      BY <1>1 DEF WriteIO
    <2>2. WriteIO(s, To("played", v)) = [s EXCEPT !.played = Append(s.played, v)]
      <3>1. To("played", v).io = "played" /\ To("played", v).value = v
        BY <1>1
      <3>2. WriteIO(s, To("played", v)) = [s EXCEPT !.played = Append(@, To("played", v).value)]
        BY <3>1 DEF WriteIO
      <3> QED BY <3>1, <3>2 DEF ScenarioState
    <2>3. Signal([s EXCEPT !.step = v], "step") = [s EXCEPT !.step = v, !.pending = Append(s.pending, "step")]
      BY DEF Signal, ScenarioState
    <2> QED BY <2>1, <2>2, <2>3
  <1>4. ASSUME NEW v \in Nat
        PROVE  WriteIO(s, To("time", v)) =
                IF s.left = NotRunning THEN [s EXCEPT !.time = v]
                ELSE [s EXCEPT !.time = v, !.left = IF v = 0 THEN 1 ELSE v, !.done = FALSE]
    <2>1. WriteIO(s, To("time", v)) = TimerSet(s, v)
      BY <1>1 DEF WriteIO
    <2>2. CASE s.left = NotRunning
      BY <2>1, <2>2 DEF TimerSet
    <2>3. CASE s.left # NotRunning
      <3>1. TimerSet(s, v) = TimerStart([s EXCEPT !.time = v])
        BY <2>3 DEF TimerSet
      <3>2. [s EXCEPT !.time = v].time = v /\ [s EXCEPT !.time = v] \in ScenarioState
        BY DEF ScenarioState
      <3>3. TimerStart([s EXCEPT !.time = v]) = [s EXCEPT !.time = v, !.left = IF v = 0 THEN 1 ELSE v, !.done = FALSE]
        BY <3>2 DEF TimerStart
      <3> QED BY <2>1, <2>3, <3>1, <3>3
    <2> QED BY <2>2, <2>3
  <1> QED BY <1>2, <1>3, <1>4

-----------------------------------------------------------------------------
(* Writes and rules, one after the other                                   *)
\* A signal waits its turn.
LEMMA SignalTypes ==
  ASSUME NEW s \in ScenarioState, NEW io \in ScenarioIO
  PROVE  Append(s.pending, io) \in Seq(ScenarioIO)
  BY DEF ScenarioState

\* A write leaves IOs of the same types.
LEMMA WriteTypes ==
  ASSUME NEW s \in ScenarioState, NEW w \in ScenarioWrite
  PROVE  WriteIO(s, w) \in ScenarioState
  <1>1. \A io \in ScenarioIO : Append(s.pending, io) \in Seq(ScenarioIO)
    BY SignalTypes
  <1>2. \A v \in Nat \cup {EndStep} : Append(s.played, v) \in Seq(Nat \cup {EndStep})
    BY DEF ScenarioState
  <1>3. ASSUME NEW v \in BOOLEAN PROVE WriteIO(s, To("scenario", v)) \in ScenarioState
    <2>1. WriteIO(s, To("scenario", v)) = IF v /\ Refuses THEN s ELSE [s EXCEPT !.button = v, !.pending = Append(s.pending, "scenario")]
      BY WriteIs
    <2>2. PICK pending \in Seq(ScenarioIO) : pending = Append(s.pending, "scenario")
      BY <1>1 DEF ScenarioIO
    <2>3. [s EXCEPT !.button = v, !.pending = pending] \in ScenarioState
      BY DEF ScenarioState
    <2> QED BY <2>1, <2>2, <2>3
  <1>4. ASSUME NEW v \in BOOLEAN PROVE WriteIO(s, To("active", v)) \in ScenarioState
    <2>1. WriteIO(s, To("active", v)) = [s EXCEPT !.active = v, !.pending = Append(s.pending, "active")]
      BY WriteIs
    <2>2. PICK pending \in Seq(ScenarioIO) : pending = Append(s.pending, "active")
      BY <1>1 DEF ScenarioIO
    <2>3. [s EXCEPT !.active = v, !.pending = pending] \in ScenarioState
      BY DEF ScenarioState
    <2> QED BY <2>1, <2>2, <2>3
  <1>5. ASSUME NEW v \in BOOLEAN PROVE WriteIO(s, To("schedule", v)) \in ScenarioState
    <2>1. WriteIO(s, To("schedule", v)) = [s EXCEPT !.schedule = v, !.pending = Append(s.pending, "schedule")]
      BY WriteIs
    <2>2. PICK pending \in Seq(ScenarioIO) : pending = Append(s.pending, "schedule")
      BY <1>1 DEF ScenarioIO
    <2>3. [s EXCEPT !.schedule = v, !.pending = pending] \in ScenarioState
      BY DEF ScenarioState
    <2> QED BY <2>1, <2>2, <2>3
  <1>6. ASSUME NEW v \in BOOLEAN PROVE WriteIO(s, To("start", v)) \in ScenarioState
    <2>1. WriteIO(s, To("start", v)) = TimerStart(s)
      BY WriteIs
    <2> QED BY <2>1, TimerTypes
  <1>7. ASSUME NEW v \in BOOLEAN PROVE WriteIO(s, To("stopped", v)) \in ScenarioState
    <2>1. WriteIO(s, To("stopped", v)) = [s EXCEPT !.stopped = v]
      BY WriteIs
    <2> QED BY <2>1 DEF ScenarioState
  <1>8. ASSUME NEW v \in Nat \cup {EndStep} PROVE WriteIO(s, To("step", v)) \in ScenarioState
    <2>1. WriteIO(s, To("step", v)) = [s EXCEPT !.step = v, !.pending = Append(s.pending, "step")]
      BY WriteIs
    <2>2. PICK pending \in Seq(ScenarioIO) : pending = Append(s.pending, "step")
      BY <1>1 DEF ScenarioIO
    <2>3. [s EXCEPT !.step = v, !.pending = pending] \in ScenarioState
      BY DEF ScenarioState
    <2> QED BY <2>1, <2>2, <2>3
  <1>9. ASSUME NEW v \in Nat \cup {EndStep} PROVE WriteIO(s, To("played", v)) \in ScenarioState
    <2>1. WriteIO(s, To("played", v)) = [s EXCEPT !.played = Append(s.played, v)]
      BY WriteIs
    <2>2. PICK played \in Seq(Nat \cup {EndStep}) : played = Append(s.played, v)
      BY <1>2
    <2>3. [s EXCEPT !.played = played] \in ScenarioState
      BY DEF ScenarioState
    <2> QED BY <2>1, <2>2, <2>3
  <1>10. ASSUME NEW v \in Nat PROVE WriteIO(s, To("time", v)) \in ScenarioState
    <2>1. WriteIO(s, To("time", v)) =
            IF s.left = NotRunning THEN [s EXCEPT !.time = v]
            ELSE [s EXCEPT !.time = v, !.left = IF v = 0 THEN 1 ELSE v, !.done = FALSE]
      BY WriteIs
    <2>2. PICK left \in Nat : left = IF v = 0 THEN 1 ELSE v
      OBVIOUS
    <2>3. /\ [s EXCEPT !.time = v] \in ScenarioState
          /\ [s EXCEPT !.time = v, !.left = left, !.done = FALSE] \in ScenarioState
      BY DEF ScenarioState
    <2> QED BY <2>1, <2>2, <2>3
  <1> QED BY <1>3, <1>4, <1>5, <1>6, <1>7, <1>8, <1>9, <1>10 DEF ScenarioWrite

\* What the writes of a rule make of the IOs, one after the other
WritesAlong(s, ws, p) ==
  /\ p \in [0..Len(ws) -> ScenarioState] /\ p[0] = s
  /\ \A i \in 1..Len(ws) : p[i] = WriteIO(p[i - 1], ws[i])

\* The writes of a rule are made one after the other.
LEMMA WritesPass ==
  ASSUME NEW s \in ScenarioState, NEW ws \in Seq(ScenarioWrite)
  PROVE  \E p : WritesAlong(s, ws, p) /\ FoldLeft(WriteIO, s, ws) = p[Len(ws)]
  <1> DEFINE N == Len(ws)
             V == ScenarioState
             step == [q \in V \X (1..N) |-> WriteIO(q[1], ws[q[2]])]
             Is(f) == f = [t \in SUBSET (1..N) |->
                             IF t = {} THEN s
                             ELSE WriteIO(f[t \ {Max(t)}], ws[Max(t)])]
             iter == CHOOSE f : Is(f)
  <1>1. N \in Nat /\ DOMAIN ws = 1..N /\ \A i \in 1..N : ws[i] \in ScenarioWrite
    OBVIOUS
  <1>3. \A r \in V, i \in 1..N : step[<<r, i>>] = WriteIO(r, ws[i])
    OBVIOUS
  <1>4. step \in StepsOf(V, N)
    <2>1. ASSUME NEW q \in V \X (1..N)
          PROVE  WriteIO(q[1], ws[q[2]]) \in V
      BY <1>1, WriteTypes
    <2> QED BY <2>1 DEF StepsOf
  <1>5. FoldLeft(WriteIO, s, ws) = iter[1..N]
    BY <1>1 DEF FoldLeft, MapThenFoldSet
  <1>2. s \in V
    OBVIOUS
  <1> HIDE DEF N, step, V
  <1>6. PICK g : Recurs(V, s, N, step, g)
    <2> HIDE DEF Is, iter
    <2>1. N \in Nat
      BY <1>1
    <2> QED BY <2>1, <1>2, <1>4, FoldIsDefined
  <1>7. Is(g)
    <2>1. ASSUME NEW t \in SUBSET (1..N), t # {}
          PROVE  g[t] = WriteIO(g[t \ {Max(t)}], ws[Max(t)])
      <3>1. Max(t) \in 1..N /\ t \ {Max(t)} \in SUBSET (1..N)
        BY <1>1, <2>1, MaxBelow
      <3>2. g[t \ {Max(t)}] \in V
        BY <1>6, <3>1 DEF Recurs
      <3>3. g[t] = step[<<g[t \ {Max(t)}], Max(t)>>]
        BY <1>6, <2>1 DEF Recurs
      <3> QED BY <1>3, <3>1, <3>2, <3>3
    <2>2. \A t \in SUBSET (1..N) : g[t] = IF t = {} THEN s
                             ELSE WriteIO(g[t \ {Max(t)}], ws[Max(t)])
      BY <1>6, <2>1 DEF Recurs
    <2>3. g = [t \in SUBSET (1..N) |-> g[t]]
      BY <1>6 DEF Recurs
    <2> QED BY <2>2, <2>3
  <1>8. Is(iter)
    <2> HIDE DEF Is
    <2> QED BY <1>7
  <1> HIDE DEF iter
  <1>9. \A t \in SUBSET (1..N) : iter[t] = IF t = {} THEN s
                             ELSE WriteIO(iter[t \ {Max(t)}], ws[Max(t)])
    BY <1>8
  <1>10. iter[{}] = s
    BY <1>9
  <1>11. ASSUME NEW i \in 1..N, iter[1..(i - 1)] \in V
         PROVE  iter[1..i] = step[<<iter[1..(i - 1)], i>>]
    <2>1. /\ 1..i \in SUBSET (1..N) /\ 1..i # {} /\ Max(1..i) = i
          /\ (1..i) \ {i} = 1..(i - 1)
      BY <1>1, PrefixIs
    <2>2. iter[1..i] = WriteIO(iter[1..(i - 1)], ws[i])
      BY <1>9, <2>1
    <2> QED BY <1>3, <1>11, <2>2
  <1>12. StepsAlong(V, s, N, step, iter)
    BY <1>10, <1>11 DEF StepsAlong
  <1>13. PICK p : Passes(V, s, N, step, p) /\ p[N] = iter[1..N]
    <2> HIDE DEF Is
    <2>1. N \in Nat
      BY <1>1
    <2> QED BY <2>1, <1>2, <1>4, <1>12, FoldPasses
  <1>14. WritesAlong(s, ws, p)
    <2>1. \A i \in 1..N : p[i - 1] \in V
      BY <1>1, <1>13 DEF Passes
    <2>2. \A i \in 1..N : p[i] = WriteIO(p[i - 1], ws[i])
      BY <1>3, <1>13, <2>1 DEF Passes
    <2> QED BY <1>13, <2>2 DEF WritesAlong, Passes, N, V
  <1> QED BY <1>5, <1>13, <1>14 DEF N

\* What the rules make of the IOs when a trigger is served
ScenarioRule == [on : SUBSET ScenarioIO, holds : BOOLEAN, does : Seq(ScenarioWrite)]
RulesAlong(s, rules, p) ==
  /\ p \in [0..Len(rules) -> ScenarioState] /\ p[0] = s
  /\ \A i \in 1..Len(rules) : p[i] = Serve(p[i - 1], rules[i])

\* A rule that is served leaves IOs of the same types.
LEMMA ServeTypes ==
  ASSUME NEW s \in ScenarioState, NEW rule \in ScenarioRule
  PROVE  Serve(s, rule) \in ScenarioState
  <1>1. rule.does \in Seq(ScenarioWrite)
    BY DEF ScenarioRule
  <1>2. PICK p : WritesAlong(s, rule.does, p) /\ FoldLeft(WriteIO, s, rule.does) = p[Len(rule.does)]
    BY <1>1, WritesPass
  <1>3. Len(rule.does) \in 0..Len(rule.does)
    BY <1>1
  <1>4. FoldLeft(WriteIO, s, rule.does) \in ScenarioState
    BY <1>2, <1>3 DEF WritesAlong
  <1> QED BY <1>4 DEF Serve

\* The rules are served in their order.
LEMMA RulesPass ==
  ASSUME NEW s \in ScenarioState, NEW rules \in Seq(ScenarioRule)
  PROVE  \E p : RulesAlong(s, rules, p) /\ FoldLeft(Serve, s, rules) = p[Len(rules)]
  <1> DEFINE N == Len(rules)
             V == ScenarioState
             step == [q \in V \X (1..N) |-> Serve(q[1], rules[q[2]])]
             Is(f) == f = [t \in SUBSET (1..N) |->
                             IF t = {} THEN s
                             ELSE Serve(f[t \ {Max(t)}], rules[Max(t)])]
             iter == CHOOSE f : Is(f)
  <1>1. N \in Nat /\ DOMAIN rules = 1..N /\ \A i \in 1..N : rules[i] \in ScenarioRule
    OBVIOUS
  <1>3. \A r \in V, i \in 1..N : step[<<r, i>>] = Serve(r, rules[i])
    OBVIOUS
  <1>4. step \in StepsOf(V, N)
    <2>1. ASSUME NEW q \in V \X (1..N)
          PROVE  Serve(q[1], rules[q[2]]) \in V
      BY <1>1, ServeTypes
    <2> QED BY <2>1 DEF StepsOf
  <1>5. FoldLeft(Serve, s, rules) = iter[1..N]
    BY <1>1 DEF FoldLeft, MapThenFoldSet
  <1>2. s \in V
    OBVIOUS
  <1> HIDE DEF N, step, V
  <1>6. PICK g : Recurs(V, s, N, step, g)
    <2> HIDE DEF Is, iter
    <2>1. N \in Nat
      BY <1>1
    <2> QED BY <2>1, <1>2, <1>4, FoldIsDefined
  <1>7. Is(g)
    <2>1. ASSUME NEW t \in SUBSET (1..N), t # {}
          PROVE  g[t] = Serve(g[t \ {Max(t)}], rules[Max(t)])
      <3>1. Max(t) \in 1..N /\ t \ {Max(t)} \in SUBSET (1..N)
        BY <1>1, <2>1, MaxBelow
      <3>2. g[t \ {Max(t)}] \in V
        BY <1>6, <3>1 DEF Recurs
      <3>3. g[t] = step[<<g[t \ {Max(t)}], Max(t)>>]
        BY <1>6, <2>1 DEF Recurs
      <3> QED BY <1>3, <3>1, <3>2, <3>3
    <2>2. \A t \in SUBSET (1..N) : g[t] = IF t = {} THEN s
                             ELSE Serve(g[t \ {Max(t)}], rules[Max(t)])
      BY <1>6, <2>1 DEF Recurs
    <2>3. g = [t \in SUBSET (1..N) |-> g[t]]
      BY <1>6 DEF Recurs
    <2> QED BY <2>2, <2>3
  <1>8. Is(iter)
    <2> HIDE DEF Is
    <2> QED BY <1>7
  <1> HIDE DEF iter
  <1>9. \A t \in SUBSET (1..N) : iter[t] = IF t = {} THEN s
                             ELSE Serve(iter[t \ {Max(t)}], rules[Max(t)])
    BY <1>8
  <1>10. iter[{}] = s
    BY <1>9
  <1>11. ASSUME NEW i \in 1..N, iter[1..(i - 1)] \in V
         PROVE  iter[1..i] = step[<<iter[1..(i - 1)], i>>]
    <2>1. /\ 1..i \in SUBSET (1..N) /\ 1..i # {} /\ Max(1..i) = i
          /\ (1..i) \ {i} = 1..(i - 1)
      BY <1>1, PrefixIs
    <2>2. iter[1..i] = Serve(iter[1..(i - 1)], rules[i])
      BY <1>9, <2>1
    <2> QED BY <1>3, <1>11, <2>2
  <1>12. StepsAlong(V, s, N, step, iter)
    BY <1>10, <1>11 DEF StepsAlong
  <1>13. PICK p : Passes(V, s, N, step, p) /\ p[N] = iter[1..N]
    <2> HIDE DEF Is
    <2>1. N \in Nat
      BY <1>1
    <2> QED BY <2>1, <1>2, <1>4, <1>12, FoldPasses
  <1>14. RulesAlong(s, rules, p)
    <2>1. \A i \in 1..N : p[i - 1] \in V
      BY <1>1, <1>13 DEF Passes
    <2>2. \A i \in 1..N : p[i] = Serve(p[i - 1], rules[i])
      BY <1>3, <1>13, <2>1 DEF Passes
    <2> QED BY <1>13, <2>2 DEF RulesAlong, Passes, N, V
  <1> QED BY <1>5, <1>13, <1>14 DEF N

-----------------------------------------------------------------------------
(* What each write and each rule does                                      *)
\* A write leaves what waits and what the schedule says
Onward(s, t) ==
  /\ t \in ScenarioState
  /\ t.scheduled = s.scheduled
  /\ \A io : Waits(s, io) => Waits(t, io)

\* So do two of them.
LEMMA OnwardIsTransitive ==
  ASSUME NEW s, NEW t, NEW u, Onward(s, t), Onward(t, u)
  PROVE  Onward(s, u)
  BY DEF Onward

\* What is signalled waits, with what waited already.
LEMMA SignalledWaits ==
  ASSUME NEW s \in ScenarioState, NEW io \in ScenarioIO, NEW t \in ScenarioState,
         t.pending = Append(s.pending, io)
  PROVE  Waits(t, io) /\ \A x : Waits(s, x) => Waits(t, x)
  <1>1. PICK q \in Seq(ScenarioIO) : q = s.pending
    BY DEF ScenarioState
  <1>2. /\ Len(Append(q, io)) = Len(q) + 1 /\ Append(q, io)[Len(q) + 1] = io
        /\ \A i \in 1..Len(q) : Append(q, io)[i] = q[i]
    BY AppendProperties
  <1>3. Len(q) \in Nat
    OBVIOUS
  <1>4. Waits(t, io)
    BY <1>1, <1>2, <1>3 DEF Waits
  <1>5. ASSUME NEW x, Waits(s, x) PROVE Waits(t, x)
    <2>1. PICK i \in 1..Len(q) : q[i] = x
      BY <1>1, <1>5 DEF Waits
    <2>2. i \in 1..(Len(q) + 1) /\ Append(q, io)[i] = x
      BY <1>2, <1>3, <2>1
    <2> QED BY <1>1, <1>2, <2>2 DEF Waits
  <1> QED BY <1>4, <1>5

ButtonGoes(s, t, v) ==
  /\ Onward(s, t) /\ t.button = v /\ Waits(t, "scenario")
  /\ t.active = s.active /\ t.step = s.step /\ t.left = s.left
  /\ t.done = s.done /\ t.played = s.played

\* The write of the button.
LEMMA ButtonWritten ==
  ASSUME NEW s \in ScenarioState, NEW v \in BOOLEAN, ~(v /\ Refuses)
  PROVE  ButtonGoes(s, WriteIO(s, To("scenario", v)), v)
  <1> DEFINE t == WriteIO(s, To("scenario", v))
  <1>1. t = [s EXCEPT !.button = v, !.pending = Append(s.pending, "scenario")]
    BY WriteIs
  <1>2. t \in ScenarioState
    BY WritesAre, WriteTypes
  <1>3. /\ t.button = v /\ t.scheduled = s.scheduled /\ t.pending = Append(s.pending, "scenario")
        /\ t.active = s.active /\ t.step = s.step /\ t.left = s.left /\ t.done = s.done /\ t.played = s.played
    BY <1>1, <1>2 DEF ScenarioState
  <1>4. Waits(t, "scenario") /\ \A x : Waits(s, x) => Waits(t, x)
    <2>1. "scenario" \in ScenarioIO
      BY DEF ScenarioIO
    <2> QED BY <1>2, <1>3, <2>1, SignalledWaits
  <1> QED BY <1>2, <1>3, <1>4 DEF Onward, ButtonGoes

ActiveGoes(s, t, v) ==
  /\ Onward(s, t) /\ t.active = v /\ Waits(t, "active")
  /\ t.button = s.button /\ t.step = s.step /\ t.left = s.left
  /\ t.done = s.done /\ t.played = s.played

\* The write of the IO "active".
LEMMA ActiveWritten ==
  ASSUME NEW s \in ScenarioState, NEW v \in BOOLEAN
  PROVE  ActiveGoes(s, WriteIO(s, To("active", v)), v)
  <1> DEFINE t == WriteIO(s, To("active", v))
  <1>1. t = [s EXCEPT !.active = v, !.pending = Append(s.pending, "active")]
    BY WriteIs
  <1>2. t \in ScenarioState
    BY WritesAre, WriteTypes
  <1>3. /\ t.active = v /\ t.scheduled = s.scheduled /\ t.pending = Append(s.pending, "active")
        /\ t.button = s.button /\ t.step = s.step /\ t.left = s.left /\ t.done = s.done /\ t.played = s.played
    BY <1>1, <1>2 DEF ScenarioState
  <1>4. Waits(t, "active") /\ \A x : Waits(s, x) => Waits(t, x)
    <2>1. "active" \in ScenarioIO
      BY DEF ScenarioIO
    <2> QED BY <1>2, <1>3, <2>1, SignalledWaits
  <1> QED BY <1>2, <1>3, <1>4 DEF Onward, ActiveGoes

StepGoes(s, t, v) ==
  /\ Onward(s, t) /\ t.step = v /\ Waits(t, "step")
  /\ t.button = s.button /\ t.active = s.active /\ t.left = s.left
  /\ t.done = s.done /\ t.played = s.played

\* The write of the step.
LEMMA StepWritten ==
  ASSUME NEW s \in ScenarioState, NEW v \in Nat \cup {EndStep}
  PROVE  StepGoes(s, WriteIO(s, To("step", v)), v)
  <1> DEFINE t == WriteIO(s, To("step", v))
  <1>1. t = [s EXCEPT !.step = v, !.pending = Append(s.pending, "step")]
    BY WriteIs
  <1>2. t \in ScenarioState
    BY WritesAre, WriteTypes
  <1>3. /\ t.step = v /\ t.scheduled = s.scheduled /\ t.pending = Append(s.pending, "step")
        /\ t.button = s.button /\ t.active = s.active /\ t.left = s.left /\ t.done = s.done /\ t.played = s.played
    BY <1>1, <1>2 DEF ScenarioState
  <1>4. Waits(t, "step") /\ \A x : Waits(s, x) => Waits(t, x)
    <2>1. "step" \in ScenarioIO
      BY DEF ScenarioIO
    <2> QED BY <1>2, <1>3, <2>1, SignalledWaits
  <1> QED BY <1>2, <1>3, <1>4 DEF Onward, StepGoes

TimeGoes(s, t, v) ==
  /\ Onward(s, t) /\ (t.left = NotRunning <=> s.left = NotRunning)
  /\ t.button = s.button /\ t.active = s.active /\ t.step = s.step /\ t.played = s.played

\* The write of the time of the timer.
LEMMA TimeWritten ==
  ASSUME NEW s \in ScenarioState, NEW v \in Nat
  PROVE  TimeGoes(s, WriteIO(s, To("time", v)), v)
  <1> DEFINE t == WriteIO(s, To("time", v))
  <1>1. t = IF s.left = NotRunning THEN [s EXCEPT !.time = v]
            ELSE [s EXCEPT !.time = v, !.left = IF v = 0 THEN 1 ELSE v, !.done = FALSE]
    BY WriteIs
  <1>2. t \in ScenarioState
    BY WritesAre, WriteTypes
  <1>3. PICK left \in Nat : left = IF v = 0 THEN 1 ELSE v
    OBVIOUS
  <1>4. NotRunning \notin Nat
    BY DEF NotRunning
  <1>5. /\ t.scheduled = s.scheduled /\ t.pending = s.pending
        /\ (t.left = NotRunning <=> s.left = NotRunning)
        /\ t.button = s.button /\ t.active = s.active /\ t.step = s.step /\ t.played = s.played
    <2>1. CASE s.left = NotRunning
      <3>1. t = [s EXCEPT !.time = v]
        BY <1>1, <2>1
      <3> QED BY <2>1, <3>1 DEF ScenarioState
    <2>2. CASE s.left # NotRunning
      <3>1. t = [s EXCEPT !.time = v, !.left = left, !.done = FALSE]
        BY <1>1, <1>3, <2>2
      <3> QED BY <1>4, <2>2, <3>1 DEF ScenarioState
    <2> QED BY <2>1, <2>2
  <1> QED BY <1>2, <1>5 DEF Onward, Waits, TimeGoes

TimerGoes(s, t) ==
  /\ Onward(s, t) /\ t.left # NotRunning /\ t.done = FALSE
  /\ t.button = s.button /\ t.active = s.active /\ t.step = s.step /\ t.played = s.played

\* The start of the timer.
LEMMA TimerStarted ==
  ASSUME NEW s \in ScenarioState
  PROVE  TimerGoes(s, WriteIO(s, To("start", TRUE)))
  <1> DEFINE t == WriteIO(s, To("start", TRUE))
  <1>1. t = TimerStart(s)
    BY WriteIs
  <1>2. PICK left \in Nat : left = IF s.time = 0 THEN 1 ELSE s.time
    BY DEF ScenarioState
  <1>3. t = [s EXCEPT !.left = left, !.done = FALSE]
    BY <1>1, <1>2, TimerTypes
  <1>4. t \in ScenarioState
    BY <1>1, TimerTypes
  <1>5. NotRunning \notin Nat
    BY DEF NotRunning
  <1>6. /\ t.scheduled = s.scheduled /\ t.pending = s.pending /\ t.left # NotRunning
        /\ t.done = FALSE
        /\ t.button = s.button /\ t.active = s.active /\ t.step = s.step /\ t.played = s.played
    BY <1>3, <1>5 DEF ScenarioState
  <1> QED BY <1>4, <1>6 DEF Onward, Waits, TimerGoes

PlayedGoes(s, t, v) ==
  /\ Onward(s, t) /\ t.played = Append(s.played, v) /\ t.done = s.done
  /\ t.left = s.left
  /\ t.button = s.button /\ t.active = s.active /\ t.step = s.step

\* A step is played.
LEMMA PlayedWritten ==
  ASSUME NEW s \in ScenarioState, NEW v \in Nat \cup {EndStep}
  PROVE  PlayedGoes(s, WriteIO(s, To("played", v)), v)
  <1> DEFINE t == WriteIO(s, To("played", v))
  <1>1. t = [s EXCEPT !.played = Append(s.played, v)]
    BY WriteIs
  <1>2. t \in ScenarioState
    BY WritesAre, WriteTypes
  <1>3. /\ t.scheduled = s.scheduled /\ t.pending = s.pending /\ t.done = s.done
        /\ t.left = s.left /\ t.played = Append(s.played, v)
        /\ t.button = s.button /\ t.active = s.active /\ t.step = s.step
    BY <1>1 DEF ScenarioState
  <1> QED BY <1>2, <1>3 DEF Onward, Waits, PlayedGoes

StoppedGoes(s, t, v) ==
  /\ Onward(s, t) /\ t.played = s.played /\ t.done = s.done /\ t.left = s.left
  /\ t.button = s.button /\ t.active = s.active /\ t.step = s.step

\* The history of stops.
LEMMA StoppedWritten ==
  ASSUME NEW s \in ScenarioState, NEW v \in BOOLEAN
  PROVE  StoppedGoes(s, WriteIO(s, To("stopped", v)), v)
  <1> DEFINE t == WriteIO(s, To("stopped", v))
  <1>1. t = [s EXCEPT !.stopped = v]
    BY WriteIs
  <1>2. t \in ScenarioState
    BY WritesAre, WriteTypes
  <1>3. /\ t.scheduled = s.scheduled /\ t.pending = s.pending /\ t.done = s.done
        /\ t.left = s.left /\ t.played = s.played
        /\ t.button = s.button /\ t.active = s.active /\ t.step = s.step
    BY <1>1 DEF ScenarioState
  <1> QED BY <1>2, <1>3 DEF Onward, Waits, StoppedGoes

\* The writes of a rule, one in the other
LEMMA Writes2 ==
  ASSUME NEW s \in ScenarioState, NEW a \in ScenarioWrite, NEW b \in ScenarioWrite
  PROVE  FoldLeft(WriteIO, s, <<a, b>>) =
           WriteIO(WriteIO(s, a), b)
  <1> DEFINE ws == <<a, b>>
  <1>1. ws \in Seq(ScenarioWrite) /\ Len(ws) = 2
    OBVIOUS
  <1>2. ws[1] = a /\ ws[2] = b
    OBVIOUS
  <1> HIDE DEF ws
  <1>3. PICK p : WritesAlong(s, ws, p) /\ FoldLeft(WriteIO, s, ws) = p[2]
    BY <1>1, WritesPass
  <1>4. p[0] = s
    BY <1>3 DEF WritesAlong
  <1>5. p[1] = WriteIO(p[0], a)
    <2>1. 1 \in 1..Len(ws) /\ 1 - 1 = 0
      BY <1>1
    <2> QED BY <1>2, <1>3, <2>1 DEF WritesAlong
  <1>6. p[2] = WriteIO(p[1], b)
    <2>1. 2 \in 1..Len(ws) /\ 2 - 1 = 1
      BY <1>1
    <2> QED BY <1>2, <1>3, <2>1 DEF WritesAlong
  <1> QED BY <1>3, <1>4, <1>5, <1>6 DEF ws

\* Three writes,
LEMMA Writes3 ==
  ASSUME NEW s \in ScenarioState, NEW a \in ScenarioWrite, NEW b \in ScenarioWrite, NEW c \in ScenarioWrite
  PROVE  FoldLeft(WriteIO, s, <<a, b, c>>) =
           WriteIO(WriteIO(WriteIO(s, a), b), c)
  <1> DEFINE ws == <<a, b, c>>
  <1>1. ws \in Seq(ScenarioWrite) /\ Len(ws) = 3
    OBVIOUS
  <1>2. ws[1] = a /\ ws[2] = b /\ ws[3] = c
    OBVIOUS
  <1> HIDE DEF ws
  <1>3. PICK p : WritesAlong(s, ws, p) /\ FoldLeft(WriteIO, s, ws) = p[3]
    BY <1>1, WritesPass
  <1>4. p[0] = s
    BY <1>3 DEF WritesAlong
  <1>5. p[1] = WriteIO(p[0], a)
    <2>1. 1 \in 1..Len(ws) /\ 1 - 1 = 0
      BY <1>1
    <2> QED BY <1>2, <1>3, <2>1 DEF WritesAlong
  <1>6. p[2] = WriteIO(p[1], b)
    <2>1. 2 \in 1..Len(ws) /\ 2 - 1 = 1
      BY <1>1
    <2> QED BY <1>2, <1>3, <2>1 DEF WritesAlong
  <1>7. p[3] = WriteIO(p[2], c)
    <2>1. 3 \in 1..Len(ws) /\ 3 - 1 = 2
      BY <1>1
    <2> QED BY <1>2, <1>3, <2>1 DEF WritesAlong
  <1> QED BY <1>3, <1>4, <1>5, <1>6, <1>7 DEF ws

Turn4(s, a, b, c, d) ==
  FoldLeft(WriteIO, s, <<a, b, c, d>>) =
           WriteIO(WriteIO(WriteIO(WriteIO(s, a), b), c), d)

\* four,
LEMMA Writes4 ==
  ASSUME NEW s \in ScenarioState, NEW a \in ScenarioWrite, NEW b \in ScenarioWrite, NEW c \in ScenarioWrite,
         NEW d \in ScenarioWrite
  PROVE  Turn4(s, a, b, c, d)
  <1> DEFINE ws == <<a, b, c, d>>
  <1>1. ws \in Seq(ScenarioWrite) /\ Len(ws) = 4
    OBVIOUS
  <1>2. ws[1] = a /\ ws[2] = b /\ ws[3] = c /\ ws[4] = d
    OBVIOUS
  <1> HIDE DEF ws, Turn4
  <1>3. PICK p : WritesAlong(s, ws, p) /\ FoldLeft(WriteIO, s, ws) = p[4]
    BY <1>1, WritesPass
  <1>4. p[0] = s
    BY <1>3 DEF WritesAlong
  <1>5. p[1] = WriteIO(p[0], a)
    <2>1. 1 \in 1..Len(ws) /\ 1 - 1 = 0
      BY <1>1
    <2> QED BY <1>2, <1>3, <2>1 DEF WritesAlong
  <1>6. p[2] = WriteIO(p[1], b)
    <2>1. 2 \in 1..Len(ws) /\ 2 - 1 = 1
      BY <1>1
    <2> QED BY <1>2, <1>3, <2>1 DEF WritesAlong
  <1>7. p[3] = WriteIO(p[2], c)
    <2>1. 3 \in 1..Len(ws) /\ 3 - 1 = 2
      BY <1>1
    <2> QED BY <1>2, <1>3, <2>1 DEF WritesAlong
  <1>8. p[4] = WriteIO(p[3], d)
    <2>1. 4 \in 1..Len(ws) /\ 4 - 1 = 3
      BY <1>1
    <2> QED BY <1>2, <1>3, <2>1 DEF WritesAlong
  <1> QED BY <1>3, <1>4, <1>5, <1>6, <1>7, <1>8 DEF ws, Turn4

Turn5(s, a, b, c, d, e) ==
  FoldLeft(WriteIO, s, <<a, b, c, d, e>>) =
           WriteIO(WriteIO(WriteIO(WriteIO(WriteIO(s, a), b), c), d), e)

\* five,
LEMMA Writes5 ==
  ASSUME NEW s \in ScenarioState, NEW a \in ScenarioWrite, NEW b \in ScenarioWrite, NEW c \in ScenarioWrite,
         NEW d \in ScenarioWrite, NEW e \in ScenarioWrite
  PROVE  Turn5(s, a, b, c, d, e)
  <1> DEFINE ws == <<a, b, c, d, e>>
  <1>1. ws \in Seq(ScenarioWrite) /\ Len(ws) = 5
    OBVIOUS
  <1>2. ws[1] = a /\ ws[2] = b /\ ws[3] = c /\ ws[4] = d /\ ws[5] = e
    OBVIOUS
  <1> HIDE DEF ws, Turn5
  <1>3. PICK p : WritesAlong(s, ws, p) /\ FoldLeft(WriteIO, s, ws) = p[5]
    BY <1>1, WritesPass
  <1>4. p[0] = s
    BY <1>3 DEF WritesAlong
  <1>5. p[1] = WriteIO(p[0], a)
    <2>1. 1 \in 1..Len(ws) /\ 1 - 1 = 0
      BY <1>1
    <2> QED BY <1>2, <1>3, <2>1 DEF WritesAlong
  <1>6. p[2] = WriteIO(p[1], b)
    <2>1. 2 \in 1..Len(ws) /\ 2 - 1 = 1
      BY <1>1
    <2> QED BY <1>2, <1>3, <2>1 DEF WritesAlong
  <1>7. p[3] = WriteIO(p[2], c)
    <2>1. 3 \in 1..Len(ws) /\ 3 - 1 = 2
      BY <1>1
    <2> QED BY <1>2, <1>3, <2>1 DEF WritesAlong
  <1>8. p[4] = WriteIO(p[3], d)
    <2>1. 4 \in 1..Len(ws) /\ 4 - 1 = 3
      BY <1>1
    <2> QED BY <1>2, <1>3, <2>1 DEF WritesAlong
  <1>9. p[5] = WriteIO(p[4], e)
    <2>1. 5 \in 1..Len(ws) /\ 5 - 1 = 4
      BY <1>1
    <2> QED BY <1>2, <1>3, <2>1 DEF WritesAlong
  <1> QED BY <1>3, <1>4, <1>5, <1>6, <1>7, <1>8, <1>9 DEF ws, Turn5

Turn6(s, a, b, c, d, e, f) ==
  FoldLeft(WriteIO, s, <<a, b, c, d, e, f>>) =
           WriteIO(WriteIO(WriteIO(WriteIO(WriteIO(WriteIO(s, a), b), c), d), e), f)

\* six.
LEMMA Writes6 ==
  ASSUME NEW s \in ScenarioState, NEW a \in ScenarioWrite, NEW b \in ScenarioWrite, NEW c \in ScenarioWrite,
         NEW d \in ScenarioWrite, NEW e \in ScenarioWrite, NEW f \in ScenarioWrite
  PROVE  Turn6(s, a, b, c, d, e, f)
  <1> DEFINE ws == <<a, b, c, d, e, f>>
  <1>1. ws \in Seq(ScenarioWrite) /\ Len(ws) = 6
    OBVIOUS
  <1>2. ws[1] = a /\ ws[2] = b /\ ws[3] = c /\ ws[4] = d /\ ws[5] = e /\ ws[6] = f
    OBVIOUS
  <1> HIDE DEF ws, Turn6
  <1>3. PICK p : WritesAlong(s, ws, p) /\ FoldLeft(WriteIO, s, ws) = p[6]
    BY <1>1, WritesPass
  <1>4. p[0] = s
    BY <1>3 DEF WritesAlong
  <1>5. p[1] = WriteIO(p[0], a)
    <2>1. 1 \in 1..Len(ws) /\ 1 - 1 = 0
      BY <1>1
    <2> QED BY <1>2, <1>3, <2>1 DEF WritesAlong
  <1>6. p[2] = WriteIO(p[1], b)
    <2>1. 2 \in 1..Len(ws) /\ 2 - 1 = 1
      BY <1>1
    <2> QED BY <1>2, <1>3, <2>1 DEF WritesAlong
  <1>7. p[3] = WriteIO(p[2], c)
    <2>1. 3 \in 1..Len(ws) /\ 3 - 1 = 2
      BY <1>1
    <2> QED BY <1>2, <1>3, <2>1 DEF WritesAlong
  <1>8. p[4] = WriteIO(p[3], d)
    <2>1. 4 \in 1..Len(ws) /\ 4 - 1 = 3
      BY <1>1
    <2> QED BY <1>2, <1>3, <2>1 DEF WritesAlong
  <1>9. p[5] = WriteIO(p[4], e)
    <2>1. 5 \in 1..Len(ws) /\ 5 - 1 = 4
      BY <1>1
    <2> QED BY <1>2, <1>3, <2>1 DEF WritesAlong
  <1>10. p[6] = WriteIO(p[5], f)
    <2>1. 6 \in 1..Len(ws) /\ 6 - 1 = 5
      BY <1>1
    <2> QED BY <1>2, <1>3, <2>1 DEF WritesAlong
  <1> QED BY <1>3, <1>4, <1>5, <1>6, <1>7, <1>8, <1>9, <1>10 DEF ws, Turn6

\* What each rule does
LEMMA StartDoes ==
  ASSUME NEW s \in ScenarioState, NEW t, t = FoldLeft(WriteIO, s, ButtonStart.does)
  PROVE  /\ Onward(s, t)
         /\ t.button = FALSE /\ t.active = TRUE /\ t.step = 0
         /\ t.played = s.played /\ t.left # NotRunning /\ t.done = FALSE
  <1>1. 0 \in Nat /\ 0 \in Nat \cup {EndStep} /\ EndStep \in Nat \cup {EndStep}
    OBVIOUS
  <1> DEFINE s1 == WriteIO(s, To("scenario", FALSE))
  <1> DEFINE s2 == WriteIO(s1, To("active", TRUE))
  <1> DEFINE s3 == WriteIO(s2, To("step", 0))
  <1> DEFINE s4 == WriteIO(s3, To("time", 0))
  <1> DEFINE s5 == WriteIO(s4, To("start", TRUE))
  <1> DEFINE s6 == WriteIO(s5, To("stopped", FALSE))
  <1>2. /\ To("scenario", FALSE) \in ScenarioWrite
        /\ To("active", TRUE) \in ScenarioWrite
        /\ To("step", 0) \in ScenarioWrite
        /\ To("time", 0) \in ScenarioWrite
        /\ To("start", TRUE) \in ScenarioWrite
        /\ To("stopped", FALSE) \in ScenarioWrite
    BY <1>1, WritesAre
  <1>3. t = s6
    <2>1. t = FoldLeft(WriteIO, s, <<To("scenario", FALSE), To("active", TRUE), To("step", 0), To("time", 0), To("start", TRUE), To("stopped", FALSE)>>)
      BY PressWrites
    <2>2. Turn6(s, To("scenario", FALSE), To("active", TRUE), To("step", 0), To("time", 0), To("start", TRUE), To("stopped", FALSE))
      BY <1>2, Writes6
    <2> QED BY <2>1, <2>2 DEF Turn6
  <1>4. /\ Onward(s, s1) /\ s1 \in ScenarioState
        /\ s1.button = FALSE /\ s1.active = s.active /\ s1.step = s.step
        /\ s1.played = s.played /\ s1.left = s.left /\ s1.done = s.done
    <2>1. ButtonGoes(s, s1, FALSE)
      BY <1>1, ButtonWritten
    <2> HIDE DEF s1
    <2> QED BY <2>1 DEF ButtonGoes, Onward
  <1>5. /\ Onward(s1, s2) /\ s2 \in ScenarioState
        /\ s2.button = FALSE /\ s2.active = TRUE /\ s2.step = s.step
        /\ s2.played = s.played /\ s2.left = s.left /\ s2.done = s.done
    <2> HIDE DEF s1
    <2>1. ActiveGoes(s1, s2, TRUE)
      BY <1>1, <1>4, ActiveWritten
    <2> HIDE DEF s2
    <2> QED BY <1>4, <2>1 DEF ActiveGoes, Onward
  <1>6. /\ Onward(s2, s3) /\ s3 \in ScenarioState
        /\ s3.button = FALSE /\ s3.active = TRUE /\ s3.step = 0
        /\ s3.played = s.played /\ s3.left = s.left /\ s3.done = s.done
    <2> HIDE DEF s1, s2
    <2>1. StepGoes(s2, s3, 0)
      BY <1>1, <1>5, StepWritten
    <2> HIDE DEF s3
    <2> QED BY <1>5, <2>1 DEF StepGoes, Onward
  <1>7. /\ Onward(s3, s4) /\ s4 \in ScenarioState
        /\ s4.button = FALSE /\ s4.active = TRUE /\ s4.step = 0
        /\ s4.played = s.played
    <2> HIDE DEF s1, s2, s3
    <2>1. TimeGoes(s3, s4, 0)
      BY <1>1, <1>6, TimeWritten
    <2> HIDE DEF s4
    <2> QED BY <1>6, <2>1 DEF TimeGoes, Onward
  <1>8. /\ Onward(s4, s5) /\ s5 \in ScenarioState
        /\ s5.button = FALSE /\ s5.active = TRUE /\ s5.step = 0
        /\ s5.played = s.played /\ s5.left # NotRunning /\ s5.done = FALSE
    <2> HIDE DEF s1, s2, s3, s4
    <2>1. TimerGoes(s4, s5)
      BY <1>1, <1>7, TimerStarted
    <2> HIDE DEF s5
    <2> QED BY <1>7, <2>1 DEF TimerGoes, Onward
  <1>9. /\ Onward(s5, s6) /\ s6 \in ScenarioState
        /\ s6.button = FALSE /\ s6.active = TRUE /\ s6.step = 0
        /\ s6.played = s.played /\ s6.left # NotRunning /\ s6.done = FALSE
    <2> HIDE DEF s1, s2, s3, s4, s5
    <2>1. StoppedGoes(s5, s6, FALSE)
      BY <1>1, <1>8, StoppedWritten
    <2> HIDE DEF s6
    <2> QED BY <1>8, <2>1 DEF StoppedGoes, Onward
  <1> HIDE DEF s1, s2, s3, s4, s5, s6
  <1>10. Onward(s, s6)
    <2>1. Onward(s, s2)
      BY <1>4, <1>5, OnwardIsTransitive
    <2>2. Onward(s, s3)
      BY <2>1, <1>6, OnwardIsTransitive
    <2>3. Onward(s, s4)
      BY <2>2, <1>7, OnwardIsTransitive
    <2>4. Onward(s, s5)
      BY <2>3, <1>8, OnwardIsTransitive
    <2> QED BY <2>4, <1>9, OnwardIsTransitive
  <1> QED BY <1>3, <1>9, <1>10

\* The rule that stops a run takes it to its end step.
LEMMA StopDoes ==
  ASSUME NEW s \in ScenarioState, NEW t, t = FoldLeft(WriteIO, s, ButtonStop.does)
  PROVE  /\ Onward(s, t)
         /\ t.button = FALSE /\ t.active = s.active /\ t.step = EndStep
         /\ t.played = s.played /\ t.left # NotRunning /\ t.done = FALSE
  <1>1. 0 \in Nat /\ 0 \in Nat \cup {EndStep} /\ EndStep \in Nat \cup {EndStep}
    OBVIOUS
  <1> DEFINE s1 == WriteIO(s, To("scenario", FALSE))
  <1> DEFINE s2 == WriteIO(s1, To("step", EndStep))
  <1> DEFINE s3 == WriteIO(s2, To("time", 0))
  <1> DEFINE s4 == WriteIO(s3, To("start", TRUE))
  <1> DEFINE s5 == WriteIO(s4, To("stopped", TRUE))
  <1>2. /\ To("scenario", FALSE) \in ScenarioWrite
        /\ To("step", EndStep) \in ScenarioWrite
        /\ To("time", 0) \in ScenarioWrite
        /\ To("start", TRUE) \in ScenarioWrite
        /\ To("stopped", TRUE) \in ScenarioWrite
    BY <1>1, WritesAre
  <1>3. t = s5
    <2>1. t = FoldLeft(WriteIO, s, <<To("scenario", FALSE), To("step", EndStep), To("time", 0), To("start", TRUE), To("stopped", TRUE)>>)
      BY PressWrites
    <2>2. Turn5(s, To("scenario", FALSE), To("step", EndStep), To("time", 0), To("start", TRUE), To("stopped", TRUE))
      BY <1>2, Writes5
    <2> QED BY <2>1, <2>2 DEF Turn5
  <1>4. /\ Onward(s, s1) /\ s1 \in ScenarioState
        /\ s1.button = FALSE /\ s1.active = s.active /\ s1.step = s.step
        /\ s1.played = s.played /\ s1.left = s.left /\ s1.done = s.done
    <2>1. ButtonGoes(s, s1, FALSE)
      BY <1>1, ButtonWritten
    <2> HIDE DEF s1
    <2> QED BY <2>1 DEF ButtonGoes, Onward
  <1>5. /\ Onward(s1, s2) /\ s2 \in ScenarioState
        /\ s2.button = FALSE /\ s2.active = s.active /\ s2.step = EndStep
        /\ s2.played = s.played /\ s2.left = s.left /\ s2.done = s.done
    <2> HIDE DEF s1
    <2>1. StepGoes(s1, s2, EndStep)
      BY <1>1, <1>4, StepWritten
    <2> HIDE DEF s2
    <2> QED BY <1>4, <2>1 DEF StepGoes, Onward
  <1>6. /\ Onward(s2, s3) /\ s3 \in ScenarioState
        /\ s3.button = FALSE /\ s3.active = s.active /\ s3.step = EndStep
        /\ s3.played = s.played
    <2> HIDE DEF s1, s2
    <2>1. TimeGoes(s2, s3, 0)
      BY <1>1, <1>5, TimeWritten
    <2> HIDE DEF s3
    <2> QED BY <1>5, <2>1 DEF TimeGoes, Onward
  <1>7. /\ Onward(s3, s4) /\ s4 \in ScenarioState
        /\ s4.button = FALSE /\ s4.active = s.active /\ s4.step = EndStep
        /\ s4.played = s.played /\ s4.left # NotRunning /\ s4.done = FALSE
    <2> HIDE DEF s1, s2, s3
    <2>1. TimerGoes(s3, s4)
      BY <1>1, <1>6, TimerStarted
    <2> HIDE DEF s4
    <2> QED BY <1>6, <2>1 DEF TimerGoes, Onward
  <1>8. /\ Onward(s4, s5) /\ s5 \in ScenarioState
        /\ s5.button = FALSE /\ s5.active = s.active /\ s5.step = EndStep
        /\ s5.played = s.played /\ s5.left # NotRunning /\ s5.done = FALSE
    <2> HIDE DEF s1, s2, s3, s4
    <2>1. StoppedGoes(s4, s5, TRUE)
      BY <1>1, <1>7, StoppedWritten
    <2> HIDE DEF s5
    <2> QED BY <1>7, <2>1 DEF StoppedGoes, Onward
  <1> HIDE DEF s1, s2, s3, s4, s5
  <1>9. Onward(s, s5)
    <2>1. Onward(s, s2)
      BY <1>4, <1>5, OnwardIsTransitive
    <2>2. Onward(s, s3)
      BY <2>1, <1>6, OnwardIsTransitive
    <2>3. Onward(s, s4)
      BY <2>2, <1>7, OnwardIsTransitive
    <2> QED BY <2>3, <1>8, OnwardIsTransitive
  <1> QED BY <1>3, <1>8, <1>9

\* The end step ends the run and leaves the timer.
LEMMA EndDoes ==
  ASSUME NEW s \in ScenarioState, NEW t, t = FoldLeft(WriteIO, s, StepEnd.does)
  PROVE  /\ Onward(s, t)
         /\ t.button = s.button /\ t.active = FALSE /\ t.step = s.step
         /\ t.played = Append(s.played, EndStep) /\ t.left = s.left /\ t.done = s.done
  <1>1. 0 \in Nat /\ 0 \in Nat \cup {EndStep} /\ EndStep \in Nat \cup {EndStep}
    OBVIOUS
  <1> DEFINE s1 == WriteIO(s, To("active", FALSE))
  <1> DEFINE s2 == WriteIO(s1, To("played", EndStep))
  <1>2. /\ To("active", FALSE) \in ScenarioWrite
        /\ To("played", EndStep) \in ScenarioWrite
    BY <1>1, WritesAre
  <1>3. t = s2
    <2>1. t = FoldLeft(WriteIO, s, <<To("active", FALSE), To("played", EndStep)>>)
      BY DEF StepEnd, Rule
    <2> QED BY <1>2, <2>1, Writes2
  <1>4. /\ Onward(s, s1) /\ s1 \in ScenarioState
        /\ s1.button = s.button /\ s1.active = FALSE /\ s1.step = s.step
        /\ s1.played = s.played /\ s1.left = s.left /\ s1.done = s.done
    <2>1. ActiveGoes(s, s1, FALSE)
      BY <1>1, ActiveWritten
    <2> HIDE DEF s1
    <2> QED BY <2>1 DEF ActiveGoes, Onward
  <1>5. /\ Onward(s1, s2) /\ s2 \in ScenarioState
        /\ s2.button = s.button /\ s2.active = FALSE /\ s2.step = s.step
        /\ s2.played = Append(s.played, EndStep) /\ s2.left = s.left /\ s2.done = s.done
    <2> HIDE DEF s1
    <2>1. PlayedGoes(s1, s2, EndStep)
      BY <1>1, <1>4, PlayedWritten
    <2> HIDE DEF s2
    <2> QED BY <1>4, <2>1 DEF PlayedGoes, Onward
  <1> HIDE DEF s1, s2
  <1>6. Onward(s, s2)
    <2> QED BY <1>4, <1>5, OnwardIsTransitive
  <1> QED BY <1>3, <1>5, <1>6

\* The end of the time range takes a run to its end step.
LEMMA RangeEndDoes ==
  ASSUME NEW s \in ScenarioState, NEW t, t = FoldLeft(WriteIO, s, TimeStop.does)
  PROVE  /\ Onward(s, t)
         /\ t.button = s.button /\ t.active = s.active /\ t.step = EndStep
         /\ t.played = s.played /\ t.left # NotRunning /\ t.done = FALSE
  <1>1. 0 \in Nat /\ 0 \in Nat \cup {EndStep} /\ EndStep \in Nat \cup {EndStep}
    OBVIOUS
  <1> DEFINE s1 == WriteIO(s, To("step", EndStep))
  <1> DEFINE s2 == WriteIO(s1, To("time", 0))
  <1> DEFINE s3 == WriteIO(s2, To("start", TRUE))
  <1>2. /\ To("step", EndStep) \in ScenarioWrite
        /\ To("time", 0) \in ScenarioWrite
        /\ To("start", TRUE) \in ScenarioWrite
    BY <1>1, WritesAre
  <1>3. t = s3
    <2>1. t = FoldLeft(WriteIO, s, <<To("step", EndStep), To("time", 0), To("start", TRUE)>>)
      BY DEF TimeStop, Rule, RestartAt
    <2> QED BY <1>2, <2>1, Writes3
  <1>4. /\ Onward(s, s1) /\ s1 \in ScenarioState
        /\ s1.button = s.button /\ s1.active = s.active /\ s1.step = EndStep
        /\ s1.played = s.played /\ s1.left = s.left /\ s1.done = s.done
    <2>1. StepGoes(s, s1, EndStep)
      BY <1>1, StepWritten
    <2> HIDE DEF s1
    <2> QED BY <2>1 DEF StepGoes, Onward
  <1>5. /\ Onward(s1, s2) /\ s2 \in ScenarioState
        /\ s2.button = s.button /\ s2.active = s.active /\ s2.step = EndStep
        /\ s2.played = s.played
    <2> HIDE DEF s1
    <2>1. TimeGoes(s1, s2, 0)
      BY <1>1, <1>4, TimeWritten
    <2> HIDE DEF s2
    <2> QED BY <1>4, <2>1 DEF TimeGoes, Onward
  <1>6. /\ Onward(s2, s3) /\ s3 \in ScenarioState
        /\ s3.button = s.button /\ s3.active = s.active /\ s3.step = EndStep
        /\ s3.played = s.played /\ s3.left # NotRunning /\ s3.done = FALSE
    <2> HIDE DEF s1, s2
    <2>1. TimerGoes(s2, s3)
      BY <1>1, <1>5, TimerStarted
    <2> HIDE DEF s3
    <2> QED BY <1>5, <2>1 DEF TimerGoes, Onward
  <1> HIDE DEF s1, s2, s3
  <1>7. Onward(s, s3)
    <2>1. Onward(s, s2)
      BY <1>4, <1>5, OnwardIsTransitive
    <2> QED BY <2>1, <1>6, OnwardIsTransitive
  <1> QED BY <1>3, <1>6, <1>7

StepWrites(does, next, pause, m) ==
  does = <<To("step", next), To("time", pause), To("start", TRUE), To("played", m)>>

\* A step starts the timer that ends it.
LEMMA StepDoes ==
  ASSUME NEW s \in ScenarioState, NEW t, NEW next \in Nat \cup {EndStep}, NEW pause \in Nat,
         NEW m \in Nat \cup {EndStep}, NEW does, StepWrites(does, next, pause, m),
         t = FoldLeft(WriteIO, s, does)
  PROVE  /\ Onward(s, t)
         /\ t.button = s.button /\ t.active = s.active /\ t.step = next
         /\ t.played = Append(s.played, m) /\ t.left # NotRunning /\ t.done = FALSE
  <1>1. 0 \in Nat /\ 0 \in Nat \cup {EndStep} /\ EndStep \in Nat \cup {EndStep}
    OBVIOUS
  <1> DEFINE s1 == WriteIO(s, To("step", next))
  <1> DEFINE s2 == WriteIO(s1, To("time", pause))
  <1> DEFINE s3 == WriteIO(s2, To("start", TRUE))
  <1> DEFINE s4 == WriteIO(s3, To("played", m))
  <1>2. /\ To("step", next) \in ScenarioWrite
        /\ To("time", pause) \in ScenarioWrite
        /\ To("start", TRUE) \in ScenarioWrite
        /\ To("played", m) \in ScenarioWrite
    BY <1>1, WritesAre
  <1>3. t = s4
    <2>1. t = FoldLeft(WriteIO, s, <<To("step", next), To("time", pause), To("start", TRUE), To("played", m)>>)
      BY DEF StepWrites
    <2>2. Turn4(s, To("step", next), To("time", pause), To("start", TRUE), To("played", m))
      BY <1>2, Writes4
    <2> QED BY <2>1, <2>2 DEF Turn4
  <1>4. /\ Onward(s, s1) /\ s1 \in ScenarioState
        /\ s1.button = s.button /\ s1.active = s.active /\ s1.step = next
        /\ s1.played = s.played /\ s1.left = s.left /\ s1.done = s.done
    <2>1. StepGoes(s, s1, next)
      BY <1>1, StepWritten
    <2> HIDE DEF s1
    <2> QED BY <2>1 DEF StepGoes, Onward
  <1>5. /\ Onward(s1, s2) /\ s2 \in ScenarioState
        /\ s2.button = s.button /\ s2.active = s.active /\ s2.step = next
        /\ s2.played = s.played
    <2> HIDE DEF s1
    <2>1. TimeGoes(s1, s2, pause)
      BY <1>1, <1>4, TimeWritten
    <2> HIDE DEF s2
    <2> QED BY <1>4, <2>1 DEF TimeGoes, Onward
  <1>6. /\ Onward(s2, s3) /\ s3 \in ScenarioState
        /\ s3.button = s.button /\ s3.active = s.active /\ s3.step = next
        /\ s3.played = s.played /\ s3.left # NotRunning /\ s3.done = FALSE
    <2> HIDE DEF s1, s2
    <2>1. TimerGoes(s2, s3)
      BY <1>1, <1>5, TimerStarted
    <2> HIDE DEF s3
    <2> QED BY <1>5, <2>1 DEF TimerGoes, Onward
  <1>7. /\ Onward(s3, s4) /\ s4 \in ScenarioState
        /\ s4.button = s.button /\ s4.active = s.active /\ s4.step = next
        /\ s4.played = Append(s.played, m) /\ s4.left # NotRunning /\ s4.done = FALSE
    <2> HIDE DEF s1, s2, s3
    <2>1. PlayedGoes(s3, s4, m)
      BY <1>1, <1>6, PlayedWritten
    <2> HIDE DEF s4
    <2> QED BY <1>6, <2>1 DEF PlayedGoes, Onward
  <1> HIDE DEF s1, s2, s3, s4
  <1>8. Onward(s, s4)
    <2>1. Onward(s, s2)
      BY <1>4, <1>5, OnwardIsTransitive
    <2>2. Onward(s, s3)
      BY <2>1, <1>6, OnwardIsTransitive
    <2> QED BY <2>2, <1>7, OnwardIsTransitive
  <1> QED BY <1>3, <1>7, <1>8

\* One write.
LEMMA Writes1 ==
  ASSUME NEW s \in ScenarioState, NEW a \in ScenarioWrite
  PROVE  FoldLeft(WriteIO, s, <<a>>) = WriteIO(s, a)
  <1> DEFINE ws == <<a>>
  <1>1. ws \in Seq(ScenarioWrite) /\ Len(ws) = 1
    OBVIOUS
  <1>2. ws[1] = a
    OBVIOUS
  <1> HIDE DEF ws
  <1>3. PICK p : WritesAlong(s, ws, p) /\ FoldLeft(WriteIO, s, ws) = p[1]
    BY <1>1, WritesPass
  <1>4. p[0] = s
    BY <1>3 DEF WritesAlong
  <1>5. p[1] = WriteIO(p[0], a)
    <2>1. 1 \in 1..Len(ws) /\ 1 - 1 = 0
      BY <1>1
    <2> QED BY <1>2, <1>3, <2>1 DEF WritesAlong
  <1> QED BY <1>3, <1>4, <1>5 DEF ws

\* A press that comes from the schedule is refused or waits
PressGoes(s, t) == t = s \/ (~Refuses /\ ButtonGoes(s, t, TRUE))
\* The time range presses the button, unless the scenario refuses.
LEMMA RangeDoes ==
  ASSUME NEW s \in ScenarioState
  PROVE  PressGoes(s, FoldLeft(WriteIO, s, TimeStart.does))
  <1>1. TimeStart.does = <<To("scenario", TRUE)>>
    BY DEF TimeStart, Rule
  <1>2. To("scenario", TRUE) \in ScenarioWrite
    BY WritesAre
  <1>3. FoldLeft(WriteIO, s, TimeStart.does) = WriteIO(s, To("scenario", TRUE))
    BY <1>1, <1>2, Writes1
  <1>4. CASE Refuses
    <2>1. WriteIO(s, To("scenario", TRUE)) = s
      BY <1>4, WriteIs
    <2> QED BY <1>3, <2>1 DEF PressGoes
  <1>5. CASE ~Refuses
    <2>1. ButtonGoes(s, WriteIO(s, To("scenario", TRUE)), TRUE)
      BY <1>5, ButtonWritten
    <2> QED BY <1>3, <1>5, <2>1 DEF PressGoes
  <1> QED BY <1>4, <1>5

\* Tuples of writes are sequences of them
TuplesOf(S, a, b, c, d, e, f) ==
  /\ <<a>> \in Seq(S) /\ <<a, b>> \in Seq(S) /\ <<a, b, c>> \in Seq(S)
  /\ <<a, b, c, d>> \in Seq(S) /\ <<a, b, c, d, e>> \in Seq(S) /\ <<a, b, c, d, e, f>> \in Seq(S)
\* as the writes of each rule are.
LEMMA TuplesAre ==
  ASSUME NEW S, NEW a \in S, NEW b \in S, NEW c \in S, NEW d \in S, NEW e \in S, NEW f \in S
  PROVE  TuplesOf(S, a, b, c, d, e, f)
  <1>1. <<a>> \in Seq(S) /\ <<a, b>> \in Seq(S) /\ <<a, b, c>> \in Seq(S)
    OBVIOUS
  <1>2. <<a, b, c, d>> \in Seq(S)
    OBVIOUS
  <1>3. <<a, b, c, d, e>> \in Seq(S)
    OBVIOUS
  <1>4. <<a, b, c, d, e, f>> \in Seq(S)
    OBVIOUS
  <1> QED BY <1>1, <1>2, <1>3, <1>4 DEF TuplesOf

IsRule(on, holds, does) == [on |-> on, holds |-> holds, does |-> does] \in ScenarioRule
\* A rule has its triggers, its condition and its writes.
LEMMA RulesMade ==
  ASSUME NEW on \in SUBSET ScenarioIO, NEW holds \in BOOLEAN, NEW does \in Seq(ScenarioWrite)
  PROVE  IsRule(on, holds, does)
  BY DEF ScenarioRule, IsRule

\* The rules there are, in their order
LEMMA RulesAre ==
  ASSUME ScenarioWell
  PROVE  LET n == Len(scRules.steps)
         IN /\ n \in Nat /\ DOMAIN scRules.steps = 1..n
            /\ RuleList \in Seq(ScenarioRule) /\ Len(RuleList) = n + 5
            /\ RuleList[1] = ButtonStart /\ RuleList[2] = ButtonStop /\ RuleList[3] = StepEnd
            /\ \A i \in 1..n : RuleList[3 + i] = StepRule(i)
            /\ RuleList[n + 4] = TimeStart /\ RuleList[n + 5] = TimeStop
  <1> DEFINE n == Len(scRules.steps)
             first == <<ButtonStart, ButtonStop, StepEnd>>
             steps == [i \in DOMAIN scRules.steps |-> StepRule(i)]
             last == <<TimeStart, TimeStop>>
  <1>1. n \in Nat /\ DOMAIN scRules.steps = 1..n /\ scRules.steps \in Seq(StepDef)
    BY DEF ScenarioWell
  <1>2. \A i \in 1..n : scRules.steps[i].pause \in Nat
    <2>1. \A i \in 1..n : scRules.steps[i] \in StepDef
      BY <1>1
    <2> QED BY <2>1 DEF StepDef
  <1>3. /\ sc.button \in BOOLEAN /\ sc.active \in BOOLEAN /\ sc.done \in BOOLEAN
        /\ sc.scheduled \in BOOLEAN /\ sc.schedule \in BOOLEAN /\ sc.range \in BOOLEAN
        /\ scRules.cycle \in BOOLEAN
    BY DEF ScenarioWell, ScenarioState
  <1> HIDE DEF n
  <1>0. 0 \in Nat /\ 0 \in Nat \cup {EndStep} /\ EndStep \in Nat \cup {EndStep}
    OBVIOUS
  <1>4. /\ To("scenario", FALSE) \in ScenarioWrite /\ To("active", TRUE) \in ScenarioWrite
        /\ To("scenario", TRUE) \in ScenarioWrite /\ To("active", FALSE) \in ScenarioWrite
        /\ To("step", 0) \in ScenarioWrite /\ To("time", 0) \in ScenarioWrite
        /\ To("step", EndStep) \in ScenarioWrite /\ To("played", EndStep) \in ScenarioWrite
        /\ To("start", TRUE) \in ScenarioWrite /\ To("stopped", FALSE) \in ScenarioWrite
        /\ To("stopped", TRUE) \in ScenarioWrite
    BY <1>0, WritesAre
  <1>6. ButtonStart \in ScenarioRule
    <2> DEFINE on == {"scenario", "active"}
               holds == (sc.button /\ ~sc.active)
               does == ButtonStart.does
    <2>1. does \in Seq(ScenarioWrite)
      <3>1. does = <<To("scenario", FALSE), To("active", TRUE), To("step", 0), To("time", 0), To("start", TRUE), To("stopped", FALSE)>>
        BY PressWrites
      <3>2. TuplesOf(ScenarioWrite, To("scenario", FALSE), To("active", TRUE), To("step", 0), To("time", 0), To("start", TRUE), To("stopped", FALSE))
        BY <1>4, TuplesAre
      <3> QED BY <3>1, <3>2 DEF TuplesOf
    <2>2. on \in SUBSET ScenarioIO
      BY DEF ScenarioIO
    <2>3. holds \in BOOLEAN
      BY <1>3
    <2>4. ButtonStart = [on |-> on, holds |-> holds, does |-> does]
      BY DEF ButtonStart, Rule
    <2> HIDE DEF on, holds, does
    <2>5. IsRule(on, holds, does)
      BY <2>1, <2>2, <2>3, RulesMade
    <2>6. [on |-> on, holds |-> holds, does |-> does] \in ScenarioRule
      BY <2>5 DEF IsRule
    <2> QED BY <2>4, <2>6
  <1>7. ButtonStop \in ScenarioRule
    <2> DEFINE on == {"scenario", "active"}
               holds == (sc.button /\ sc.active)
               does == ButtonStop.does
    <2>1. does \in Seq(ScenarioWrite)
      <3>1. does = <<To("scenario", FALSE), To("step", EndStep), To("time", 0), To("start", TRUE), To("stopped", TRUE)>>
        BY PressWrites
      <3>2. TuplesOf(ScenarioWrite, To("scenario", FALSE), To("step", EndStep), To("time", 0), To("start", TRUE), To("stopped", TRUE), To("start", TRUE))
        BY <1>4, TuplesAre
      <3> QED BY <3>1, <3>2 DEF TuplesOf
    <2>2. on \in SUBSET ScenarioIO
      BY DEF ScenarioIO
    <2>3. holds \in BOOLEAN
      BY <1>3
    <2>4. ButtonStop = [on |-> on, holds |-> holds, does |-> does]
      BY DEF ButtonStop, Rule
    <2> HIDE DEF on, holds, does
    <2>5. IsRule(on, holds, does)
      BY <2>1, <2>2, <2>3, RulesMade
    <2>6. [on |-> on, holds |-> holds, does |-> does] \in ScenarioRule
      BY <2>5 DEF IsRule
    <2> QED BY <2>4, <2>6
  <1>8. StepEnd \in ScenarioRule
    <2> DEFINE on == {"active", "step", "timer"}
               holds == (sc.active /\ sc.step = EndStep /\ sc.done /\ 0 \notin scRules.off)
               does == StepEnd.does
    <2>1. does \in Seq(ScenarioWrite)
      <3>1. does = <<To("active", FALSE), To("played", EndStep)>>
        BY DEF StepEnd, Rule
      <3>2. TuplesOf(ScenarioWrite, To("active", FALSE), To("played", EndStep), To("start", TRUE), To("start", TRUE), To("start", TRUE), To("start", TRUE))
        BY <1>4, TuplesAre
      <3> QED BY <3>1, <3>2 DEF TuplesOf
    <2>2. on \in SUBSET ScenarioIO
      BY DEF ScenarioIO
    <2>3. holds \in BOOLEAN
      BY <1>3
    <2>4. StepEnd = [on |-> on, holds |-> holds, does |-> does]
      BY DEF StepEnd, Rule
    <2> HIDE DEF on, holds, does
    <2>5. IsRule(on, holds, does)
      BY <2>1, <2>2, <2>3, RulesMade
    <2>6. [on |-> on, holds |-> holds, does |-> does] \in ScenarioRule
      BY <2>5 DEF IsRule
    <2> QED BY <2>4, <2>6
  <1>9. \A i \in 1..n : StepRule(i) \in ScenarioRule
    <2> SUFFICES ASSUME NEW i \in 1..n PROVE StepRule(i) \in ScenarioRule
      OBVIOUS
    <2> DEFINE on == {"active", "step", "timer"}
               holds == (sc.active /\ sc.step = i - 1 /\ sc.done /\ i \notin scRules.off)
               does == StepRule(i).does
    <2>1. does \in Seq(ScenarioWrite)
      <3>2. PICK next \in Nat \cup {EndStep} :
              next = IF i < Len(scRules.steps) THEN i ELSE IF scRules.cycle THEN 0 ELSE EndStep
        <4>1. i \in Nat
          BY <1>1
        <4> QED BY <1>0, <4>1
      <3>3. PICK m \in Nat \cup {EndStep} : m = i - 1
        BY <1>1
      <3>4. To("step", next) \in ScenarioWrite /\ To("played", m) \in ScenarioWrite
        BY WritesAre
      <3>5. PICK pause \in Nat : pause = scRules.steps[i].pause
        BY <1>2
      <3>6. To("time", pause) \in ScenarioWrite
        BY WritesAre
      <3>7. TuplesOf(ScenarioWrite, To("step", next), To("time", pause), To("start", TRUE), To("played", m),
                     To("start", TRUE), To("start", TRUE))
        BY <1>4, <3>4, <3>6, TuplesAre
      <3>8. does = <<To("step", next), To("time", pause), To("start", TRUE), To("played", m)>>
        BY <3>2, <3>3, <3>5 DEF StepRule, Rule
      <3> QED BY <3>7, <3>8 DEF TuplesOf
    <2>2. on \in SUBSET ScenarioIO
      BY DEF ScenarioIO
    <2>3. holds \in BOOLEAN
      BY <1>3
    <2>4. StepRule(i) = [on |-> on, holds |-> holds, does |-> does]
      BY DEF StepRule, Rule
    <2> HIDE DEF on, holds, does
    <2>5. IsRule(on, holds, does)
      BY <2>1, <2>2, <2>3, RulesMade
    <2>6. [on |-> on, holds |-> holds, does |-> does] \in ScenarioRule
      BY <2>5 DEF IsRule
    <2> QED BY <2>4, <2>6
  <1>10. TimeStart \in ScenarioRule
    <2> DEFINE on == {"active", "schedule", "range"}
               holds == (sc.scheduled /\ ~sc.active /\ sc.schedule /\ sc.range)
               does == TimeStart.does
    <2>1. does \in Seq(ScenarioWrite)
      <3>1. does = <<To("scenario", TRUE)>>
        BY DEF TimeStart, Rule
      <3>2. TuplesOf(ScenarioWrite, To("scenario", TRUE), To("start", TRUE), To("start", TRUE), To("start", TRUE), To("start", TRUE), To("start", TRUE))
        BY <1>4, TuplesAre
      <3> QED BY <3>1, <3>2 DEF TuplesOf
    <2>2. on \in SUBSET ScenarioIO
      BY DEF ScenarioIO
    <2>3. holds \in BOOLEAN
      BY <1>3
    <2>4. TimeStart = [on |-> on, holds |-> holds, does |-> does]
      BY DEF TimeStart, Rule
    <2> HIDE DEF on, holds, does
    <2>5. IsRule(on, holds, does)
      BY <2>1, <2>2, <2>3, RulesMade
    <2>6. [on |-> on, holds |-> holds, does |-> does] \in ScenarioRule
      BY <2>5 DEF IsRule
    <2> QED BY <2>4, <2>6
  <1>11. TimeStop \in ScenarioRule
    <2> DEFINE on == {"active", "schedule", "range"}
               holds == (sc.scheduled /\ scRules.cycle /\ sc.active /\ sc.schedule /\ ~sc.range)
               does == TimeStop.does
    <2>1. does \in Seq(ScenarioWrite)
      <3>1. does = <<To("step", EndStep), To("time", 0), To("start", TRUE)>>
        BY DEF TimeStop, Rule, RestartAt
      <3>2. TuplesOf(ScenarioWrite, To("step", EndStep), To("time", 0), To("start", TRUE), To("start", TRUE), To("start", TRUE), To("start", TRUE))
        BY <1>4, TuplesAre
      <3> QED BY <3>1, <3>2 DEF TuplesOf
    <2>2. on \in SUBSET ScenarioIO
      BY DEF ScenarioIO
    <2>3. holds \in BOOLEAN
      BY <1>3
    <2>4. TimeStop = [on |-> on, holds |-> holds, does |-> does]
      BY DEF TimeStop, Rule
    <2> HIDE DEF on, holds, does
    <2>5. IsRule(on, holds, does)
      BY <2>1, <2>2, <2>3, RulesMade
    <2>6. [on |-> on, holds |-> holds, does |-> does] \in ScenarioRule
      BY <2>5 DEF IsRule
    <2> QED BY <2>4, <2>6
  <1>12. first \in Seq(ScenarioRule) /\ Len(first) = 3
         /\ first[1] = ButtonStart /\ first[2] = ButtonStop /\ first[3] = StepEnd
    BY <1>6, <1>7, <1>8
  <1>13. steps \in Seq(ScenarioRule) /\ Len(steps) = n /\ \A i \in 1..n : steps[i] = StepRule(i)
    <2>1. steps = [i \in 1..n |-> StepRule(i)]
      BY <1>1
    <2> HIDE DEF steps
    <2>2. steps \in [1..n -> ScenarioRule]
      BY <1>9, <2>1
    <2> QED BY <1>1, <2>1, <2>2
  <1>14. last \in Seq(ScenarioRule) /\ Len(last) = 2 /\ last[1] = TimeStart /\ last[2] = TimeStop
    BY <1>10, <1>11
  <1>15. RuleList = first \o steps \o last
    BY DEF RuleList
  <1> HIDE DEF first, steps, last
  <1>16. PICK x \in Seq(ScenarioRule) : x = first \o steps
    BY <1>12, <1>13, ConcatProperties
  <1>17. /\ Len(x) = 3 + n
         /\ \A i \in 1..(3 + n) : x[i] = IF i <= 3 THEN first[i] ELSE steps[i - 3]
    <2>1. /\ Len(x) = Len(first) + Len(steps)
          /\ \A i \in 1..(Len(first) + Len(steps)) : x[i] = IF i <= Len(first) THEN first[i] ELSE steps[i - Len(first)]
      BY <1>12, <1>13, <1>16, ConcatProperties
    <2>2. Len(first) + Len(steps) = 3 + n /\ Len(first) = 3
      BY <1>12, <1>13
    <2> QED BY <2>1, <2>2
  <1>18. PICK y \in Seq(ScenarioRule) : y = x \o last
    BY <1>14, ConcatProperties
  <1>19. /\ Len(y) = Len(x) + Len(last)
         /\ \A i \in 1..(Len(x) + Len(last)) : y[i] = IF i <= Len(x) THEN x[i] ELSE last[i - Len(x)]
    BY <1>14, <1>18, ConcatProperties
  <1>20. /\ Len(y) = n + 5
         /\ \A i \in 1..(n + 5) : y[i] = IF i <= 3 + n THEN x[i] ELSE last[i - (3 + n)]
    <2>1. Len(x) + Len(last) = n + 5 /\ Len(x) = 3 + n
      BY <1>1, <1>14, <1>17
    <2> QED BY <1>19, <2>1
  <1>21. y[1] = ButtonStart /\ y[2] = ButtonStop /\ y[3] = StepEnd
    <2>1. /\ 1 \in 1..(n + 5) /\ 2 \in 1..(n + 5) /\ 3 \in 1..(n + 5)
          /\ 1 \in 1..(3 + n) /\ 2 \in 1..(3 + n) /\ 3 \in 1..(3 + n)
      BY <1>1
    <2>2. y[1] = x[1] /\ y[2] = x[2] /\ y[3] = x[3]
      BY <1>1, <1>20, <2>1
    <2>3. x[1] = first[1] /\ x[2] = first[2] /\ x[3] = first[3]
      BY <1>17, <2>1
    <2> QED BY <1>12, <2>2, <2>3
  <1>22. \A i \in 1..n : y[3 + i] = StepRule(i)
    <2>1. ASSUME NEW i \in 1..n PROVE y[3 + i] = StepRule(i)
      <3>1. 3 + i \in 1..(n + 5) /\ 3 + i <= 3 + n /\ 3 + i \in 1..(3 + n) /\ ~(3 + i <= 3)
            /\ (3 + i) - 3 = i
        BY <1>1
      <3>2. y[3 + i] = x[3 + i]
        BY <1>20, <3>1
      <3>3. x[3 + i] = steps[i]
        BY <1>17, <3>1
      <3> QED BY <1>13, <3>2, <3>3
    <2> QED BY <2>1
  <1>23. y[n + 4] = TimeStart /\ y[n + 5] = TimeStop
    <2>1. /\ n + 4 \in 1..(n + 5) /\ n + 5 \in 1..(n + 5) /\ ~(n + 4 <= 3 + n) /\ ~(n + 5 <= 3 + n)
          /\ (n + 4) - (3 + n) = 1 /\ (n + 5) - (3 + n) = 2
      BY <1>1
    <2>2. y[n + 4] = last[1] /\ y[n + 5] = last[2]
      BY <1>20, <2>1
    <2> QED BY <1>14, <2>2
  <1>24. RuleList = y
    BY <1>15, <1>16, <1>18
  <1> QED BY <1>1, <1>20, <1>21, <1>22, <1>23, <1>24 DEF n

-----------------------------------------------------------------------------
(* The march of a trigger                                                  *)
\* Where the rules take the IOs
RunStarted(s, t) ==
  /\ Onward(s, t) /\ t.button = FALSE /\ t.active = TRUE /\ t.step = 0
  /\ t.played = s.played /\ t.left # NotRunning /\ t.done = FALSE
RunStopped(s, t) ==
  /\ Onward(s, t) /\ t.button = FALSE /\ t.active = s.active /\ t.step = EndStep
  /\ t.played = s.played /\ t.left # NotRunning /\ t.done = FALSE
RunEnded(s, t) ==
  /\ Onward(s, t) /\ t.button = s.button /\ t.active = FALSE /\ t.step = s.step
  /\ t.played = Append(s.played, EndStep) /\ t.left = s.left /\ t.done = s.done
StepPlayed(s, t) ==
  /\ Onward(s, t) /\ t.button = s.button /\ t.active = s.active
  /\ t.step = EndStep \/ t.step + 1 \in 1..Len(scRules.steps)
  /\ \E m \in Nat \cup {EndStep} : t.played = Append(s.played, m)
  /\ t.left # NotRunning /\ t.done = FALSE
RangeEnded(s, t) ==
  /\ Onward(s, t) /\ t.button = s.button /\ t.active = s.active /\ t.step = EndStep
  /\ t.played = s.played /\ t.left # NotRunning /\ t.done = FALSE

Unmarched == [sc EXCEPT !.pending = Tail(@)]
On(ios) == Head(sc.pending) \in ios

ButtonServed(s, t) ==
  IF On({"scenario", "active"}) /\ sc.button
  THEN IF sc.active THEN RunStopped(s, t) ELSE RunStarted(s, t)
  ELSE t = s
StepIs(k) == sc.step = k /\ k + 1 \notin scRules.off
StepServed(s, t) ==
  IF On({"active", "step", "timer"}) /\ sc.active /\ sc.done
  THEN \/ StepIs(EndStep) /\ RunEnded(s, t)
       \/ sc.step + 1 \in 1..Len(scRules.steps) /\ StepPlayed(s, t)
       \/ /\ t = s /\ ~StepIs(EndStep)
          /\ sc.step + 1 \in 1..Len(scRules.steps) => sc.step + 1 \in scRules.off
  ELSE t = s
RangeServed(s, t) ==
  IF On({"active", "schedule", "range"})
  THEN IF sc.active THEN t = s \/ RangeEnded(s, t) ELSE PressGoes(s, t)
  ELSE t = s
MarchGoes(b, d, t) == ButtonServed(Unmarched, b) /\ StepServed(b, d) /\ RangeServed(d, t)

\* The IOs of a scenario, by their types.
LEMMA StateIs ==
  ASSUME ScenarioWell
  PROVE  /\ sc \in ScenarioState
         /\ sc.button \in BOOLEAN /\ sc.active \in BOOLEAN /\ sc.done \in BOOLEAN
         /\ sc.scheduled \in BOOLEAN /\ sc.schedule \in BOOLEAN /\ sc.range \in BOOLEAN
         /\ sc.step \in Nat \cup {EndStep} /\ sc.pending \in Seq(ScenarioIO)
         /\ Len(scRules.steps) \in Nat
  BY DEF ScenarioWell, ScenarioState

\* A rule that serves the trigger makes its writes, another none
RuleServes(s, rule) ==
  Serve(s, rule) = IF On(rule.on) /\ rule.holds THEN FoldLeft(WriteIO, s, rule.does) ELSE s
\* and every rule is served so.
LEMMA ServeIs ==
  ASSUME NEW s, NEW rule
  PROVE  RuleServes(s, rule)
  BY DEF RuleServes, Serve, On

\* The two rules of the button: one of them serves a press.
LEMMA ButtonServes ==
  ASSUME ScenarioWell, NEW s \in ScenarioState
  PROVE  ButtonServed(s, Serve(Serve(s, ButtonStart), ButtonStop))
  <1> DEFINE a == Serve(s, ButtonStart)
             b == Serve(a, ButtonStop)
  <1>1. sc.button \in BOOLEAN /\ sc.active \in BOOLEAN
    BY StateIs
  <1>2. a = IF On({"scenario", "active"}) /\ sc.button /\ ~sc.active
            THEN FoldLeft(WriteIO, s, ButtonStart.does) ELSE s
    <2>1. RuleServes(s, ButtonStart)
      BY ServeIs
    <2>2. ButtonStart.on = {"scenario", "active"} /\ ButtonStart.holds = (sc.button /\ ~sc.active)
      BY DEF ButtonStart, Rule
    <2> QED BY <2>1, <2>2, <1>1 DEF RuleServes
  <1>3. b = IF On({"scenario", "active"}) /\ sc.button /\ sc.active
            THEN FoldLeft(WriteIO, a, ButtonStop.does) ELSE a
    <2>1. RuleServes(a, ButtonStop)
      BY ServeIs
    <2>2. ButtonStop.on = {"scenario", "active"} /\ ButtonStop.holds = (sc.button /\ sc.active)
      BY DEF ButtonStop, Rule
    <2> QED BY <2>1, <2>2, <1>1 DEF RuleServes
  <1> HIDE DEF a, b
  <1>4. ASSUME NEW t, t = FoldLeft(WriteIO, s, ButtonStart.does) PROVE RunStarted(s, t)
    BY <1>4, StartDoes DEF RunStarted
  <1>5. ASSUME NEW t, t = FoldLeft(WriteIO, s, ButtonStop.does) PROVE RunStopped(s, t)
    BY <1>5, StopDoes DEF RunStopped
  <1>6. CASE On({"scenario", "active"}) /\ sc.button /\ sc.active
    <2>1. a = s
      BY <1>2, <1>6
    <2>2. RunStopped(s, b)
      BY <1>3, <1>5, <1>6, <2>1
    <2> QED BY <1>6, <2>2 DEF ButtonServed, a, b
  <1>7. CASE On({"scenario", "active"}) /\ sc.button /\ ~sc.active
    <2>1. b = a
      BY <1>3, <1>7
    <2>2. RunStarted(s, a)
      BY <1>2, <1>4, <1>7
    <2> QED BY <1>7, <2>1, <2>2 DEF ButtonServed, a, b
  <1>8. CASE ~(On({"scenario", "active"}) /\ sc.button)
    <2>1. b = s
      BY <1>2, <1>3, <1>8
    <2> QED BY <1>8, <2>1 DEF ButtonServed, a, b
  <1> QED BY <1>6, <1>7, <1>8

\* The two rules of the time range: one of them may serve its turn.
LEMMA RangeServes ==
  ASSUME ScenarioWell, NEW s \in ScenarioState
  PROVE  RangeServed(s, Serve(Serve(s, TimeStart), TimeStop))
  <1> DEFINE a == Serve(s, TimeStart)
             b == Serve(a, TimeStop)
             begins == sc.scheduled /\ ~sc.active /\ sc.schedule /\ sc.range
             ends == sc.scheduled /\ scRules.cycle /\ sc.active /\ sc.schedule /\ ~sc.range
  <1>1. sc.active \in BOOLEAN
    BY StateIs
  <1>2. a = IF On({"active", "schedule", "range"}) /\ begins
            THEN FoldLeft(WriteIO, s, TimeStart.does) ELSE s
    <2>1. RuleServes(s, TimeStart)
      BY ServeIs
    <2>2. TimeStart.on = {"active", "schedule", "range"} /\ TimeStart.holds = begins
      BY DEF TimeStart, Rule
    <2> HIDE DEF begins
    <2> QED BY <2>1, <2>2 DEF RuleServes
  <1>3. b = IF On({"active", "schedule", "range"}) /\ ends
            THEN FoldLeft(WriteIO, a, TimeStop.does) ELSE a
    <2>1. RuleServes(a, TimeStop)
      BY ServeIs
    <2>2. TimeStop.on = {"active", "schedule", "range"} /\ TimeStop.holds = ends
      BY DEF TimeStop, Rule
    <2> HIDE DEF ends
    <2> QED BY <2>1, <2>2 DEF RuleServes
  <1> HIDE DEF a, b
  <1>4. ASSUME NEW t, t = FoldLeft(WriteIO, s, TimeStart.does) PROVE PressGoes(s, t)
    BY <1>4, RangeDoes
  <1>5. ASSUME NEW t, t = FoldLeft(WriteIO, s, TimeStop.does) PROVE RangeEnded(s, t)
    BY <1>5, RangeEndDoes DEF RangeEnded
  <1>6. PressGoes(s, s)
    BY DEF PressGoes
  <1>7. CASE sc.active
    <2>1. a = s
      BY <1>2, <1>7
    <2>2. b = s \/ (On({"active", "schedule", "range"}) /\ RangeEnded(s, b))
      BY <1>3, <1>5, <2>1
    <2> QED BY <1>7, <2>2, <1>3, <2>1 DEF RangeServed, a, b
  <1>8. CASE ~sc.active
    <2>1. b = a
      BY <1>3, <1>8
    <2>2. a = s \/ (On({"active", "schedule", "range"}) /\ PressGoes(s, a))
      BY <1>2, <1>4
    <2>3. CASE a = s
      BY <1>8, <2>1, <2>3, <1>6 DEF RangeServed, a, b
    <2>4. CASE On({"active", "schedule", "range"}) /\ PressGoes(s, a)
      BY <1>8, <2>1, <2>4 DEF RangeServed, a, b
    <2> QED BY <2>2, <2>3, <2>4
  <1> QED BY <1>7, <1>8

\* The rule of a step, served
LEMMA StepRuleServes ==
  ASSUME ScenarioWell, NEW s \in ScenarioState, NEW k \in 1..Len(scRules.steps),
         NEW t, t = Serve(s, StepRule(k))
  PROVE  IF On({"active", "step", "timer"}) /\ sc.active /\ sc.done /\ StepIs(k - 1)
         THEN StepPlayed(s, t) ELSE t = s
  <1>1. sc.active \in BOOLEAN /\ sc.done \in BOOLEAN /\ Len(scRules.steps) \in Nat
    BY StateIs
  <1>2. StepRule(k).on = {"active", "step", "timer"} /\ StepRule(k).holds =
          (sc.active /\ sc.step = k - 1 /\ sc.done /\ k \notin scRules.off)
    BY DEF StepRule, Rule
  <1>3. StepIs(k - 1) <=> (sc.step = k - 1 /\ k \notin scRules.off)
    <2>1. (k - 1) + 1 = k
      BY <1>1
    <2> QED BY <2>1 DEF StepIs
  <1>4. RuleServes(s, StepRule(k))
    BY ServeIs
  <1> DEFINE fires == On({"active", "step", "timer"}) /\ sc.active /\ sc.done /\ StepIs(k - 1)
  <1>5. t = IF fires THEN FoldLeft(WriteIO, s, StepRule(k).does) ELSE s
    <2>1. On(StepRule(k).on) /\ StepRule(k).holds <=> fires
      BY <1>2, <1>3
    <2> HIDE DEF fires
    <2> QED BY <2>1, <1>4 DEF RuleServes
  <1>6. CASE fires
    <2>1. t = FoldLeft(WriteIO, s, StepRule(k).does)
      BY <1>5, <1>6
    <2>2. k \in Nat /\ k - 1 \in Nat
      BY <1>1
    <2>3. PICK next \in Nat \cup {EndStep} :
            /\ next = IF k < Len(scRules.steps) THEN k ELSE IF scRules.cycle THEN 0 ELSE EndStep
            /\ next = EndStep \/ next + 1 \in 1..Len(scRules.steps)
      <3>1. CASE k < Len(scRules.steps)
        BY <1>1, <2>2, <3>1
      <3>2. CASE ~(k < Len(scRules.steps)) /\ scRules.cycle
        BY <1>1, <2>2, <3>2
      <3>3. CASE ~(k < Len(scRules.steps)) /\ ~scRules.cycle
        BY <3>3
      <3> QED BY <3>1, <3>2, <3>3
    <2>4. PICK m \in Nat \cup {EndStep} : m = k - 1
      BY <2>2
    <2>5. PICK pause \in Nat : pause = scRules.steps[k].pause
      <3>1. scRules.steps[k] \in StepDef
        BY DEF ScenarioWell
      <3> QED BY <3>1 DEF StepDef
    <2>6. StepRule(k).does = <<To("step", next), To("time", pause), To("start", TRUE), To("played", m)>>
      BY <2>3, <2>4, <2>5 DEF StepRule, Rule
    <2> HIDE DEF fires
    <2>7. /\ Onward(s, t)
          /\ t.button = s.button /\ t.active = s.active /\ t.step = next
          /\ t.played = Append(s.played, m) /\ t.left # NotRunning /\ t.done = FALSE
      <3>1. StepWrites(StepRule(k).does, next, pause, m)
        BY <2>6 DEF StepWrites
      <3> QED BY <2>1, <3>1, StepDoes
    <2>8. StepPlayed(s, t)
      BY <2>3, <2>7 DEF StepPlayed
    <2> QED BY <1>6, <2>8 DEF fires
  <1>7. CASE ~fires
    <2>1. t = s
      BY <1>5, <1>7
    <2> QED BY <1>7, <2>1
  <1> QED BY <1>6, <1>7

\* The rule of the end step, served.
LEMMA StepEndServes ==
  ASSUME ScenarioWell, NEW s \in ScenarioState, NEW t, t = Serve(s, StepEnd)
  PROVE  IF On({"active", "step", "timer"}) /\ sc.active /\ sc.done /\ StepIs(EndStep)
         THEN RunEnded(s, t) ELSE t = s
  <1>1. sc.active \in BOOLEAN /\ sc.done \in BOOLEAN
    BY StateIs
  <1>2. StepEnd.on = {"active", "step", "timer"} /\ StepEnd.holds =
          (sc.active /\ sc.step = EndStep /\ sc.done /\ 0 \notin scRules.off)
    BY DEF StepEnd, Rule
  <1>3. StepIs(EndStep) <=> (sc.step = EndStep /\ 0 \notin scRules.off)
    <2>1. EndStep + 1 = 0
      BY DEF EndStep
    <2> QED BY <2>1 DEF StepIs
  <1>4. RuleServes(s, StepEnd)
    BY ServeIs
  <1> DEFINE fires == On({"active", "step", "timer"}) /\ sc.active /\ sc.done /\ StepIs(EndStep)
  <1>5. t = IF fires THEN FoldLeft(WriteIO, s, StepEnd.does) ELSE s
    <2>1. On(StepEnd.on) /\ StepEnd.holds <=> fires
      BY <1>2, <1>3
    <2> HIDE DEF fires
    <2> QED BY <2>1, <1>4 DEF RuleServes
  <1>6. CASE fires
    <2>1. t = FoldLeft(WriteIO, s, StepEnd.does)
      BY <1>5, <1>6
    <2> HIDE DEF fires
    <2>2. RunEnded(s, t)
      BY <2>1, EndDoes DEF RunEnded
    <2> QED BY <1>6, <2>2 DEF fires
  <1>7. CASE ~fires
    <2>1. t = s
      BY <1>5, <1>7
    <2> QED BY <1>7, <2>1
  <1> QED BY <1>6, <1>7

\* Values that the rules of idle steps leave
LEMMA IdleRulesLeave ==
  ASSUME NEW p, NEW lo \in Nat, NEW n \in Nat, \A i \in 1..n : p[lo + i] = p[(lo + i) - 1]
  PROVE  p[lo + n] = p[lo]
  <1> DEFINE S == {i \in 0..n : p[lo + i] = p[lo]}
  <1>1. 0 \in S
    <2>1. lo + 0 = lo /\ 0 \in 0..n
      OBVIOUS
    <2> QED BY <2>1
  <1>2. \A i \in 0..n : i \in S /\ i < n => i + 1 \in S
    <2>1. ASSUME NEW i \in 0..n, i \in S, i < n PROVE i + 1 \in S
      <3>1. i + 1 \in 1..n /\ (lo + (i + 1)) - 1 = lo + i /\ i + 1 \in 0..n
        BY <2>1
      <3>2. p[lo + (i + 1)] = p[lo + i]
        BY <3>1
      <3> QED BY <2>1, <3>1, <3>2
    <2> QED BY <2>1
  <1>3. n \in 0..n
    OBVIOUS
  <1> HIDE DEF S
  <1>4. n \in S
    BY <1>1, <1>2, <1>3, Reaches
  <1> QED BY <1>4 DEF S

\* Places in the list of the rules.
LEMMA SumsAre ==
  ASSUME NEW k \in Int, NEW n \in Int
  PROVE  3 + (k - 1) = (3 + k) - 1 /\ (3 + k) + (n - k) = 3 + n
  OBVIOUS

\* The rules of the steps: the one of the step the run is at, or none
LEMMA StepsServe ==
  ASSUME ScenarioWell, NEW p, NEW n \in Nat, n = Len(scRules.steps),
         \A i \in 0..(3 + n) : p[i] \in ScenarioState,
         \A i \in 1..n : p[3 + i] = Serve(p[(3 + i) - 1], StepRule(i))
  PROVE  IF On({"active", "step", "timer"}) /\ sc.active /\ sc.done
            /\ sc.step + 1 \in 1..n /\ sc.step + 1 \notin scRules.off
         THEN StepPlayed(p[3], p[3 + n]) ELSE p[3 + n] = p[3]
  <1> DEFINE at == On({"active", "step", "timer"}) /\ sc.active /\ sc.done
  <1>1. sc.step \in Nat \cup {EndStep} /\ sc.step \in Int
    BY StateIs DEF EndStep
  <1>2. ASSUME NEW i \in 1..n
        PROVE  IF at /\ StepIs(i - 1) THEN StepPlayed(p[(3 + i) - 1], p[3 + i])
               ELSE p[3 + i] = p[(3 + i) - 1]
    <2>1. (3 + i) - 1 \in 0..(3 + n) /\ i \in 1..Len(scRules.steps)
      BY <1>2
    <2>2. PICK s \in ScenarioState : s = p[(3 + i) - 1]
      BY <2>1
    <2>3. PICK t : t = Serve(s, StepRule(i)) /\ t = p[3 + i]
      BY <1>2, <2>2
    <2>4. IF at /\ StepIs(i - 1) THEN StepPlayed(s, t) ELSE t = s
      BY <2>1, <2>3, StepRuleServes
    <2> HIDE DEF at
    <2> QED BY <2>2, <2>3, <2>4
  <1>3. ASSUME NEW i \in 1..n, at, StepIs(i - 1) PROVE sc.step + 1 = i /\ i \notin scRules.off
    <2>1. sc.step = i - 1 /\ (i - 1) + 1 \notin scRules.off
      BY <1>3 DEF StepIs
    <2> QED BY <2>1
  <1>4. CASE at /\ sc.step + 1 \in 1..n /\ sc.step + 1 \notin scRules.off
    <2>1. PICK k \in 1..n : k = sc.step + 1
      BY <1>4
    <2>2. k \in Nat /\ sc.step = k - 1 /\ (k - 1) + 1 = k
      BY <1>1, <2>1
    <2>3. StepIs(k - 1)
      BY <1>4, <2>1, <2>2 DEF StepIs
    <2>4. StepPlayed(p[(3 + k) - 1], p[3 + k])
      BY <1>2, <1>4, <2>3
    <2>5. ASSUME NEW i \in 1..n, i # k PROVE p[3 + i] = p[(3 + i) - 1]
      <3>1. ~(at /\ StepIs(i - 1))
        BY <1>3, <2>1, <2>5
      <3> HIDE DEF at
      <3> QED BY <1>2, <3>1
    <2>6. p[3 + (k - 1)] = p[3]
      <3>1. k - 1 \in Nat /\ 3 \in Nat
        BY <2>2
      <3>2. ASSUME NEW i \in 1..(k - 1) PROVE p[3 + i] = p[(3 + i) - 1]
        <4>1. i \in 1..n /\ i # k
          BY <2>2
        <4> QED BY <2>5, <4>1
      <3> QED BY <3>1, <3>2, IdleRulesLeave
    <2>7. p[(3 + k) + (n - k)] = p[3 + k]
      <3>1. n - k \in Nat /\ 3 + k \in Nat
        BY <2>2
      <3>2. ASSUME NEW i \in 1..(n - k) PROVE p[(3 + k) + i] = p[((3 + k) + i) - 1]
        <4>1. k + i \in 1..n /\ k + i # k /\ 3 + (k + i) = (3 + k) + i
          BY <2>2
        <4>2. p[3 + (k + i)] = p[(3 + (k + i)) - 1]
          BY <2>5, <4>1
        <4> QED BY <4>1, <4>2
      <3> QED BY <3>1, <3>2, IdleRulesLeave
    <2>8. 3 + (k - 1) = (3 + k) - 1 /\ (3 + k) + (n - k) = 3 + n
      <3>1. k \in Int /\ n \in Int
        BY <2>2
      <3> QED BY <3>1, SumsAre
    <2>9. StepPlayed(p[3], p[3 + n])
      BY <2>4, <2>6, <2>7, <2>8
    <2> QED BY <1>4, <2>9
  <1>5. CASE ~(at /\ sc.step + 1 \in 1..n /\ sc.step + 1 \notin scRules.off)
    <2>1. ASSUME NEW i \in 1..n PROVE p[3 + i] = p[(3 + i) - 1]
      <3>1. ~(at /\ StepIs(i - 1))
        BY <1>3, <1>5
      <3> HIDE DEF at
      <3> QED BY <1>2, <3>1
    <2>2. p[3 + n] = p[3]
      <3>1. 3 \in Nat
        OBVIOUS
      <3> QED BY <2>1, <3>1, IdleRulesLeave
    <2> QED BY <1>5, <2>2
  <1> QED BY <1>4, <1>5

\* A trigger that is taken off leaves the others waiting.
LEMMA TailIs ==
  ASSUME ScenarioWell, sc.pending # <<>>
  PROVE  /\ Unmarched \in ScenarioState /\ Head(sc.pending) \in ScenarioIO
         /\ Unmarched.pending = Tail(sc.pending)
         /\ Unmarched.button = sc.button /\ Unmarched.active = sc.active /\ Unmarched.step = sc.step
         /\ Unmarched.left = sc.left /\ Unmarched.done = sc.done /\ Unmarched.played = sc.played
         /\ Unmarched.scheduled = sc.scheduled
         /\ \A io : Waits(sc, io) /\ Head(sc.pending) # io => Waits(Unmarched, io)
         /\ \A io : sc.pending = <<io>> => Head(sc.pending) = io /\ Tail(sc.pending) = <<>>
  <1>1. PICK q \in Seq(ScenarioIO) : q = sc.pending
    BY StateIs
  <1>2. /\ q # <<>> /\ Tail(q) \in Seq(ScenarioIO) /\ Head(q) \in ScenarioIO /\ Head(q) = q[1]
        /\ Len(Tail(q)) = Len(q) - 1 /\ \A i \in 1..Len(Tail(q)) : Tail(q)[i] = q[i + 1]
    BY <1>1, HeadTailProperties
  <1>3. PICK r \in Seq(ScenarioIO) : r = Tail(q)
    BY <1>2
  <1>4. Unmarched = [sc EXCEPT !.pending = r]
    BY <1>1, <1>3 DEF Unmarched
  <1>5. sc \in ScenarioState
    BY StateIs
  <1>6. /\ Unmarched \in ScenarioState /\ Unmarched.pending = r
        /\ Unmarched.button = sc.button /\ Unmarched.active = sc.active /\ Unmarched.step = sc.step
        /\ Unmarched.left = sc.left /\ Unmarched.done = sc.done /\ Unmarched.played = sc.played
        /\ Unmarched.scheduled = sc.scheduled
    BY <1>4, <1>5 DEF ScenarioState
  <1>7. ASSUME NEW io, Waits(sc, io), Head(q) # io PROVE Waits(Unmarched, io)
    <2>1. PICK i \in 1..Len(q) : q[i] = io
      BY <1>1, <1>7 DEF Waits
    <2>2. Len(q) \in Nat /\ i # 1
      BY <1>2, <1>7, <2>1
    <2>3. i - 1 \in 1..Len(r) /\ (i - 1) + 1 = i
      BY <1>2, <1>3, <2>2
    <2>4. r[i - 1] = io
      BY <1>2, <1>3, <2>1, <2>3
    <2> QED BY <1>6, <2>3, <2>4 DEF Waits
  <1>8. ASSUME NEW io, q = <<io>> PROVE Head(q) = io /\ Tail(q) = <<>>
    BY <1>8
  <1> QED BY <1>1, <1>2, <1>3, <1>6, <1>7, <1>8

\* The rules in the order of their insertion
LEMMA MarchIs ==
  ASSUME ScenarioWell, sc.pending # <<>>
  PROVE  \E b, d \in ScenarioState : Marched \in ScenarioState /\ MarchGoes(b, d, Marched)
  <1> DEFINE n == Len(scRules.steps)
  <1>1. Unmarched \in ScenarioState
    BY TailIs
  <1>2. /\ n \in Nat
        /\ RuleList \in Seq(ScenarioRule) /\ Len(RuleList) = n + 5
        /\ RuleList[1] = ButtonStart /\ RuleList[2] = ButtonStop /\ RuleList[3] = StepEnd
        /\ \A i \in 1..n : RuleList[3 + i] = StepRule(i)
        /\ RuleList[n + 4] = TimeStart /\ RuleList[n + 5] = TimeStop
    BY RulesAre
  <1>3. Marched = FoldLeft(Serve, Unmarched, RuleList)
    BY DEF Marched, Unmarched
  <1>4. PICK p : RulesAlong(Unmarched, RuleList, p) /\ Marched = p[n + 5]
    BY <1>1, <1>2, <1>3, RulesPass
  <1>5. /\ p \in [0..(n + 5) -> ScenarioState] /\ p[0] = Unmarched
        /\ \A i \in 1..(n + 5) : p[i] = Serve(p[i - 1], RuleList[i])
    BY <1>2, <1>4 DEF RulesAlong
  <1>6. \A i \in 0..(n + 5) : p[i] \in ScenarioState
    BY <1>5
  <1> HIDE DEF n
  <1>7. p[1] = Serve(Unmarched, ButtonStart)
    <2>1. 1 \in 1..(n + 5) /\ 1 - 1 = 0
      BY <1>2
    <2> QED BY <1>2, <1>5, <2>1
  <1>8. p[2] = Serve(p[1], ButtonStop)
    <2>1. 2 \in 1..(n + 5) /\ 2 - 1 = 1
      BY <1>2
    <2> QED BY <1>2, <1>5, <2>1
  <1>9. p[3] = Serve(p[2], StepEnd)
    <2>1. 3 \in 1..(n + 5) /\ 3 - 1 = 2
      BY <1>2
    <2> QED BY <1>2, <1>5, <2>1
  <1>10. p[n + 4] = Serve(p[3 + n], TimeStart)
    <2>1. n + 4 \in 1..(n + 5) /\ (n + 4) - 1 = 3 + n
      BY <1>2
    <2> QED BY <1>2, <1>5, <2>1
  <1>11. p[n + 5] = Serve(p[n + 4], TimeStop)
    <2>1. n + 5 \in 1..(n + 5) /\ (n + 5) - 1 = n + 4
      BY <1>2
    <2> QED BY <1>2, <1>5, <2>1
  <1>12. p[2] \in ScenarioState /\ p[3] \in ScenarioState /\ p[3 + n] \in ScenarioState
         /\ p[n + 5] \in ScenarioState
    <2>1. 2 \in 0..(n + 5) /\ 3 \in 0..(n + 5) /\ 3 + n \in 0..(n + 5) /\ n + 5 \in 0..(n + 5)
      BY <1>2
    <2> QED BY <1>6, <2>1
  <1>13. ButtonServed(Unmarched, p[2])
    <2>1. ButtonServed(Unmarched, Serve(Serve(Unmarched, ButtonStart), ButtonStop))
      BY <1>1, ButtonServes
    <2> QED BY <1>7, <1>8, <2>1
  <1>14. RangeServed(p[3 + n], p[n + 5])
    <2>1. RangeServed(p[3 + n], Serve(Serve(p[3 + n], TimeStart), TimeStop))
      BY <1>12, RangeServes
    <2> QED BY <1>10, <1>11, <2>1
  <1> DEFINE at == On({"active", "step", "timer"}) /\ sc.active /\ sc.done
  <1>15. IF at /\ StepIs(EndStep) THEN RunEnded(p[2], p[3]) ELSE p[3] = p[2]
    BY <1>9, <1>12, StepEndServes
  <1>16. IF at /\ sc.step + 1 \in 1..n /\ sc.step + 1 \notin scRules.off
         THEN StepPlayed(p[3], p[3 + n]) ELSE p[3 + n] = p[3]
    <2>1. \A i \in 0..(3 + n) : p[i] \in ScenarioState
      <3>1. \A i \in 0..(3 + n) : i \in 0..(n + 5)
        BY <1>2
      <3> QED BY <1>6, <3>1
    <2>2. ASSUME NEW i \in 1..n PROVE p[3 + i] = Serve(p[(3 + i) - 1], StepRule(i))
      <3>1. 3 + i \in 1..(n + 5)
        BY <1>2
      <3> QED BY <1>2, <1>5, <3>1
    <2>3. n = Len(scRules.steps)
      BY DEF n
    <2>4. n \in Nat
      BY <1>2
    <2> HIDE DEF at
    <2>5. IF On({"active", "step", "timer"}) /\ sc.active /\ sc.done
            /\ sc.step + 1 \in 1..n /\ sc.step + 1 \notin scRules.off
          THEN StepPlayed(p[3], p[3 + n]) ELSE p[3 + n] = p[3]
      BY <2>1, <2>2, <2>3, <2>4, StepsServe
    <2> QED BY <2>5 DEF at
  <1>17. StepIs(EndStep) => sc.step + 1 \notin 1..n
    BY DEF StepIs, EndStep
  <1>18. StepServed(p[2], p[3 + n])
    <2>1. CASE at /\ StepIs(EndStep)
      <3>1. RunEnded(p[2], p[3 + n])
        BY <1>15, <1>16, <1>17, <2>1
      <3> QED BY <2>1, <3>1 DEF StepServed
    <2>2. CASE at /\ sc.step + 1 \in 1..n /\ sc.step + 1 \notin scRules.off
      <3>1. StepPlayed(p[2], p[3 + n])
        BY <1>15, <1>16, <1>17, <2>2
      <3> QED BY <2>2, <3>1 DEF StepServed, n
    <2>3. CASE ~(at /\ StepIs(EndStep)) /\ ~(at /\ sc.step + 1 \in 1..n /\ sc.step + 1 \notin scRules.off)
      <3>1. p[3 + n] = p[2]
        BY <1>15, <1>16, <2>3
      <3> QED BY <2>3, <3>1 DEF StepServed, n
    <2> QED BY <2>1, <2>2, <2>3
  <1>19. MarchGoes(p[2], p[3 + n], Marched)
    BY <1>4, <1>13, <1>14, <1>18 DEF MarchGoes
  <1> QED BY <1>4, <1>12, <1>19

\* The button, then the step, then the range, as they depend on the state
LEMMA ButtonTurn ==
  ASSUME ScenarioInv, sc.pending # <<>>, NEW b \in ScenarioState, ButtonServed(Unmarched, b)
  PROVE  /\ Onward(Unmarched, b) /\ b.played = sc.played
         /\ sc.active => b.active = TRUE
         /\ b.active = FALSE \/ sc.active \/ ~Refuses
         /\ b.button => sc.button /\ ~On({"scenario", "active"})
         /\ \/ b = Unmarched
            \/ /\ On({"scenario", "active"}) /\ b.left # NotRunning /\ b.done = FALSE /\ b.active = TRUE
               /\ IF sc.active THEN b.step = EndStep ELSE b.step = 0
  <1>1. sc.active \in BOOLEAN /\ sc.button \in BOOLEAN
    BY StateIs DEF ScenarioInv
  <1>2. /\ Unmarched \in ScenarioState /\ Unmarched.button = sc.button /\ Unmarched.active = sc.active
        /\ Unmarched.played = sc.played
    BY TailIs DEF ScenarioInv
  <1>3. sc.button => ~Refuses
    BY DEF ScenarioInv, PressWaits
  <1>4. Onward(Unmarched, Unmarched)
    BY <1>2 DEF Onward
  <1>5. CASE On({"scenario", "active"}) /\ sc.button /\ sc.active
    <2>1. RunStopped(Unmarched, b)
      BY <1>5 DEF ButtonServed
    <2> QED BY <1>1, <1>2, <1>5, <2>1 DEF RunStopped
  <1>6. CASE On({"scenario", "active"}) /\ sc.button /\ ~sc.active
    <2>1. RunStarted(Unmarched, b)
      BY <1>6 DEF ButtonServed
    <2> QED BY <1>1, <1>2, <1>3, <1>6, <2>1 DEF RunStarted
  <1>7. CASE ~(On({"scenario", "active"}) /\ sc.button)
    <2>1. b = Unmarched
      BY <1>7 DEF ButtonServed
    <2> QED BY <1>1, <1>2, <1>4, <1>7, <2>1
  <1> QED BY <1>5, <1>6, <1>7

\* The step: none plays but at the end of the timer, and one only.
LEMMA StepTurn ==
  ASSUME ScenarioInv, sc.pending # <<>>, NEW b \in ScenarioState, NEW d \in ScenarioState,
         ButtonServed(Unmarched, b), StepServed(b, d)
  PROVE  /\ Onward(b, d) /\ d.button = b.button
         /\ d.active = b.active \/ d.active = FALSE
         /\ \/ d = b /\ (sc.active /\ sc.done /\ ~scEdited => ~On({"active", "step", "timer"}))
            \/ /\ sc.active /\ sc.done /\ b = Unmarched /\ On({"step", "timer"}) /\ sc.played = <<>>
               /\ \/ d = b /\ (scEdited \/ Stepless)
                  \/ RunEnded(b, d)
                  \/ StepPlayed(b, d)
  <1>1. /\ sc.active \in BOOLEAN /\ sc.done \in BOOLEAN /\ sc.step \in Nat \cup {EndStep}
        /\ scEdited \in BOOLEAN
    BY StateIs DEF ScenarioInv, ScenarioWell
  <1>2. /\ \A io : sc.pending = <<io>> => Head(sc.pending) = io
    BY TailIs DEF ScenarioInv
  <1>3. Onward(b, b)
    BY DEF Onward
  <1>4. CASE On({"active", "step", "timer"}) /\ sc.active /\ sc.done
    <2>1. /\ sc.played = <<>>
          /\ \E io \in {"timer", "scenario", "range", "schedule"} : sc.pending = <<io>>
      BY <1>1, <1>4 DEF ScenarioInv, EndIsSeenOnce
    <2>2. Head(sc.pending) \in {"timer", "scenario", "range", "schedule"}
      BY <1>2, <2>1
    <2>3. Head(sc.pending) # "active"
      BY <2>2
    <2>4. On({"step", "timer"}) /\ ~On({"scenario", "active"})
      BY <1>4, <2>3 DEF On
    <2>5. b = Unmarched
      BY <2>4 DEF ButtonServed
    <2>6. \/ RunEnded(b, d) \/ StepPlayed(b, d)
          \/ /\ d = b /\ ~StepIs(EndStep)
             /\ sc.step + 1 \in 1..Len(scRules.steps) => sc.step + 1 \in scRules.off
      BY <1>4 DEF StepServed
    <2>7. ASSUME ~scEdited, ~Stepless, ~StepIs(EndStep),
                 sc.step + 1 \in 1..Len(scRules.steps) => sc.step + 1 \in scRules.off
          PROVE  FALSE
      <3>1. /\ scRules.off = {}
            /\ sc.step = EndStep \/ sc.step + 1 \in 1..Len(scRules.steps)
        BY <1>4, <2>7 DEF ScenarioInv, RunGoesOn
      <3> QED BY <2>7, <3>1 DEF StepIs
    <2>8. CASE RunEnded(b, d)
      BY <1>4, <2>1, <2>4, <2>5, <2>8 DEF RunEnded
    <2>9. CASE StepPlayed(b, d)
      BY <1>4, <2>1, <2>4, <2>5, <2>9 DEF StepPlayed
    <2>10. CASE d = b /\ (scEdited \/ Stepless)
      BY <1>3, <1>4, <2>1, <2>4, <2>5, <2>10
    <2> QED BY <1>1, <2>6, <2>7, <2>8, <2>9, <2>10
  <1>5. CASE ~(On({"active", "step", "timer"}) /\ sc.active /\ sc.done)
    <2>1. d = b
      BY <1>5 DEF StepServed
    <2> QED BY <1>3, <1>5, <2>1
  <1> QED BY <1>4, <1>5

\* The time range: it stops the run or presses the button.
LEMMA RangeTurn ==
  ASSUME ScenarioInv, NEW d \in ScenarioState, NEW t \in ScenarioState, RangeServed(d, t)
  PROVE  /\ Onward(d, t) /\ t.active = d.active /\ t.played = d.played
         /\ t.button => d.button \/ (~Refuses /\ Waits(t, "scenario"))
         /\ \/ t = d
            \/ /\ On({"active", "schedule", "range"}) /\ sc.active
               /\ t.left # NotRunning /\ t.done = FALSE /\ t.step = EndStep
            \/ ~sc.active /\ t.left = d.left /\ t.done = d.done /\ t.step = d.step
  <1>1. sc.active \in BOOLEAN
    BY StateIs DEF ScenarioInv
  <1>2. Onward(d, d)
    BY DEF Onward
  <1>3. CASE t = d
    BY <1>2, <1>3
  <1>4. CASE On({"active", "schedule", "range"}) /\ sc.active /\ RangeEnded(d, t)
    BY <1>4 DEF RangeEnded
  <1>5. CASE ~sc.active /\ PressGoes(d, t)
    <2>1. CASE t = d
      BY <1>3, <2>1
    <2>2. CASE ~Refuses /\ ButtonGoes(d, t, TRUE)
      BY <1>5, <2>2 DEF ButtonGoes
    <2> QED BY <1>5, <2>1, <2>2 DEF PressGoes
  <1> QED BY <1>1, <1>3, <1>4, <1>5 DEF RangeServed

\* A run that no step will take further
Empty(t) == scRules.steps = <<>> /\ t.step = 0

\* What a march makes of what a scenario keeps
MarchKeeps(t) ==
  /\ t \in ScenarioState /\ t.scheduled = sc.scheduled
  /\ t.button => ~Refuses /\ Waits(t, "scenario")
  /\ t.active => sc.active \/ ~Refuses
  /\ t.active /\ ~scEdited =>
       /\ sc.active => t.step = EndStep \/ t.step + 1 \in 1..Len(scRules.steps) \/ Empty(t)
       /\ ~sc.active => t.step = 0
       /\ t.left # NotRunning \/ Empty(t)
  /\ t.done => t.left = NotRunning
  /\ ~t.active => t.left = NotRunning \/ Halting
  /\ Len(t.played) <= 1
  /\ t.active /\ t.done => t.played = <<>> /\ t.pending = <<>>

\* The three turns, one after the other.
LEMMA MarchIsKept ==
  ASSUME ScenarioInv, sc.pending # <<>>, NEW b \in ScenarioState, NEW d \in ScenarioState,
         NEW t \in ScenarioState, MarchGoes(b, d, t)
  PROVE  MarchKeeps(t)
  <1>1. /\ sc.active \in BOOLEAN /\ sc.button \in BOOLEAN /\ sc.done \in BOOLEAN
        /\ sc.step \in Nat \cup {EndStep} /\ Len(scRules.steps) \in Nat /\ scEdited \in BOOLEAN
    BY StateIs DEF ScenarioInv, ScenarioWell
  <1>2. /\ Unmarched \in ScenarioState
        /\ Unmarched.pending = Tail(sc.pending)
        /\ Unmarched.button = sc.button /\ Unmarched.active = sc.active /\ Unmarched.step = sc.step
        /\ Unmarched.left = sc.left /\ Unmarched.done = sc.done /\ Unmarched.played = sc.played
        /\ Unmarched.scheduled = sc.scheduled
        /\ \A io : Waits(sc, io) /\ Head(sc.pending) # io => Waits(Unmarched, io)
        /\ \A io : sc.pending = <<io>> => Head(sc.pending) = io /\ Tail(sc.pending) = <<>>
    BY TailIs DEF ScenarioInv
  <1>3. /\ Onward(Unmarched, b) /\ b.played = sc.played
        /\ sc.active => b.active = TRUE
        /\ b.active = FALSE \/ sc.active \/ ~Refuses
        /\ b.button => sc.button /\ ~On({"scenario", "active"})
        /\ \/ b = Unmarched
           \/ /\ On({"scenario", "active"}) /\ b.left # NotRunning /\ b.done = FALSE /\ b.active = TRUE
              /\ IF sc.active THEN b.step = EndStep ELSE b.step = 0
    BY ButtonTurn DEF MarchGoes
  <1>4. /\ Onward(b, d) /\ d.button = b.button
        /\ d.active = b.active \/ d.active = FALSE
        /\ \/ d = b /\ (sc.active /\ sc.done /\ ~scEdited => ~On({"active", "step", "timer"}))
           \/ /\ sc.active /\ sc.done /\ b = Unmarched /\ On({"step", "timer"}) /\ sc.played = <<>>
              /\ \/ d = b /\ (scEdited \/ Stepless)
                 \/ RunEnded(b, d)
                 \/ StepPlayed(b, d)
    BY StepTurn DEF MarchGoes
  <1>5. /\ Onward(d, t) /\ t.active = d.active /\ t.played = d.played
        /\ t.button => d.button \/ (~Refuses /\ Waits(t, "scenario"))
        /\ \/ t = d
           \/ /\ On({"active", "schedule", "range"}) /\ sc.active
              /\ t.left # NotRunning /\ t.done = FALSE /\ t.step = EndStep
           \/ ~sc.active /\ t.left = d.left /\ t.done = d.done /\ t.step = d.step
    BY RangeTurn DEF MarchGoes
  <1>6. /\ t.button \in BOOLEAN /\ t.active \in BOOLEAN /\ t.done \in BOOLEAN
        /\ d.button \in BOOLEAN /\ d.active \in BOOLEAN /\ d.done \in BOOLEAN
        /\ b.button \in BOOLEAN /\ b.active \in BOOLEAN /\ b.done \in BOOLEAN
    BY DEF ScenarioState
  <1>7. t.scheduled = sc.scheduled /\ \A io : Waits(Unmarched, io) => Waits(t, io)
    BY <1>2, <1>3, <1>4, <1>5 DEF Onward
  <1>8. t.button => ~Refuses /\ Waits(t, "scenario")
    <2>1. ASSUME d.button PROVE ~Refuses /\ Waits(t, "scenario")
      <3>1. sc.button /\ Head(sc.pending) # "scenario"
        BY <1>3, <1>4, <2>1 DEF On
      <3>2. ~Refuses /\ Waits(sc, "scenario")
        BY <3>1 DEF ScenarioInv, PressWaits
      <3> QED BY <1>2, <1>7, <3>1, <3>2
    <2> QED BY <1>5, <1>6, <2>1
  <1>9. t.active => sc.active \/ ~Refuses
    BY <1>3, <1>4, <1>5, <1>6
  <1>10. ASSUME t.active, ~scEdited
         PROVE  /\ sc.active => t.step = EndStep \/ t.step + 1 \in 1..Len(scRules.steps) \/ Empty(t)
                /\ ~sc.active => t.step = 0
                /\ t.left # NotRunning \/ Empty(t)
    <2>1. CASE sc.active
      <3>1. \/ /\ sc.step = EndStep \/ sc.step + 1 \in 1..Len(scRules.steps)
               /\ sc.left # NotRunning \/ (sc.done /\ sc.pending = <<"timer">>)
            \/ Empty(sc)
        BY <1>10, <2>1 DEF ScenarioInv, RunGoesOn, Stepless, Empty
      <3>2. CASE RunEnded(b, d)
        BY <1>5, <1>6, <1>10, <3>2 DEF RunEnded
      <3>3. CASE StepPlayed(b, d) /\ On({"step", "timer"})
        <4>1. ~On({"active", "schedule", "range"})
          BY <3>3 DEF On
        <4>2. t = d
          BY <1>5, <4>1, <2>1
        <4> QED BY <2>1, <3>3, <4>2 DEF StepPlayed
      <3>4. CASE /\ d = b /\ (sc.active /\ sc.done /\ ~scEdited => ~On({"active", "step", "timer"}))
                 /\ ~Empty(sc)
        <4>1. sc.left # NotRunning
          <5>1. ASSUME sc.done, sc.pending = <<"timer">> PROVE FALSE
            <6>1. Head(sc.pending) = "timer"
              BY <1>2, <5>1
            <6> QED BY <1>10, <2>1, <3>4, <5>1, <6>1 DEF On
          <5> QED BY <3>1, <3>4, <5>1
        <4>2. /\ d.left # NotRunning
              /\ d.step = EndStep \/ d.step + 1 \in 1..Len(scRules.steps)
          BY <1>2, <1>3, <2>1, <3>1, <3>4, <4>1
        <4> QED BY <1>5, <2>1, <4>2
      <3>5. CASE d = b /\ Empty(sc)
        <4>1. (d.step = EndStep /\ d.left # NotRunning) \/ Empty(d)
          BY <1>2, <1>3, <2>1, <3>5 DEF Empty
        <4>2. (t.step = EndStep /\ t.left # NotRunning) \/ Empty(t)
          BY <1>5, <2>1, <4>1 DEF Empty
        <4> QED BY <2>1, <4>2
      <3>6. Stepless <=> Empty(sc)
        BY DEF Stepless, Empty
      <3> QED BY <1>4, <1>10, <3>2, <3>3, <3>4, <3>5, <3>6
    <2>2. CASE ~sc.active
      <3>1. d = b
        BY <1>4, <2>2
      <3>2. b.active
        BY <1>5, <1>10, <3>1
      <3>3. b # Unmarched
        BY <1>2, <2>2, <3>2
      <3>4. b.step = 0 /\ b.left # NotRunning
        BY <1>3, <2>2, <3>3
      <3> QED BY <1>5, <2>2, <3>1, <3>4
    <2> QED BY <1>1, <2>1, <2>2
  <1>11. (t.done => t.left = NotRunning) /\ (~t.active => t.left = NotRunning \/ Halting)
    <2>1. (sc.done => sc.left = NotRunning) /\ (~sc.active => sc.left = NotRunning \/ Halting)
      BY DEF ScenarioInv, RestIsUntimed
    <2>2. (b.done => b.left = NotRunning) /\ (~b.active => b.left = NotRunning \/ Halting)
      BY <1>2, <1>3, <2>1
    <2>3. (d.done => d.left = NotRunning) /\ (~d.active => d.left = NotRunning \/ Halting)
      <3>1. CASE d = b
        BY <2>2, <3>1
      <3>2. CASE RunEnded(b, d) /\ b = Unmarched /\ sc.done
        BY <1>2, <2>1, <3>2 DEF RunEnded
      <3>3. CASE StepPlayed(b, d) /\ b = Unmarched /\ sc.active
        BY <1>2, <3>3 DEF StepPlayed
      <3> QED BY <1>4, <3>1, <3>2, <3>3
    <2>4. CASE t = d
      BY <2>3, <2>4
    <2>5. CASE sc.active /\ t.left # NotRunning /\ t.done = FALSE /\ On({"active", "schedule", "range"})
      <3>1. ~On({"step", "timer"})
        BY <2>5 DEF On
      <3>2. d = b
        BY <1>4, <3>1
      <3>3. t.active
        BY <1>3, <1>5, <2>5, <3>2
      <3> QED BY <2>5, <3>3
    <2>6. CASE t.left = d.left /\ t.done = d.done
      BY <1>5, <2>3, <2>6
    <2> QED BY <1>5, <2>4, <2>5, <2>6
  <1>12. Len(t.played) <= 1
    <2>1. Len(sc.played) <= 1
      BY DEF ScenarioInv, EndIsSeenOnce
    <2>2. ASSUME NEW m PROVE Len(Append(<<>>, m)) <= 1
      OBVIOUS
    <2>3. CASE d = b
      BY <1>3, <1>5, <2>1, <2>3
    <2>4. CASE RunEnded(b, d) /\ b = Unmarched /\ sc.played = <<>>
      BY <1>2, <1>5, <2>2, <2>4 DEF RunEnded
    <2>5. CASE StepPlayed(b, d) /\ b = Unmarched /\ sc.played = <<>>
      BY <1>2, <1>5, <2>2, <2>5 DEF StepPlayed
    <2> QED BY <1>4, <2>3, <2>4, <2>5
  <1>13. ASSUME t.active, t.done PROVE t.played = <<>> /\ t.pending = <<>>
    <2>1. CASE sc.active
      <3>1. t = d
        BY <1>5, <1>6, <1>13, <2>1
      <3>2. d = b
        BY <1>4, <1>6, <1>13, <3>1 DEF RunEnded, StepPlayed
      <3>3. b = Unmarched
        BY <1>3, <1>6, <1>13, <3>1, <3>2
      <3>4. sc.done
        BY <1>2, <1>13, <3>1, <3>2, <3>3
      <3>5. sc.played = <<>> /\ Tail(sc.pending) = <<>>
        BY <1>2, <2>1, <3>4 DEF ScenarioInv, EndIsSeenOnce
      <3> QED BY <1>2, <3>1, <3>2, <3>3, <3>5
    <2>2. CASE ~sc.active
      <3>1. d = b
        BY <1>4, <2>2
      <3>2. b.active /\ b # Unmarched
        BY <1>2, <1>5, <1>13, <2>2, <3>1
      <3>3. b.done = FALSE
        BY <1>3, <3>2
      <3>4. t.done = FALSE
        BY <1>5, <2>2, <3>1, <3>3
      <3> QED BY <1>13, <3>4
    <2> QED BY <1>1, <2>1, <2>2
  <1> QED BY <1>7, <1>8, <1>9, <1>10, <1>11, <1>12, <1>13 DEF MarchKeeps

\* A trigger is served
LEMMA ExecuteKeeps ==
  ASSUME ScenarioInv, ExecuteTrigger
  PROVE  ScenarioInv'
  <1>1. ScenarioWell /\ sc.pending # <<>> /\ sc' = Marched
        /\ scDef' = scDef /\ scRules' = scRules /\ scGate' = scGate /\ scBusy' = scBusy
    BY DEF ScenarioInv, ExecuteTrigger
  <1>2. PICK b \in ScenarioState, d \in ScenarioState :
          Marched \in ScenarioState /\ MarchGoes(b, d, Marched)
    BY <1>1, MarchIs
  <1>3. MarchKeeps(sc')
    BY <1>1, <1>2, MarchIsKept
  <1>4. scEdited' = (scEdited /\ sc'.active)
    BY <1>1 DEF ExecuteTrigger
  <1>5. /\ sc.active \in BOOLEAN /\ scEdited \in BOOLEAN /\ sc'.active \in BOOLEAN /\ sc'.done \in BOOLEAN
        /\ Len(scRules.steps) \in Nat /\ scRules.steps \in Seq(StepDef)
    BY <1>1, <1>2, StateIs DEF ScenarioWell, ScenarioState
  <1>6. Refuses' <=> Refuses
    <2>1. sc'.scheduled = sc.scheduled
      BY <1>3 DEF MarchKeeps
    <2> QED BY <1>1, <2>1 DEF Refuses, Broken
  <1>7. ScenarioWell'
    <2>1. scEdited' \in BOOLEAN
      BY <1>4, <1>5
    <2> QED BY <1>1, <1>2, <2>1 DEF ScenarioWell
  <1>8. PressWaits'
    <2>1. sc'.button => ~Refuses /\ Waits(sc', "scenario")
      BY <1>3 DEF MarchKeeps
    <2> QED BY <1>6, <2>1 DEF PressWaits, Waits
  <1>9. ~Refuses => ~scGate.disabled /\ scRules.off = {}
    BY DEF Refuses, Broken
  <1>10. DisabledIsStopped'
    <2>1. sc'.active => sc.active \/ ~Refuses
      BY <1>3 DEF MarchKeeps
    <2>2. scGate.disabled => ~sc.active
      BY DEF ScenarioInv, DisabledIsStopped
    <2>3. scGate.disabled => ~sc'.active
      BY <1>9, <2>1, <2>2
    <2>4. Halting => scGate.disabled
      BY DEF ScenarioInv, DisabledIsStopped
    <2> QED BY <1>1, <2>3, <2>4 DEF DisabledIsStopped, Halting
  <1>11. RunGoesOn'
    <2>1. ASSUME sc'.active, ~scEdited'
          PROVE  /\ scRules.off = {}
                 /\ sc'.step = EndStep \/ sc'.step + 1 \in 1..Len(scRules.steps) \/ Empty(sc')
                 /\ sc'.left # NotRunning \/ Empty(sc')
      <3>1. ~scEdited
        BY <1>4, <1>5, <2>1
      <3>2. /\ sc.active => sc'.step = EndStep \/ sc'.step + 1 \in 1..Len(scRules.steps) \/ Empty(sc')
            /\ ~sc.active => sc'.step = 0
            /\ sc'.left # NotRunning \/ Empty(sc')
            /\ sc.active \/ ~Refuses
        BY <1>3, <2>1, <3>1 DEF MarchKeeps
      <3>3. sc.active => scRules.off = {}
        BY <3>1 DEF ScenarioInv, RunGoesOn
      <3>4. ~sc.active => 0 + 1 \in 1..Len(scRules.steps) \/ Empty(sc')
        <4>1. ASSUME scRules.steps # <<>> PROVE Len(scRules.steps) # 0
          BY <1>5, <4>1
        <4> QED BY <1>5, <3>2, <4>1 DEF Empty
      <3> QED BY <1>5, <1>9, <3>2, <3>3, <3>4
    <2> QED BY <1>1, <2>1 DEF RunGoesOn, Stepless, Empty
  <1>12. RestIsUntimed'
    <2>1. scEdited' => sc'.active
      BY <1>4
    <2>2. (sc'.done => sc'.left = NotRunning) /\ (~sc'.active => sc'.left = NotRunning \/ Halting)
      BY <1>3 DEF MarchKeeps
    <2> QED BY <1>1, <2>1, <2>2 DEF RestIsUntimed, Halting
  <1>13. EndIsSeenOnce'
    <2>1. Len(sc'.played) <= 1 /\ (sc'.active /\ sc'.done => sc'.played = <<>> /\ sc'.pending = <<>>)
      BY <1>3 DEF MarchKeeps
    <2> QED BY <2>1 DEF EndIsSeenOnce
  <1> QED BY <1>7, <1>8, <1>10, <1>11, <1>12, <1>13 DEF ScenarioInv

-----------------------------------------------------------------------------
(* The events                                                              *)
\* s and t are the same but for what t signals and the field that was written
SameRun(s, t) ==
  /\ t \in ScenarioState /\ t.scheduled = s.scheduled /\ t.done = s.done /\ t.left = s.left
  /\ t.played = s.played
Signals(s, t, io) ==
  /\ SameRun(s, t) /\ t.pending = <<io>> /\ t.button = s.button /\ t.active = s.active
  /\ t.step = s.step

\* When nothing waits, a signal is the only one,
LEMMA FirstWaits ==
  ASSUME NEW s \in ScenarioState, s.pending = <<>>, NEW io
  PROVE  ~Waits(s, io) /\ Append(s.pending, io) = <<io>>
  <1>1. Len(s.pending) = 0
    OBVIOUS
  <1> QED BY <1>1 DEF Waits

\* which is one of the IOs.
LEMMA OneSignal ==
  ASSUME NEW io \in ScenarioIO
  PROVE  <<io>> \in Seq(ScenarioIO) /\ \E q \in Seq(ScenarioIO) : q = <<io>>
  <1>1. <<io>> \in Seq(ScenarioIO)
    OBVIOUS
  <1> QED BY <1>1

\* An event forgets the steps that were played; the button is released.
LEMMA FreshIs ==
  ASSUME ScenarioInv, sc.pending = <<>>
  PROVE  /\ Fresh \in ScenarioState /\ Fresh.pending = <<>> /\ Fresh.button = FALSE
         /\ Fresh.active = sc.active /\ Fresh.step = sc.step /\ Fresh.left = sc.left
         /\ Fresh.done = sc.done /\ Fresh.scheduled = sc.scheduled /\ Fresh.played = <<>>
         /\ Fresh.range = sc.range /\ sc.button = FALSE
  <1>1. sc \in ScenarioState
    BY DEF ScenarioInv, ScenarioWell
  <1>2. /\ Fresh \in ScenarioState /\ Fresh.pending = <<>> /\ Fresh.button = sc.button
        /\ Fresh.active = sc.active /\ Fresh.step = sc.step /\ Fresh.left = sc.left
        /\ Fresh.done = sc.done /\ Fresh.scheduled = sc.scheduled /\ Fresh.played = <<>>
        /\ Fresh.range = sc.range
    <2>1. PICK e \in Seq(Nat \cup {EndStep}) : e = <<>>
      <3>1. <<>> \in Seq(Nat \cup {EndStep})
        OBVIOUS
      <3> QED BY <3>1
    <2>2. Fresh = [sc EXCEPT !.played = e]
      BY <2>1 DEF Fresh
    <2> QED BY <1>1, <2>1, <2>2 DEF ScenarioState
  <1>3. ~Waits(sc, "scenario")
    BY <1>1, FirstWaits
  <1>4. sc.button = FALSE
    BY <1>1, <1>3 DEF ScenarioInv, PressWaits, ScenarioState
  <1> QED BY <1>2, <1>4

\* The write of the schedule signals it,
LEMMA ScheduleSignals ==
  ASSUME NEW s \in ScenarioState, s.pending = <<>>, NEW v \in BOOLEAN
  PROVE  Signals(s, WriteIO(s, To("schedule", v)), "schedule")
  <1>1. WriteIO(s, To("schedule", v)) = [s EXCEPT !.schedule = v, !.pending = Append(s.pending, "schedule")]
    BY WriteIs
  <1>2. PICK q \in Seq(ScenarioIO) : q = <<"schedule">>
    <2>1. "schedule" \in ScenarioIO
      BY DEF ScenarioIO
    <2> QED BY <2>1, OneSignal
  <1>3. Append(s.pending, "schedule") = q
    BY <1>2, FirstWaits
  <1>4. WriteIO(s, To("schedule", v)) = [s EXCEPT !.schedule = v, !.pending = q]
    BY <1>1, <1>3
  <1> QED BY <1>2, <1>4 DEF Signals, SameRun, ScenarioState

\* as the build of the rules may.
LEMMA PreparedSignals ==
  ASSUME NEW s \in ScenarioState, s.pending = <<>>, NEW v \in BOOLEAN
  PROVE  Prepared(s, v) = s \/ Signals(s, Prepared(s, v), "schedule")
  BY ScheduleSignals DEF Prepared

\* A press is refused, or signalled.
LEMMA ButtonSignals ==
  ASSUME NEW s \in ScenarioState, s.pending = <<>>, NEW v \in BOOLEAN
  PROVE  \/ PressButton(s, v) = s
         \/ /\ ~(v /\ Refuses) /\ SameRun(s, PressButton(s, v)) /\ PressButton(s, v).pending = <<"scenario">>
            /\ PressButton(s, v).button = v /\ PressButton(s, v).active = s.active
            /\ PressButton(s, v).step = s.step
  <1>1. PICK q \in Seq(ScenarioIO) : q = <<"scenario">>
    <2>1. "scenario" \in ScenarioIO
      BY DEF ScenarioIO
    <2> QED BY <2>1, OneSignal
  <1>2. Append(s.pending, "scenario") = q
    BY <1>1, FirstWaits
  <1>3. PressButton(s, v) = IF v /\ Refuses THEN s ELSE [s EXCEPT !.button = v, !.pending = q]
    BY <1>2 DEF PressButton, Signal, ScenarioState
  <1> QED BY <1>1, <1>3 DEF SameRun, ScenarioState

\* Between two events: what is neither timed nor running has no end to be seen
LEMMA QuietIs ==
  ASSUME ScenarioInv, Quiet
  PROVE  /\ ScenarioWell /\ sc.pending = <<>> /\ sc.button = FALSE /\ ~Halting
         /\ sc.active /\ ~scEdited => (sc.left # NotRunning \/ Stepless) /\ scRules.off = {}
         /\ ~sc.active => sc.left = NotRunning /\ ~scEdited
         /\ sc.done => sc.left = NotRunning
         /\ scGate.disabled => ~sc.active
  <1>1. sc.pending = <<>> /\ ~Halting /\ <<>> # <<"timer">>
    BY DEF Quiet, Halting
  <1>2. sc.active \in BOOLEAN /\ scEdited \in BOOLEAN
    BY DEF ScenarioInv, ScenarioWell, ScenarioState
  <1> QED BY <1>1, <1>2, FreshIs DEF ScenarioInv, RunGoesOn, RestIsUntimed, DisabledIsStopped

\* An action that leaves the gate, the rules and the run
LEMMA RunIsKept ==
  ASSUME ScenarioInv, sc.pending = <<>>, SameRun(Fresh, sc') \/ SameRun(sc, sc'),
         sc'.active = sc.active, sc'.step = sc.step,
         UNCHANGED <<scDef, scRules, scGate, scBusy, scEdited>>,
         PressWaits',
         \/ sc'.pending = <<>>
         \/ \E io \in {"timer", "scenario", "range", "schedule"} : sc'.pending = <<io>>
  PROVE  ScenarioInv'
  <1>1. /\ sc' \in ScenarioState /\ sc'.left = sc.left /\ sc'.done = sc.done
        /\ sc'.played = <<>> \/ sc'.played = sc.played
    BY FreshIs DEF SameRun
  <1>2. ScenarioWell'
    BY <1>1 DEF ScenarioInv, ScenarioWell
  <1>3. <<>> # <<"timer">>
    OBVIOUS
  <1>4. DisabledIsStopped' /\ RestIsUntimed'
    BY <1>1 DEF ScenarioInv, DisabledIsStopped, RestIsUntimed, Halting
  <1>5. RunGoesOn'
    BY <1>1, <1>3 DEF ScenarioInv, RunGoesOn, Stepless
  <1>6. EndIsSeenOnce'
    <2>1. Len(sc'.played) <= 1 /\ (sc'.active /\ sc'.done => sc'.played = <<>>)
      BY <1>1 DEF ScenarioInv, EndIsSeenOnce
    <2> QED BY <2>1 DEF EndIsSeenOnce
  <1> QED BY <1>2, <1>4, <1>5, <1>6 DEF ScenarioInv

\* A client presses the button.
LEMMA SetScenarioKeeps ==
  ASSUME ScenarioInv, NEW on \in BOOLEAN, SetScenario(on)
  PROVE  ScenarioInv'
  <1>1. sc.pending = <<>> /\ sc' = PressButton(Fresh, on)
        /\ UNCHANGED <<scDef, scRules, scGate, scBusy, scEdited>>
    BY DEF SetScenario, Quiet
  <1>2. /\ Fresh \in ScenarioState /\ Fresh.pending = <<>> /\ Fresh.button = FALSE
        /\ Fresh.active = sc.active /\ Fresh.step = sc.step /\ Fresh.scheduled = sc.scheduled
    BY <1>1, FreshIs
  <1>3. \/ sc' = Fresh
        \/ /\ ~(on /\ Refuses) /\ SameRun(Fresh, sc') /\ sc'.pending = <<"scenario">>
           /\ sc'.button = on /\ sc'.active = Fresh.active /\ sc'.step = Fresh.step
    BY <1>1, <1>2, ButtonSignals
  <1>4. SameRun(Fresh, Fresh)
    BY <1>2 DEF SameRun
  <1>5. /\ SameRun(Fresh, sc') /\ sc'.active = sc.active /\ sc'.step = sc.step
        /\ sc'.pending = <<>> \/ sc'.pending = <<"scenario">>
    BY <1>2, <1>3, <1>4
  <1>6. sc'.scheduled = sc.scheduled
    BY <1>2, <1>5 DEF SameRun
  <1>7. Refuses' <=> Refuses
    BY <1>1, <1>6 DEF Refuses, Broken
  <1>8. PressWaits'
    <2>1. ASSUME sc'.button PROVE ~Refuses /\ Waits(sc, "scenario")'
      <3>1. ~Refuses /\ sc'.pending = <<"scenario">>
        BY <1>2, <1>3, <2>1
      <3>2. Len(sc'.pending) = 1 /\ sc'.pending[1] = "scenario" /\ 1 \in 1..1
        BY <3>1
      <3>3. Waits(sc, "scenario")'
        BY <3>2 DEF Waits
      <3> QED BY <3>1, <3>3
    <2> QED BY <1>7, <2>1 DEF PressWaits
  <1> QED BY <1>1, <1>5, <1>8, RunIsKept

\* A button that is not pressed
LEMMA Unpressed ==
  ASSUME sc'.button = FALSE
  PROVE  PressWaits'
  BY DEF PressWaits

\* The time range begins or ends.
LEMMA RangeChangesKeeps ==
  ASSUME ScenarioInv, RangeChanges
  PROVE  ScenarioInv'
  <1>1. sc.pending = <<>> /\ sc' = Signal([Fresh EXCEPT !.range = ~@], "range")
        /\ UNCHANGED <<scDef, scRules, scGate, scBusy, scEdited>>
    BY DEF RangeChanges, Quiet
  <1>2. /\ Fresh \in ScenarioState /\ Fresh.pending = <<>> /\ Fresh.button = FALSE
        /\ Fresh.active = sc.active /\ Fresh.step = sc.step
    BY <1>1, FreshIs
  <1>3. PICK q \in Seq(ScenarioIO) : q = <<"range">>
    <2>1. "range" \in ScenarioIO
      BY DEF ScenarioIO
    <2> QED BY <2>1, OneSignal
  <1>4. Append(Fresh.pending, "range") = q
    BY <1>2, <1>3, FirstWaits
  <1>5. PICK r \in BOOLEAN : r = ~Fresh.range
    BY <1>2 DEF ScenarioState
  <1>6. sc' = [Fresh EXCEPT !.range = r, !.pending = q]
    <2> HIDE DEF Fresh
    <2> QED BY <1>1, <1>2, <1>4, <1>5 DEF Signal, ScenarioState
  <1>7. SameRun(Fresh, sc') /\ sc'.pending = q /\ sc'.button = FALSE
        /\ sc'.active = sc.active /\ sc'.step = sc.step
    BY <1>2, <1>6 DEF SameRun, ScenarioState
  <1>8. PressWaits'
    BY <1>7, Unpressed
  <1> QED BY <1>1, <1>3, <1>7, <1>8, RunIsKept

\* A client enables the schedule or disables it.
LEMMA SetScheduleKeeps ==
  ASSUME ScenarioInv, NEW on \in BOOLEAN, SetSchedule(on)
  PROVE  ScenarioInv'
  <1>1. sc.pending = <<>> /\ sc' = WriteIO(Fresh, To("schedule", on))
        /\ UNCHANGED <<scDef, scRules, scGate, scBusy, scEdited>>
    BY DEF SetSchedule, Quiet
  <1>2. /\ Fresh \in ScenarioState /\ Fresh.pending = <<>> /\ Fresh.button = FALSE
        /\ Fresh.active = sc.active /\ Fresh.step = sc.step
    BY <1>1, FreshIs
  <1>3. Signals(Fresh, sc', "schedule")
    BY <1>1, <1>2, ScheduleSignals
  <1>4. SameRun(Fresh, sc') /\ sc'.pending = <<"schedule">> /\ sc'.button = FALSE
        /\ sc'.active = sc.active /\ sc'.step = sc.step
    BY <1>2, <1>3 DEF Signals
  <1>5. PressWaits'
    BY <1>4, Unpressed
  <1> QED BY <1>1, <1>4, <1>5, RunIsKept

\* The timer of a step is over.
LEMMA TimerDoneKeeps ==
  ASSUME ScenarioInv, TimerDone
  PROVE  ScenarioInv'
  <1>1. Quiet /\ sc.pending = <<>>
        /\ sc' = Signal([Fresh EXCEPT !.left = NotRunning, !.done = TRUE], "timer")
        /\ UNCHANGED <<scDef, scRules, scGate, scBusy, scEdited>>
    BY DEF TimerDone, Quiet
  <1>2. /\ Fresh \in ScenarioState /\ Fresh.pending = <<>> /\ Fresh.button = FALSE
        /\ Fresh.active = sc.active /\ Fresh.step = sc.step /\ Fresh.played = <<>>
    BY <1>1, FreshIs
  <1>3. PICK q \in Seq(ScenarioIO) : q = <<"timer">>
    <2>1. "timer" \in ScenarioIO
      BY DEF ScenarioIO
    <2> QED BY <2>1, OneSignal
  <1>4. Append(Fresh.pending, "timer") = q
    BY <1>2, <1>3, FirstWaits
  <1>5. sc' = [Fresh EXCEPT !.left = NotRunning, !.done = TRUE, !.pending = q]
    <2> HIDE DEF Fresh
    <2> QED BY <1>1, <1>2, <1>4 DEF Signal, ScenarioState
  <1>6. /\ sc' \in ScenarioState /\ sc'.pending = q /\ sc'.button = FALSE /\ sc'.left = NotRunning
        /\ sc'.done = TRUE /\ sc'.active = sc.active /\ sc'.step = sc.step /\ sc'.played = <<>>
    BY <1>2, <1>5 DEF ScenarioState
  <1>7. ScenarioWell'
    BY <1>1, <1>6 DEF ScenarioInv, ScenarioWell
  <1>8. PressWaits'
    BY <1>6, Unpressed
  <1>9. DisabledIsStopped' /\ RestIsUntimed'
    BY <1>1, <1>6 DEF ScenarioInv, DisabledIsStopped, RestIsUntimed, Halting
  <1>10. RunGoesOn'
    BY <1>1, <1>3, <1>6 DEF ScenarioInv, RunGoesOn, Stepless
  <1>11. EndIsSeenOnce'
    <2>1. Len(sc'.played) = 0
      BY <1>6
    <2>2. \E io \in {"timer", "scenario", "range", "schedule"} : sc'.pending = <<io>>
      BY <1>3, <1>6
    <2> QED BY <1>6, <2>1, <2>2 DEF EndIsSeenOnce
  <1> QED BY <1>7, <1>8, <1>9, <1>10, <1>11 DEF ScenarioInv

\* Time passes.
LEMMA TickKeeps ==
  ASSUME ScenarioInv, ScenarioTick
  PROVE  ScenarioInv'
  <1>1. Quiet /\ sc.pending = <<>> /\ sc.left > 0 /\ sc' = [sc EXCEPT !.left = @ - 1]
        /\ UNCHANGED <<scDef, scRules, scGate, scBusy, scEdited>>
    BY DEF ScenarioTick, Quiet
  <1>2. sc \in ScenarioState
    BY DEF ScenarioInv, ScenarioWell
  <1>3. PICK left \in Nat : left = sc.left - 1 /\ left # NotRunning
    BY <1>1, <1>2 DEF ScenarioState, NotRunning
  <1>4. sc' = [sc EXCEPT !.left = left]
    BY <1>1, <1>2, <1>3
  <1>5. /\ sc' \in ScenarioState /\ sc'.pending = <<>> /\ sc'.button = sc.button /\ sc'.left = left
        /\ sc'.done = sc.done /\ sc'.active = sc.active /\ sc'.step = sc.step /\ sc'.played = sc.played
    BY <1>1, <1>2, <1>4 DEF ScenarioState
  <1>6. sc.left # NotRunning
    BY <1>1 DEF NotRunning
  <1>7. sc.button = FALSE /\ sc.active = TRUE /\ sc.done = FALSE
    BY <1>1, <1>2, <1>6, QuietIs DEF ScenarioState
  <1>8. ScenarioWell'
    BY <1>1, <1>5 DEF ScenarioInv, ScenarioWell
  <1>9. PressWaits'
    BY <1>5, <1>7, Unpressed
  <1>10. DisabledIsStopped' /\ RestIsUntimed'
    BY <1>1, <1>5, <1>7 DEF ScenarioInv, DisabledIsStopped, RestIsUntimed, Halting
  <1>11. RunGoesOn'
    BY <1>1, <1>3, <1>5 DEF ScenarioInv, RunGoesOn, Stepless
  <1>12. EndIsSeenOnce'
    BY <1>5, <1>7 DEF ScenarioInv, EndIsSeenOnce
  <1> QED BY <1>8, <1>9, <1>10, <1>11, <1>12 DEF ScenarioInv

\* A modification: the run that is under way is an edited one
LEMMA EditedKeeps ==
  ASSUME ScenarioInv, sc.pending = <<>>, sc.button = FALSE, NEW s \in ScenarioState,
         s = sc \/ s = Fresh, ~Halting, ~Halting',
         sc' = s \/ Signals(s, sc', "schedule"),
         scEdited' = sc.active, scGate' = scGate, ScenarioWell'
  PROVE  ScenarioInv'
  <1>1. /\ s.pending = <<>> /\ s.button = FALSE /\ s.active = sc.active /\ s.left = sc.left
        /\ s.done = sc.done
        /\ s.played = <<>> \/ s.played = sc.played
    BY FreshIs
  <1>2. /\ sc'.button = FALSE /\ sc'.active = sc.active /\ sc'.left = sc.left
        /\ sc'.done = sc.done
        /\ sc'.played = <<>> \/ sc'.played = sc.played
        /\ sc'.pending = <<>> \/ sc'.pending = <<"schedule">>
    BY <1>1 DEF Signals, SameRun
  <1>3. PressWaits'
    BY <1>2, Unpressed
  <1>4. RunGoesOn'
    BY <1>2 DEF RunGoesOn
  <1>5. DisabledIsStopped'
    BY <1>2 DEF ScenarioInv, DisabledIsStopped
  <1>6. RestIsUntimed'
    <2>1. /\ sc.done => sc.left = NotRunning
          /\ ~sc.active => sc.left = NotRunning
      BY DEF ScenarioInv, RestIsUntimed
    <2>2. scEdited' => sc'.active
      BY <1>2
    <2>3. sc'.done => sc'.left = NotRunning
      BY <1>2, <2>1
    <2>4. ~sc'.active => sc'.left = NotRunning
      BY <1>2, <2>1
    <2> QED BY <2>2, <2>3, <2>4 DEF RestIsUntimed
  <1>7. EndIsSeenOnce'
    <2>1. Len(sc'.played) <= 1 /\ (sc'.active /\ sc'.done => sc'.played = <<>>)
      <3>1. Len(sc.played) <= 1 /\ (sc.active /\ sc.done => sc.played = <<>>)
        BY DEF ScenarioInv, EndIsSeenOnce
      <3>2. CASE sc'.played = <<>>
        <4>1. Len(sc'.played) = 0
          BY <3>2
        <4> QED BY <3>2, <4>1
      <3>3. CASE sc'.played = sc.played
        BY <1>2, <3>1, <3>3
      <3> QED BY <1>2, <3>2, <3>3
    <2> QED BY <1>2, <2>1 DEF EndIsSeenOnce
  <1> QED BY <1>3, <1>4, <1>5, <1>6, <1>7 DEF ScenarioInv

\* A build of the rules leaves IOs of the same types,
LEMMA PreparedTypes ==
  ASSUME NEW s \in ScenarioState, s.pending = <<>>, NEW v \in BOOLEAN
  PROVE  Prepared(s, v) \in ScenarioState
  BY PreparedSignals DEF Signals, SameRun

RulesType == [steps : Seq(StepDef), final : BOOLEAN, cycle : BOOLEAN, off : SUBSET Nat]
\* and its rules are typed:
LEMMA GeneratedTypes ==
  ASSUME NEW d, d.steps \in Seq(StepDef), d.final \in BOOLEAN, d.cycle \in BOOLEAN,
         NEW missing \in BOOLEAN, NEW r, r = Generated(d, missing)
  PROVE  /\ r \in RulesType /\ r.steps = d.steps
         /\ r.off \subseteq DOMAIN r.steps \cup {0}
  <1> DEFINE off == IF ~missing THEN {}
                    ELSE {i \in DOMAIN d.steps : d.steps[i].uses} \cup {i \in {0} : d.final}
  <1>1. off \subseteq DOMAIN d.steps \cup {0}
    OBVIOUS
  <1>2. DOMAIN d.steps \subseteq Nat /\ 0 \in Nat
    OBVIOUS
  <1>3. off \in SUBSET Nat
    <2> HIDE DEF off
    <2> QED BY <1>1, <1>2
  <1>4. r = [steps |-> d.steps, cycle |-> d.cycle, final |-> d.final, off |-> off]
    BY DEF Generated
  <1> HIDE DEF off
  <1> QED BY <1>1, <1>3, <1>4 DEF RulesType

\* those there are, for one.
LEMMA RulesTypes ==
  ASSUME ScenarioWell
  PROVE  scRules \in RulesType /\ scRules.off \subseteq DOMAIN scRules.steps \cup {0}
  BY DEF ScenarioWell, RulesType

\* A modification begins.
LEMMA ModifyKeeps ==
  ASSUME ScenarioInv, NEW d \in Definitions, NEW enabled \in BOOLEAN, Modify(d, enabled)
  PROVE  ScenarioInv'
  <1>1. /\ Quiet /\ scBusy' = [at |-> "delete", def |-> d] /\ scDef' = Cleared(d)
        /\ sc' = Prepared(Fresh, enabled) /\ scEdited' = sc.active
        /\ scRules' = scRules /\ scGate' = scGate
    BY DEF Modify
  <1>2. /\ Fresh \in ScenarioState /\ Fresh.pending = <<>>
        /\ sc.pending = <<>> /\ sc.button = FALSE /\ ~Halting /\ ScenarioWell
    BY <1>1, FreshIs, QuietIs
  <1>3. sc' = Fresh \/ Signals(Fresh, sc', "schedule")
    BY <1>1, <1>2, PreparedSignals
  <1>4. sc' \in ScenarioState
    BY <1>1, <1>2, PreparedTypes
  <1>5. d \in ScenarioDef
    BY ScenarioAssumption DEF ScenarioDef
  <1>6. Cleared(d) \in ScenarioDef
    <2>1. <<>> \in Seq(StepDef)
      OBVIOUS
    <2> QED BY <1>5, <2>1 DEF Cleared, ScenarioDef
  <1>7. scBusy' \in [at : Handler, def : ScenarioDef] /\ ~Halting'
    BY <1>1, <1>5 DEF Handler, Halting
  <1>8. sc.active \in BOOLEAN
    BY <1>2, StateIs
  <1>9. ScenarioWell'
    BY <1>1, <1>2, <1>4, <1>6, <1>7, <1>8 DEF ScenarioWell
  <1> QED BY <1>1, <1>2, <1>3, <1>7, <1>9, EditedKeeps

\* Its rules are deleted,
LEMMA RulesDeletedKeeps ==
  ASSUME ScenarioInv, RulesDeleted
  PROVE  ScenarioInv'
  <1>1. /\ scBusy.at = "delete" /\ sc.pending = <<>>
        /\ scRules' = Generated(scDef, scGate.missing) /\ scDef' = scBusy.def
        /\ scBusy' = [scBusy EXCEPT !.at = "rebuild"]
        /\ sc' = Prepared(sc, sc.schedule) /\ scEdited' = sc.active /\ scGate' = scGate
    BY DEF RulesDeleted
  <1>2. ScenarioWell /\ sc \in ScenarioState /\ sc.schedule \in BOOLEAN /\ sc.active \in BOOLEAN
        /\ scDef \in ScenarioDef /\ scGate.missing \in BOOLEAN /\ scBusy \in [at : Handler, def : ScenarioDef]
    BY StateIs DEF ScenarioInv, ScenarioWell
  <1>3. sc' = sc \/ Signals(sc, sc', "schedule")
    BY <1>1, <1>2, PreparedSignals
  <1>4. sc' \in ScenarioState
    BY <1>1, <1>2, PreparedTypes
  <1>5. sc.button = FALSE
    BY <1>1, FreshIs
  <1>6. scRules' \in RulesType /\ scRules'.off \subseteq DOMAIN scRules'.steps \cup {0}
    <2>1. scDef.steps \in Seq(StepDef) /\ scDef.final \in BOOLEAN /\ scDef.cycle \in BOOLEAN
      BY <1>2 DEF ScenarioDef
    <2> QED BY <1>1, <1>2, <2>1, GeneratedTypes
  <1>7. scBusy' \in [at : Handler, def : ScenarioDef] /\ scBusy.def \in ScenarioDef
        /\ ~Halting /\ ~Halting'
    BY <1>1, <1>2 DEF Handler, Halting
  <1>8. ScenarioWell'
    BY <1>1, <1>2, <1>4, <1>6, <1>7 DEF ScenarioWell, RulesType
  <1> QED BY <1>1, <1>2, <1>3, <1>5, <1>7, <1>8, EditedKeeps

\* and built again.
LEMMA RulesRebuiltKeeps ==
  ASSUME ScenarioInv, RulesRebuilt
  PROVE  ScenarioInv'
  <1>1. /\ scBusy.at = "rebuild" /\ sc.pending = <<>>
        /\ scRules' = Generated(scDef, scGate.missing)
        /\ scBusy' = [scBusy EXCEPT !.at = "none"]
        /\ scEdited' = sc.active /\ scGate' = scGate /\ sc' = sc /\ scDef' = scDef
    BY DEF RulesRebuilt
  <1>2. ScenarioWell /\ sc \in ScenarioState /\ sc.active \in BOOLEAN
        /\ scDef \in ScenarioDef /\ scGate.missing \in BOOLEAN /\ scBusy \in [at : Handler, def : ScenarioDef]
    BY StateIs DEF ScenarioInv, ScenarioWell
  <1>5. sc.button = FALSE
    BY <1>1, FreshIs
  <1>6. scRules' \in RulesType /\ scRules'.off \subseteq DOMAIN scRules'.steps \cup {0}
    <2>1. scDef.steps \in Seq(StepDef) /\ scDef.final \in BOOLEAN /\ scDef.cycle \in BOOLEAN
      BY <1>2 DEF ScenarioDef
    <2> QED BY <1>1, <1>2, <2>1, GeneratedTypes
  <1>7. scBusy' \in [at : Handler, def : ScenarioDef] /\ ~Halting /\ ~Halting'
    BY <1>1, <1>2 DEF Handler, Halting
  <1>8. ScenarioWell'
    BY <1>1, <1>2, <1>6, <1>7 DEF ScenarioWell, RulesType
  <1> QED BY <1>1, <1>2, <1>5, <1>7, <1>8, EditedKeeps

\* The IO that steps write is deleted
LEMMA DeleteUserIOKeeps ==
  ASSUME ScenarioInv, DeleteUserIO
  PROVE  ScenarioInv'
  <1>1. Quiet /\ scRules' = Generated(scRules, TRUE) /\ scDef' = scDef
    BY DEF DeleteUserIO
  <1>2. /\ ScenarioWell /\ sc.pending = <<>> /\ sc.button = FALSE /\ ~Halting
        /\ sc.active /\ ~scEdited => scRules.off = {}
        /\ ~sc.active => sc.left = NotRunning /\ ~scEdited
        /\ sc.done => sc.left = NotRunning
        /\ scGate.disabled => ~sc.active
    BY <1>1, QuietIs
  <1>3. /\ sc \in ScenarioState /\ sc.active \in BOOLEAN /\ scDef \in ScenarioDef
        /\ scGate \in [disabled : BOOLEAN, missing : BOOLEAN]
        /\ scBusy \in [at : Handler, def : ScenarioDef] /\ scBusy.at = "none" /\ scEdited \in BOOLEAN
    BY <1>1, <1>2, StateIs DEF ScenarioWell, Quiet
  <1>4. scRules' \in RulesType /\ scRules'.off \subseteq DOMAIN scRules'.steps \cup {0}
        /\ scRules'.steps = scRules.steps
    <2>1. scRules.steps \in Seq(StepDef) /\ scRules.final \in BOOLEAN /\ scRules.cycle \in BOOLEAN
      BY <1>2, RulesTypes DEF RulesType
    <2> QED BY <1>1, <2>1, GeneratedTypes
  <1>5. /\ Fresh \in ScenarioState /\ Fresh.pending = <<>> /\ Fresh.button = FALSE
        /\ Fresh.active = sc.active /\ Fresh.left = sc.left /\ Fresh.done = sc.done
        /\ Fresh.played = <<>>
    BY <1>2, FreshIs
  <1>6. CASE StopBrokenRun(Fresh) /\ scEdited' = FALSE
    <2>1. /\ scGate' = [disabled |-> TRUE, missing |-> TRUE]
          /\ sc' = IF Fresh.active THEN WriteIO(Fresh, To("active", FALSE)) ELSE Fresh
          /\ scBusy' = [scBusy EXCEPT !.at = IF Fresh.active THEN "haltStep" ELSE "none"]
      BY <1>6 DEF StopBrokenRun
    <2>2. /\ sc' \in ScenarioState /\ sc'.button = FALSE /\ sc'.active = FALSE
          /\ sc'.left = sc.left /\ sc'.done = sc.done /\ sc'.played = <<>>
      <3>1. CASE sc.active
        <4>1. sc' = WriteIO(Fresh, To("active", FALSE))
          BY <1>5, <2>1, <3>1
        <4>2. ActiveGoes(Fresh, sc', FALSE)
          BY <1>5, <4>1, ActiveWritten
        <4> QED BY <1>5, <4>2 DEF ActiveGoes, Onward
      <3>2. CASE ~sc.active
        BY <1>3, <1>5, <2>1, <3>2
      <3> QED BY <3>1, <3>2
    <2>3. scBusy' \in [at : Handler, def : ScenarioDef] /\ (sc.active => Halting')
      BY <1>3, <1>5, <2>1 DEF Handler, Halting
    <2>4. scGate' \in [disabled : BOOLEAN, missing : BOOLEAN] /\ scGate'.disabled = TRUE
      BY <2>1
    <2>5. ScenarioWell'
      BY <1>1, <1>3, <1>4, <1>6, <2>2, <2>3, <2>4 DEF ScenarioWell, RulesType
    <2>6. PressWaits'
      BY <2>2, Unpressed
    <2>7. DisabledIsStopped'
      BY <2>2, <2>4 DEF DisabledIsStopped
    <2>8. RunGoesOn'
      BY <2>2 DEF RunGoesOn
    <2>9. RestIsUntimed'
      <3>1. sc'.left = NotRunning \/ Halting'
        BY <1>2, <1>3, <2>2, <2>3
      <3>2. (sc'.done => sc'.left = NotRunning) /\ ~scEdited'
        BY <1>2, <1>6, <2>2
      <3> QED BY <3>1, <3>2 DEF RestIsUntimed
    <2>10. EndIsSeenOnce'
      <3>1. Len(sc'.played) = 0
        BY <2>2
      <3> QED BY <2>2, <3>1 DEF EndIsSeenOnce
    <2> QED BY <2>5, <2>6, <2>7, <2>8, <2>9, <2>10 DEF ScenarioInv
  <1>7. CASE /\ ~Broken(scDef, scRules', TRUE) \/ scGate.disabled
             /\ scGate' = [scGate EXCEPT !.missing = TRUE]
             /\ UNCHANGED <<sc, scBusy, scEdited>>
    <2>1. sc' = sc /\ scBusy' = scBusy /\ scEdited' = scEdited
          /\ scGate' \in [disabled : BOOLEAN, missing : BOOLEAN] /\ scGate'.disabled = scGate.disabled
      BY <1>3, <1>7
    <2>2. sc.active => scRules'.off = {}
      <3>1. ~Broken(scDef, scRules', TRUE) => scRules'.off = {}
        BY DEF Broken
      <3> QED BY <1>2, <1>7, <3>1
    <2>3. ScenarioWell'
      BY <1>1, <1>3, <1>4, <2>1 DEF ScenarioWell, RulesType
    <2>4. PressWaits'
      BY <1>2, <2>1, Unpressed
    <2>5. DisabledIsStopped' /\ RestIsUntimed' /\ EndIsSeenOnce'
      BY <2>1 DEF ScenarioInv, DisabledIsStopped, RestIsUntimed, EndIsSeenOnce, Halting
    <2>6. RunGoesOn'
      BY <1>1, <1>4, <2>1, <2>2 DEF ScenarioInv, RunGoesOn, Stepless
    <2> QED BY <2>3, <2>4, <2>5, <2>6 DEF ScenarioInv
  <1> QED BY <1>6, <1>7 DEF DeleteUserIO

\* The run that is stopped gets the end step,
LEMMA HaltStepKeeps ==
  ASSUME ScenarioInv, HaltStep
  PROVE  ScenarioInv'
  <1>1. /\ scBusy.at = "haltStep" /\ sc.pending = <<>> /\ sc' = WriteIO(sc, To("step", EndStep))
        /\ scBusy' = [scBusy EXCEPT !.at = "haltTimer"]
        /\ scDef' = scDef /\ scRules' = scRules /\ scGate' = scGate /\ scEdited' = scEdited
    BY DEF HaltStep
  <1>2. ScenarioWell /\ sc \in ScenarioState /\ scBusy \in [at : Handler, def : ScenarioDef]
        /\ sc.active \in BOOLEAN
    BY StateIs DEF ScenarioInv, ScenarioWell
  <1>3. EndStep \in Nat \cup {EndStep} /\ sc.button = FALSE
    BY <1>1, FreshIs
  <1>4. StepGoes(sc, sc', EndStep)
    BY <1>1, <1>2, <1>3, StepWritten
  <1>5. /\ sc' \in ScenarioState /\ sc'.button = FALSE /\ sc'.active = sc.active /\ sc'.left = sc.left
        /\ sc'.done = sc.done /\ sc'.played = sc.played
    BY <1>3, <1>4 DEF StepGoes, Onward
  <1>6. scBusy' \in [at : Handler, def : ScenarioDef] /\ Halting /\ Halting'
    BY <1>1, <1>2 DEF Handler, Halting
  <1>7. scGate.disabled /\ sc.active = FALSE
    BY <1>2, <1>6 DEF ScenarioInv, DisabledIsStopped
  <1>8. ScenarioWell'
    BY <1>1, <1>2, <1>5, <1>6 DEF ScenarioWell
  <1>9. PressWaits'
    BY <1>5, Unpressed
  <1>10. DisabledIsStopped' /\ RunGoesOn'
    BY <1>1, <1>5, <1>7 DEF DisabledIsStopped, RunGoesOn
  <1>11. RestIsUntimed'
    BY <1>1, <1>5, <1>6 DEF ScenarioInv, RestIsUntimed
  <1>12. EndIsSeenOnce'
    BY <1>5, <1>7 DEF ScenarioInv, EndIsSeenOnce
  <1> QED BY <1>8, <1>9, <1>10, <1>11, <1>12 DEF ScenarioInv

\* and loses its timer.
LEMMA HaltTimerKeeps ==
  ASSUME ScenarioInv, HaltTimer
  PROVE  ScenarioInv'
  <1>1. /\ scBusy.at = "haltTimer" /\ sc.pending = <<>> /\ sc' = TimerStop(sc)
        /\ scBusy' = [scBusy EXCEPT !.at = "none"]
        /\ scDef' = scDef /\ scRules' = scRules /\ scGate' = scGate /\ scEdited' = scEdited
    BY DEF HaltTimer
  <1>2. ScenarioWell /\ sc \in ScenarioState /\ scBusy \in [at : Handler, def : ScenarioDef]
        /\ sc.active \in BOOLEAN
    BY StateIs DEF ScenarioInv, ScenarioWell
  <1>3. sc.button = FALSE
    BY <1>1, FreshIs
  <1>5. /\ sc' \in ScenarioState /\ sc'.button = FALSE /\ sc'.active = sc.active /\ sc'.left = NotRunning
        /\ sc'.done = FALSE /\ sc'.played = sc.played
    BY <1>1, <1>2, <1>3 DEF TimerStop, ScenarioState
  <1>6. scBusy' \in [at : Handler, def : ScenarioDef] /\ Halting /\ ~Halting'
    BY <1>1, <1>2 DEF Handler, Halting
  <1>7. scGate.disabled /\ sc.active = FALSE
    BY <1>2, <1>6 DEF ScenarioInv, DisabledIsStopped
  <1>8. ScenarioWell'
    BY <1>1, <1>2, <1>5, <1>6 DEF ScenarioWell
  <1>9. PressWaits'
    BY <1>5, Unpressed
  <1>10. DisabledIsStopped' /\ RunGoesOn'
    BY <1>1, <1>5, <1>7 DEF DisabledIsStopped, RunGoesOn
  <1>11. RestIsUntimed'
    BY <1>1, <1>5, <1>6 DEF ScenarioInv, RestIsUntimed
  <1>12. EndIsSeenOnce'
    BY <1>5, <1>7 DEF ScenarioInv, EndIsSeenOnce
  <1> QED BY <1>8, <1>9, <1>10, <1>11, <1>12 DEF ScenarioInv

\* The IO comes back, and the scenario may be enabled again.
LEMMA GateKeeps ==
  ASSUME ScenarioInv, CreateUserIO \/ TryReenable
  PROVE  ScenarioInv'
  <1>1. /\ Quiet /\ UNCHANGED <<sc, scDef, scRules, scBusy, scEdited>>
        /\ scGate' = [scGate EXCEPT !.missing = FALSE] \/ scGate' = [scGate EXCEPT !.disabled = FALSE]
    BY DEF CreateUserIO, TryReenable
  <1>2. ScenarioWell /\ sc.button = FALSE /\ ~Halting /\ (scGate.disabled => ~sc.active)
    BY <1>1, QuietIs
  <1>3. scGate \in [disabled : BOOLEAN, missing : BOOLEAN]
    BY <1>2 DEF ScenarioWell
  <1>4. scGate' \in [disabled : BOOLEAN, missing : BOOLEAN]
        /\ (scGate'.disabled => scGate.disabled)
    BY <1>1, <1>3
  <1>5. ScenarioWell'
    BY <1>1, <1>2, <1>4 DEF ScenarioWell
  <1>6. PressWaits'
    BY <1>1, <1>2, Unpressed
  <1>7. DisabledIsStopped'
    BY <1>1, <1>2, <1>4 DEF DisabledIsStopped, Halting
  <1>8. RunGoesOn' /\ RestIsUntimed' /\ EndIsSeenOnce'
    BY <1>1 DEF ScenarioInv, RunGoesOn, RestIsUntimed, EndIsSeenOnce, Halting, Stepless
  <1> QED BY <1>5, <1>6, <1>7, <1>8 DEF ScenarioInv

\* A scenario starts at rest.
LEMMA ScenarioStarts ==
  ASSUME ScenarioInit
  PROVE  ScenarioInv
  <1>1. /\ scDef \in Definitions /\ scRules = Generated(scDef, FALSE)
        /\ scGate = [disabled |-> FALSE, missing |-> FALSE]
        /\ scBusy = [at |-> "none", def |-> scDef] /\ scEdited = FALSE
    BY DEF ScenarioInit
  <1>2. /\ sc \in ScenarioState /\ sc.button = FALSE /\ sc.active = FALSE /\ sc.left = NotRunning
        /\ sc.played = <<>>
    <2>1. <<>> \in Seq(ScenarioIO) /\ <<>> \in Seq(Nat \cup {EndStep}) /\ 0 \in Nat
      OBVIOUS
    <2> QED BY <2>1 DEF ScenarioInit, ScenarioState
  <1>3. scDef \in ScenarioDef
    BY <1>1, ScenarioAssumption DEF ScenarioDef
  <1>4. scRules \in RulesType /\ scRules.off \subseteq DOMAIN scRules.steps \cup {0}
    <2>1. scDef.steps \in Seq(StepDef) /\ scDef.final \in BOOLEAN /\ scDef.cycle \in BOOLEAN
      BY <1>3 DEF ScenarioDef
    <2> QED BY <1>1, <2>1, GeneratedTypes
  <1>5. ScenarioWell
    BY <1>1, <1>2, <1>3, <1>4 DEF ScenarioWell, RulesType, Handler
  <1>6. PressWaits /\ DisabledIsStopped /\ RunGoesOn /\ RestIsUntimed
    BY <1>1, <1>2 DEF PressWaits, DisabledIsStopped, RunGoesOn, RestIsUntimed, Halting
  <1>7. EndIsSeenOnce
    <2>1. Len(sc.played) = 0
      BY <1>2
    <2> QED BY <1>2, <2>1 DEF EndIsSeenOnce
  <1> QED BY <1>5, <1>6, <1>7 DEF ScenarioInv

\* A step of a scenario.
LEMMA ScenarioKeeps ==
  ASSUME ScenarioInv, [ScenarioNext]_scVars
  PROVE  ScenarioInv'
  <1>1. CASE ScenarioClient
    BY <1>1, SetScenarioKeeps, SetScheduleKeeps, RangeChangesKeeps, ModifyKeeps,
       DeleteUserIOKeeps, GateKeeps DEF ScenarioClient
  <1>2. CASE ScenarioHandler
    BY <1>2, ExecuteKeeps, RulesDeletedKeeps, RulesRebuiltKeeps, HaltStepKeeps, HaltTimerKeeps
    DEF ScenarioHandler
  <1>3. CASE TimerDone \/ ScenarioTick
    BY <1>3, TimerDoneKeeps, TickKeeps
  <1>4. CASE UNCHANGED scVars
    BY <1>4 DEF scVars, ScenarioInv, ScenarioWell, PressWaits, DisabledIsStopped, RunGoesOn,
       RestIsUntimed, EndIsSeenOnce, Refuses, Broken, Waits, Halting, Stepless
  <1> QED BY <1>1, <1>2, <1>3, <1>4 DEF ScenarioNext, ScenarioCallback

\* What a scenario keeps says that it keeps time.
LEMMA ScenarioHolds ==
  ASSUME ScenarioInv
  PROVE  ScenarioTypeOK /\ ScenarioKeepsTime
  <1>1. ScenarioTypeOK
    BY DEF ScenarioInv, ScenarioWell, ScenarioState, ScenarioTypeOK
  <1>2. ASSUME Quiet
        PROVE  /\ ~sc.button /\ (sc.left # NotRunning => sc.active)
               /\ sc.active /\ ~scEdited => sc.left # NotRunning \/ Stepless
               /\ Len(sc.played) <= 1 /\ (scGate.disabled => ~sc.active)
    <2>1. Len(sc.played) <= 1
      BY DEF ScenarioInv, EndIsSeenOnce
    <2> QED BY <1>2, <2>1, QuietIs
  <1> QED BY <1>1, <1>2 DEF ScenarioKeepsTime

\* Whatever a scenario is defined as, modified into and scheduled for, and whenever
\* the IO that its steps write goes away and comes back: between two events a run
\* that has steps and was not modified has its timer, one end of a timer plays one
\* step at most, a disabled scenario does not run, and the button is released.
THEOREM ScenarioTellsTime == ScenarioSpec => [](ScenarioTypeOK /\ ScenarioKeepsTime)
  <1>1. ScenarioInit => ScenarioInv
    BY ScenarioStarts
  <1>2. ScenarioInv /\ [ScenarioNext]_scVars => ScenarioInv'
    BY ScenarioKeeps
  <1>3. ScenarioInv => ScenarioTypeOK /\ ScenarioKeepsTime
    BY ScenarioHolds
  <1> QED BY <1>1, <1>2, <1>3, PTL DEF ScenarioSpec
=============================================================================
