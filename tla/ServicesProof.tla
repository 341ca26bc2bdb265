---------------------------- MODULE ServicesProof ----------------------------
(***************************************************************************)
(* What the services keep for every value of their constants: the driver   *)
(* processes and the frames they send, the queue of a PLC, a player, the   *)
(* table of push tokens, the configuration files, the history thread and   *)
(* the clients that poll, one after the other, and last all the services   *)
(* together.                                                               *)
(***************************************************************************)
EXTENDS MCServices, ExternProc, ConnectionsProof, Inductions

-----------------------------------------------------------------------------
(* The driver processes.  That there is at most one child is not inductive: *)
(* a launch keeps it only if nothing runs when the launch is due, and the   *)
(* news of an exit is not the only thing that launches.  Quiet says what    *)
(* excludes a running child; Ramp says that when a failed kill armed the    *)
(* news twice, the count is above zero, so that both launches are held and  *)
(* the second makes the first obsolete.                                     *)

\* Whatever may lead to a launch, or follows an exit, excludes a child
Quiet == (~started \/ closing \/ notices > 0 \/ generation \in held)
            => Running = {}

\* Two pending launches are held ones
Ramp == notices > 1 => failures > 0

\* Before the first launch there is nothing to wait for
AtRest == ~started => notices = 0 /\ held = {} /\ ~closing

\* The generation of a running child is outdated iff terminate() signalled it
Attributed ==
  /\ signalled \subseteq Running
  /\ \A c \in Running : generation # mark[c] <=> c \in signalled

ChildInv == TypeOK /\ OneChild /\ Quiet /\ Ramp /\ AtRest /\ Attributed /\ StillPending

-----------------------------------------------------------------------------
\* The count of failures is zero after exactly the ends that are no failure,
\* and it never leaves its range
LEMMA FailureCount ==
  ASSUME NEW n \in 0..MaxFailures, NEW end, NEW longRun \in BOOLEAN,
         NEW ours \in BOOLEAN
  PROVE  /\ NextFailureCount(n, end, longRun, ours) \in 0..MaxFailures
         /\ NextFailureCount(n, end, longRun, ours) = 0 <=> ~IsFailure(end, ours)
  BY ConstantsAssumption DEF NextFailureCount

\* The failure of a launch or of a kill counts
LEMMA FailedCounts ==
  ASSUME NEW n \in 0..MaxFailures, NEW ours \in BOOLEAN
  PROVE  /\ NextFailureCount(n, "failed", FALSE, ours) \in 0..MaxFailures
         /\ NextFailureCount(n, "failed", FALSE, ours) > 0
  BY ConstantsAssumption DEF NextFailureCount, IsFailure

\* A bump makes every captured generation an older one
LEMMA BumpIsFresh ==
  ASSUME Bump
  PROVE  /\ generation' \in Generations
         /\ generation' # generation
         /\ generation' \notin held
         /\ \A c \in Running : generation' # mark[c]
  BY DEF Bump, NextGeneration, Captured

\* The handle of a new child is one of the free ones
LEMMA NewHandleIsFree ==
  ASSUME \E c \in Children : Free(c)
  PROVE  NewHandle \in Children /\ Free(NewHandle)
  BY DEF NewHandle

\* A launch that is due while nothing runs keeps the invariant
LEMMA SpawnKeeps ==
  ASSUME ChildInv, Running = {}, SpawnProcess(generation', 0),
         generation' \in Generations,
         held' \in SUBSET Generations, generation' \notin held',
         started' = TRUE, closing' = FALSE,
         UNCHANGED <<linkVars, terminates, cancelled>>
  PROVE  ChildInv'
  <1> DEFINE Launched ==
         /\ \E c \in Children : Free(c)
         /\ proc' = [proc EXCEPT ![NewHandle] = "alive"]
         /\ mark' = [mark EXCEPT ![NewHandle] = generation']
         /\ handle' = NewHandle
         /\ notices' = 0
         /\ UNCHANGED <<signalled, failures>>
  <1>1. CASE Launched
    <2>1. NewHandle \in Children
      BY <1>1, NewHandleIsFree
    <2>2. Running' = {NewHandle}
      BY <1>1, <2>1 DEF Running, ChildInv, TypeOK
    <2>3. TypeOK'
      BY <1>1, <2>1 DEF ChildInv, TypeOK, linkVars
    <2>4. OneChild' /\ Quiet' /\ Ramp' /\ AtRest'
      BY <1>1, <2>2 DEF OneChild, Quiet, Ramp, AtRest
    <2>5. Attributed'
      BY <1>1, <2>1, <2>2 DEF ChildInv, Attributed, TypeOK
    <2>6. StillPending'
      BY <2>2 DEF StillPending
    <2> QED BY <2>3, <2>4, <2>5, <2>6 DEF ChildInv
  <1> DEFINE Missed ==
         /\ failures' = NextFailureCount(failures, "failed", FALSE, FALSE)
         /\ notices' = 0 + 1
         /\ handle' = None
         /\ UNCHANGED <<proc, mark, signalled>>
  <1>2. CASE Missed
    <2>1. notices' = 1
      BY <1>2
    <2>2. failures' \in 0..MaxFailures
      BY <1>2, FailedCounts DEF ChildInv, TypeOK
    <2>3. Running' = {}
      BY <1>2 DEF Running
    <2>4. TypeOK'
      <3>1. handle' \in Children \cup {None} /\ notices' \in Nat
        BY <1>2, <2>1
      <3>2. UNCHANGED <<proc, mark, signalled>>
        BY <1>2
      <3> QED BY <2>2, <3>1, <3>2 DEF ChildInv, TypeOK, linkVars
    <2>5. OneChild' /\ Quiet' /\ Ramp' /\ AtRest' /\ StillPending'
      BY <2>1, <2>3 DEF OneChild, Quiet, Ramp, AtRest, StillPending
    <2>6. Attributed'
      BY <1>2, <2>3 DEF ChildInv, Attributed
    <2> QED BY <2>4, <2>5, <2>6 DEF ChildInv
  <1>3. Launched \/ Missed
    BY DEF SpawnProcess
  <1> QED BY <1>1, <1>2, <1>3

\* startProcess keeps it when nothing runs, held or not
LEMMA LaunchKeeps ==
  ASSUME ChildInv, Running = {}, ~closing, started' = TRUE,
         NEW armed \in Nat, StartProcess(armed),
         armed < notices \/ armed = 0,
         notices > 1 => failures > 0, armed > 0 => notices > 1
  PROVE  ChildInv'
  <1>1. /\ generation' \in Generations /\ generation' \notin held
    BY BumpIsFresh DEF StartProcess
  <1>2. UNCHANGED <<closing, linkVars, terminates, cancelled>>
    BY DEF StartProcess
  <1>3. CASE IsHeld(failures)
    <2>1. /\ held' = held \cup {generation'}
          /\ notices' = armed
          /\ UNCHANGED <<childVars, failures>>
      BY <1>3 DEF StartProcess
    <2>2. Running' = {}
      BY <2>1 DEF Running, childVars
    <2>3. TypeOK'
      BY <1>1, <1>2, <2>1 DEF ChildInv, TypeOK, childVars, linkVars
    <2>4. OneChild' /\ Quiet' /\ Attributed'
      BY <2>1, <2>2 DEF OneChild, Quiet, Attributed, ChildInv, childVars
    <2>5. Ramp' /\ AtRest' /\ StillPending'
      BY <1>3, <2>1 DEF Ramp, AtRest, StillPending, IsHeld
    <2> QED BY <2>3, <2>4, <2>5 DEF ChildInv
  <1>4. CASE ~IsHeld(failures)
    <2>1. held' = held /\ SpawnProcess(generation', armed)
      BY <1>4 DEF StartProcess
    <2>2. armed = 0
      BY <1>4 DEF IsHeld, ChildInv, TypeOK
    <2> QED BY <1>1, <1>2, <2>1, <2>2, SpawnKeeps DEF ChildInv, TypeOK
  <1> QED BY <1>3, <1>4

-----------------------------------------------------------------------------
\* A constructed server satisfies the invariant
THEOREM ChildInitial == Init => ChildInv
  <1> SUFFICES ASSUME Init PROVE ChildInv
    OBVIOUS
  <1>1. Running = {}
    BY DEF Init, Running
  <1>2. TypeOK
    <2>1. failures \in 0..MaxFailures /\ terminates \in 0..MaxTerminates
      BY ConstantsAssumption DEF Init
    <2>2. generation \in Generations /\ mark \in [Children -> Generations]
      BY ConstantsAssumption DEF Init
    <2> QED BY <2>1, <2>2 DEF Init, TypeOK
  <1>3. OneChild /\ Quiet /\ Attributed
    BY <1>1 DEF Init, OneChild, Quiet, Attributed
  <1>4. Ramp /\ AtRest /\ StillPending
    BY DEF Init, Ramp, AtRest, StillPending
  <1> QED BY <1>2, <1>3, <1>4 DEF ChildInv

\* A step that leaves the children, the generation and what is pending alone
LEMMA OthersKeep ==
  ASSUME ChildInv, TypeOK', UNCHANGED <<started, handle, mark, signalled, generation,
                                   failures, notices, held, cancelled>>,
         Running' = Running, closing' => closing
  PROVE  ChildInv'
  <1>1. OneChild' /\ Quiet'
    BY DEF ChildInv, OneChild, Quiet
  <1>2. Ramp' /\ AtRest'
    BY DEF ChildInv, Ramp, AtRest
  <1>3. Attributed' /\ StillPending'
    BY DEF ChildInv, Attributed, StillPending
  <1> QED BY <1>1, <1>2, <1>3 DEF ChildInv

\* The death of the child changes nothing the server sees
LEMMA DieKeeps ==
  ASSUME ChildInv, NEW c \in Children, NEW end \in Fates, Die(c, end)
  PROVE  ChildInv'
  <1>1. Running' = Running
    BY DEF Die, Running, ChildInv, TypeOK, Fates
  <1>2. TypeOK'
    BY DEF Die, ChildInv, TypeOK, linkVars
  <1> QED BY <1>1, <1>2, OthersKeep DEF Die

\* The connections never touch what launches depend on
LEMMA LinksKeep ==
  ASSUME ChildInv, Links
  PROVE  ChildInv'
  <1>1. Running' = Running
    BY DEF Links, Running, childVars
  <1>2. link' \in [Children -> {"unused", "open", "stopped", "failing", "closing", "shut"}]
    <2>1. CASE SendMessage
      BY <2>1 DEF SendMessage, ChildInv, TypeOK
    <2>2. ASSUME NEW c \in Children,
                 Connect(c) \/ LinkEnds(c) \/ FramingError(c) \/ LinkClosed(c)
          PROVE  link' \in [Children -> {"unused", "open", "stopped", "failing", "closing", "shut"}]
      BY <2>2 DEF Connect, LinkEnds, FramingError, LinkClosed, ChildInv, TypeOK
    <2> QED BY <2>1, <2>2 DEF Links
  <1>3. client' \in Children \cup {None}
    BY DEF Links, SendMessage, Connect, LinkEnds, FramingError, LinkClosed, ChildInv, TypeOK
  <1>4. TypeOK'
    BY <1>2, <1>3 DEF Links, ChildInv, TypeOK, childVars
  <1> QED BY <1>1, <1>4, OthersKeep DEF Links, childVars

\* The exit of the child leaves nothing running and the news armed
LEMMA ExitKeeps ==
  ASSUME ChildInv, NEW c \in Children, NEW longRun \in BOOLEAN, ExitEvent(c, longRun)
  PROVE  ChildInv'
  <1>1. c \in Running
    BY DEF ExitEvent, Running, Fates
  <1>2. Running = {c}
    BY <1>1 DEF ChildInv, OneChild
  <1>3. Running' = {}
    BY <1>2 DEF ExitEvent, Running, ChildInv, TypeOK
  <1>4. notices' = 1 /\ started' = TRUE
    BY <1>2 DEF ExitEvent, ChildInv, Quiet, TypeOK
  <1>5. failures' \in 0..MaxFailures
    BY FailureCount DEF ExitEvent, ChildInv, TypeOK
  <1>6. TypeOK'
    BY <1>4, <1>5, ConstantsAssumption DEF ExitEvent, ChildInv, TypeOK
  <1>7. signalled' = {}
    BY <1>2 DEF ExitEvent, ChildInv, Attributed
  <1> QED BY <1>3, <1>4, <1>6, <1>7
          DEF ChildInv, OneChild, Quiet, Ramp, AtRest, Attributed, StillPending

\* terminate() makes what is pending obsolete and marks the running child
LEMMA TerminateKeeps ==
  ASSUME ChildInv, Terminate
  PROVE  ChildInv'
  <1>1. /\ generation' \in Generations /\ generation' \notin held
        /\ \A c \in Running : generation' # mark[c]
    BY BumpIsFresh DEF Terminate
  <1>2. Running' = Running
    BY DEF Terminate, Running
  <1>3. failures' \in 0..MaxFailures /\ notices' \in Nat /\ closing' \in BOOLEAN
    <2>1. CASE closing
      <3>1. failures \in 0..MaxFailures /\ notices \in Nat
        BY DEF ChildInv, TypeOK
      <3>2. /\ failures' = NextFailureCount(failures, "failed", FALSE, TRUE)
            /\ notices' = notices + 1
            /\ closing' = FALSE
        BY <2>1 DEF Terminate
      <3>3. failures' \in 0..MaxFailures
        BY <3>1, <3>2, FailedCounts
      <3>4. notices' \in Nat
        BY <3>1, <3>2
      <3>5. closing' \in BOOLEAN
        BY <3>2
      <3> QED BY <3>3, <3>4, <3>5
    <2>2. CASE ~closing
      BY <2>2 DEF Terminate, ChildInv, TypeOK
    <2> QED BY <2>1, <2>2
  <1>4. TypeOK'
    <2>1. terminates' \in 0..MaxTerminates
      BY ConstantsAssumption DEF Terminate, ChildInv, TypeOK
    <2>2. signalled' \in SUBSET Children /\ cancelled' \in BOOLEAN
      BY DEF Terminate, ChildInv, TypeOK, Running
    <2>3. link' \in [Children -> {"unused", "open", "stopped", "failing", "closing", "shut"}]
      BY DEF Terminate, ChildInv, TypeOK
    <2> QED BY <1>1, <1>3, <2>1, <2>2, <2>3 DEF Terminate, ChildInv, TypeOK
  <1>5. OneChild' /\ AtRest'
    BY <1>2 DEF Terminate, ChildInv, OneChild, AtRest
  <1>6. notices' > 0 => notices > 0 \/ closing
    BY DEF Terminate, ChildInv, TypeOK
  <1>7. Quiet'
    BY <1>1, <1>2, <1>6 DEF Terminate, ChildInv, Quiet
  <1>8. Ramp'
    <2>1. CASE closing
      BY <2>1, FailedCounts DEF Terminate, ChildInv, TypeOK, Ramp
    <2>2. CASE ~closing
      BY <2>2 DEF Terminate, ChildInv, Ramp
    <2> QED BY <2>1, <2>2
  <1>9. Attributed'
    BY <1>1, <1>2 DEF Terminate, ChildInv, Attributed, OneChild
  <1>10. StillPending'
    <2>1. CASE closing
      <3>1. notices' = notices + 1 /\ notices \in Nat
        BY <2>1 DEF Terminate, ChildInv, TypeOK
      <3>2. notices' > 0
        BY <3>1
      <3> QED BY <3>2 DEF StillPending
    <2>2. CASE ~closing
      <3>1. UNCHANGED <<started, notices>>
        BY <2>2 DEF Terminate
      <3>2. CASE generation \in held /\ notices = 0
        BY <3>2 DEF Terminate, StillPending
      <3>3. CASE notices > 0
        BY <3>1, <3>3 DEF StillPending
      <3>4. CASE generation \notin held /\ ~(notices > 0)
        BY <1>2, <3>1, <3>4 DEF Terminate, ChildInv, StillPending
      <3> QED BY <3>2, <3>3, <3>4 DEF ChildInv, TypeOK
    <2> QED BY <2>1, <2>2
  <1> QED BY <1>4, <1>5, <1>7, <1>8, <1>9, <1>10 DEF ChildInv

\* Every callback keeps the invariant
THEOREM ChildStep == ChildInv /\ [Next]_vars => ChildInv'
  <1> SUFFICES ASSUME ChildInv, [Next]_vars PROVE ChildInv'
    OBVIOUS
  <1>1. CASE Start
    <2>1. /\ Running = {} /\ notices = 0 /\ ~closing /\ 0 \in Nat
      BY <1>1 DEF Start, ChildInv, Quiet, AtRest
    <2> QED BY <1>1, <2>1, LaunchKeeps DEF Start
  <1>2. CASE ProcessExited
    <2>1. /\ Running = {} /\ ~closing /\ notices > 0
      BY <1>2 DEF ProcessExited, TimersDue, ChildInv, Quiet
    <2>2. started
      BY <2>1 DEF ChildInv, AtRest, TypeOK
    <2>3. started' = TRUE
      BY <1>2, <2>2 DEF ProcessExited, ChildInv, TypeOK
    <2>4. /\ notices - 1 \in Nat /\ notices - 1 < notices
          /\ notices - 1 > 0 => notices > 1
          /\ notices > 1 => failures > 0
      BY <2>1 DEF ChildInv, TypeOK, Ramp
    <2> QED BY <1>2, <2>1, <2>3, <2>4, LaunchKeeps DEF ProcessExited
  <1>3. ASSUME NEW g \in held, HoldEnds(g) PROVE ChildInv'
    <2>1. CASE g = generation
      <3>1. Running = {} /\ ~closing /\ notices = 0
        BY <1>3, <2>1 DEF HoldEnds, TimersDue, ChildInv, Quiet
      <3>2. started' = TRUE
        BY <1>3, <2>1 DEF HoldEnds, ChildInv, AtRest, TypeOK
      <3>3. /\ generation' = generation /\ generation' \notin held'
            /\ held' \in SUBSET Generations /\ closing' = FALSE
        BY <1>3, <2>1, <3>1 DEF HoldEnds, ChildInv, TypeOK
      <3>4. SpawnProcess(generation', 0)
        BY <1>3, <2>1, <3>1, <3>3 DEF HoldEnds
      <3>5. UNCHANGED <<linkVars, terminates, cancelled>>
        BY <1>3 DEF HoldEnds
      <3>6. generation' \in Generations
        BY <3>3 DEF ChildInv, TypeOK
      <3> QED BY <3>1, <3>2, <3>3, <3>4, <3>5, <3>6, SpawnKeeps
    <2>2. CASE g # generation
      <3>1. /\ UNCHANGED <<started, closing, childVars, generation, failures,
                           notices, linkVars, terminates, cancelled>>
            /\ held' \subseteq held
            /\ generation \in held' <=> generation \in held
        BY <1>3, <2>2 DEF HoldEnds
      <3>2. Running' = Running
        BY <3>1 DEF Running, childVars
      <3>3. TypeOK'
        BY <3>1 DEF ChildInv, TypeOK, childVars, linkVars
      <3>4. OneChild' /\ Quiet' /\ Ramp'
        BY <3>1, <3>2 DEF ChildInv, OneChild, Quiet, Ramp, childVars
      <3>5. AtRest' /\ Attributed' /\ StillPending'
        BY <3>1, <3>2 DEF ChildInv, AtRest, Attributed, StillPending, childVars
      <3> QED BY <3>3, <3>4, <3>5 DEF ChildInv
    <2> QED BY <2>1, <2>2
  <1>4. ASSUME NEW c \in Children, NEW end \in Fates, Die(c, end) PROVE ChildInv'
    BY <1>4, DieKeeps
  <1>5. ASSUME NEW c \in Children, NEW longRun \in BOOLEAN, ExitEvent(c, longRun)
        PROVE  ChildInv'
    BY <1>5, ExitKeeps
  <1>6. CASE TurnEnds
    <2>1. Running' = Running
      BY <1>6 DEF TurnEnds, Running, childVars
    <2>2. TypeOK'
      BY <1>6 DEF TurnEnds, ChildInv, TypeOK, childVars, linkVars
    <2> QED BY <1>6, <2>1, <2>2, OthersKeep DEF TurnEnds, childVars
  <1>7. CASE Terminate
    BY <1>7, TerminateKeeps
  <1>8. CASE Links
    BY <1>8, LinksKeep
  <1>9. CASE UNCHANGED vars
    <2>1. Running' = Running
      BY <1>9 DEF vars, Running, childVars
    <2>2. TypeOK'
      BY <1>9 DEF vars, ChildInv, TypeOK, childVars, linkVars
    <2> QED BY <1>9, <2>1, <2>2, OthersKeep DEF vars, childVars
  <1> QED BY <1>1, <1>2, <1>3, <1>4, <1>5, <1>6, <1>7, <1>8, <1>9 DEF Next

\* The invariant holds in every state
THEOREM ChildInvariance == Spec => []ChildInv
  <1> QED BY ChildInitial, ChildStep, PTL DEF Spec

\* Every variable keeps its type
THEOREM ChildTypes == Spec => []TypeOK
  <1>1. ChildInv => TypeOK
    BY DEF ChildInv
  <1> QED BY <1>1, ChildInvariance, PTL

\* At most one child runs and process_exe names it, so that terminate() and
\* the destructor reach whatever runs
THEOREM AtMostOneChild == Spec => []OneChild
  <1>1. ChildInv => OneChild
    BY DEF ChildInv
  <1> QED BY <1>1, ChildInvariance, PTL

\* The launch is lost only when terminate() withdraws it
THEOREM LaunchStaysPending == Spec => []StillPending
  <1>1. ChildInv => StillPending
    BY DEF ChildInv
  <1> QED BY <1>1, ChildInvariance, PTL

\* The end of a child resets the count exactly if it was no failure, and a
\* SIGTERM was ours exactly if terminate() signalled that child
THEOREM EndsAreAttributed == Spec => StopsAreAttributed
  <1> DEFINE Exact ==
         \A c \in Children :
            (proc[c] \in Fates /\ proc'[c] = "none")
               => (failures' = 0 <=> ~IsFailure(proc[c], c \in signalled))
  <1>1. ChildInv /\ [Next]_vars => [Exact]_vars
    <2> SUFFICES ASSUME ChildInv, Next, NEW c \in Children,
                        proc[c] \in Fates, proc'[c] = "none"
                 PROVE  failures' = 0 <=> ~IsFailure(proc[c], c \in signalled)
      OBVIOUS
    <2>1. c \in Running
      BY DEF Running, Fates
    <2>2. ASSUME NEW longRun \in BOOLEAN, ExitEvent(c, longRun)
          PROVE  failures' = 0 <=> ~IsFailure(proc[c], c \in signalled)
      <3>1. generation # mark[c] <=> c \in signalled
        BY <2>1 DEF ChildInv, Attributed
      <3>2. PICK ours \in BOOLEAN : ours = (generation # mark[c])
        OBVIOUS
      <3>3. failures' = NextFailureCount(failures, proc[c], longRun, ours)
        BY <2>2, <3>2 DEF ExitEvent
      <3>4. failures \in 0..MaxFailures
        BY DEF ChildInv, TypeOK
      <3>5. failures' = 0 <=> ~IsFailure(proc[c], ours)
        BY <3>3, <3>4, FailureCount
      <3>6. IsFailure(proc[c], ours) <=> IsFailure(proc[c], c \in signalled)
        BY <3>1, <3>2 DEF IsFailure
      <3> QED BY <3>5, <3>6
    <2>3. ASSUME NEW d \in Children, NEW longRun \in BOOLEAN, ExitEvent(d, longRun)
          PROVE  d = c
      <3>1. proc'[c] # proc[c]
        BY DEF Fates
      <3> QED BY <2>3, <3>1 DEF ExitEvent, ChildInv, TypeOK
    <2>4. Running = {} => FALSE
      BY <2>1
    <2>5. ~(proc' = proc)
      BY DEF Fates
    <2>6. ~Start /\ ~ProcessExited
      BY <2>1 DEF Start, ProcessExited, ChildInv, Quiet
    <2>7. ASSUME NEW g \in held, HoldEnds(g) PROVE FALSE
      <3>1. CASE g = generation
        BY <2>1, <2>7, <3>1 DEF ChildInv, Quiet
      <3>2. CASE g # generation
        BY <2>5, <2>7, <3>2 DEF HoldEnds, childVars
      <3> QED BY <3>1, <3>2
    <2>8. ASSUME NEW d \in Children, NEW end \in Fates, Die(d, end) PROVE FALSE
      BY <2>8 DEF Die, ChildInv, TypeOK, Fates
    <2>9. ~TurnEnds /\ ~Terminate /\ ~Links
      BY <2>5 DEF TurnEnds, Terminate, Links, childVars
    <2> QED BY <2>2, <2>3, <2>6, <2>7, <2>8, <2>9 DEF Next
  <1>2. QED BY <1>1, ChildInvariance, PTL DEF Spec, StopsAreAttributed

\* The running child, once connected, is the client or there is none: only a
\* connection makes a client, and a child that has not connected has none
THEOREM ClientIsCurrent == Spec => []NoStaleClient
  <1>1. Init => NoStaleClient
    BY DEF Init, NoStaleClient
  <1>2. ChildInv /\ NoStaleClient /\ [Next]_vars => NoStaleClient'
    <2> SUFFICES ASSUME ChildInv, NoStaleClient, [Next]_vars,
                        NEW c \in Children, proc'[c] = "alive", link'[c] = "open"
                 PROVE  client' \in {c, None}
      BY DEF NoStaleClient
    <2>1. ASSUME NEW armed, NEW g, SpawnProcess(g, armed), UNCHANGED linkVars
          PROVE  proc[c] = "alive" /\ link[c] = "open"
      <3>1. CASE UNCHANGED proc
        BY <2>1, <3>1 DEF linkVars
      <3>2. CASE ~UNCHANGED proc
        <4>1. /\ \E d \in Children : Free(d)
              /\ proc' = [proc EXCEPT ![NewHandle] = "alive"]
          BY <2>1, <3>2 DEF SpawnProcess
        <4>2. link[NewHandle] = "unused"
          BY <4>1, NewHandleIsFree DEF Free
        <4>3. c # NewHandle /\ link[c] = "open"
          BY <2>1, <4>2 DEF linkVars
        <4> QED BY <4>1, <4>3, NewHandleIsFree DEF ChildInv, TypeOK
      <3> QED BY <3>1, <3>2
    <2>2. ASSUME NEW armed, StartProcess(armed) PROVE client' \in {c, None}
      <3>1. UNCHANGED linkVars
        BY <2>2 DEF StartProcess
      <3>2. proc[c] = "alive" /\ link[c] = "open"
        <4>1. CASE IsHeld(failures)
          BY <2>2, <3>1, <4>1 DEF StartProcess, childVars, linkVars
        <4>2. CASE ~IsHeld(failures)
          BY <2>1, <2>2, <3>1, <4>2 DEF StartProcess
        <4> QED BY <4>1, <4>2
      <3> QED BY <3>1, <3>2 DEF NoStaleClient, linkVars
    <2>3. CASE Start
      BY <2>2, <2>3 DEF Start
    <2>4. CASE ProcessExited
      BY <2>2, <2>4 DEF ProcessExited
    <2>5. ASSUME NEW g \in held, HoldEnds(g) PROVE client' \in {c, None}
      <3>1. UNCHANGED linkVars
        BY <2>5 DEF HoldEnds
      <3>2. proc[c] = "alive" /\ link[c] = "open"
        <4>1. CASE g = generation
          BY <2>1, <2>5, <3>1, <4>1 DEF HoldEnds
        <4>2. CASE g # generation
          BY <2>5, <3>1, <4>2 DEF HoldEnds, childVars, linkVars
        <4> QED BY <4>1, <4>2
      <3> QED BY <3>1, <3>2 DEF NoStaleClient, linkVars
    <2>6. ASSUME NEW d \in Children, NEW end \in Fates, Die(d, end)
          PROVE  client' \in {c, None}
      <3>1. proc[c] = "alive"
        BY <2>6 DEF Die, ChildInv, TypeOK, Fates
      <3> QED BY <2>6, <3>1 DEF Die, linkVars, NoStaleClient
    <2>7. ASSUME NEW d \in Children, NEW longRun \in BOOLEAN, ExitEvent(d, longRun)
          PROVE  client' \in {c, None}
      <3>1. proc[c] = "alive" /\ link[c] = "open"
        BY <2>7 DEF ExitEvent, ChildInv, TypeOK
      <3> QED BY <2>7, <3>1 DEF ExitEvent, NoStaleClient
    <2>8. CASE TurnEnds
      BY <2>8 DEF TurnEnds, childVars, linkVars, NoStaleClient
    <2>9. CASE Terminate
      <3>1. link[c] = "open" /\ proc[c] = "alive"
        BY <2>9 DEF Terminate
      <3> QED BY <2>9, <3>1 DEF Terminate, NoStaleClient
    <2>10. CASE Links
      <3>1. proc[c] = "alive"
        BY <2>10 DEF Links, childVars
      <3>2. CASE SendMessage
        BY <3>1, <3>2 DEF SendMessage, NoStaleClient, ChildInv, TypeOK
      <3>3. ASSUME NEW d \in Children, Connect(d) PROVE client' \in {c, None}
        <4>1. d \in Running /\ c \in Running
          BY <3>1, <3>3 DEF Connect, Running
        <4>2. c = d
          BY <4>1 DEF ChildInv, OneChild
        <4> QED BY <3>3, <4>2 DEF Connect
      <3>4. ASSUME NEW d \in Children, LinkEnds(d) \/ FramingError(d)
            PROVE  client' \in {c, None}
        <4>1. link[c] = "open" /\ UNCHANGED client
          BY <3>4 DEF LinkEnds, FramingError, ChildInv, TypeOK
        <4> QED BY <3>1, <4>1 DEF NoStaleClient
      <3>5. ASSUME NEW d \in Children, LinkClosed(d) PROVE client' \in {c, None}
        BY <3>5 DEF LinkClosed
      <3> QED BY <2>10, <3>2, <3>3, <3>4, <3>5 DEF Links
    <2>11. CASE UNCHANGED vars
      BY <2>11 DEF vars, childVars, linkVars, NoStaleClient
    <2> QED BY <2>3, <2>4, <2>5, <2>6, <2>7, <2>8, <2>9, <2>10, <2>11 DEF Next
  <1> QED BY <1>1, <1>2, ChildInvariance, PTL DEF Spec

-----------------------------------------------------------------------------
(* Framing: what Decode computes.  A decoding goes on with fewer bytes, or *)
(* with the same bytes and no header, so it is defined on all of them.     *)

Bytes == Seq(Byte)
Lengths == Byte \cup {NoHeader}
At == Bytes \X Lengths
Left(at) == 2 * Len(at[1]) + (IF at[2] = NoHeader THEN 0 ELSE 1)

\* One step of Decode, which goes on with g
Reads(g, at) ==
  LET b == at[1]
      length == at[2]
  IN IF b = <<>> THEN Decoded(<<>>, b, length, FALSE)
     ELSE IF length = NoHeader
     THEN IF Len(b) < HeaderSize THEN Decoded(<<>>, b, NoHeader, FALSE)
          ELSE IF b[1] # TypeMessage THEN g[<<After(b, HeaderSize), NoHeader>>]
          ELSE IF TooLong(b[2]) THEN Decoded(<<>>, <<>>, NoHeader, TRUE)
          ELSE g[<<After(b, HeaderSize), b[2]>>]
     ELSE IF ~Complete(b, length) THEN Decoded(<<>>, b, length, FALSE)
     ELSE LET later == g[<<After(b, length), NoHeader>>]
          IN [later EXCEPT !.messages = <<SubSeq(b, 1, length)>> \o @]

\* What is left after some bytes
LEMMA AfterIs ==
  ASSUME NEW b \in Bytes, NEW n \in 0..Len(b)
  PROVE  /\ After(b, n) \in Bytes /\ Len(After(b, n)) = Len(b) - n
         /\ SubSeq(b, 1, n) \in Bytes /\ Len(SubSeq(b, 1, n)) = n
  <1>1. \A i \in 1..Len(b) : b[i] \in Byte
    BY DEF Bytes
  <1>2. Len(b) \in Nat /\ n \in Nat /\ n <= Len(b)
    BY DEF Bytes
  <1>3. SubSeq(b, n + 1, Len(b)) \in Seq(Byte)
        /\ Len(SubSeq(b, n + 1, Len(b))) = IF n + 1 <= Len(b) THEN Len(b) - (n + 1) + 1 ELSE 0
    <2>1. \A i \in (n + 1)..Len(b) : b[i] \in Byte
      BY <1>1, <1>2
    <2>2. n + 1 \in Int /\ Len(b) \in Int
      BY <1>2
    <2> QED BY <2>1, <2>2, SubSeqProperties
  <1>4. SubSeq(b, 1, n) \in Seq(Byte)
        /\ Len(SubSeq(b, 1, n)) = IF 1 <= n THEN n - 1 + 1 ELSE 0
    <2>1. \A i \in 1..n : b[i] \in Byte
      BY <1>1, <1>2
    <2>2. 1 \in Int /\ n \in Int
      BY <1>2
    <2> QED BY <2>1, <2>2, SubSeqProperties
  <1> QED BY <1>2, <1>3, <1>4 DEF After, Bytes

\* A decoding ends, or is refused; or it goes on past a header of another opcode, past
\* the header of a message, or past a message.
Halts(b, length) ==
  \/ b = <<>>
  \/ length = NoHeader /\ Len(b) < 2
  \/ length # NoHeader /\ Len(b) < length
Refuses(b, length) ==
  length = NoHeader /\ Len(b) >= 2 /\ b[1] = TypeMessage /\ TooLong(b[2])
Skips(b, length) == length = NoHeader /\ Len(b) >= 2 /\ b[1] # TypeMessage
Begins(b, length) ==
  /\ length = NoHeader /\ Len(b) >= 2 /\ b[1] = TypeMessage /\ ~TooLong(b[2])
  /\ b[2] \in Byte
Completes(b, length) == length \in Byte /\ b # <<>> /\ Len(b) >= length
LeadsTo(b, length, at) == at \in At /\ Left(at) < Left(<<b, length>>)

LEMMA ReadsCases ==
  ASSUME NEW b \in Bytes, NEW length \in Lengths
  PROVE  /\ \/ Halts(b, length) \/ Refuses(b, length) \/ Skips(b, length)
            \/ Begins(b, length) \/ Completes(b, length)
         /\ Halts(b, length) =>
              \A g : Reads(g, <<b, length>>) = Decoded(<<>>, b, length, FALSE)
         /\ Refuses(b, length) =>
              \A g : Reads(g, <<b, length>>) = Decoded(<<>>, <<>>, NoHeader, TRUE)
         /\ Skips(b, length) =>
              /\ LeadsTo(b, length, <<After(b, 2), NoHeader>>)
              /\ \A g : Reads(g, <<b, length>>) = g[<<After(b, 2), NoHeader>>]
         /\ Begins(b, length) =>
              /\ LeadsTo(b, length, <<After(b, 2), b[2]>>)
              /\ \A g : Reads(g, <<b, length>>) = g[<<After(b, 2), b[2]>>]
         /\ Completes(b, length) =>
              /\ LeadsTo(b, length, <<After(b, length), NoHeader>>)
              /\ \A g : Reads(g, <<b, length>>) =
                   [g[<<After(b, length), NoHeader>>] EXCEPT
                      !.messages = <<SubSeq(b, 1, length)>> \o @]
  <1>0. Len(b) \in Nat /\ NoHeader \in Lengths /\ Byte \subseteq Lengths /\ Byte \subseteq Nat
        /\ NoHeader \notin Byte
    BY DEF Bytes, Lengths, Byte, NoHeader
  <1>1. ASSUME Halts(b, length)
        PROVE  \A g : Reads(g, <<b, length>>) = Decoded(<<>>, b, length, FALSE)
    <2>1. CASE b = <<>>
      BY <2>1 DEF Reads
    <2>2. CASE b # <<>> /\ length = NoHeader /\ Len(b) < 2
      BY <2>2 DEF Reads, HeaderSize
    <2>3. CASE b # <<>> /\ length # NoHeader /\ Len(b) < length
      <3>1. ~Complete(b, length)
        BY <1>0, <2>3 DEF Complete, Lengths
      <3> QED BY <2>3, <3>1 DEF Reads
    <2> QED BY <1>1, <2>1, <2>2, <2>3 DEF Halts
  <1>2. ASSUME length = NoHeader, Len(b) >= 2
        PROVE  /\ b[2] \in Byte /\ b # <<>> /\ ~(Len(b) < HeaderSize)
               /\ LeadsTo(b, length, <<After(b, 2), NoHeader>>)
               /\ LeadsTo(b, length, <<After(b, 2), b[2]>>)
    <2>1. 2 \in 0..Len(b) /\ 2 \in 1..Len(b)
      BY <1>0, <1>2
    <2>2. After(b, 2) \in Bytes /\ Len(After(b, 2)) = Len(b) - 2
      BY <2>1, AfterIs
    <2>3. b[2] \in Byte /\ b # <<>>
      BY <2>1 DEF Bytes
    <2>4. Left(<<b, length>>) = 2 * Len(b)
      BY <1>0, <1>2 DEF Left
    <2>5. Left(<<After(b, 2), NoHeader>>) = 2 * (Len(b) - 2)
      BY <1>0, <2>2 DEF Left
    <2>6. Left(<<After(b, 2), b[2]>>) = 2 * (Len(b) - 2) + 1
      BY <1>0, <2>2, <2>3 DEF Left
    <2>7. <<After(b, 2), NoHeader>> \in At /\ <<After(b, 2), b[2]>> \in At
      BY <1>0, <2>2, <2>3 DEF At
    <2>8. /\ 2 * (Len(b) - 2) < 2 * Len(b)
          /\ 2 * (Len(b) - 2) + 1 < 2 * Len(b)
      BY <1>0
    <2> QED BY <1>0, <1>2, <2>3, <2>4, <2>5, <2>6, <2>7, <2>8 DEF LeadsTo, HeaderSize
  <1>3. ASSUME Refuses(b, length)
        PROVE  \A g : Reads(g, <<b, length>>) = Decoded(<<>>, <<>>, NoHeader, TRUE)
    BY <1>2, <1>3 DEF Refuses, Reads
  <1>4. ASSUME Skips(b, length)
        PROVE  /\ LeadsTo(b, length, <<After(b, 2), NoHeader>>)
               /\ \A g : Reads(g, <<b, length>>) = g[<<After(b, 2), NoHeader>>]
    BY <1>2, <1>4 DEF Skips, Reads, HeaderSize
  <1>5. ASSUME Begins(b, length)
        PROVE  /\ LeadsTo(b, length, <<After(b, 2), b[2]>>)
               /\ \A g : Reads(g, <<b, length>>) = g[<<After(b, 2), b[2]>>]
    BY <1>2, <1>5 DEF Begins, Reads, HeaderSize
  <1>6. ASSUME Completes(b, length)
        PROVE  /\ LeadsTo(b, length, <<After(b, length), NoHeader>>)
               /\ \A g : Reads(g, <<b, length>>) =
                    [g[<<After(b, length), NoHeader>>] EXCEPT
                       !.messages = <<SubSeq(b, 1, length)>> \o @]
    <2>1. length \in 0..Len(b) /\ length # NoHeader /\ b # <<>>
      BY <1>0, <1>6 DEF Completes
    <2>2. After(b, length) \in Bytes /\ Len(After(b, length)) = Len(b) - length
      BY <2>1, AfterIs
    <2>3. <<After(b, length), NoHeader>> \in At
      BY <1>0, <2>2 DEF At
    <2>4. Left(<<b, length>>) = 2 * Len(b) + 1
      BY <2>1 DEF Left
    <2>5. Left(<<After(b, length), NoHeader>>) = 2 * (Len(b) - length)
      BY <1>0, <2>2 DEF Left
    <2>6. 2 * (Len(b) - length) < 2 * Len(b) + 1
      BY <1>0, <2>1
    <2>7. Complete(b, length)
      BY <1>6 DEF Completes, Complete
    <2>8. \A g : Reads(g, <<b, length>>) =
                 [g[<<After(b, length), NoHeader>>] EXCEPT
                    !.messages = <<SubSeq(b, 1, length)>> \o @]
      BY <2>1, <2>7 DEF Reads
    <2> QED BY <2>3, <2>4, <2>5, <2>6, <2>8 DEF LeadsTo
  <1>7. \/ Halts(b, length) \/ Refuses(b, length) \/ Skips(b, length)
        \/ Begins(b, length) \/ Completes(b, length)
    <2>1. CASE length = NoHeader
      BY <1>0, <1>2, <2>1 DEF Halts, Refuses, Skips, Begins
    <2>2. CASE length # NoHeader
      <3>1. length \in Byte
        BY <2>2 DEF Lengths
      <3> QED BY <1>0, <2>2, <3>1 DEF Halts, Completes
    <2> QED BY <2>1, <2>2
  <1> QED BY <1>1, <1>3, <1>4, <1>5, <1>6, <1>7

\* What a step makes of a function depends on what has fewer left.
LEMMA ReadsAgree ==
  ASSUME NEW at \in At, NEW g, NEW h, \A y \in At : Left(y) < Left(at) => g[y] = h[y]
  PROVE  Reads(g, at) = Reads(h, at)
  <1>1. PICK b \in Bytes, length \in Lengths : at = <<b, length>>
    BY DEF At
  <1>2. \A y \in At : Left(y) < Left(<<b, length>>) => g[y] = h[y]
    BY <1>1
  <1> SUFFICES Reads(g, <<b, length>>) = Reads(h, <<b, length>>)
    BY <1>1
  <1>3. \A y \in At : LeadsTo(b, length, y) => g[y] = h[y]
    BY <1>2 DEF LeadsTo
  <1> DEFINE same == Reads(g, <<b, length>>) = Reads(h, <<b, length>>)
  <1>4. ASSUME Halts(b, length) PROVE same
    <2>1. \A f : Reads(f, <<b, length>>) = Decoded(<<>>, b, length, FALSE)
      BY <1>4, ReadsCases
    <2> QED BY <2>1
  <1>5. ASSUME Refuses(b, length) PROVE same
    <2>1. \A f : Reads(f, <<b, length>>) = Decoded(<<>>, <<>>, NoHeader, TRUE)
      BY <1>5, ReadsCases
    <2> QED BY <2>1
  <1>6. ASSUME Skips(b, length) PROVE same
    <2>1. /\ LeadsTo(b, length, <<After(b, 2), NoHeader>>)
          /\ \A f : Reads(f, <<b, length>>) = f[<<After(b, 2), NoHeader>>]
      BY <1>6, ReadsCases
    <2>2. <<After(b, 2), NoHeader>> \in At
      BY <2>1 DEF LeadsTo
    <2> QED BY <1>3, <2>1, <2>2
  <1>7. ASSUME Begins(b, length) PROVE same
    <2>1. /\ LeadsTo(b, length, <<After(b, 2), b[2]>>)
          /\ \A f : Reads(f, <<b, length>>) = f[<<After(b, 2), b[2]>>]
      BY <1>7, ReadsCases
    <2>2. <<After(b, 2), b[2]>> \in At
      BY <2>1 DEF LeadsTo
    <2> QED BY <1>3, <2>1, <2>2
  <1>8. ASSUME Completes(b, length) PROVE same
    <2>1. /\ LeadsTo(b, length, <<After(b, length), NoHeader>>)
          /\ \A f : Reads(f, <<b, length>>) =
                   [f[<<After(b, length), NoHeader>>] EXCEPT
                      !.messages = <<SubSeq(b, 1, length)>> \o @]
      BY <1>8, ReadsCases
    <2>2. <<After(b, length), NoHeader>> \in At
      BY <2>1 DEF LeadsTo
    <2> QED BY <1>3, <2>1, <2>2
  <1> QED BY <1>4, <1>5, <1>6, <1>7, <1>8, ReadsCases

\* A function that decodes whatever has at most n left
Decodes(g, n) == \A at \in At : Left(at) <= n => g[at] = Reads(g, at)

LEMMA LeftIsNatural == \A at \in At : Left(at) \in Nat
  <1>1. ASSUME NEW b \in Bytes, NEW length \in Lengths PROVE Left(<<b, length>>) \in Nat
    BY DEF Left, Bytes
  <1> QED BY <1>1 DEF At

\* Of some bytes, there are some with the least left.
LEMMA LeastLeft ==
  ASSUME NEW bad \in SUBSET At, bad # {}
  PROVE  \E y \in bad : \A z \in At : Left(z) < Left(y) => z \notin bad
  <1> DEFINE T == {Left(y) : y \in bad}
  <1>1. T \in SUBSET Nat /\ T # {}
    BY LeftIsNatural
  <1>2. PICK least \in T : \A m \in T : least <= m
    <2> HIDE DEF T
    <2> QED BY <1>1, Least
  <1>3. PICK y \in bad : Left(y) = least
    BY <1>2
  <1>4. ASSUME NEW z \in At, Left(z) < Left(y), z \in bad PROVE FALSE
    <2>1. Left(z) \in T
      BY <1>4
    <2>2. least <= Left(z)
      <3> HIDE DEF T
      <3> QED BY <1>2, <2>1
    <2>3. Left(z) \in Nat /\ Left(y) \in Nat
      BY LeftIsNatural
    <2> QED BY <1>3, <1>4, <2>2, <2>3
  <1> QED BY <1>4

\* There is one for every bound,
LEMMA SomeDecode == \A n \in Nat : \E g : Decodes(g, n)
  <1> SUFFICES ASSUME NEW n \in Nat PROVE \E g : Decodes(g, n)
    OBVIOUS
  <1> DEFINE S == {k \in 0..n : \E g : Decodes(g, k)}
  <1>1. ASSUME NEW g, NEW k \in Int, \A at \in At : Left(at) <= k - 1 => g[at] = Reads(g, at)
        PROVE  \E h : Decodes(h, k)
    <2> DEFINE h == [at \in At |-> Reads(g, at)]
    <2>1. \A at \in At : h[at] = Reads(g, at)
      OBVIOUS
    <2> HIDE DEF h
    <2>2. ASSUME NEW at \in At, Left(at) <= k PROVE h[at] = Reads(h, at)
      <3>1. ASSUME NEW y \in At, Left(y) < Left(at) PROVE g[y] = h[y]
        <4>1. Left(y) <= k - 1
          BY <2>2, <3>1, LeftIsNatural
        <4> QED BY <1>1, <2>1, <4>1
      <3>2. Reads(g, at) = Reads(h, at)
        BY <3>1, ReadsAgree
      <3> QED BY <2>1, <3>2
    <2>3. Decodes(h, k)
      BY <2>2 DEF Decodes
    <2> QED BY <2>3
  <1>2. 0 \in S
    <2>1. ASSUME NEW g PROVE \A at \in At : Left(at) <= 0 - 1 => g[at] = Reads(g, at)
      BY LeftIsNatural
    <2>2. \E h : Decodes(h, 0)
      BY <1>1, <2>1
    <2> QED BY <2>2
  <1>3. ASSUME NEW k \in 0..n, k \in S, k < n PROVE k + 1 \in S
    <2>1. PICK g : Decodes(g, k)
      BY <1>3
    <2>2. (k + 1) - 1 = k /\ k + 1 \in Int
      OBVIOUS
    <2>3. \A at \in At : Left(at) <= (k + 1) - 1 => g[at] = Reads(g, at)
      BY <2>1, <2>2 DEF Decodes
    <2>4. \E h : Decodes(h, k + 1)
      BY <1>1, <2>2, <2>3
    <2>5. k + 1 \in 0..n
      BY <1>3
    <2> QED BY <2>4, <2>5
  <1>4. n \in 0..n
    OBVIOUS
  <1>5. n \in S
    <2> HIDE DEF S
    <2> QED BY <1>2, <1>3, <1>4, Reaches
  <1> QED BY <1>5

\* and they agree.
LEMMA DecodesAgree ==
  ASSUME NEW n \in Nat, NEW k \in Nat, NEW g, NEW h, Decodes(g, n), Decodes(h, k),
         NEW at \in At, Left(at) <= n, Left(at) <= k
  PROVE  g[at] = h[at]
  <1> DEFINE bad == {y \in At : Left(y) <= n /\ Left(y) <= k /\ g[y] # h[y]}
  <1>1. SUFFICES ASSUME at \in bad PROVE FALSE
    OBVIOUS
  <1>2. bad \in SUBSET At /\ bad # {}
    BY <1>1
  <1>3. PICK y \in bad : \A z \in At : Left(z) < Left(y) => z \notin bad
    <2> HIDE DEF bad
    <2> QED BY <1>2, LeastLeft
  <1>4. y \in At /\ Left(y) <= n /\ Left(y) <= k /\ g[y] # h[y]
    BY <1>3
  <1>5. ASSUME NEW z \in At, Left(z) < Left(y) PROVE g[z] = h[z]
    <2>1. Left(z) <= n /\ Left(z) <= k
      BY <1>4, <1>5, LeftIsNatural
    <2>2. z \notin bad
      BY <1>3, <1>5
    <2> QED BY <2>1, <2>2
  <1>6. Reads(g, y) = Reads(h, y)
    BY <1>4, <1>5, ReadsAgree
  <1> QED BY <1>4, <1>6 DEF Decodes

\* Decode is defined on all bytes.
LEMMA DecodeIsDefined == \A at \in At : Decode[at] = Reads(Decode, at)
  <1> DEFINE Some(n) == CHOOSE g : Decodes(g, n)
             G == [at \in At |-> Some(Left(at))[at]]
             Is(g) == g = [at \in At |-> Reads(g, at)]
  <1>1. \A n \in Nat : Decodes(Some(n), n)
    BY SomeDecode
  <1> HIDE DEF Some
  <1>2. \A at \in At : G[at] = Some(Left(at))[at]
    OBVIOUS
  <1>3. G = [at \in At |-> G[at]]
    OBVIOUS
  <1> HIDE DEF G
  <1>4. ASSUME NEW at \in At PROVE G[at] = Reads(G, at)
    <2>1. PICK n \in Nat : n = Left(at)
      BY LeftIsNatural
    <2>2. Decodes(Some(n), n)
      BY <1>1
    <2>3. Some(n)[at] = Reads(Some(n), at)
      BY <2>1, <2>2 DEF Decodes
    <2>4. ASSUME NEW y \in At, Left(y) < Left(at) PROVE Some(n)[y] = G[y]
      <3>1. PICK k \in Nat : k = Left(y)
        BY LeftIsNatural
      <3>2. Decodes(Some(k), k) /\ Left(y) <= k /\ Left(y) <= n
        BY <1>1, <2>1, <2>4, <3>1
      <3>3. Some(n)[y] = Some(k)[y]
        BY <2>2, <3>2, DecodesAgree
      <3> QED BY <1>2, <3>1, <3>3
    <2>5. Reads(Some(n), at) = Reads(G, at)
      BY <2>4, ReadsAgree
    <2> QED BY <1>2, <2>1, <2>3, <2>5
  <1>5. Is(G)
    BY <1>3, <1>4
  <1>6. Decode = CHOOSE g : Is(g)
    BY DEF Decode, Reads, At, Bytes, Lengths
  <1>7. Is(Decode)
    <2> HIDE DEF Is
    <2> QED BY <1>5, <1>6
  <1> QED BY <1>7

\* What Decode gives
DecodeResult ==
  [messages : Seq(Bytes), rest : Bytes, length : 0..MaxPayload \cup {NoHeader},
   error : BOOLEAN]

LEMMA DecodeTypes ==
  ASSUME NEW b \in Bytes, NEW length \in 0..MaxPayload \cup {NoHeader}
  PROVE  Decode[<<b, length>>] \in DecodeResult
  <1> DEFINE Announced == 0..MaxPayload \cup {NoHeader}
             bad == {at \in At : at[2] \in Announced /\ Decode[at] \notin DecodeResult}
  <1>0. Announced \subseteq Lengths /\ NoHeader \in Announced
        /\ MaxPayload \in Nat /\ NoHeader \notin 0..MaxPayload
    BY FramingAssumption DEF Lengths, Byte, NoHeader
  <1> HIDE DEF bad, Announced
  <1>1. ASSUME bad # {} PROVE FALSE
    <2>1. bad \in SUBSET At
      BY DEF bad
    <2>2. PICK at \in bad : \A y \in At : Left(y) < Left(at) => y \notin bad
      BY <1>1, <2>1, LeastLeft
    <2>3. PICK c \in Bytes, l \in Announced : at = <<c, l>>
      BY <2>2 DEF bad, At
    <2>4. l \in Lengths /\ <<c, l>> \in At /\ Decode[<<c, l>>] \notin DecodeResult
      BY <1>0, <2>2, <2>3 DEF bad
    <2>5. ASSUME NEW d \in Bytes, NEW k \in Announced, LeadsTo(c, l, <<d, k>>)
          PROVE  Decode[<<d, k>>] \in DecodeResult
      <3>1. <<d, k>> \in At /\ <<d, k>> \notin bad
        BY <2>2, <2>3, <2>5 DEF LeadsTo
      <3> QED BY <3>1 DEF bad
    <2>6. Decode[<<c, l>>] = Reads(Decode, <<c, l>>)
      BY <2>4, DecodeIsDefined
    <2>7. <<>> \in Seq(Bytes) /\ <<>> \in Bytes
      BY DEF Bytes
    <2>8. CASE Halts(c, l)
      <3>1. Decode[<<c, l>>] = Decoded(<<>>, c, l, FALSE)
        BY <2>4, <2>6, <2>8, ReadsCases
      <3> QED BY <2>4, <2>7, <3>1 DEF Decoded, DecodeResult, Announced
    <2>9. CASE Refuses(c, l)
      <3>1. Decode[<<c, l>>] = Decoded(<<>>, <<>>, NoHeader, TRUE)
        BY <2>4, <2>6, <2>9, ReadsCases
      <3> QED BY <1>0, <2>4, <2>7, <3>1 DEF Decoded, DecodeResult, Announced
    <2>10. CASE Skips(c, l)
      <3>1. /\ LeadsTo(c, l, <<After(c, 2), NoHeader>>)
            /\ \A g : Reads(g, <<c, l>>) = g[<<After(c, 2), NoHeader>>]
        BY <2>4, <2>10, ReadsCases
      <3>2. After(c, 2) \in Bytes
        BY <3>1 DEF LeadsTo, At
      <3>3. Decode[<<After(c, 2), NoHeader>>] \in DecodeResult
        BY <1>0, <2>5, <3>1, <3>2
      <3> QED BY <2>4, <2>6, <3>1, <3>3
    <2>11. CASE Begins(c, l)
      <3>1. /\ LeadsTo(c, l, <<After(c, 2), c[2]>>)
            /\ \A g : Reads(g, <<c, l>>) = g[<<After(c, 2), c[2]>>]
        BY <2>4, <2>11, ReadsCases
      <3>2. After(c, 2) \in Bytes
        BY <3>1 DEF LeadsTo, At
      <3>3. c[2] \in Announced
        <4>1. c[2] \in Byte /\ ~TooLong(c[2])
          BY <2>11 DEF Begins
        <4>2. \A m \in Byte : ~TooLong(m) => m \in 0..MaxPayload
          BY <1>0 DEF Byte, TooLong
        <4> QED BY <4>1, <4>2 DEF Announced
      <3>4. Decode[<<After(c, 2), c[2]>>] \in DecodeResult
        BY <2>5, <3>1, <3>2, <3>3
      <3> QED BY <2>4, <2>6, <3>1, <3>4
    <2>12. CASE Completes(c, l)
      <3>1. /\ LeadsTo(c, l, <<After(c, l), NoHeader>>)
            /\ \A g : Reads(g, <<c, l>>) =
                   [g[<<After(c, l), NoHeader>>] EXCEPT
                      !.messages = <<SubSeq(c, 1, l)>> \o @]
        BY <2>4, <2>12, ReadsCases
      <3>2. After(c, l) \in Bytes
        BY <3>1 DEF LeadsTo, At
      <3>3. PICK later \in DecodeResult : later = Decode[<<After(c, l), NoHeader>>]
        BY <1>0, <2>5, <3>1, <3>2
      <3>4. PICK first \in Bytes : first = SubSeq(c, 1, l)
        <4>1. l \in 0..Len(c)
          BY <2>12 DEF Completes, Byte, Bytes
        <4> QED BY <4>1, AfterIs
      <3>5. PICK messages \in Seq(Bytes) : messages = later.messages
        BY <3>3 DEF DecodeResult
      <3>6. PICK whole \in Seq(Bytes) : whole = <<first>> \o messages
        <4>1. <<first>> \in Seq(Bytes)
          OBVIOUS
        <4>2. <<first>> \o messages \in Seq(Bytes)
          BY <4>1, ConcatProperties
        <4> QED BY <4>2
      <3>7. Decode[<<c, l>>] = [later EXCEPT !.messages = whole]
        BY <2>6, <3>1, <3>3, <3>4, <3>5, <3>6
      <3> QED BY <2>4, <3>3, <3>6, <3>7 DEF DecodeResult
    <2> QED BY <2>4, <2>8, <2>9, <2>10, <2>11, <2>12, ReadsCases
  <1>2. <<b, length>> \in At /\ length \in Announced
    BY <1>0 DEF At, Announced
  <1>3. <<b, length>> \notin bad
    BY <1>1
  <1> QED BY <1>2, <1>3 DEF bad

-----------------------------------------------------------------------------
(* Framing: the stream of a child, and what Decode makes of a piece of it  *)

\* The bytes after the first "from", up to the first "to"
Slice(st, from, to) == SubSeq(st, from + 1, to)

IsSlice(t, st, from, to) ==
  /\ t \in Bytes /\ Len(t) = to - from
  /\ \A i \in 1..(to - from) : t[i] = st[from + i]

LEMMA SliceIs ==
  ASSUME NEW st \in Bytes, NEW a \in Nat, NEW b \in Nat, a <= b, b <= Len(st)
  PROVE  IsSlice(Slice(st, a, b), st, a, b)
  <1>1. \A i \in (a + 1)..b : st[i] \in Byte
    BY DEF Bytes
  <1>2. a + 1 \in Int /\ b \in Int
    OBVIOUS
  <1>3. /\ SubSeq(st, a + 1, b) \in Seq(Byte)
        /\ Len(SubSeq(st, a + 1, b)) = IF a + 1 <= b THEN b - (a + 1) + 1 ELSE 0
        /\ \A i \in 1..(b - (a + 1) + 1) : SubSeq(st, a + 1, b)[i] = st[(a + 1) + i - 1]
    BY <1>1, <1>2, SubSeqProperties
  <1>4. b - (a + 1) + 1 = b - a /\ \A i \in Nat : (a + 1) + i - 1 = a + i
    OBVIOUS
  <1>5. Len(SubSeq(st, a + 1, b)) = b - a
    BY <1>3
  <1>6. \A i \in 1..(b - a) : SubSeq(st, a + 1, b)[i] = st[a + i]
    BY <1>3, <1>4
  <1> QED BY <1>3, <1>5, <1>6 DEF IsSlice, Slice, Bytes

\* Bytes that are those of a slice are the slice.
LEMMA SliceEquals ==
  ASSUME NEW st \in Bytes, NEW a \in Nat, NEW b \in Nat, a <= b, b <= Len(st),
         NEW t, IsSlice(t, st, a, b)
  PROVE  t = Slice(st, a, b)
  <1>1. /\ Slice(st, a, b) \in Seq(Byte) /\ Len(Slice(st, a, b)) = b - a
        /\ \A i \in 1..(b - a) : Slice(st, a, b)[i] = st[a + i]
    BY SliceIs DEF IsSlice, Bytes
  <1>2. t \in Seq(Byte)
    BY DEF IsSlice, Bytes
  <1>3. Len(t) = Len(Slice(st, a, b)) /\ \A i \in 1..Len(t) : t[i] = Slice(st, a, b)[i]
    BY <1>1 DEF IsSlice
  <1> HIDE DEF Slice
  <1> QED BY <1>1, <1>2, <1>3, SeqEqual

LEMMA SliceParts ==
  ASSUME NEW st \in Bytes, NEW a \in Nat, NEW b \in Nat, a <= b, b <= Len(st),
         NEW n \in 0..(b - a)
  PROVE  /\ After(Slice(st, a, b), n) = Slice(st, a + n, b)
         /\ SubSeq(Slice(st, a, b), 1, n) = Slice(st, a, a + n)
  <1>0. PICK d \in Nat, m \in Nat, e \in Nat : d = b - a /\ m = a + n /\ e = d - n
    OBVIOUS
  <1>1. PICK s : s = Slice(st, a, b)
    OBVIOUS
  <1>2. s \in Bytes /\ Len(s) = d /\ \A i \in 1..d : s[i] = st[a + i]
    <2>1. IsSlice(s, st, a, b)
      BY <1>1, SliceIs
    <2> QED BY <1>0, <2>1 DEF IsSlice
  <1>3. /\ n \in Nat /\ n <= d /\ m <= b /\ a <= m /\ m <= Len(st) /\ m - a = n /\ b - m = e
        /\ d <= Len(s) /\ n <= Len(s) /\ 0 <= n /\ 0 \in Nat /\ n - 0 = n
    BY <1>0, <1>2 DEF Bytes
  <1>4. PICK t : t = Slice(s, n, d)
    OBVIOUS
  <1>5. t \in Bytes /\ Len(t) = e /\ \A i \in 1..e : t[i] = s[n + i]
    <2>1. IsSlice(t, s, n, d)
      BY <1>2, <1>3, <1>4, SliceIs
    <2> QED BY <1>0, <2>1 DEF IsSlice
  <1>6. \A i \in 1..e : t[i] = st[m + i]
    <2>1. ASSUME NEW i \in 1..e PROVE t[i] = st[m + i]
      <3>1. n + i \in 1..d /\ a + (n + i) = m + i
        BY <1>0
      <3> QED BY <1>2, <1>5, <3>1
    <2> QED BY <2>1
  <1>7. t = Slice(st, m, b)
    <2>1. IsSlice(t, st, m, b)
      BY <1>3, <1>5, <1>6 DEF IsSlice
    <2> QED BY <1>3, <2>1, SliceEquals
  <1>8. After(s, n) = t
    BY <1>2, <1>4 DEF After, Slice
  <1>9. PICK u : u = Slice(s, 0, n)
    OBVIOUS
  <1>10. u \in Bytes /\ Len(u) = n /\ \A i \in 1..n : u[i] = s[i]
    <2>1. IsSlice(u, s, 0, n)
      BY <1>2, <1>3, <1>9, SliceIs
    <2>2. \A i \in 1..n : 0 + i = i
      OBVIOUS
    <2> QED BY <1>3, <2>1, <2>2 DEF IsSlice
  <1>11. \A i \in 1..n : u[i] = st[a + i]
    <2>1. \A i \in 1..n : i \in 1..d
      BY <1>0
    <2> QED BY <1>2, <1>10, <2>1
  <1>12. u = Slice(st, a, m)
    <2>1. IsSlice(u, st, a, m)
      BY <1>3, <1>10, <1>11 DEF IsSlice
    <2> QED BY <1>3, <2>1, SliceEquals
  <1>13. SubSeq(s, 1, n) = u
    BY <1>9 DEF Slice
  <1> QED BY <1>0, <1>1, <1>7, <1>8, <1>12, <1>13

LEMMA SlicesJoin ==
  ASSUME NEW st \in Bytes, NEW a \in Nat, NEW b \in Nat, NEW c \in Nat,
         a <= b, b <= c, c <= Len(st)
  PROVE  Slice(st, a, b) \o Slice(st, b, c) = Slice(st, a, c)
  <1>1. a + 1 \in 1..(Len(st) + 1) /\ b \in ((a + 1) - 1)..Len(st) /\ c \in b..Len(st)
        /\ st \in Seq(Byte)
    BY DEF Bytes
  <1> QED BY <1>1, ConcatAdjacentSubSeq DEF Slice

\* The bytes st of the messages sent, the first i of which end at p[i]
IsStream(sent, st, p) ==
  /\ st \in Bytes /\ p \in [0..Len(sent) -> Nat] /\ p[0] = 0 /\ p[Len(sent)] = Len(st)
  /\ \A i \in 0..Len(sent) : p[i] <= Len(st)
  /\ \A i \in 1..Len(sent) :
       /\ p[i] = p[i - 1] + 2 + Len(sent[i])
       /\ st[p[i - 1] + 1] = TypeMessage /\ st[p[i - 1] + 2] = Len(sent[i])
       /\ Slice(st, p[i - 1] + 2, p[i]) = sent[i]

\* Where a decoding stands after k messages, or after the header of one more
Stands(sent, p, k, length, pos) ==
  /\ k \in 0..Len(sent)
  /\ \/ length = NoHeader /\ pos = p[k]
     \/ /\ k < Len(sent) /\ length = Len(sent[k + 1]) /\ length <= MaxPayload
        /\ length \in Byte /\ pos = p[k] + 2

\* It goes on with the messages that were sent, and ends where another is not whole, at
\* the end of the bytes or at a message that is too long.
Goes(sent, st, p, k, q, r) ==
  LET n == Len(r.messages)
  IN /\ k + n <= Len(sent)
     /\ \A i \in 1..n : r.messages[i] = sent[k + i] /\ Len(sent[k + i]) <= MaxPayload
     /\ r.error \/ \E pos \in 0..q : /\ Stands(sent, p, k + n, r.length, pos)
                                     /\ r.rest = Slice(st, pos, q) /\ Halts(r.rest, r.length)

\* A message in front of the messages that are decoded after it
LEMMA GoesOn ==
  ASSUME NEW sent \in Seq(Payloads), NEW st, NEW p, NEW q \in Nat, NEW k \in Nat,
         NEW later \in DecodeResult, Goes(sent, st, p, k + 1, q, later),
         k < Len(sent), Len(sent[k + 1]) <= MaxPayload, NEW first \in Bytes, first = sent[k + 1],
         NEW r, r = [later EXCEPT !.messages = <<first>> \o @]
  PROVE  Goes(sent, st, p, k, q, r)
  <1>0. PICK messages \in Seq(Bytes) : messages = later.messages
    BY DEF DecodeResult
  <1>1. PICK n \in Nat : messages = later.messages /\ n = Len(messages)
    <2>1. Len(messages) \in Nat
      BY LenProperties
    <2> QED BY <1>0, <2>1
  <1>2. PICK whole : whole = <<first>> \o messages
    OBVIOUS
  <1>3. /\ Len(whole) = n + 1 /\ whole[1] = first
        /\ \A i \in 2..(n + 1) : whole[i] = messages[i - 1]
    <2>1. <<first>> \in Seq(Bytes) /\ Len(<<first>>) = 1 /\ <<first>>[1] = first
      OBVIOUS
    <2>2. /\ Len(whole) = 1 + n
          /\ \A i \in 1..(1 + n) : whole[i] = IF i <= 1 THEN <<first>>[i] ELSE messages[i - 1]
      BY <1>1, <1>2, <2>1, ConcatProperties
    <2>3. 1 \in 1..(1 + n) /\ \A i \in 2..(n + 1) : i \in 1..(1 + n) /\ ~(i <= 1)
      OBVIOUS
    <2> QED BY <2>1, <2>2, <2>3
  <1>4. /\ r.messages = whole /\ r.error = later.error /\ r.rest = later.rest
        /\ r.length = later.length
    BY <1>1, <1>2 DEF DecodeResult
  <1>5. /\ (k + 1) + n <= Len(sent)
        /\ \A i \in 1..n : messages[i] = sent[(k + 1) + i] /\ Len(sent[(k + 1) + i]) <= MaxPayload
        /\ later.error \/ \E pos \in 0..q : /\ Stands(sent, p, (k + 1) + n, later.length, pos)
                                            /\ later.rest = Slice(st, pos, q)
                                            /\ Halts(later.rest, later.length)
    BY <1>1 DEF Goes
  <1>6. (k + 1) + n = k + (n + 1)
    OBVIOUS
  <1>7. ASSUME NEW i \in 1..(n + 1)
        PROVE  whole[i] = sent[k + i] /\ Len(sent[k + i]) <= MaxPayload
    <2>1. CASE i = 1
      BY <1>3, <2>1
    <2>2. CASE i # 1
      <3>1. PICK j \in 1..n : j = i - 1
        BY <2>2
      <3>0. i = j + 1 /\ i \in 2..(n + 1)
        BY <2>2, <3>1
      <3>2. (k + 1) + j = k + i /\ i \in 2..(n + 1)
        BY <3>0
      <3> QED BY <1>3, <1>5, <3>1, <3>2
    <2> QED BY <2>1, <2>2
  <1> QED BY <1>3, <1>4, <1>5, <1>6, <1>7 DEF Goes

\* Decode of a piece of the stream, from where an earlier decoding stood
LEMMA DecodeGoes ==
  ASSUME NEW sent \in Seq(Payloads), NEW st, NEW p, IsStream(sent, st, p),
         NEW q \in Nat, q <= Len(st), NEW k0 \in Nat, NEW pos0 \in 0..q,
         NEW length0 \in Lengths, Stands(sent, p, k0, length0, pos0)
  PROVE  Goes(sent, st, p, k0, q, Decode[<<Slice(st, pos0, q), length0>>])
  <1> DEFINE Wrong(at, k, pos) ==
               /\ at[1] = Slice(st, pos, q) /\ Stands(sent, p, k, at[2], pos)
               /\ ~Goes(sent, st, p, k, q, Decode[at])
             bad == {at \in At : \E k \in 0..Len(sent), pos \in 0..q : Wrong(at, k, pos)}
  <1>0. /\ st \in Bytes /\ p \in [0..Len(sent) -> Nat] /\ p[Len(sent)] = Len(st)
        /\ Len(sent) \in Nat /\ Len(st) \in Nat /\ NoHeader \in Lengths /\ Byte \subseteq Lengths
        /\ NoHeader \notin Byte /\ Byte \subseteq Nat /\ MaxPayload \in Nat
    <2>1. st \in Bytes /\ p \in [0..Len(sent) -> Nat] /\ p[Len(sent)] = Len(st)
      BY DEF IsStream
    <2>2. Len(sent) \in Nat /\ Len(st) \in Nat
      BY <2>1, LenProperties DEF Bytes
    <2>3. NoHeader \in Lengths /\ Byte \subseteq Lengths
      BY DEF Lengths
    <2>4. NoHeader \notin Byte /\ Byte \subseteq Nat
      BY DEF Byte, NoHeader
    <2>5. MaxPayload \in Nat
      BY <2>4, FramingAssumption
    <2> QED BY <2>1, <2>2, <2>3, <2>4, <2>5
  <1> HIDE DEF bad
  <1>1. ASSUME bad # {} PROVE FALSE
    <2>1. bad \in SUBSET At
      BY DEF bad
    <2>2. PICK at \in bad : \A y \in At : Left(y) < Left(at) => y \notin bad
      BY <1>1, <2>1, LeastLeft
    <2>3. PICK k \in 0..Len(sent), pos \in 0..q : Wrong(at, k, pos)
      BY <2>2 DEF bad
    <2>4. PICK b \in Bytes, length \in Lengths : at = <<b, length>>
      BY <2>2 DEF bad, At
    <2>5. /\ b = Slice(st, pos, q) /\ Stands(sent, p, k, length, pos) /\ <<b, length>> \in At
          /\ ~Goes(sent, st, p, k, q, Decode[<<b, length>>])
      BY <2>2, <2>3, <2>4 DEF bad
    <2>6. ASSUME NEW c \in Bytes, NEW l \in Lengths, LeadsTo(b, length, <<c, l>>),
                 NEW j \in 0..Len(sent), NEW from \in 0..q, c = Slice(st, from, q),
                 Stands(sent, p, j, l, from)
          PROVE  Goes(sent, st, p, j, q, Decode[<<c, l>>])
      <3>1. <<c, l>> \in At /\ <<c, l>> \notin bad
        BY <2>2, <2>4, <2>6 DEF LeadsTo
      <3>2. ~Wrong(<<c, l>>, j, from)
        BY <3>1 DEF bad
      <3> QED BY <2>6, <3>2
    <2>7. Decode[<<b, length>>] = Reads(Decode, <<b, length>>)
      BY <2>5, DecodeIsDefined
    <2>8. Len(b) = q - pos /\ \A i \in 1..(q - pos) : b[i] = st[pos + i]
      <3>1. IsSlice(b, st, pos, q)
        BY <1>0, <2>5, SliceIs
      <3> QED BY <3>1 DEF IsSlice
    <2>9. CASE Halts(b, length)
      <3>1. Decode[<<b, length>>] = Decoded(<<>>, b, length, FALSE)
        BY <2>5, <2>7, <2>9, ReadsCases
      <3>2. PICK r : r = Decode[<<b, length>>]
        OBVIOUS
      <3>3. r.messages = <<>> /\ r.rest = b /\ r.length = length /\ Len(r.messages) = 0
        BY <3>1, <3>2 DEF Decoded
      <3>4. k + 0 = k /\ 1..0 = {}
        OBVIOUS
      <3>5. Goes(sent, st, p, k, q, r)
        BY <2>5, <2>9, <3>3, <3>4 DEF Goes
      <3> QED BY <2>5, <3>2, <3>5
    <2>10. CASE Refuses(b, length)
      <3>1. Decode[<<b, length>>] = Decoded(<<>>, <<>>, NoHeader, TRUE)
        BY <2>5, <2>7, <2>10, ReadsCases
      <3>2. PICK r : r = Decode[<<b, length>>]
        OBVIOUS
      <3>3. r.messages = <<>> /\ r.error = TRUE /\ Len(r.messages) = 0
        BY <3>1, <3>2 DEF Decoded
      <3>4. k + 0 = k /\ 1..0 = {}
        OBVIOUS
      <3>5. Goes(sent, st, p, k, q, r)
        BY <3>3, <3>4 DEF Goes
      <3> QED BY <2>5, <3>2, <3>5
    <2>11. ASSUME length = NoHeader, Len(b) >= 2
           PROVE  /\ k < Len(sent) /\ b[1] = TypeMessage /\ b[2] = Len(sent[k + 1])
                  /\ pos + 2 \in 0..q /\ 2 \in 0..(q - pos) /\ pos = p[k]
      <3>1. pos = p[k]
        BY <1>0, <2>5, <2>11 DEF Stands
      <3>2. pos + 2 \in 0..q /\ 2 \in 0..(q - pos) /\ 1 \in 1..(q - pos) /\ 2 \in 1..(q - pos)
        BY <2>8, <2>11
      <3>3. k # Len(sent)
        BY <1>0, <3>1, <3>2
      <3>4. k < Len(sent) /\ k + 1 \in 1..Len(sent) /\ (k + 1) - 1 = k
        BY <1>0, <3>3
      <3>5. st[p[k] + 1] = TypeMessage /\ st[p[k] + 2] = Len(sent[k + 1])
        BY <3>4 DEF IsStream
      <3> QED BY <2>8, <3>1, <3>2, <3>4, <3>5
    <2>12. CASE Skips(b, length)
      BY <2>11, <2>12 DEF Skips
    <2>13. CASE Begins(b, length)
      <3>1. /\ LeadsTo(b, length, <<After(b, 2), b[2]>>)
            /\ \A g : Reads(g, <<b, length>>) = g[<<After(b, 2), b[2]>>]
        BY <2>5, <2>13, ReadsCases
      <3>2. length = NoHeader /\ Len(b) >= 2 /\ b[2] \in Byte /\ ~TooLong(b[2])
        BY <2>13 DEF Begins
      <3>3. PICK l \in Byte : l = b[2] /\ ~TooLong(l)
        BY <3>2
      <3>4. l <= MaxPayload /\ l \in Lengths
        BY <1>0, <3>3 DEF TooLong
      <3>5. After(b, 2) = Slice(st, pos + 2, q)
        BY <1>0, <2>5, <2>11, <3>2, SliceParts
      <3>6. Stands(sent, p, k, l, pos + 2)
        BY <2>11, <3>2, <3>3, <3>4 DEF Stands
      <3>7. After(b, 2) \in Bytes
        BY <3>1 DEF LeadsTo, At
      <3>8. Goes(sent, st, p, k, q, Decode[<<After(b, 2), l>>])
        BY <2>6, <2>11, <3>1, <3>2, <3>3, <3>4, <3>5, <3>6, <3>7
      <3>9. Decode[<<b, length>>] = Decode[<<After(b, 2), l>>]
        BY <2>7, <3>1, <3>3
      <3> QED BY <2>5, <3>8, <3>9
    <2>14. CASE Completes(b, length)
      <3>1. /\ LeadsTo(b, length, <<After(b, length), NoHeader>>)
            /\ \A g : Reads(g, <<b, length>>) =
                   [g[<<After(b, length), NoHeader>>] EXCEPT
                      !.messages = <<SubSeq(b, 1, length)>> \o @]
        BY <2>5, <2>14, ReadsCases
      <3>2. length \in Byte /\ length \in Nat /\ Len(b) >= length
        BY <1>0, <2>14 DEF Completes
      <3>3. /\ k < Len(sent) /\ length = Len(sent[k + 1]) /\ length <= MaxPayload
            /\ pos = p[k] + 2
        BY <1>0, <2>5, <3>2 DEF Stands
      <3>4. k + 1 \in 1..Len(sent) /\ (k + 1) - 1 = k /\ k + 1 \in 0..Len(sent)
        BY <1>0, <3>3
      <3>5. p[k + 1] = (p[k] + 2) + length /\ Slice(st, p[k] + 2, p[k + 1]) = sent[k + 1]
        BY <3>3, <3>4 DEF IsStream
      <3>6. pos + length \in 0..q /\ length \in 0..(q - pos)
        BY <2>8, <3>2
      <3>7. After(b, length) = Slice(st, pos + length, q)
            /\ SubSeq(b, 1, length) = Slice(st, pos, pos + length)
        <4>1. st \in Bytes /\ pos \in Nat /\ pos <= q /\ q <= Len(st)
              /\ length \in 0..(q - pos) /\ b = Slice(st, pos, q)
          BY <1>0, <2>5, <3>6
        <4> QED BY ONLY <4>1, q \in Nat, SliceParts
      <3>8. Stands(sent, p, k + 1, NoHeader, pos + length)
        BY <3>3, <3>4, <3>5 DEF Stands
      <3>9. After(b, length) \in Bytes
        BY <3>1 DEF LeadsTo, At
      <3>10. PICK later : later = Decode[<<After(b, length), NoHeader>>]
        OBVIOUS
      <3>11. Goes(sent, st, p, k + 1, q, later)
        BY <1>0, <2>6, <3>1, <3>4, <3>6, <3>7, <3>8, <3>9, <3>10
      <3>12. later \in DecodeResult
        BY <3>9, <3>10, DecodeTypes
      <3>13. PICK first \in Bytes : first = SubSeq(b, 1, length)
        <4>1. length \in 0..Len(b)
          BY <3>2 DEF Bytes
        <4> QED BY <4>1, AfterIs
      <3>14. first = sent[k + 1]
        BY <3>3, <3>5, <3>7, <3>13
      <3>15. PICK r : r = [later EXCEPT !.messages = <<first>> \o @]
        OBVIOUS
      <3>16. Goes(sent, st, p, k, q, r)
        <4>1. k \in Nat /\ k < Len(sent) /\ Len(sent[k + 1]) <= MaxPayload
          BY <3>3
        <4> QED BY ONLY <4>1, <3>11, <3>12, <3>14, <3>15, GoesOn, q \in Nat, first \in Bytes,
                   sent \in Seq(Payloads)
      <3>17. Decode[<<b, length>>] = r
        BY <2>7, <3>1, <3>10, <3>13, <3>15
      <3> QED BY <2>5, <3>16, <3>17
    <2> QED BY <2>5, <2>9, <2>10, <2>12, <2>13, <2>14, ReadsCases
  <1>2. Slice(st, pos0, q) \in Bytes
    BY <1>0, SliceIs DEF IsSlice
  <1>3. <<Slice(st, pos0, q), length0>> \in At
    BY <1>2 DEF At
  <1>4. k0 \in 0..Len(sent)
    BY DEF Stands
  <1>5. <<Slice(st, pos0, q), length0>> \notin bad
    BY <1>1
  <1>6. ~Wrong(<<Slice(st, pos0, q), length0>>, k0, pos0)
    BY <1>3, <1>4, <1>5 DEF bad
  <1> QED BY <1>6

-----------------------------------------------------------------------------
(* Framing: what is read of a child, and what is left of it                *)

\* As long as no child was cut, the messages received are the first that were sent; the
\* decoding stands in their stream, the buffer holds what was read of it since, and the
\* wire what is still to be read.
FollowsStream(sent, st, p, pos, q, w) ==
  /\ IsStream(sent, st, p) /\ pos <= q /\ q <= w /\ w <= Len(st)
  /\ frLink = "open" => w = Len(st)
  /\ Stands(sent, p, Len(frGot), frLength, pos)
  /\ frBuffer = Slice(st, pos, q) /\ Halts(frBuffer, frLength) /\ frWire = Slice(st, q, w)
Received(got, sent) ==
  /\ Len(got) <= Len(sent)
  /\ \A i \in 1..Len(got) : got[i] = sent[i] /\ Len(got[i]) <= MaxPayload
InStep ==
  /\ Received(frGot, frSent)
  /\ frLink # "closed" =>
       \E st, p : \E pos, q, w \in Nat : FollowsStream(frSent, st, p, pos, q, w)

FrameInv == FrameTypeOK /\ (~frCut => InStep)

\* The stream of a child that has sent nothing
LEMMA StreamStarts ==
  frSent = <<>> /\ frGot = <<>> /\ frBuffer = <<>> /\ frLength = NoHeader /\ frWire = <<>>
  => InStep
  <1> SUFFICES ASSUME frSent = <<>>, frGot = <<>>, frBuffer = <<>>, frLength = NoHeader,
                      frWire = <<>>
               PROVE  InStep
    OBVIOUS
  <1> DEFINE p == [i \in 0..0 |-> 0]
  <1>1. Len(<<>>) = 0 /\ 1..0 = {} /\ <<>> \in Bytes /\ 0..0 = {0}
    BY DEF Bytes
  <1>2. p \in [0..0 -> Nat] /\ p[0] = 0
    OBVIOUS
  <1> HIDE DEF p
  <1>3. IsStream(<<>>, <<>>, p)
    BY <1>1, <1>2 DEF IsStream
  <1>4. Slice(<<>>, 0, 0) = <<>>
    <2>1. IsSlice(<<>>, <<>>, 0, 0)
      BY <1>1 DEF IsSlice
    <2> QED BY <1>1, <2>1, SliceEquals
  <1>5. Stands(<<>>, p, 0, NoHeader, 0)
    BY <1>1, <1>2 DEF Stands
  <1>6. Halts(<<>>, NoHeader)
    BY DEF Halts
  <1>7. FollowsStream(frSent, <<>>, p, 0, 0, 0)
    BY <1>1, <1>3, <1>4, <1>5, <1>6 DEF FollowsStream
  <1>8. 0 \in Nat
    OBVIOUS
  <1>9. \E st, f : \E pos, q, w \in Nat : FollowsStream(frSent, st, f, pos, q, w)
    BY <1>7, <1>8
  <1>10. Len(frGot) = 0 /\ Len(frSent) = 0
    BY <1>1
  <1> QED BY <1>1, <1>9, <1>10 DEF InStep, Received

\* The bytes of one sequence, then those of another
AreJoined(u, s, t) ==
  /\ u \in Bytes /\ Len(u) = Len(s) + Len(t)
  /\ \A i \in 1..Len(s) : u[i] = s[i]
  /\ \A i \in 1..Len(t) : u[Len(s) + i] = t[i]

LEMMA ConcatJoins ==
  ASSUME NEW s \in Bytes, NEW t \in Bytes
  PROVE  AreJoined(s \o t, s, t)
  <1>0. s \in Seq(Byte) /\ t \in Seq(Byte) /\ Len(s) \in Nat /\ Len(t) \in Nat
    BY LenProperties DEF Bytes
  <1>1. PICK u : u = s \o t
    OBVIOUS
  <1>2. /\ u \in Seq(Byte) /\ Len(u) = Len(s) + Len(t)
        /\ \A i \in 1..(Len(s) + Len(t)) : u[i] = IF i <= Len(s) THEN s[i] ELSE t[i - Len(s)]
    BY <1>0, <1>1, ConcatProperties
  <1>3. \A i \in 1..Len(s) : i \in 1..(Len(s) + Len(t)) /\ i <= Len(s)
    BY <1>0
  <1>4. \A i \in 1..Len(t) : /\ Len(s) + i \in 1..(Len(s) + Len(t))
                             /\ ~(Len(s) + i <= Len(s)) /\ (Len(s) + i) - Len(s) = i
    BY <1>0
  <1> QED BY <1>1, <1>2, <1>3, <1>4 DEF AreJoined, Bytes

\* The stream of a child that sends one more message
LEMMA StreamGrows ==
  ASSUME NEW sent \in Seq(Payloads), NEW m \in Payloads, NEW st, NEW p, IsStream(sent, st, p)
  PROVE  /\ st \o Frame(m) \in Bytes
         /\ IsStream(Append(sent, m), st \o Frame(m),
              [i \in 0..(Len(sent) + 1) |->
                 IF i <= Len(sent) THEN p[i] ELSE p[Len(sent)] + 2 + Len(m)])
         /\ \A a, b \in Nat : a <= b /\ b <= Len(st) =>
              Slice(st \o Frame(m), a, b) = Slice(st, a, b)
         /\ Slice(st \o Frame(m), Len(st), Len(st \o Frame(m))) = Frame(m)
  <1>1. PICK n \in Nat, l \in Nat, e \in Nat : n = Len(sent) /\ l = Len(m) /\ e = Len(st)
    <2>1. m \in Seq(Byte) /\ st \in Seq(Byte)
      BY FramingAssumption DEF IsStream, Bytes
    <2>2. Len(sent) \in Nat /\ Len(m) \in Nat /\ Len(st) \in Nat
      BY <2>1, LenProperties
    <2> QED BY <2>2
  <1>2. m \in Bytes /\ l \in Byte /\ TypeMessage \in Byte /\ st \in Bytes
    BY <1>1, FramingAssumption DEF IsStream, Bytes
  <1>3. PICK f \in Bytes : f = Frame(m)
    <2>1. <<TypeMessage, Len(m)>> \in Seq(Byte)
      BY <1>1, <1>2
    <2>2. m \in Seq(Byte)
      BY <1>2 DEF Bytes
    <2>3. <<TypeMessage, Len(m)>> \o m \in Seq(Byte)
      BY <2>1, <2>2, ConcatProperties
    <2> QED BY <2>3 DEF Frame, Bytes
  <1>4. /\ Len(f) = l + 2 /\ f[1] = TypeMessage /\ f[2] = l
        /\ \A i \in 1..l : f[i + 2] = m[i]
    <2>1. PICK h : h = <<TypeMessage, Len(m)>>
      OBVIOUS
    <2>2. h \in Bytes /\ Len(h) = 2 /\ h[1] = TypeMessage /\ h[2] = l
      BY <1>1, <1>2, <2>1 DEF Bytes
    <2>3. AreJoined(f, h, m)
      BY <1>2, <1>3, <2>1, <2>2, ConcatJoins DEF Frame
    <2>4. /\ Len(f) = 2 + l
          /\ \A i \in 1..2 : f[i] = h[i]
          /\ \A i \in 1..l : f[2 + i] = m[i]
      BY <1>1, <2>2, <2>3 DEF AreJoined
    <2>5. 2 + l = l + 2 /\ \A i \in 1..l : i + 2 = 2 + i
      OBVIOUS
    <2> QED BY <2>2, <2>4, <2>5
  <1>5. PICK t : t = st \o f
    OBVIOUS
  <1>6. /\ t \in Bytes /\ Len(t) = e + (l + 2)
        /\ \A i \in 1..e : t[i] = st[i]
        /\ \A i \in 1..(l + 2) : t[e + i] = f[i]
    <2>1. AreJoined(t, st, f)
      BY <1>2, <1>5, ConcatJoins
    <2> QED BY <1>1, <1>4, <2>1 DEF AreJoined
  <1>7. ASSUME NEW a \in Nat, NEW b \in Nat, a <= b, b <= e
        PROVE  Slice(t, a, b) = Slice(st, a, b)
    <2>1. PICK s : s = Slice(st, a, b)
      OBVIOUS
    <2>2. IsSlice(s, st, a, b)
      BY <1>1, <1>2, <1>7, <2>1, SliceIs
    <2>3. \A i \in 1..(b - a) : a + i \in 1..e
      BY <1>7
    <2>4. IsSlice(s, t, a, b)
      BY <1>6, <2>2, <2>3 DEF IsSlice
    <2>5. b <= Len(t)
      BY <1>6, <1>7
    <2> QED BY <1>6, <1>7, <2>1, <2>4, <2>5, SliceEquals
  <1>8. Slice(t, e, e + (l + 2)) = f
    <2>1. IsSlice(f, t, e, e + (l + 2))
      BY <1>3, <1>4, <1>6 DEF IsSlice
    <2>2. e + (l + 2) \in Nat /\ e <= e + (l + 2) /\ e + (l + 2) <= Len(t)
      BY <1>6
    <2> QED BY <1>6, <2>1, <2>2, SliceEquals
  <1>9. Slice(t, e + 2, e + (l + 2)) = m
    <2>1. \A i \in 1..l : t[(e + 2) + i] = m[i]
      <3>1. ASSUME NEW i \in 1..l PROVE t[(e + 2) + i] = m[i]
        <4>1. i + 2 \in 1..(l + 2) /\ e + (i + 2) = (e + 2) + i
          OBVIOUS
        <4> QED BY <1>4, <1>6, <4>1
      <3> QED BY <3>1
    <2>2. (e + (l + 2)) - (e + 2) = l
      OBVIOUS
    <2>3. IsSlice(m, t, e + 2, e + (l + 2))
      BY <1>1, <1>2, <2>1, <2>2 DEF IsSlice
    <2>4. e + 2 \in Nat /\ e + (l + 2) \in Nat /\ e + 2 <= e + (l + 2) /\ e + (l + 2) <= Len(t)
      BY <1>6
    <2> QED BY <1>6, <2>3, <2>4, SliceEquals
  <1>10. PICK s : s = Append(sent, m)
    OBVIOUS
  <1>11. Len(s) = n + 1 /\ s[n + 1] = m /\ \A i \in 1..n : s[i] = sent[i]
    BY <1>1, <1>10, AppendProperties
  <1>12. PICK g : g = [i \in 0..(n + 1) |-> IF i <= n THEN p[i] ELSE p[n] + 2 + l]
    OBVIOUS
  <1>13. /\ p \in [0..n -> Nat] /\ p[0] = 0 /\ p[n] = e
         /\ \A i \in 0..n : p[i] <= e
         /\ \A i \in 1..n :
              /\ p[i] = p[i - 1] + 2 + Len(sent[i])
              /\ st[p[i - 1] + 1] = TypeMessage /\ st[p[i - 1] + 2] = Len(sent[i])
              /\ Slice(st, p[i - 1] + 2, p[i]) = sent[i]
    BY <1>1 DEF IsStream
  <1>14. /\ g \in [0..(n + 1) -> Nat] /\ g[n + 1] = e + (l + 2)
         /\ \A i \in 0..n : g[i] = p[i]
    <2>1. \A i \in 0..n : i <= n /\ i \in 0..(n + 1) /\ p[i] \in Nat
      BY <1>13
    <2>2. n + 1 \in 0..(n + 1) /\ ~(n + 1 <= n) /\ e + 2 + l = e + (l + 2)
          /\ \A i \in 0..(n + 1) : i <= n => i \in 0..n
      OBVIOUS
    <2>3. g[n + 1] = e + (l + 2) /\ \A i \in 0..n : g[i] = p[i]
      BY <1>12, <1>13, <2>1, <2>2
    <2>4. \A i \in 0..(n + 1) : (IF i <= n THEN p[i] ELSE p[n] + 2 + l) \in Nat
      BY <1>13, <2>1, <2>2
    <2> QED BY <1>12, <2>3, <2>4
  <1>15. g[0] = 0 /\ \A i \in 0..(n + 1) : g[i] <= e + (l + 2)
    <2>1. 0 \in 0..n /\ \A i \in 0..(n + 1) : i \in 0..n \/ i = n + 1
      OBVIOUS
    <2>2. \A i \in 0..n : p[i] \in Nat /\ p[i] <= e + (l + 2)
      BY <1>13
    <2>3. g[0] = 0
      BY <1>13, <1>14, <2>1
    <2>4. ASSUME NEW i \in 0..n PROVE g[i] <= e + (l + 2)
      <3>1. g[i] = p[i]
        BY <1>14
      <3> QED BY <2>2, <3>1
    <2>5. g[n + 1] <= e + (l + 2)
      <3>1. e + (l + 2) <= e + (l + 2)
        OBVIOUS
      <3> QED BY <1>14, <3>1
    <2> QED BY <2>1, <2>3, <2>4, <2>5
  <1>16. ASSUME NEW i \in 1..(n + 1)
         PROVE  /\ g[i] = g[i - 1] + 2 + Len(s[i])
                /\ t[g[i - 1] + 1] = TypeMessage /\ t[g[i - 1] + 2] = Len(s[i])
                /\ Slice(t, g[i - 1] + 2, g[i]) = s[i]
    <2>1. CASE i = n + 1
      <3>1. g[i - 1] = e /\ g[i] = e + (l + 2) /\ Len(s[i]) = l
        <4>1. i - 1 = n /\ n \in 0..n
          BY <2>1
        <4>2. s[i] = m /\ Len(m) = l
          BY <1>1, <1>11, <2>1
        <4>3. g[i - 1] = e
          BY <1>13, <1>14, <4>1
        <4>4. g[i] = e + (l + 2)
          BY <1>14, <2>1
        <4> QED BY <4>2, <4>3, <4>4
      <3>2. 1 \in 1..(l + 2) /\ 2 \in 1..(l + 2) /\ e + (l + 2) = e + 2 + l
        OBVIOUS
      <3> QED BY <1>4, <1>6, <1>9, <1>11, <2>1, <3>1, <3>2
    <2>2. CASE i # n + 1
      <3>1. i \in 1..n /\ i \in 0..n /\ i - 1 \in 0..n
        BY <2>2
      <3>2. PICK a \in Nat, b \in Nat : a = p[i - 1] /\ b = p[i] /\ b <= e
        BY <1>13, <3>1
      <3>3. g[i - 1] = a /\ g[i] = b /\ s[i] = sent[i]
        BY <1>11, <1>14, <3>1, <3>2
      <3>4. /\ b = a + 2 + Len(sent[i])
            /\ st[a + 1] = TypeMessage /\ st[a + 2] = Len(sent[i])
            /\ Slice(st, a + 2, b) = sent[i]
        BY <1>13, <3>1, <3>2
      <3>5. Len(sent[i]) \in Nat
        <4>1. sent[i] \in Payloads
          BY <1>1, <3>1
        <4>2. Len(sent[i]) \in Byte
          BY <4>1, FramingAssumption
        <4> QED BY ONLY <4>2 DEF Byte
      <3>6. a + 2 <= b /\ a + 2 \in Nat /\ a + 1 \in 1..e /\ a + 2 \in 1..e
        <4>1. PICK k \in Nat : k = Len(sent[i])
          BY <3>5
        <4>2. b = a + 2 + k
          BY <3>4, <4>1
        <4>3. b <= e
          BY <3>2
        <4> HIDE <4>1
        <4> QED BY <4>2, <4>3
      <3>7. Slice(t, a + 2, b) = sent[i]
        BY <1>7, <3>2, <3>4, <3>6
      <3>8. t[a + 1] = TypeMessage /\ t[a + 2] = Len(sent[i])
        BY <1>6, <3>4, <3>6
      <3> QED BY <3>3, <3>4, <3>7, <3>8
    <2> QED BY <2>1, <2>2
  <1>17. IsStream(s, t, g)
    <2>1. Len(t) = e + (l + 2) /\ t \in Bytes
      BY <1>6
    <2> QED BY <1>11, <1>14, <1>15, <1>16, <2>1 DEF IsStream
  <1> QED BY <1>1, <1>3, <1>5, <1>6, <1>7, <1>8, <1>10, <1>12, <1>17

\* The messages received are joined to those before.
Follow(messages, sent, k) ==
  /\ k + Len(messages) <= Len(sent)
  /\ \A i \in 1..Len(messages) :
       messages[i] = sent[k + i] /\ Len(sent[k + i]) <= MaxPayload

LEMMA GotMore ==
  ASSUME NEW sent \in Seq(Payloads), NEW got \in Seq(Bytes), NEW messages \in Seq(Bytes),
         Received(got, sent), Follow(messages, sent, Len(got))
  PROVE  /\ Received(got \o messages, sent)
         /\ Len(got \o messages) = Len(got) + Len(messages)
  <1>0. /\ Len(got) \in Nat /\ Len(messages) \in Nat
        /\ Len(got) + Len(messages) <= Len(sent)
        /\ \A i \in 1..Len(got) : got[i] = sent[i] /\ Len(got[i]) <= MaxPayload
        /\ \A i \in 1..Len(messages) :
             messages[i] = sent[Len(got) + i] /\ Len(sent[Len(got) + i]) <= MaxPayload
    BY LenProperties DEF Received, Follow
  <1>1. PICK all : all = got \o messages
    OBVIOUS
  <1>2. /\ all \in Seq(Bytes) /\ Len(all) = Len(got) + Len(messages)
        /\ \A i \in 1..(Len(got) + Len(messages)) :
             all[i] = IF i <= Len(got) THEN got[i] ELSE messages[i - Len(got)]
    BY <1>1, ConcatProperties
  <1>3. ASSUME NEW i \in 1..(Len(got) + Len(messages))
        PROVE  all[i] = sent[i] /\ Len(all[i]) <= MaxPayload
    <2>1. CASE i <= Len(got)
      <3>1. i \in 1..Len(got)
        BY <1>0, <2>1
      <3> QED BY <1>0, <1>2, <2>1, <3>1
    <2>2. CASE ~(i <= Len(got))
      <3>1. PICK j \in 1..Len(messages) : j = i - Len(got) /\ Len(got) + j = i
        <4>1. i - Len(got) \in 1..Len(messages) /\ Len(got) + (i - Len(got)) = i
          BY <1>0, <2>2
        <4> QED BY <4>1
      <3>2. all[i] = messages[j]
        BY <1>2, <2>2, <3>1
      <3> QED BY <1>0, <3>1, <3>2
    <2> QED BY <2>1, <2>2
  <1> QED BY <1>0, <1>1, <1>2, <1>3 DEF Received

\* The server reads a piece of the stream.
LEMMA DataIsRead ==
  ASSUME FrameInv, DataEvent
  PROVE  FrameInv'
  <1>0. /\ frSent \in Seq(Payloads) /\ frWire \in Bytes /\ frBuffer \in Bytes
        /\ frLength \in 0..MaxPayload \cup {NoHeader} /\ frGot \in Seq(Bytes)
        /\ frLink \in {"open", "dying", "closed"} /\ frChildren \in Nat /\ frCut \in BOOLEAN
    BY DEF FrameInv, FrameTypeOK, Bytes
  <1>1. PICK n \in 1..Len(frWire) : ProcessData(SubSeq(frWire, 1, n))
    BY DEF DataEvent
  <1>2. n \in 0..Len(frWire) /\ n \in Nat
    OBVIOUS
  <1>3. PICK data, later : data = SubSeq(frWire, 1, n) /\ later = After(frWire, n)
    OBVIOUS
  <1>4. data \in Bytes /\ Len(data) = n /\ later \in Bytes
    BY <1>0, <1>2, <1>3, AfterIs
  <1>5. PICK b \in Bytes : b = frBuffer \o data
    BY <1>0, <1>4, ConcatJoins DEF AreJoined
  <1>6. PICK read \in DecodeResult : read = Decode[<<b, frLength>>]
    BY <1>0, DecodeTypes
  <1>7. /\ frGot' = frGot \o read.messages
        /\ frBuffer' = read.rest /\ frLength' = read.length
        /\ frLink' = IF read.error THEN "closed" ELSE frLink
        /\ frWire' = IF read.error THEN <<>> ELSE later
    BY <1>1, <1>3, <1>4, <1>5, <1>6 DEF ProcessData, Buffered
  <1>8. /\ frLink # "closed" /\ UNCHANGED <<frSent, frChildren, frCut>>
    BY DEF DataEvent
  <1>9. PICK messages \in Seq(Bytes) : messages = read.messages
    BY DEF DecodeResult
  <1>10. FrameTypeOK'
    <2>1. frGot \o messages \in Seq(Bytes)
      BY <1>0, ConcatProperties
    <2>2. /\ read.rest \in Bytes /\ read.length \in 0..MaxPayload \cup {NoHeader}
          /\ read.error \in BOOLEAN /\ <<>> \in Seq(Byte)
      BY DEF DecodeResult
    <2>3. /\ frGot' \in Seq(Seq(Byte)) /\ frBuffer' \in Seq(Byte) /\ frWire' \in Seq(Byte)
          /\ frLength' \in 0..MaxPayload \cup {NoHeader}
          /\ frLink' \in {"open", "dying", "closed"}
      BY <1>0, <1>4, <1>7, <1>9, <2>1, <2>2 DEF Bytes
    <2> QED BY <1>0, <1>8, <2>3 DEF FrameTypeOK
  <1>11. ASSUME ~frCut' PROVE InStep'
    <2>1. InStep
      BY <1>8, <1>11 DEF FrameInv
    <2>2. PICK st, p : \E pos, q, w \in Nat : FollowsStream(frSent, st, p, pos, q, w)
      BY <1>8, <2>1 DEF InStep
    <2>3. PICK pos \in Nat, q \in Nat, w \in Nat : FollowsStream(frSent, st, p, pos, q, w)
      BY <2>2
    <2>4. /\ IsStream(frSent, st, p) /\ pos <= q /\ q <= w /\ w <= Len(st)
          /\ frLink = "open" => w = Len(st)
          /\ Stands(frSent, p, Len(frGot), frLength, pos)
          /\ frBuffer = Slice(st, pos, q) /\ frWire = Slice(st, q, w)
      BY <2>3 DEF FollowsStream
    <2>5. st \in Bytes /\ Len(st) \in Nat /\ Len(frGot) \in Nat
      BY <1>0, <2>4, LenProperties DEF IsStream, Bytes
    <2>6. Len(frWire) = w - q
      BY <2>4, <2>5, SliceIs DEF IsSlice
    <2>7. PICK u \in Nat : u = q + n /\ q <= u /\ u <= w /\ pos <= u /\ u <= Len(st)
                           /\ n \in 0..(w - q)
      BY <1>2, <2>4, <2>5, <2>6
    <2>8. data = Slice(st, q, u) /\ later = Slice(st, u, w)
      <3>1. /\ After(Slice(st, q, w), n) = Slice(st, q + n, w)
            /\ SubSeq(Slice(st, q, w), 1, n) = Slice(st, q, q + n)
        <4>1. st \in Bytes /\ q <= w /\ w <= Len(st) /\ n \in 0..(w - q)
          BY <2>4, <2>5, <2>7
        <4> QED BY ONLY <4>1, q \in Nat, w \in Nat, SliceParts
      <3> QED BY <1>3, <2>4, <2>7, <3>1
    <2>9. b = Slice(st, pos, u)
      <3>1. Slice(st, pos, q) \o Slice(st, q, u) = Slice(st, pos, u)
        <4>1. st \in Bytes /\ pos <= q /\ q <= u /\ u <= Len(st)
          BY <2>4, <2>5, <2>7
        <4> QED BY ONLY <4>1, pos \in Nat, q \in Nat, u \in Nat, SlicesJoin
      <3> QED BY <1>5, <2>4, <2>8, <3>1
    <2>10. frLength \in Lengths
      <3>1. \A i \in 0..MaxPayload : i \in Byte
        <4>1. MaxPayload \in Byte
          BY FramingAssumption
        <4> QED BY ONLY <4>1 DEF Byte
      <3> QED BY <1>0, <3>1 DEF Lengths
    <2>11. pos \in 0..u
      BY <2>7
    <2>12. Goes(frSent, st, p, Len(frGot), u, read)
      BY <1>0, <1>6, <2>4, <2>5, <2>7, <2>9, <2>10, <2>11, DecodeGoes
    <2>13. /\ Len(frGot) + Len(messages) <= Len(frSent)
           /\ \A i \in 1..Len(messages) :
                messages[i] = frSent[Len(frGot) + i] /\ Len(frSent[Len(frGot) + i]) <= MaxPayload
           /\ read.error \/ \E to \in 0..u :
                /\ Stands(frSent, p, Len(frGot) + Len(messages), read.length, to)
                /\ read.rest = Slice(st, to, u) /\ Halts(read.rest, read.length)
      BY <1>9, <2>12 DEF Goes
    <2>14. Received(frGot', frSent) /\ Len(frGot') = Len(frGot) + Len(messages)
      <3>1. Received(frGot, frSent) /\ Follow(messages, frSent, Len(frGot))
        BY <2>1, <2>13 DEF InStep, Follow
      <3>2. frSent \in Seq(Payloads) /\ frGot \in Seq(Bytes)
        BY <1>0
      <3>3. Received(frGot \o messages, frSent)
            /\ Len(frGot \o messages) = Len(frGot) + Len(messages)
        BY ONLY <3>1, <3>2, messages \in Seq(Bytes), GotMore
      <3>4. frGot' = frGot \o messages
        BY <1>7, <1>9
      <3> QED BY <3>3, <3>4
    <2>16. ASSUME frLink' # "closed"
           PROVE  \E a, c, d \in Nat : FollowsStream(frSent, st, p, a, c, d)'
      <3>1. ~read.error /\ frLink' = frLink /\ frWire' = later
        BY <1>7, <2>16
      <3>2. PICK to \in 0..u :
                /\ Stands(frSent, p, Len(frGot'), frLength', to)
                /\ frBuffer' = Slice(st, to, u) /\ Halts(frBuffer', frLength')
        BY <1>7, <2>13, <2>14, <3>1
      <3>3. to \in Nat /\ to <= u
        BY <3>2
      <3>4. FollowsStream(frSent, st, p, to, u, w)'
        BY <1>8, <2>4, <2>7, <2>8, <3>1, <3>2, <3>3 DEF FollowsStream
      <3> QED BY <3>3, <3>4
    <2>17. frLink' # "closed" =>
             \E s, f : \E a, c, d \in Nat : FollowsStream(frSent, s, f, a, c, d)'
      BY <2>16
    <2> QED BY <1>8, <2>14, <2>17 DEF InStep
  <1> QED BY <1>10, <1>11 DEF FrameInv

\* The child sends a message.
LEMMA MessageIsSent ==
  ASSUME FrameInv, NEW m \in Payloads, SendFrame(m)
  PROVE  FrameInv'
  <1>0. /\ frSent \in Seq(Payloads) /\ frWire \in Bytes /\ frBuffer \in Bytes
        /\ frLength \in 0..MaxPayload \cup {NoHeader} /\ frGot \in Seq(Bytes)
        /\ frLink \in {"open", "dying", "closed"} /\ frChildren \in Nat /\ frCut \in BOOLEAN
    BY DEF FrameInv, FrameTypeOK, Bytes
  <1>1. /\ frLink = "open" /\ frSent' = Append(frSent, m) /\ frWire' = frWire \o Frame(m)
        /\ UNCHANGED <<frBuffer, frLength, frGot, frLink, frChildren, frCut>>
    BY DEF SendFrame
  <1>2. PICK f : f = Frame(m)
    OBVIOUS
  <1>3. f \in Bytes
    <2>1. m \in Seq(Byte) /\ Len(m) \in Byte /\ TypeMessage \in Byte
      BY FramingAssumption
    <2>2. <<TypeMessage, Len(m)>> \in Seq(Byte)
      BY <2>1
    <2> QED BY <1>2, <2>1, <2>2, ConcatProperties DEF Frame, Bytes
  <1>4. PICK sent \in Seq(Payloads) : sent = Append(frSent, m) /\ Len(sent) = Len(frSent) + 1
                                      /\ \A i \in 1..Len(frSent) : sent[i] = frSent[i]
    <2>1. PICK s : s = Append(frSent, m)
      OBVIOUS
    <2>2. /\ s \in Seq(Payloads) /\ Len(s) = Len(frSent) + 1
          /\ \A i \in 1..Len(frSent) : s[i] = frSent[i]
      BY <1>0, <2>1, AppendProperties
    <2> QED BY <2>1, <2>2
  <1>5. FrameTypeOK'
    <2>1. frWire \o f \in Bytes
      BY <1>0, <1>3, ConcatProperties DEF Bytes
    <2>2. frWire' \in Seq(Byte) /\ frSent' \in Seq(Payloads)
      BY <1>1, <1>2, <1>4, <2>1 DEF Bytes
    <2> QED BY <1>0, <1>1, <2>2 DEF FrameTypeOK, Bytes
  <1>6. ASSUME ~frCut' PROVE InStep'
    <2>1. InStep
      BY <1>1, <1>6 DEF FrameInv
    <2>2. PICK st, p : \E pos, q, w \in Nat : FollowsStream(frSent, st, p, pos, q, w)
      BY <1>1, <2>1 DEF InStep
    <2>3. PICK pos \in Nat, q \in Nat, w \in Nat : FollowsStream(frSent, st, p, pos, q, w)
      BY <2>2
    <2>4. /\ IsStream(frSent, st, p) /\ pos <= q /\ q <= w /\ w = Len(st)
          /\ Stands(frSent, p, Len(frGot), frLength, pos)
          /\ frBuffer = Slice(st, pos, q) /\ Halts(frBuffer, frLength)
          /\ frWire = Slice(st, q, Len(st))
      BY <1>1, <2>3 DEF FollowsStream
    <2>5. st \in Bytes /\ Len(frSent) \in Nat /\ Len(frGot) \in Nat
      BY <1>0, <2>4, LenProperties DEF IsStream
    <2>6. PICK u, g : u = st \o f
                      /\ g = [i \in 0..(Len(frSent) + 1) |->
                               IF i <= Len(frSent) THEN p[i] ELSE p[Len(frSent)] + 2 + Len(m)]
      OBVIOUS
    <2>7. /\ u \in Bytes /\ IsStream(sent, u, g)
          /\ \A a, b \in Nat : a <= b /\ b <= w => Slice(u, a, b) = Slice(st, a, b)
          /\ Slice(u, w, Len(u)) = f
      <3>1. /\ st \o Frame(m) \in Bytes
            /\ IsStream(Append(frSent, m), st \o Frame(m),
                 [i \in 0..(Len(frSent) + 1) |->
                    IF i <= Len(frSent) THEN p[i] ELSE p[Len(frSent)] + 2 + Len(m)])
            /\ \A a, b \in Nat : a <= b /\ b <= Len(st) =>
                 Slice(st \o Frame(m), a, b) = Slice(st, a, b)
            /\ Slice(st \o Frame(m), Len(st), Len(st \o Frame(m))) = Frame(m)
        BY <1>0, <2>4, StreamGrows
      <3> QED BY <1>2, <1>4, <2>4, <2>6, <3>1
    <2>8. PICK e \in Nat : e = Len(u) /\ w <= e
      <3>1. AreJoined(u, st, f)
        BY <1>3, <2>5, <2>6, ConcatJoins
      <3>2. Len(u) = Len(st) + Len(f) /\ Len(f) \in Nat
        BY <1>3, <3>1, LenProperties DEF AreJoined, Bytes
      <3> QED BY <2>4, <3>2
    <2>9. frBuffer = Slice(u, pos, q) /\ frWire = Slice(u, q, w)
      BY <2>4, <2>7
    <2>10. frWire' = Slice(u, q, e)
      <3>1. Slice(u, q, w) \o Slice(u, w, e) = Slice(u, q, e)
        <4>1. u \in Bytes /\ q <= w /\ w <= e /\ e <= Len(u)
          BY <2>4, <2>7, <2>8
        <4> QED BY ONLY <4>1, q \in Nat, w \in Nat, e \in Nat, SlicesJoin
      <3>2. Slice(u, w, e) = f
        BY <2>7, <2>8
      <3> QED BY <1>1, <1>2, <2>9, <3>1, <3>2
    <2>11. Stands(sent, g, Len(frGot), frLength, pos)
      <3>1. PICK k \in 0..Len(frSent) : k = Len(frGot)
        BY <2>4 DEF Stands
      <3>2. k \in 0..Len(sent) /\ k \in 0..(Len(frSent) + 1) /\ k <= Len(frSent)
        BY <1>4, <2>5
      <3>3. g[k] = p[k]
        BY <2>6, <3>2
      <3>4. k < Len(frSent) => k < Len(sent) /\ sent[k + 1] = frSent[k + 1]
        BY <1>4, <2>5
      <3> QED BY <2>4, <3>1, <3>2, <3>3, <3>4 DEF Stands
    <2>12. FollowsStream(frSent, u, g, pos, q, e)'
      <3>1. q <= e /\ e <= Len(u)
        BY <2>4, <2>8
      <3> QED BY <1>1, <1>4, <2>4, <2>7, <2>8, <2>9, <2>10, <2>11, <3>1 DEF FollowsStream
    <2>13. \E s, h : \E a, c, d \in Nat : FollowsStream(frSent, s, h, a, c, d)'
      BY <2>12
    <2>14. Received(frGot, sent)
      <3>1. Len(frGot) <= Len(frSent)
            /\ \A i \in 1..Len(frGot) : frGot[i] = frSent[i] /\ Len(frGot[i]) <= MaxPayload
        BY <2>1 DEF InStep, Received
      <3>2. Len(frGot) <= Len(sent) /\ \A i \in 1..Len(frGot) : i \in 1..Len(frSent)
        BY <1>4, <2>5, <3>1
      <3> QED BY <1>4, <3>1, <3>2 DEF Received
    <2> QED BY <1>1, <1>4, <2>13, <2>14 DEF InStep
  <1> QED BY <1>5, <1>6 DEF FrameInv

\* The child dies, with the end of its last message or without.
LEMMA ChildIsLost ==
  ASSUME FrameInv, ChildDies
  PROVE  FrameInv'
  <1>0. /\ frSent \in Seq(Payloads) /\ frWire \in Bytes /\ frBuffer \in Bytes
        /\ frLength \in 0..MaxPayload \cup {NoHeader} /\ frGot \in Seq(Bytes)
        /\ frChildren \in Nat /\ frCut \in BOOLEAN
    BY DEF FrameInv, FrameTypeOK, Bytes
  <1>1. /\ frLink = "open" /\ frLink' = "dying"
        /\ UNCHANGED <<frSent, frBuffer, frLength, frGot, frChildren, frCut>>
    BY DEF ChildDies
  <1>2. PICK n \in 0..Len(frWire) : frWire' = SubSeq(frWire, 1, n)
    <2>1. PICK last : \E k \in 0..last :
            k <= Len(frWire) /\ frWire' = SubSeq(frWire, 1, Len(frWire) - k)
      BY DEF ChildDies
    <2>2. PICK k \in 0..last :
            k <= Len(frWire) /\ frWire' = SubSeq(frWire, 1, Len(frWire) - k)
      BY <2>1
    <2>3. Len(frWire) \in Nat
      BY <1>0 DEF Bytes
    <2>4. Len(frWire) - k \in 0..Len(frWire)
      BY <2>2, <2>3
    <2> QED BY <2>2, <2>4
  <1>3. FrameTypeOK'
    <2>1. frWire' \in Bytes
      BY <1>0, <1>2, AfterIs
    <2> QED BY <1>0, <1>1, <2>1 DEF FrameTypeOK, Bytes
  <1>4. ASSUME ~frCut' PROVE InStep'
    <2>1. InStep
      BY <1>1, <1>4 DEF FrameInv
    <2>2. PICK st, p : \E pos, q, w \in Nat : FollowsStream(frSent, st, p, pos, q, w)
      BY <1>1, <2>1 DEF InStep
    <2>3. PICK pos \in Nat, q \in Nat, w \in Nat : FollowsStream(frSent, st, p, pos, q, w)
      BY <2>2
    <2>4. /\ IsStream(frSent, st, p) /\ pos <= q /\ q <= w /\ w <= Len(st)
          /\ Stands(frSent, p, Len(frGot), frLength, pos)
          /\ frBuffer = Slice(st, pos, q) /\ Halts(frBuffer, frLength)
          /\ frWire = Slice(st, q, w)
      BY <2>3 DEF FollowsStream
    <2>5. st \in Bytes /\ Len(st) \in Nat
      BY <2>4, LenProperties DEF IsStream, Bytes
    <2>6. Len(frWire) = w - q
      BY <2>4, <2>5, SliceIs DEF IsSlice
    <2>7. PICK u \in Nat : u = q + n /\ q <= u /\ u <= Len(st) /\ n \in 0..(w - q)
      BY <1>2, <2>4, <2>5, <2>6
    <2>8. frWire' = Slice(st, q, u)
      <3>1. SubSeq(Slice(st, q, w), 1, n) = Slice(st, q, q + n)
        <4>1. st \in Bytes /\ q <= w /\ w <= Len(st) /\ n \in 0..(w - q)
          BY <2>4, <2>5, <2>7
        <4> QED BY ONLY <4>1, q \in Nat, w \in Nat, SliceParts
      <3> QED BY <1>2, <2>4, <2>7, <3>1
    <2>9. FollowsStream(frSent, st, p, pos, q, u)'
      BY <1>1, <2>4, <2>7, <2>8 DEF FollowsStream
    <2>10. \E s, h : \E a, c, d \in Nat : FollowsStream(frSent, s, h, a, c, d)'
      BY <2>9
    <2> QED BY <1>1, <2>1, <2>10 DEF InStep
  <1> QED BY <1>3, <1>4 DEF FrameInv

\* The server hears of the end, and another child connects.
LEMMA ChildIsReplaced ==
  ASSUME FrameInv, EndEvent \/ ListenEvent
  PROVE  FrameInv'
  <1>0. FrameTypeOK /\ (~frCut => InStep)
    BY DEF FrameInv
  <1>1. CASE EndEvent
    <2>1. FrameTypeOK'
      BY <1>0, <1>1 DEF EndEvent, FrameTypeOK
    <2>2. frLink' = "closed" /\ UNCHANGED <<frSent, frGot, frCut>>
      BY <1>1 DEF EndEvent
    <2>3. ~frCut' => InStep'
      BY <1>0, <2>2 DEF InStep
    <2> QED BY <2>1, <2>3 DEF FrameInv
  <1>2. CASE ListenEvent
    <2>1. /\ frLink' = "open" /\ frChildren' = frChildren + 1
          /\ frSent' = <<>> /\ frWire' = <<>> /\ frGot' = <<>>
          /\ frCut' = (frCut \/ frBuffer # <<>> \/ frLength # NoHeader)
          /\ UNCHANGED <<frBuffer, frLength>>
      BY <1>2 DEF ListenEvent
    <2>2. FrameTypeOK'
      <3>1. /\ frSent' \in Seq(Payloads) /\ frWire' \in Seq(Byte) /\ frGot' \in Seq(Seq(Byte))
            /\ frLink' \in {"open", "dying", "closed"}
        BY <2>1
      <3>2. frChildren' \in Nat /\ frCut' \in BOOLEAN
        BY <1>0, <2>1 DEF FrameTypeOK
      <3> QED BY <1>0, <2>1, <3>1, <3>2 DEF FrameTypeOK
    <2>3. ASSUME ~frCut' PROVE InStep'
      <3>1. frBuffer' = <<>> /\ frLength' = NoHeader
        BY <2>1, <2>3
      <3>2. (frSent = <<>> /\ frGot = <<>> /\ frBuffer = <<>> /\ frLength = NoHeader
             /\ frWire = <<>>)'
        BY <2>1, <3>1
      <3> QED BY <3>2, StreamStarts, PTL
    <2> QED BY <2>2, <2>3 DEF FrameInv
  <1> QED BY <1>1, <1>2

\* What the invariant says of the messages received
LEMMA InStepIsInOrder ==
  ASSUME FrameInv
  PROVE  FramesInOrder
  <1> SUFFICES ASSUME ~frCut
               PROVE  /\ IsPrefix(frGot, frSent)
                      /\ frLink = "open" /\ frWire = <<>> => frSent \in {frGot, Append(frGot, <<>>)}
                      /\ \A i \in DOMAIN frGot : Len(frGot[i]) <= MaxPayload
    BY DEF FramesInOrder
  <1>0. /\ frSent \in Seq(Bytes) /\ frSent \in Seq(Payloads) /\ frGot \in Seq(Bytes)
        /\ frBuffer \in Bytes /\ Len(frSent) \in Nat /\ Len(frGot) \in Nat
    <2>1. frSent \in Seq(Payloads) /\ frGot \in Seq(Bytes) /\ frBuffer \in Bytes
      BY DEF FrameInv, FrameTypeOK, Bytes
    <2>2. Payloads \subseteq Bytes
      BY FramingAssumption DEF Bytes
    <2>3. frSent \in Seq(Bytes)
      BY <2>1, <2>2, SeqMonotonic
    <2> QED BY <2>1, <2>3, LenProperties
  <1>1. /\ Len(frGot) <= Len(frSent)
        /\ \A i \in 1..Len(frGot) : frGot[i] = frSent[i] /\ Len(frGot[i]) <= MaxPayload
        /\ frLink # "closed" =>
             \E st, p : \E pos, q, w \in Nat : FollowsStream(frSent, st, p, pos, q, w)
    BY DEF FrameInv, InStep, Received
  <1>2. \A i \in DOMAIN frGot : Len(frGot[i]) <= MaxPayload
    BY <1>0, <1>1
  <1>3. IsPrefix(frGot, frSent)
    <2>1. PICK t : t = SubSeq(frSent, 1, Len(frGot))
      OBVIOUS
    <2>2. /\ t \in Seq(Bytes) /\ Len(t) = Len(frGot)
          /\ \A i \in 1..Len(frGot) : t[i] = frSent[i]
      <3>1. \A i \in 1..Len(frGot) : frSent[i] \in Bytes
        BY <1>0, <1>1
      <3>2. 1 \in Int /\ Len(frGot) \in Int
        BY <1>0
      <3>3. /\ SubSeq(frSent, 1, Len(frGot)) \in Seq(Bytes)
            /\ Len(SubSeq(frSent, 1, Len(frGot))) =
                 IF 1 <= Len(frGot) THEN Len(frGot) - 1 + 1 ELSE 0
            /\ \A i \in 1..(Len(frGot) - 1 + 1) :
                 SubSeq(frSent, 1, Len(frGot))[i] = frSent[1 + i - 1]
        BY <3>1, <3>2, SubSeqProperties
      <3>4. Len(frGot) - 1 + 1 = Len(frGot) /\ \A i \in Nat : 1 + i - 1 = i
        BY <1>0
      <3>5. Len(t) = Len(frGot)
        BY <1>0, <2>1, <3>3, <3>4
      <3>6. \A i \in 1..Len(frGot) : t[i] = frSent[i]
        BY <1>0, <2>1, <3>3, <3>4
      <3> QED BY <2>1, <3>3, <3>5, <3>6
    <2>3. frGot = t
      BY <1>0, <1>1, <2>2, SeqEqual
    <2> QED BY <1>1, <2>1, <2>3 DEF IsPrefix
  <1>4. ASSUME frLink = "open", frWire = <<>>
        PROVE  frSent = frGot \/ frSent = Append(frGot, <<>>)
    <2>1. PICK st, p : \E pos, q, w \in Nat : FollowsStream(frSent, st, p, pos, q, w)
      BY <1>1, <1>4
    <2>2. PICK pos \in Nat, q \in Nat, w \in Nat : FollowsStream(frSent, st, p, pos, q, w)
      BY <2>1
    <2>3. /\ IsStream(frSent, st, p) /\ pos <= q /\ q <= w /\ w = Len(st)
          /\ Stands(frSent, p, Len(frGot), frLength, pos)
          /\ frBuffer = Slice(st, pos, q) /\ Halts(frBuffer, frLength)
          /\ frWire = Slice(st, q, w)
      BY <1>4, <2>2 DEF FollowsStream
    <2>4. st \in Bytes /\ w \in Nat
      BY <2>3 DEF IsStream
    <2>5. q = w
      <3>1. IsSlice(Slice(st, q, w), st, q, w)
        BY <2>3, <2>4, SliceIs
      <3>2. Len(frWire) = w - q
        BY <2>3, <3>1 DEF IsSlice
      <3>3. Len(frWire) = 0
        BY <1>4
      <3> QED BY <2>3, <3>2, <3>3
    <2>6. Len(frBuffer) = w - pos
      <3>1. IsSlice(Slice(st, pos, q), st, pos, q)
        BY <2>3, <2>4, <2>5, SliceIs
      <3> QED BY <2>3, <2>5, <3>1 DEF IsSlice
    <2>7. PICK k \in 0..Len(frSent) : k = Len(frGot)
      BY <2>3 DEF Stands
    <2>8. /\ p \in [0..Len(frSent) -> Nat]
          /\ p[Len(frSent)] = w /\ \A i \in 0..Len(frSent) : p[i] <= w
          /\ \A i \in 1..Len(frSent) : p[i] = p[i - 1] + 2 + Len(frSent[i])
      BY <2>3 DEF IsStream
    <2>9. ASSUME k < Len(frSent)
          PROVE  p[k + 1] \in Nat /\ p[k + 1] <= w /\ p[k + 1] = p[k] + 2 + Len(frSent[k + 1])
                 /\ Len(frSent[k + 1]) \in Nat /\ p[k] \in Nat
      <3>1. k + 1 \in 1..Len(frSent) /\ k + 1 \in 0..Len(frSent) /\ (k + 1) - 1 = k
        BY <1>0, <2>9
      <3>2. Len(frSent[k + 1]) \in Nat
        BY <1>0, <3>1, LenProperties DEF Bytes
      <3> QED BY <2>8, <3>1, <3>2
    <2>10. frBuffer = <<>> => Len(frBuffer) = 0
      OBVIOUS
    <2>11. CASE frLength = NoHeader
      <3>1. pos = p[k]
        <4>1. NoHeader \notin Byte
          BY DEF NoHeader, Byte
        <4> QED BY <2>3, <2>7, <2>11, <4>1 DEF Stands
      <3>2. Len(frBuffer) < 2
        BY <2>3, <2>10, <2>11 DEF Halts
      <3>3. ~(k < Len(frSent))
        <4>1. SUFFICES ASSUME k < Len(frSent) PROVE FALSE
          OBVIOUS
        <4>2. PICK a \in Nat, b \in Nat, l \in Nat :
                 a = p[k] /\ b = p[k + 1] /\ l = Len(frSent[k + 1]) /\ b <= w /\ b = a + 2 + l
          BY <2>9, <4>1
        <4>3. pos = a
          BY <3>1, <4>2
        <4>4. w - a < 2
          BY <2>6, <3>2, <4>3
        <4>5. b <= w /\ b = a + 2 + l
          BY <4>2
        <4> QED BY ONLY <4>4, <4>5, a \in Nat, b \in Nat, l \in Nat, w \in Nat
      <3>4. Len(frGot) = Len(frSent)
        BY <1>0, <1>1, <2>7, <3>3
      <3> QED BY <1>0, <1>1, <3>4, SeqEqual
    <2>12. CASE frLength # NoHeader
      <3>1. /\ k < Len(frSent) /\ frLength = Len(frSent[k + 1]) /\ pos = p[k] + 2
            /\ frLength \in Nat
        BY <2>3, <2>7, <2>9, <2>12 DEF Stands
      <3>2. Len(frBuffer) >= frLength
        <4>1. PICK a \in Nat, b \in Nat, l \in Nat :
                 /\ a = p[k] /\ b = p[k + 1] /\ l = Len(frSent[k + 1])
                 /\ b <= w /\ b = a + 2 + l /\ pos = a + 2 /\ l = frLength
          BY <2>9, <3>1
        <4>2. b <= w /\ b = a + 2 + l /\ pos = a + 2 /\ l = frLength
          BY <4>1
        <4>3. w - pos >= l
          BY ONLY <4>2, a \in Nat, b \in Nat, l \in Nat, w \in Nat, pos \in Nat
        <4> QED BY <2>6, <4>2, <4>3
      <3>3. frBuffer = <<>>
        BY <2>3, <2>6, <2>12, <3>1, <3>2 DEF Halts
      <3>4. Len(frSent[k + 1]) = 0 /\ p[k + 1] = w
        <4>1. PICK a \in Nat, b \in Nat, l \in Nat :
                 /\ a = p[k] /\ b = p[k + 1] /\ l = Len(frSent[k + 1])
                 /\ b <= w /\ b = a + 2 + l /\ pos = a + 2 /\ l = frLength
          BY <2>9, <3>1
        <4>2. Len(frBuffer) = 0 /\ Len(frBuffer) = w - pos /\ Len(frBuffer) >= l
          BY <2>6, <2>10, <3>2, <3>3, <4>1
        <4>3. l = 0 /\ w - pos = 0
          BY <4>2
        <4>4. b = a + 2 + l /\ pos = a + 2
          BY <4>1
        <4>5. b = w
          BY <4>3, <4>4
        <4> QED BY <4>1, <4>3, <4>5
      <3>5. k + 1 = Len(frSent)
        <4>1. ASSUME k + 1 < Len(frSent) PROVE FALSE
          <5>1. /\ k + 2 \in 1..Len(frSent) /\ (k + 2) - 1 = k + 1
                /\ k + 2 \in 0..Len(frSent)
            BY <1>0, <4>1
          <5>2. Len(frSent[k + 2]) \in Nat
            BY <1>0, <5>1, LenProperties DEF Bytes
          <5>3. p[k + 2] = p[k + 1] + 2 + Len(frSent[k + 2]) /\ p[k + 2] <= w
            BY <2>8, <5>1
          <5>4. PICK b \in Nat, l \in Nat : b = p[k + 2] /\ l = Len(frSent[k + 2])
            BY <2>8, <5>1, <5>2
          <5>5. b = w + 2 + l /\ b <= w
            BY <3>4, <5>3, <5>4
          <5> QED BY <5>5
        <4> QED BY <1>0, <3>1, <4>1
      <3>6. frSent[k + 1] = <<>>
        <4>1. frSent[k + 1] \in Seq(Byte)
          BY <1>0, <3>1 DEF Bytes
        <4> QED BY <3>4, <4>1, EmptySeq
      <3>7. <<>> \in Bytes
        BY DEF Bytes
      <3>8. PICK t : t = Append(frGot, <<>>)
        OBVIOUS
      <3>9. /\ t \in Seq(Bytes) /\ Len(t) = k + 1 /\ t[k + 1] = <<>>
            /\ \A i \in 1..k : t[i] = frGot[i]
        BY <1>0, <2>7, <3>7, <3>8, AppendProperties
      <3>10. \A i \in 1..Len(t) : t[i] = frSent[i]
        <4>1. ASSUME NEW i \in 1..(k + 1) PROVE t[i] = frSent[i]
          <5>1. i = k + 1 \/ i \in 1..k
            OBVIOUS
          <5> QED BY <1>1, <2>7, <3>6, <3>9, <5>1
        <4> QED BY <3>9, <4>1
      <3>11. t = frSent
        BY <1>0, <3>5, <3>9, <3>10, SeqEqual
      <3> QED BY <3>8, <3>11
    <2> QED BY <2>11, <2>12
  <1> QED BY <1>2, <1>3, <1>4

\* FramesInOrder, of any messages and however long a child and the server go on: what is
\* decoded of the pieces of a stream are its messages, whole and in order.
THEOREM FramesAreSound == FrameSpec => [](FrameTypeOK /\ FramesInOrder)
  <1>1. FrameInit => FrameInv
    <2> SUFFICES ASSUME FrameInit PROVE FrameInv
      OBVIOUS
    <2>1. /\ frSent = <<>> /\ frWire = <<>> /\ frBuffer = <<>> /\ frLength = NoHeader
          /\ frGot = <<>> /\ frLink = "open" /\ frChildren = 1 /\ frCut = FALSE
      BY DEF FrameInit
    <2>2. FrameTypeOK
      <3>1. /\ <<>> \in Seq(Payloads) /\ <<>> \in Seq(Byte) /\ <<>> \in Seq(Seq(Byte))
            /\ 1 \in Nat /\ NoHeader \in 0..MaxPayload \cup {NoHeader}
        OBVIOUS
      <3> QED BY <2>1, <3>1 DEF FrameTypeOK
    <2>3. InStep
      BY <2>1, StreamStarts
    <2> QED BY <2>2, <2>3 DEF FrameInv
  <1>2. FrameInv /\ [FrameNext]_frVars => FrameInv'
    <2> SUFFICES ASSUME FrameInv, [FrameNext]_frVars PROVE FrameInv'
      OBVIOUS
    <2>1. CASE DataEvent
      BY <2>1, DataIsRead
    <2>2. CASE EndEvent \/ ListenEvent
      BY <2>2, ChildIsReplaced
    <2>3. CASE ChildDies
      BY <2>3, ChildIsLost
    <2>4. CASE \E m \in Payloads : SendFrame(m)
      BY <2>4, MessageIsSent
    <2>5. CASE UNCHANGED frVars
      BY <2>5 DEF frVars, FrameInv, FrameTypeOK, InStep, FollowsStream
    <2> QED BY <2>1, <2>2, <2>3, <2>4, <2>5 DEF FrameNext
  <1>3. FrameInv => FrameTypeOK /\ FramesInOrder
    BY InStepIsInOrder DEF FrameInv
  <1> QED BY <1>1, <1>2, <1>3, PTL DEF FrameSpec

-----------------------------------------------------------------------------
(* WagoUdp                                                                 *)

\* A queue that is not empty has a head, and is shorter without it.
LEMMA QueueLosesHead ==
  ASSUME NEW S, NEW q \in Seq(S), q # <<>>
  PROVE  Head(q) \in S /\ Tail(q) \in Seq(S)
  BY HeadTailProperties

\* The callback of the head keeps the types.
LEMMA CallBackTypes ==
  ASSUME UdpTypeOK, NEW known \in BOOLEAN, Served(known)
  PROVE  /\ queue' \in Seq(UdpCommands) /\ deferred' \in Seq(DaliReads)
         /\ inProgress' \in BOOLEAN /\ udpTimeout' \in BOOLEAN /\ version' \in UdpStates
         /\ answers' \in [DaliReads -> Nat]
  <1>0. /\ queue \in Seq(UdpCommands) /\ deferred \in Seq(DaliReads)
        /\ inProgress \in BOOLEAN /\ version \in UdpStates /\ answers \in [DaliReads -> Nat]
    BY DEF UdpTypeOK
  <1>1. udpTimeout' \in BOOLEAN
    BY DEF Served
  <1>2. CASE queue = <<>>
    <2>1. UNCHANGED <<queue, inProgress, version, deferred, answers>>
      BY <1>2 DEF Served
    <2> QED BY <1>0, <1>1, <2>1
  <1>3. CASE queue # <<>>
    <2>1. inProgress' = FALSE /\ CallBack(known)
      BY <1>3 DEF Served
    <2>2. Head(queue) \in UdpCommands /\ Tail(queue) \in Seq(UdpCommands)
      BY <1>0, <1>3, QueueLosesHead
    <2>3. CASE Head(queue) = Version
      <3>1. VersionReply(known)
        BY <2>1, <2>3 DEF CallBack
      <3>2. deferred \in Seq(UdpCommands)
        <4>1. DaliReads \subseteq UdpCommands
          BY DEF UdpCommands, Wanted
        <4> QED BY <1>0, <4>1
      <3>3. queue' \in Seq(UdpCommands) /\ deferred' \in Seq(DaliReads)
        BY <2>2, <3>1, <3>2 DEF VersionReply
      <3>4. version' \in UdpStates /\ answers' = answers
        BY <3>1 DEF VersionReply, UdpStates
      <3> QED BY <1>0, <1>1, <2>1, <3>3, <3>4
    <2>4. CASE Head(queue) # Version
      <3>1. /\ queue' = Tail(queue) /\ UNCHANGED <<version, deferred>>
            /\ answers' = IF Head(queue) \in DaliReads
                          THEN [answers EXCEPT ![Head(queue)] = @ + 1] ELSE answers
        BY <2>1, <2>4 DEF CallBack, VersionReply
      <3>2. answers' \in [DaliReads -> Nat]
        BY <1>0, <3>1
      <3> QED BY <1>0, <1>1, <2>1, <2>2, <3>1, <3>2
    <2> QED BY <2>3, <2>4
  <1> QED BY <1>2, <1>3

\* A step of the queue of a PLC keeps the types.
LEMMA UdpStepTypes == UdpTypeOK /\ [UdpNext]_udpVars => UdpTypeOK'
  <1> SUFFICES ASSUME UdpTypeOK, [UdpNext]_udpVars PROVE UdpTypeOK'
    OBVIOUS
  <1>0. /\ queue \in Seq(UdpCommands) /\ deferred \in Seq(DaliReads)
        /\ inProgress \in BOOLEAN /\ udpTimer \in BOOLEAN /\ udpTimeout \in BOOLEAN
        /\ socket \in BOOLEAN /\ version \in UdpStates /\ net \subseteq UdpCommands
        /\ asked \subseteq DaliReads /\ answers \in [DaliReads -> Nat]
    BY DEF UdpTypeOK
  <1>1. ASSUME NEW c \in UdpCommands, SendUDPCommand(c)
        PROVE  queue' \in Seq(UdpCommands) /\ udpTimer' \in BOOLEAN
    <2>1. queue' = Append(queue, c)
      BY <1>1 DEF SendUDPCommand
    <2>2. udpTimer' = (queue = <<>> \/ udpTimer)
      BY <1>1 DEF SendUDPCommand, ArmWhenEmpty
    <2> QED BY <1>0, <2>1, <2>2
  <1>2. ASSUME NEW r \in DaliReads, AskRead(r) PROVE UdpTypeOK'
    <2>1. r \in UdpCommands
      BY DEF UdpCommands, Wanted
    <2>2. /\ queue' \in Seq(UdpCommands) /\ deferred' \in Seq(DaliReads)
          /\ udpTimer' \in BOOLEAN
      <3>1. CASE deferred' = Append(deferred, r) /\ UNCHANGED <<queue, udpTimer>>
        BY <1>0, <3>1
      <3>2. CASE SendUDPCommand(r) /\ UNCHANGED deferred
        BY <1>0, <1>1, <2>1, <3>2
      <3> QED BY <1>2, <3>1, <3>2 DEF AskRead, SendDaliGet
    <2> QED BY <1>0, <1>2, <2>2 DEF AskRead, UdpTypeOK
  <1>3. ASSUME NEW c \in Orders, GiveOrder(c) PROVE UdpTypeOK'
    <2>1. c \in UdpCommands
      BY DEF UdpCommands
    <2>2. queue' \in Seq(UdpCommands) /\ udpTimer' \in BOOLEAN
      BY <1>1, <1>3, <2>1 DEF GiveOrder
    <2> QED BY <1>0, <1>3, <2>2 DEF GiveOrder, UdpTypeOK
  <1>4. CASE SendHead
    <2>1. Head(queue) \in UdpCommands /\ Tail(queue) \in Seq(UdpCommands)
      BY <1>0, <1>4, QueueLosesHead DEF SendHead
    <2>2. net' \subseteq UdpCommands
      BY <1>0, <1>4, <2>1 DEF SendHead, Emit
    <2>3. queue' \in Seq(UdpCommands) /\ inProgress' \in BOOLEAN /\ udpTimeout' \in BOOLEAN
      BY <1>0, <1>4, <2>1 DEF SendHead
    <2> QED BY <1>0, <1>4, <2>2, <2>3 DEF SendHead, UdpTypeOK
  <1>5. CASE StopTimer
    BY <1>0, <1>5 DEF StopTimer, UdpTypeOK
  <1>6. CASE UdpTimeout
    BY <1>0, <1>6, CallBackTypes DEF UdpTimeout, UdpTypeOK
  <1>7. ASSUME NEW c \in UdpCommands, Receive(c) PROVE UdpTypeOK'
    <2>1. net' \subseteq UdpCommands /\ UNCHANGED <<udpTimer, socket, asked>>
      BY <1>0, <1>7 DEF Receive
    <2>2. CASE Misattributed(c) /\ Drop(c)
      BY <1>0, <2>1, <2>2 DEF Drop, UdpTypeOK
    <2>3. ASSUME NEW readable \in BOOLEAN, Served(c = Version /\ readable) PROVE UdpTypeOK'
      <3>1. (c = Version /\ readable) \in BOOLEAN
        OBVIOUS
      <3>2. PICK known \in BOOLEAN : Served(known)
        BY <2>3, <3>1
      <3> QED BY <1>0, <2>1, <3>2, CallBackTypes DEF UdpTypeOK
    <2> QED BY <1>7, <2>2, <2>3 DEF Receive
  <1>8. ASSUME NEW c \in UdpCommands, Lose(c) PROVE UdpTypeOK'
    BY <1>0, <1>8 DEF Lose, UdpTypeOK
  <1>9. CASE SocketError \/ Reopen
    BY <1>0, <1>9 DEF SocketError, Reopen, UdpTypeOK
  <1>10. CASE UNCHANGED udpVars
    BY <1>0, <1>10 DEF udpVars, UdpTypeOK
  <1> QED
    BY <1>2, <1>3, <1>4, <1>5, <1>6, <1>7, <1>8, <1>9, <1>10 DEF UdpNext, UdpCallback

\* The queue of a PLC and what is known of it keep their types.
THEOREM UdpTypes == UdpSpec => []UdpTypeOK
  <1>1. UdpInit => UdpTypeOK
    <2>1. Version \in UdpCommands /\ "pending" \in UdpStates /\ <<>> \in Seq(DaliReads)
      BY DEF UdpCommands, Wanted, UdpStates
    <2>2. <<Version>> \in Seq(UdpCommands)
      BY <2>1
    <2>3. [r \in DaliReads |-> 0] \in [DaliReads -> Nat]
      OBVIOUS
    <2> QED BY <2>1, <2>2, <2>3 DEF UdpInit, UdpTypeOK
  <1> QED BY <1>1, UdpStepTypes, PTL DEF UdpSpec

-----------------------------------------------------------------------------
(* Squeezebox                                                              *)

Player ==
  [queue : Seq(SqCommands), inProgress : BOOLEAN, timer : BOOLEAN,
   connected : BOOLEAN, current : SqLinks, reconnects : Nat,
   links : [SqLinks -> Link]]

\* The error of a connection is heard once, its end once, by which it closes: two
\* connections at most succeed to it.
Heirs(conn) ==
  /\ conn.onError => conn.heirs <= 1
  /\ conn.state \in {"none", "connecting", "unheard", "open"} => conn.heirs = 0

GoodLink(conn) == conn \in Link /\ Heirs(conn)
GoodPlayer(P) == P \in Player /\ \A l \in SqLinks : GoodLink(P.links[l])

SqState ==
  /\ GoodPlayer(player) /\ sqNotif \in BOOLEAN
  /\ sqAsked \in Seq(SqCommands) /\ sqDone \in Seq(SqCommands)

\* One of the connections of a player changes
LEMMA LinkChanges ==
  ASSUME NEW P, GoodPlayer(P), NEW l \in SqLinks, NEW x, GoodLink(x)
  PROVE  /\ GoodPlayer([P EXCEPT !.links[l] = x])
         /\ [P EXCEPT !.links[l] = x].links = [P.links EXCEPT ![l] = x]
  <1>1. P \in Player /\ P.links \in [SqLinks -> Link]
    BY DEF GoodPlayer, Player
  <1>2. PICK links \in [SqLinks -> Link] : links = [P.links EXCEPT ![l] = x]
    BY <1>1 DEF GoodLink
  <1>3. [P EXCEPT !.links[l] = x] = [P EXCEPT !.links = links]
    BY <1>1, <1>2 DEF Player
  <1>4. [P EXCEPT !.links = links] \in Player /\ [P EXCEPT !.links = links].links = links
    BY <1>1 DEF Player
  <1>5. \A m \in SqLinks : GoodLink(links[m])
    BY <1>1, <1>2 DEF GoodPlayer
  <1> QED BY <1>2, <1>3, <1>4, <1>5 DEF GoodPlayer

\* Its members change
LEMMA MembersChange ==
  ASSUME NEW P, GoodPlayer(P)
  PROVE  /\ \A b \in BOOLEAN : /\ GoodPlayer([P EXCEPT !.connected = b])
                               /\ GoodPlayer([P EXCEPT !.timer = b])
                               /\ GoodPlayer([P EXCEPT !.inProgress = b])
         /\ \A q \in Seq(SqCommands) : GoodPlayer([P EXCEPT !.queue = q])
         /\ \A n \in Nat : GoodPlayer([P EXCEPT !.reconnects = n])
         /\ \A l \in SqLinks : GoodPlayer([P EXCEPT !.current = l])
  <1>1. P \in Player /\ \A l \in SqLinks : GoodLink(P.links[l])
    BY DEF GoodPlayer
  <1>2. /\ \A b \in BOOLEAN : /\ [P EXCEPT !.connected = b] \in Player
                              /\ [P EXCEPT !.connected = b].links = P.links
                              /\ [P EXCEPT !.timer = b] \in Player
                              /\ [P EXCEPT !.timer = b].links = P.links
                              /\ [P EXCEPT !.inProgress = b] \in Player
                              /\ [P EXCEPT !.inProgress = b].links = P.links
    BY <1>1 DEF Player
  <1>3. \A q \in Seq(SqCommands) :
          [P EXCEPT !.queue = q] \in Player /\ [P EXCEPT !.queue = q].links = P.links
    BY <1>1 DEF Player
  <1>4. \A n \in Nat :
          [P EXCEPT !.reconnects = n] \in Player /\ [P EXCEPT !.reconnects = n].links = P.links
    BY <1>1 DEF Player
  <1>5. \A l \in SqLinks :
          [P EXCEPT !.current = l] \in Player /\ [P EXCEPT !.current = l].links = P.links
    BY <1>1 DEF Player
  <1> QED BY <1>1, <1>2, <1>3, <1>4, <1>5 DEF GoodPlayer

\* A connection that closes has one more heir.
LEMMA HeirIsAdded ==
  ASSUME NEW x, GoodLink(x), ~x.onError \/ x.heirs = 0, x.heirs <= 1
  PROVE  GoodLink(CloseWithHeir(x))
  <1>1. CASE x.state = "closed"
    BY <1>1 DEF CloseWithHeir
  <1>2. CASE x.state # "closed"
    <2>1. x \in Link
      BY DEF GoodLink
    <2>2. PICK heirs \in 0..2 : heirs = x.heirs + 1 /\ (x.onError => heirs <= 1)
      <3>1. x.heirs \in 0..2
        BY <2>1 DEF Link
      <3>2. x.heirs + 1 \in 0..2 /\ (x.onError => x.heirs + 1 <= 1)
        BY <3>1
      <3> QED BY <3>2
    <2>3. CloseWithHeir(x) = [x EXCEPT !.state = "closing", !.heirs = heirs]
      BY <1>2, <2>2 DEF CloseWithHeir
    <2>4. "closing" \in LinkStates
      BY DEF LinkStates
    <2>5. /\ CloseWithHeir(x) \in Link /\ CloseWithHeir(x).state = "closing"
          /\ CloseWithHeir(x).heirs = heirs /\ CloseWithHeir(x).onError = x.onError
      BY <2>1, <2>3, <2>4 DEF Link
    <2> QED BY <2>2, <2>5 DEF GoodLink, Heirs
  <1> QED BY <1>1, <1>2

\* The error of a connection
LEMMA ErrorIsHeard ==
  ASSUME NEW P, GoodPlayer(P), NEW l \in SqLinks
  PROVE  GoodPlayer(OnError(P, l))
  <1>1. CASE ~P.links[l].onError
    BY <1>1 DEF OnError
  <1>2. CASE P.links[l].onError
    <2>1. PICK x : x = P.links[l]
      OBVIOUS
    <2>2. GoodLink(x) /\ x.onError
      BY <1>2, <2>1 DEF GoodPlayer
    <2>3. PICK y : y = [x EXCEPT !.onError = FALSE]
      OBVIOUS
    <2>4. GoodLink(y) /\ ~y.onError /\ y.heirs <= 1
      <3>1. x \in Link
        BY <2>2 DEF GoodLink
      <3>2. y \in Link /\ ~y.onError /\ y.heirs = x.heirs /\ y.state = x.state
        BY <2>3, <3>1 DEF Link
      <3> QED BY <2>2, <3>2 DEF GoodLink, Heirs
    <2>5. PICK z : z = CloseWithHeir(y)
      OBVIOUS
    <2>6. GoodLink(z)
      BY <2>4, <2>5, HeirIsAdded
    <2>7. PICK Q : Q = [P EXCEPT !.connected = FALSE]
      OBVIOUS
    <2>8. GoodPlayer(Q)
      BY <2>7, MembersChange
    <2>9. OnError(P, l) = [Q EXCEPT !.links[l] = z]
      <3>1. P \in Player
        BY DEF GoodPlayer
      <3> QED BY <1>2, <2>1, <2>3, <2>5, <2>7, <3>1 DEF OnError, Player
    <2> QED BY <2>6, <2>8, <2>9, LinkChanges
  <1> QED BY <1>1, <1>2

\* The head of the queue is written
LEMMA HeadIsSent ==
  ASSUME NEW P, GoodPlayer(P)
  PROVE  GoodPlayer(SqSendHead(P))
  <1>1. PICK Q : Q = [P EXCEPT !.inProgress = TRUE]
    OBVIOUS
  <1>2. PICK R : R = [Q EXCEPT !.timer = TRUE]
    OBVIOUS
  <1>3. GoodPlayer(Q) /\ GoodPlayer(R)
    <2>1. GoodPlayer(Q)
      BY <1>1, MembersChange
    <2> QED BY <1>2, <2>1, MembersChange
  <1>4. R = [P EXCEPT !.inProgress = TRUE, !.timer = TRUE]
    BY <1>1, <1>2
  <1>5. R \in Player /\ R.current \in SqLinks
    BY <1>3 DEF GoodPlayer, Player
  <1>6. GoodPlayer(Write(R))
    <2>1. CASE R.links[R.current].state \in {"connecting", "open"}
      <3>1. PICK x : x = R.links[R.current]
        OBVIOUS
      <3>2. GoodLink(x) /\ x \in Link
        BY <1>3, <1>5, <3>1 DEF GoodPlayer, GoodLink
      <3>3. PICK owed \in Nat : owed = x.owed + 1
        BY <3>2 DEF Link
      <3>4. PICK y : y = [x EXCEPT !.owed = owed]
        OBVIOUS
      <3>5. y \in Link /\ y.onError = x.onError /\ y.heirs = x.heirs /\ y.state = x.state
        BY <3>2, <3>4 DEF Link
      <3>6. GoodLink(y)
        BY <3>2, <3>5 DEF GoodLink, Heirs
      <3>7. Write(R) = [R EXCEPT !.links[R.current] = y]
        BY <2>1, <3>1, <3>3, <3>4 DEF Write
      <3> QED BY <1>3, <1>5, <3>6, <3>7, LinkChanges
    <2>2. CASE R.links[R.current].state \notin {"connecting", "open"}
      BY <1>3, <1>5, <2>2, ErrorIsHeard DEF Write
    <2> QED BY <2>1, <2>2
  <1> QED BY <1>3, <1>4, <1>6 DEF SqSendHead

\* The head is answered
LEMMA HeadIsAnswered ==
  ASSUME NEW P, GoodPlayer(P)
  PROVE  GoodPlayer(Answered(P))
  <1>1. P \in Player
    BY DEF GoodPlayer
  <1>2. PICK q \in Seq(SqCommands) : q = IF P.queue = <<>> THEN P.queue ELSE Tail(P.queue)
    <2>1. PICK s \in Seq(SqCommands) : s = P.queue
      BY <1>1 DEF Player
    <2>2. s # <<>> => Tail(s) \in Seq(SqCommands)
      BY HeadTailProperties
    <2> QED BY <2>1, <2>2
  <1>3. PICK Q : Q = [P EXCEPT !.timer = FALSE]
    OBVIOUS
  <1>4. PICK R : R = [Q EXCEPT !.inProgress = FALSE]
    OBVIOUS
  <1>5. AnsweredOnly(P) = [R EXCEPT !.queue = q]
    BY <1>1, <1>2, <1>3, <1>4 DEF AnsweredOnly, Player
  <1>6. GoodPlayer(R)
    <2>1. GoodPlayer(Q)
      BY <1>3, MembersChange
    <2> QED BY <1>4, <2>1, MembersChange
  <1>7. GoodPlayer(AnsweredOnly(P))
    BY <1>5, <1>6, MembersChange
  <1> QED BY <1>7, HeadIsSent DEF Answered

\* A request that is not answered in time drops its connection
LEMMA LinksAreDropped ==
  ASSUME NEW P, GoodPlayer(P)
  PROVE  GoodPlayer(DropLinks(P))
  <1>1. P \in Player /\ P.current \in SqLinks
    BY DEF GoodPlayer, Player
  <1>2. PICK x : x = P.links[P.current]
    OBVIOUS
  <1>3. GoodLink(x) /\ x \in Link
    BY <1>1, <1>2 DEF GoodPlayer, GoodLink
  <1>4. PICK y : y = IF x.state \in {"closing", "closed"} THEN x
                     ELSE [x EXCEPT !.state = "closing", !.cancelled = x.state = "connecting"]
    OBVIOUS
  <1>5. GoodLink(y)
    <2>1. CASE x.state \in {"closing", "closed"}
      BY <1>3, <1>4, <2>1
    <2>2. CASE x.state \notin {"closing", "closed"}
      <3>1. PICK b \in BOOLEAN : b = (x.state = "connecting")
        OBVIOUS
      <3>2. "closing" \in LinkStates
        BY DEF LinkStates
      <3>3. y = [x EXCEPT !.state = "closing", !.cancelled = b]
        BY <1>4, <2>2, <3>1
      <3>4. y \in Link /\ y.onError = x.onError /\ y.heirs = x.heirs /\ y.state = "closing"
        BY <1>3, <3>2, <3>3 DEF Link
      <3> QED BY <1>3, <3>4 DEF GoodLink, Heirs
    <2> QED BY <2>1, <2>2
  <1>6. PICK n \in Nat : n = P.reconnects + 1
    BY <1>1 DEF Player
  <1>7. PICK Q : Q = [P EXCEPT !.connected = FALSE]
    OBVIOUS
  <1>8. PICK R : R = [Q EXCEPT !.links[P.current] = y]
    OBVIOUS
  <1>9. GoodPlayer(R)
    <2>1. GoodPlayer(Q)
      BY <1>7, MembersChange
    <2> QED BY <1>1, <1>5, <1>8, <2>1, LinkChanges
  <1>10. DropLinks(P) = [R EXCEPT !.reconnects = n]
    BY <1>1, <1>2, <1>4, <1>6, <1>7, <1>8 DEF DropLinks, Player
  <1> QED BY <1>9, <1>10, MembersChange

\* A connection becomes another, of the members that name it
LEMMA SqLinkClosedKeeps ==
  ASSUME SqState, NEW l \in SqLinks, SqLinkClosed(l)
  PROVE  GoodPlayer(player')
  <1>1. PICK told : told = IF player.links[l].cancelled THEN OnError(player, l) ELSE player
    OBVIOUS
  <1>2. GoodPlayer(told)
    BY <1>1, ErrorIsHeard DEF SqState
  <1>3. PICK x : x = told.links[l]
    OBVIOUS
  <1>4. told \in Player /\ x \in Link /\ GoodLink(x)
    BY <1>2, <1>3 DEF GoodPlayer, GoodLink
  <1>5. PICK y : y = [x EXCEPT !.state = "closed", !.owed = 0]
    OBVIOUS
  <1>6. GoodLink(y)
    <2>1. "closed" \in LinkStates
      BY DEF LinkStates
    <2>2. y \in Link /\ y.onError = x.onError /\ y.heirs = x.heirs /\ y.state = "closed"
      BY <1>4, <1>5, <2>1 DEF Link
    <2> QED BY <1>4, <2>2 DEF GoodLink, Heirs
  <1>7. PICK n \in Nat : n = told.reconnects + x.heirs
    BY <1>4 DEF Player, Link
  <1>8. PICK R : R = [told EXCEPT !.links[l] = y]
    OBVIOUS
  <1>9. player' = [R EXCEPT !.reconnects = n]
    <2>1. player' = [told EXCEPT !.links[l].state = "closed", !.links[l].owed = 0,
                                 !.reconnects = @ + told.links[l].heirs]
      BY <1>1 DEF SqLinkClosed
    <2>2. told.links \in [SqLinks -> Link]
      BY <1>4 DEF Player
    <2> QED BY <1>3, <1>4, <1>5, <1>7, <1>8, <2>1, <2>2 DEF Player
  <1> QED BY <1>2, <1>6, <1>8, <1>9, LinkChanges, MembersChange

\* The next connection is one that was never tried.
LEMMA NextIsALink ==
  ASSUME NEW l, l # 0,
         l = SelectInSeq([i \in SqLinks |-> player.links[i].state], LAMBDA state : state = "none")
  PROVE  l \in SqLinks
  <1> DEFINE states == [i \in SqLinks |-> player.links[i].state]
             I == {i \in 1..Len(states) : states[i] = "none"}
  <1>1. l = IF I # {} THEN Min(I) ELSE 0
    BY DEF SelectInSeq
  <1>2. MaxLinks \in Nat
    BY SqueezeboxAssumption
  <1>3. Len(states) = MaxLinks
    BY <1>2 DEF SqLinks
  <1>4. I \in SUBSET SqLinks /\ I \in SUBSET Nat
    BY <1>2, <1>3 DEF SqLinks
  <1> HIDE DEF I, states
  <1>5. I # {} /\ l = Min(I)
    BY <1>1
  <1>6. PICK m \in I : \A k \in I : m <= k
    BY <1>4, <1>5, Least
  <1>7. Min(I) \in I
    BY <1>6 DEF Min
  <1> QED BY <1>4, <1>5, <1>7

\* A connection that is tried
LEMMA NewLinksAreGood ==
  ASSUME NEW conn \in Tried(NewLink)
  PROVE  GoodLink(conn) /\ GoodLink(NoLink)
  <1>1. {"none", "connecting", "unheard"} \subseteq LinkStates /\ 0 \in 0..2 /\ 0 \in Nat
    BY DEF LinkStates
  <1>2. NoLink \in Link /\ NoLink.heirs = 0
    BY <1>1 DEF NoLink, Link
  <1>3. NewLink \in Link /\ NewLink.heirs = 0
    BY <1>1, <1>2 DEF NewLink, Link
  <1>4. [NewLink EXCEPT !.state = "unheard"] \in Link
        /\ [NewLink EXCEPT !.state = "unheard"].heirs = 0
    BY <1>1, <1>3 DEF Link
  <1>5. conn \in Link /\ conn.heirs = 0
    BY <1>3, <1>4 DEF Tried
  <1> QED BY <1>2, <1>5 DEF GoodLink, Heirs

\* A step of a player, of its connections or of the media server
LEMMA SqStepKeeps == SqState /\ [SqNext]_sqVars => SqState'
  <1> SUFFICES ASSUME SqState, [SqNext]_sqVars PROVE SqState'
    OBVIOUS
  <1>0. /\ GoodPlayer(player) /\ sqNotif \in BOOLEAN
        /\ sqAsked \in Seq(SqCommands) /\ sqDone \in Seq(SqCommands)
        /\ player \in Player
    BY DEF SqState, GoodPlayer
  <1>1. ASSUME CalledBack, GoodPlayer(player') PROVE sqDone' \in Seq(SqCommands)
    <2>1. PICK q \in Seq(SqCommands) : q = player.queue
      BY <1>0 DEF Player
    <2>2. PICK r \in Seq(SqCommands) : r = player'.queue
      BY <1>1 DEF GoodPlayer, Player
    <2>3. Len(r) < Len(q) => q # <<>>
      OBVIOUS
    <2>4. Len(r) < Len(q) => Head(q) \in SqCommands
      BY <2>3, HeadTailProperties
    <2>5. Len(r) < Len(q) => Append(sqDone, Head(q)) \in Seq(SqCommands)
      BY <1>0, <2>4, AppendProperties
    <2> QED BY <1>0, <1>1, <2>1, <2>2, <2>5 DEF CalledBack
  <1>2. ASSUME NEW c \in SqCommands, SendRequest(c) PROVE SqState'
    <2>1. PICK q \in Seq(SqCommands) : q = player.queue
      BY <1>0 DEF Player
    <2>2. PICK r \in Seq(SqCommands) : r = Append(q, c)
      BY AppendProperties
    <2>3. GoodPlayer([player EXCEPT !.queue = r])
      BY <1>0, MembersChange
    <2>4. player' = SqSendHead([player EXCEPT !.queue = r])
      BY <1>2, <2>1, <2>2 DEF SendRequest
    <2>5. GoodPlayer(player')
      BY <2>3, <2>4, HeadIsSent
    <2>6. sqAsked' \in Seq(SqCommands)
      BY <1>0, <1>2, AppendProperties DEF SendRequest
    <2> QED BY <1>0, <1>2, <2>5, <2>6 DEF SendRequest, SqState
  <1>3. ASSUME NEW l \in SqLinks, DataGetCon(l) PROVE SqState'
    <2>1. PICK x : x = player.links[l]
      OBVIOUS
    <2>2. x \in Link /\ GoodLink(x) /\ x.owed > 0
      BY <1>0, <1>3, <2>1 DEF GoodPlayer, GoodLink, DataGetCon
    <2>3. PICK owed \in Nat : owed = x.owed - 1
      BY <2>2 DEF Link
    <2>4. PICK y : y = [x EXCEPT !.owed = owed]
      OBVIOUS
    <2>5. GoodLink(y)
      <3>1. y \in Link /\ y.onError = x.onError /\ y.heirs = x.heirs /\ y.state = x.state
        BY <2>2, <2>4 DEF Link
      <3> QED BY <2>2, <3>1 DEF GoodLink, Heirs
    <2>6. player' = Answered([player EXCEPT !.links[l] = y])
      BY <1>3, <2>1, <2>3, <2>4 DEF DataGetCon
    <2>7. GoodPlayer([player EXCEPT !.links[l] = y])
      BY <1>0, <2>5, LinkChanges
    <2>8. GoodPlayer(player')
      BY <2>6, <2>7, HeadIsAnswered
    <2>9. sqDone' \in Seq(SqCommands)
      BY <1>1, <1>3, <2>8 DEF DataGetCon
    <2> QED BY <1>0, <1>3, <2>8, <2>9 DEF DataGetCon, SqState
  <1>4. CASE RequestTimeout
    <2>1. GoodPlayer(player')
      <3>1. GoodPlayer(DropLinks(player))
        BY <1>0, LinksAreDropped
      <3>2. player' = Answered(DropLinks(player))
        BY <1>4 DEF RequestTimeout, TimedOut
      <3> QED BY <3>1, <3>2, HeadIsAnswered
    <2>2. sqDone' \in Seq(SqCommands)
      BY <1>1, <1>4, <2>1 DEF RequestTimeout
    <2> QED BY <1>0, <1>4, <2>1, <2>2 DEF RequestTimeout, SqState
  <1>5. CASE DataGetNotif
    <2>1. GoodPlayer(player')
      BY <1>0, <1>5, MembersChange DEF DataGetNotif
    <2> QED BY <1>0, <1>5, <2>1 DEF DataGetNotif, SqState
  <1>6. CASE NotifComesAndGoes
    BY <1>0, <1>6 DEF NotifComesAndGoes, SqState
  <1>7. ASSUME NEW l \in SqLinks, Connected(l) PROVE SqState'
    <2>1. PICK x : x = player.links[l]
      OBVIOUS
    <2>2. x \in Link /\ GoodLink(x) /\ x.state = "connecting"
      BY <1>0, <1>7, <2>1 DEF GoodPlayer, GoodLink, Connected
    <2>3. PICK y : y = [x EXCEPT !.state = "open"]
      OBVIOUS
    <2>4. GoodLink(y)
      <3>0. "open" \in LinkStates
        BY DEF LinkStates
      <3>1. y \in Link /\ y.onError = x.onError /\ y.heirs = x.heirs /\ y.state = "open"
        BY <2>2, <2>3, <3>0 DEF Link
      <3> QED BY <2>2, <3>1 DEF GoodLink, Heirs
    <2>5. PICK Q : Q = [player EXCEPT !.links[l] = y]
      OBVIOUS
    <2>6. PICK R : R = [Q EXCEPT !.connected = TRUE]
      OBVIOUS
    <2>7. GoodPlayer([R EXCEPT !.inProgress = FALSE])
      <3>1. GoodPlayer(Q)
        BY <1>0, <2>4, <2>5, LinkChanges
      <3>2. GoodPlayer(R)
        BY <2>6, <3>1, MembersChange
      <3> QED BY <3>2, MembersChange
    <2>8. player' = SqSendHead([R EXCEPT !.inProgress = FALSE])
      <3>1. [R EXCEPT !.inProgress = FALSE]
              = [player EXCEPT !.links[l].state = "open", !.connected = TRUE, !.inProgress = FALSE]
        BY <1>0, <2>1, <2>3, <2>5, <2>6 DEF Player
      <3> QED BY <1>7, <3>1 DEF Connected
    <2>9. GoodPlayer(player')
      BY <2>7, <2>8, HeadIsSent
    <2> QED BY <1>0, <1>7, <2>9 DEF Connected, OnlyPlayer, SqState
  <1>8. ASSUME NEW l \in SqLinks, LinkFails(l) PROVE SqState'
    <2>1. GoodPlayer(player')
      BY <1>0, <1>8, ErrorIsHeard DEF LinkFails
    <2> QED BY <1>0, <1>8, <2>1 DEF LinkFails, OnlyPlayer, SqState
  <1>9. ASSUME NEW l \in SqLinks, SqLinkEnds(l) PROVE SqState'
    <2>1. PICK x : x = player.links[l]
      OBVIOUS
    <2>2. x \in Link /\ GoodLink(x) /\ x.state = "open"
      BY <1>0, <1>9, <2>1 DEF GoodPlayer, GoodLink, SqLinkEnds
    <2>3. x.heirs = 0
      BY <2>2 DEF GoodLink, Heirs
    <2>4. GoodLink(CloseWithHeir(x))
      BY <2>2, <2>3, HeirIsAdded
    <2>5. PICK Q : Q = [player EXCEPT !.connected = FALSE]
      OBVIOUS
    <2>6. player' = [Q EXCEPT !.links[l] = CloseWithHeir(x)]
      BY <1>0, <1>9, <2>1, <2>5 DEF SqLinkEnds, Player
    <2>7. GoodPlayer(player')
      <3>1. GoodPlayer(Q)
        BY <1>0, <2>5, MembersChange
      <3> QED BY <2>4, <2>6, <3>1, LinkChanges
    <2> QED BY <1>0, <1>9, <2>7 DEF SqLinkEnds, OnlyPlayer, SqState
  <1>10. ASSUME NEW l \in SqLinks, SqLinkClosed(l) PROVE SqState'
    <2>1. GoodPlayer(player')
      BY <1>10, SqLinkClosedKeeps
    <2> QED BY <1>0, <1>10, <2>1 DEF SqLinkClosed, OnlyPlayer, SqState
  <1>11. CASE Reconnect
    <2>1. PICK l : l = SelectInSeq([i \in SqLinks |-> player.links[i].state],
                                   LAMBDA state : state = "none")
      OBVIOUS
    <2>2. player.reconnects > 0 /\ l # 0 /\ OnlyPlayer
      BY <1>11, <2>1 DEF Reconnect
    <2>3. PICK conn \in Tried(NewLink) :
            player' = [player EXCEPT !.links[l] = conn, !.current = l, !.reconnects = @ - 1]
      BY <1>11, <2>1 DEF Reconnect
    <2>4. l \in SqLinks
      BY <2>1, <2>2, NextIsALink
    <2>5. PICK n \in Nat : n = player.reconnects - 1
      BY <1>0, <2>2 DEF Player
    <2>6. PICK Q : Q = [player EXCEPT !.links[l] = conn]
      OBVIOUS
    <2>7. PICK R : R = [Q EXCEPT !.current = l]
      OBVIOUS
    <2>8. GoodPlayer([R EXCEPT !.reconnects = n])
      <3>1. GoodLink(conn)
        BY NewLinksAreGood
      <3>2. GoodPlayer(Q)
        BY <1>0, <2>4, <2>6, <3>1, LinkChanges
      <3>3. GoodPlayer(R)
        BY <2>4, <2>7, <3>2, MembersChange
      <3> QED BY <3>3, MembersChange
    <2>9. player' = [R EXCEPT !.reconnects = n]
      BY <1>0, <2>3, <2>5, <2>6, <2>7 DEF Player
    <2> QED BY <1>0, <2>2, <2>8, <2>9 DEF OnlyPlayer, SqState
  <1>12. CASE UNCHANGED sqVars
    BY <1>0, <1>12 DEF sqVars, SqState
  <1> QED
    BY <1>2, <1>3, <1>4, <1>5, <1>6, <1>7, <1>8, <1>9, <1>10, <1>11, <1>12 DEF SqNext

\* The player keeps its types, whatever becomes of its connections: none of them is
\* succeeded by more than two.
THEOREM SqTypes == SqSpec => []SqTypeOK
  <1>1. SqInit => SqState
    <2> SUFFICES ASSUME SqInit PROVE SqState
      OBVIOUS
    <2>1. PICK first \in Tried(NewLink) :
            player = [queue |-> <<>>, inProgress |-> FALSE, timer |-> FALSE,
                      connected |-> FALSE, current |-> 1, reconnects |-> 0,
                      links |-> [l \in SqLinks |-> IF l = 1 THEN first ELSE NoLink]]
      BY DEF SqInit
    <2>2. GoodLink(first) /\ GoodLink(NoLink)
      BY NewLinksAreGood
    <2>3. PICK links : links = [l \in SqLinks |-> IF l = 1 THEN first ELSE NoLink]
      OBVIOUS
    <2>4. links \in [SqLinks -> Link] /\ \A l \in SqLinks : GoodLink(links[l])
      BY <2>2, <2>3 DEF GoodLink
    <2>5. 1 \in SqLinks
      BY SqueezeboxAssumption DEF SqLinks
    <2>6. <<>> \in Seq(SqCommands)
      OBVIOUS
    <2>7. player \in Player /\ player.links = links
      BY <2>1, <2>3, <2>4, <2>5, <2>6 DEF Player
    <2> QED BY <2>4, <2>6, <2>7 DEF SqInit, SqState, GoodPlayer
  <1>2. SqState => SqTypeOK
    BY DEF SqState, SqTypeOK, GoodPlayer, Player
  <1> QED BY <1>1, <1>2, SqStepKeeps, PTL DEF SqSpec

-----------------------------------------------------------------------------
(* PushTokens                                                              *)

TokenRow == [there : BOOLEAN, approver : BOOLEAN, old : BOOLEAN,
             format : TokenFields, name : TokenFields, key : TokenFields]

\* What a registration leaves of a row
LEMMA SaveKeepsRow ==
  ASSUME NEW row \in TokenRow, NEW v \in TokenFields, NEW new \in Save(row, v)
  PROVE  /\ new \in TokenRow
         /\ ptKnown' >= 2 /\ row.approver =>
              /\ new.approver /\ new.name = row.name /\ new.format = row.format
              /\ row.key # 0 => new.key = row.key
  <1>1. \A known \in {2, 3}, x \in TokenFields : Filled(known, v, x) \in TokenFields
    BY DEF Filled
  <1>2. \A n \in Refresh(row, v) :
          /\ n \in TokenRow /\ n.approver = row.approver
          /\ n.name = row.name /\ n.format = row.format
          /\ row.key # 0 => n.key = row.key
    <2>1. PICK first : first = [row EXCEPT !.old = FALSE]
      OBVIOUS
    <2>2. /\ first \in TokenRow /\ first.approver = row.approver /\ first.name = row.name
          /\ first.format = row.format /\ first.key = row.key
      BY <2>1 DEF TokenRow
    <2>3. PICK key \in TokenFields : key = IF row.key = 0 THEN Filled(3, v, row.key) ELSE row.key
      BY <1>1 DEF TokenRow
    <2>4. PICK filled : filled = [first EXCEPT !.key = key]
      OBVIOUS
    <2>5. /\ filled \in TokenRow /\ filled.approver = row.approver /\ filled.name = row.name
          /\ filled.format = row.format /\ filled.key = key
      BY <2>2, <2>4 DEF TokenRow
    <2>6. Refresh(row, v) = {row, first, filled}
      BY <2>1, <2>2, <2>3, <2>4 DEF Refresh
    <2> QED BY <2>2, <2>3, <2>5, <2>6
  <1>3. ASSUME ~(ptKnown' >= 2 /\ row.approver) PROVE new \in TokenRow
    <2> DEFINE first == [row EXCEPT !.there = TRUE, !.old = FALSE,
                           !.format = IF ptKnown' >= 1 THEN v ELSE @]
               named == [first EXCEPT !.name = Filled(2, v, @)]
    <2>1. first \in TokenRow
      BY DEF TokenRow
    <2>2. named \in TokenRow
      BY <1>1, <2>1 DEF TokenRow
    <2>3. [named EXCEPT !.key = Filled(3, v, @)] \in TokenRow
      BY <1>1, <2>2 DEF TokenRow
    <2>4. new \in Overwrite(row, v)
      BY <1>3 DEF Save
    <2> QED BY <2>1, <2>2, <2>3, <2>4 DEF Overwrite
  <1> QED BY <1>2, <1>3 DEF Save

\* The row keeps its type; an approver that the worker sees, its fields
LEMMA TokenStep ==
  ASSUME TokenTypeOK, TokenNext
  PROVE  /\ TokenTypeOK'
         /\ ptRow.approver /\ ptKnown' >= 2 /\ ptRequest' \notin {"approve", "dismiss"}
              => /\ ptRow'.approver
                 /\ ptRow'.name = ptRow.name /\ ptRow'.format = ptRow.format
                 /\ ptRow.key # 0 => ptRow'.key = ptRow.key
  <1>0. /\ ptRow \in TokenRow /\ NoRow \in TokenRow
        /\ 0..AllColumns = {0, 1, 2, 3} /\ 0..AllColumns - 1 = {0, 1, 2}
    BY DEF TokenTypeOK, TokenRow, NoRow, TokenFields, AllColumns
  <1>1. ASSUME PrepareTokens
        PROVE  ptColumns' \in 0..AllColumns /\ ptKnown' \in 0..AllColumns /\ ptLocked' \in BOOLEAN
    BY <1>0, <1>1 DEF PrepareTokens, TokenTypeOK, AllColumns
  <1>2. ASSUME PrepareAgain
        PROVE  ptColumns' \in 0..AllColumns /\ ptKnown' \in 0..AllColumns /\ ptLocked' \in BOOLEAN
    BY <1>1, <1>2 DEF PrepareAgain, TokenTypeOK
  <1>3. /\ Purge(ptRow) \in TokenRow
        /\ ptKnown' >= 2 /\ ptRow.approver => Purge(ptRow) = ptRow
    BY <1>0 DEF Purge
  <1>4. ASSUME NEW v \in TokenFields, RegisterToken(v)
        PROVE  /\ ptRow' \in TokenRow
               /\ ptKnown' >= 2 /\ ptRow.approver =>
                    /\ ptRow'.approver
                    /\ ptRow'.name = ptRow.name /\ ptRow'.format = ptRow.format
                    /\ ptRow.key # 0 => ptRow'.key = ptRow.key
    BY <1>0, <1>4, SaveKeepsRow DEF RegisterToken
  <1>5. ASSUME NEW v \in TokenFields, ApproveToken(v) PROVE ptRow' \in TokenRow
    BY <1>0, <1>5 DEF ApproveToken, SetApprover, Filled, TokenRow
  <1>6. ASSUME DismissToken PROVE ptRow' \in TokenRow
    BY <1>0, <1>6 DEF DismissToken, TokenRow
  <1>7. ASSUME TokenAges
        PROVE  /\ ptRow' \in TokenRow /\ ptRow'.approver = ptRow.approver
               /\ ptRow'.name = ptRow.name /\ ptRow'.format = ptRow.format
               /\ ptRow'.key = ptRow.key
    BY <1>0, <1>7 DEF TokenAges, TokenRow
  <1>8. CASE \E v \in TokenFields : RegisterToken(v) \/ ApproveToken(v)
    BY <1>2, <1>4, <1>5, <1>8
    DEF RegisterToken, ApproveToken, TokenTypeOK, TokenRow
  <1>9. CASE DismissToken \/ GetTokens \/ OtherRequest
    BY <1>0, <1>2, <1>3, <1>6, <1>9
    DEF DismissToken, GetTokens, OtherRequest, TokenTypeOK, TokenRow
  <1>a. CASE TokenAges
    BY <1>7, <1>a DEF TokenAges, TokenTypeOK, TokenRow
  <1>b. CASE WorkerStarts
    BY <1>0, <1>1, <1>b DEF WorkerStarts, TokenTypeOK, TokenRow
  <1> QED BY <1>8, <1>9, <1>a, <1>b DEF TokenNext

\* The table and what the worker knows of its columns have their types.
THEOREM TokenTypes == TokenSpec => []TokenTypeOK
  <1>1. TokenInit => TokenTypeOK
    <2>1. /\ 0 \in 0..AllColumns
          /\ NoRow \in [there : BOOLEAN, approver : BOOLEAN, old : BOOLEAN,
                       format : TokenFields, name : TokenFields, key : TokenFields]
      BY DEF NoRow, TokenFields, AllColumns
    <2> QED BY <2>1 DEF TokenInit, TokenTypeOK
  <1>2. TokenTypeOK /\ [TokenNext]_ptVars => TokenTypeOK'
    BY TokenStep DEF TokenTypeOK, ptVars
  <1> QED BY <1>1, <1>2, PTL DEF TokenSpec

\* As long as the worker sees the columns, no registration, purge or request
\* for the tokens changes what the admin enrolled: not at any statement that a
\* lock may break off.
THEOREM ApproverStays == TokenSpec => ApproverIsFrozen
  <1> DEFINE Frozen ==
        ptRow.approver /\ ptKnown' >= 2 /\ ptRequest' \notin {"approve", "dismiss"}
          => /\ ptRow'.approver
             /\ ptRow'.name = ptRow.name /\ ptRow'.format = ptRow.format
             /\ ptRow.key # 0 => ptRow'.key = ptRow.key
  <1>1. TokenTypeOK /\ [TokenNext]_ptVars => [Frozen]_ptVars
    BY TokenStep
  <1> QED BY <1>1, TokenTypes, PTL DEF TokenSpec, ApproverIsFrozen
-----------------------------------------------------------------------------
(* ConfigFiles                                                             *)

\* A put or a restore under way runs in a server that is up; each of the files
\* it has still to write is new to it, once, and in the backup if it was loaded.
\* From the first file that is new to the restart, nothing is saved.
ToWrite(f) ==
  /\ cfUpload[f] = Missing
  /\ cfLoaded[f] /\ cfDisk[f] # Bad => cfDisk[f] \in Copies(f)
TodoIsSound ==
  /\ \A i \in DOMAIN cfTodo : ToWrite(cfTodo[i][1])
  /\ \A i, j \in DOMAIN cfTodo : i # j => cfTodo[i][1] # cfTodo[j][1]
  /\ cfServer # "up" => cfTodo = <<>>
  /\ cfServer = "leaving" => cfFrozen
  /\ cfServer = "up" /\ cfTodo = <<>> => cfUpload = NoFile
ConfInv == ConfTypeOK /\ UploadSurvives /\ TodoIsSound

LEMMA UploadsAreSound ==
  ASSUME NEW files \in Uploads
  PROVE  /\ files \in Seq(ConfFiles \X Versions)
         /\ \A i, j \in DOMAIN files : i # j => files[i][1] # files[j][1]
  <1>1. ASSUME NEW f \in ConfFiles, NEW v \in Versions, files = <<<<f, v>>>>
        PROVE  /\ files \in Seq(ConfFiles \X Versions) /\ DOMAIN files = {1}
    BY <1>1
  <1>2. ASSUME NEW a \in ConfFiles \X Versions, NEW b \in ConfFiles \X Versions,
               files = <<a, b>>, files[1][1] # files[2][1]
        PROVE  /\ files \in Seq(ConfFiles \X Versions) /\ DOMAIN files = {1, 2}
    BY <1>2
  <1>3. \/ \E f \in ConfFiles, v \in Versions : files = <<<<f, v>>>>
        \/ \E a, b \in ConfFiles \X Versions : files = <<a, b>> /\ files[1][1] # files[2][1]
    BY DEF Uploads
  <1>4. CASE \E f \in ConfFiles, v \in Versions : files = <<<<f, v>>>>
    BY <1>1, <1>4
  <1>5. CASE \E a, b \in ConfFiles \X Versions : files = <<a, b>> /\ files[1][1] # files[2][1]
    <2>1. files[1][1] # files[2][1]
      BY <1>5
    <2>2. files \in Seq(ConfFiles \X Versions) /\ DOMAIN files = {1, 2}
      BY <1>2, <1>5
    <2> QED BY <2>1, <2>2
  <1> QED BY <1>3, <1>4, <1>5

\* What a write leaves in a file: what was there, or all of what is written
LEMMA WriteKeeps ==
  ASSUME ConfTypeOK, NEW f \in ConfFiles, NEW v \in Versions,
         cfDisk' \in {cfDisk, [cfDisk EXCEPT ![f] = v]}
  PROVE  /\ cfDisk' \in [ConfFiles -> Versions \cup {Bad}]
         /\ \A g \in ConfFiles : cfDisk'[g] = cfDisk[g] \/ (g = f /\ cfDisk'[g] = v)
  BY DEF ConfTypeOK

LEMMA ConfInitial == ConfInit => ConfInv
  <1> SUFFICES ASSUME ConfInit PROVE ConfInv
    OBVIOUS
  <1>1. ConfTypeOK
    <2>1. /\ cfDisk \in [ConfFiles -> Versions \cup {Bad}]
          /\ cfLoaded \in [ConfFiles -> BOOLEAN]
          /\ cfDropped \in [ConfFiles -> SUBSET Versions]
      BY DEF ConfInit
    <2>2. NoFile \in [ConfFiles -> Versions \cup {Missing}]
      BY DEF NoFile
    <2>3. <<>> \in Seq(Folder) /\ <<>> \in Seq(ConfFiles \X Versions)
      OBVIOUS
    <2> QED BY <2>1, <2>2, <2>3 DEF ConfInit, ConfTypeOK
  <1>2. UploadSurvives
    BY DEF ConfInit, UploadSurvives, NoFile
  <1> QED BY <1>1, <1>2 DEF ConfInv, ConfInit, TodoIsSound

\* The server starts from the files, or from a backup of one that does not parse
LEMMA StartKeepsConf ==
  ASSUME ConfInv, StartServer
  PROVE  ConfInv'
  <1>0. ConfTypeOK /\ UploadSurvives /\ cfTodo = <<>>
    BY DEF ConfInv, TodoIsSound, StartServer
  <1>1. PICK load \in [ConfFiles -> UNION {LoadFile(f) : f \in ConfFiles}] :
          /\ \A f \in ConfFiles : load[f] \in LoadFile(f)
          /\ cfDisk' = [f \in ConfFiles |-> load[f].disk]
          /\ cfLoaded' = [f \in ConfFiles |-> load[f].loaded]
          /\ cfMemory' = [f \in ConfFiles |-> IF load[f].loaded THEN load[f].disk ELSE Missing]
    BY DEF StartServer
  <1>2. ASSUME NEW f \in ConfFiles, NEW l \in LoadFile(f)
        PROVE  l.loaded \in BOOLEAN /\ l.disk \in Versions \cup {Bad}
               /\ (l.loaded => l.disk \in Versions)
    <2>1. cfDisk[f] \in Versions \cup {Bad} /\ Copies(f) \subseteq Versions
      BY <1>0 DEF ConfTypeOK, Copies
    <2>2. \/ l = [loaded |-> FALSE, disk |-> cfDisk[f]]
          \/ \E v \in IF cfDisk[f] = Bad THEN Copies(f) ELSE {cfDisk[f]} :
               l = [loaded |-> TRUE, disk |-> v]
      BY DEF LoadFile
    <2>3. CASE l = [loaded |-> FALSE, disk |-> cfDisk[f]]
      <3>1. l.loaded = FALSE /\ l.disk = cfDisk[f]
        BY <2>3
      <3> QED BY <2>1, <3>1
    <2>4. ASSUME NEW v \in IF cfDisk[f] = Bad THEN Copies(f) ELSE {cfDisk[f]},
                 l = [loaded |-> TRUE, disk |-> v]
          PROVE  l.loaded = TRUE /\ l.disk \in Versions
      BY <2>1, <2>4
    <2> QED BY <2>2, <2>3, <2>4
  <1>3. /\ cfDisk' \in [ConfFiles -> Versions \cup {Bad}]
        /\ cfLoaded' \in [ConfFiles -> BOOLEAN]
        /\ cfMemory' \in [ConfFiles -> Versions \cup {Missing}]
    BY <1>1, <1>2
  <1>4. ConfTypeOK'
    BY <1>0, <1>3 DEF ConfTypeOK, StartServer, NoFile
  <1>5. UploadSurvives'
    BY <1>0 DEF UploadSurvives, StartServer, NoFile, Copies
  <1>6. TodoIsSound'
    BY <1>0 DEF TodoIsSound, StartServer, NoFile
  <1> QED BY <1>4, <1>5, <1>6 DEF ConfInv

\* A put or a restore begins: what it will replace is in the new backup
LEMMA ReplaceKeepsConf ==
  ASSUME ConfInv, NEW files \in Uploads, NEW restore \in BOOLEAN, Replace(files, restore)
  PROVE  ConfInv'
  <1>0. /\ ConfTypeOK /\ UploadSurvives /\ cfUpload = NoFile /\ cfServer = "up"
        /\ cfTodo' = files /\ cfDisk' = cfDisk /\ cfLoaded' = cfLoaded /\ cfUpload' = cfUpload
        /\ cfDropped' = cfDropped
    BY DEF ConfInv, TodoIsSound, Replace
  <1>1. PICK folder \in Folder :
          /\ \A f \in ConfFiles : folder[f] = cfDisk[f] \/ (~cfLoaded[f] /\ folder[f] = Missing)
          /\ cfBackups' = Append(cfBackups, folder)
    BY DEF Replace, BackupFiles
  <1>2. /\ cfBackups \in Seq(Folder) /\ cfBackups' \in Seq(Folder)
        /\ \A i \in DOMAIN cfBackups : i \in DOMAIN cfBackups' /\ cfBackups'[i] = cfBackups[i]
        /\ Len(cfBackups) + 1 \in DOMAIN cfBackups' /\ cfBackups'[Len(cfBackups) + 1] = folder
    BY <1>0, <1>1 DEF ConfTypeOK
  <1>3. ASSUME NEW f \in ConfFiles
        PROVE  /\ Copies(f) \subseteq Copies(f)'
               /\ cfLoaded[f] /\ cfDisk[f] # Bad => cfDisk[f] \in Copies(f)'
    BY <1>0, <1>1, <1>2 DEF Copies, ConfTypeOK
  <1>4. ConfTypeOK'
    BY <1>0, <1>2, UploadsAreSound DEF ConfTypeOK, Replace
  <1>5. UploadSurvives'
    BY <1>0, <1>3 DEF UploadSurvives
  <1>6. \A i \in DOMAIN files : files[i][1] \in ConfFiles
    BY UploadsAreSound
  <1>7. (\A i \in DOMAIN cfTodo : ToWrite(cfTodo[i][1]))'
    BY <1>0, <1>3, <1>6 DEF ToWrite, NoFile
  <1>8. TodoIsSound'
    BY <1>0, <1>7, UploadsAreSound DEF TodoIsSound, Replace
  <1> QED BY <1>4, <1>5, <1>8 DEF ConfInv

\* One file of a put or a restore
LEMMA WriteNextKeepsConf ==
  ASSUME ConfInv, WriteNext
  PROVE  ConfInv'
  <1>0. /\ ConfTypeOK /\ UploadSurvives /\ TodoIsSound /\ cfServer = "up" /\ cfTodo # <<>>
        /\ cfBackups' = cfBackups /\ cfLoaded' = cfLoaded
    BY DEF ConfInv, WriteNext
  <1>1. PICK f \in ConfFiles, v \in Versions :
          /\ f = Head(cfTodo)[1] /\ v = Head(cfTodo)[2] /\ f = cfTodo[1][1]
    <2>1. cfTodo \in Seq(ConfFiles \X Versions) /\ Head(cfTodo) = cfTodo[1]
          /\ Head(cfTodo) \in ConfFiles \X Versions
      BY <1>0 DEF ConfTypeOK
    <2> QED BY <2>1
  <1>2. /\ cfTodo' \in Seq(ConfFiles \X Versions)
        /\ \A i \in DOMAIN cfTodo' : /\ i + 1 \in DOMAIN cfTodo /\ cfTodo'[i] = cfTodo[i + 1]
                                     /\ cfTodo[i + 1][1] \in ConfFiles
        /\ \A i, j \in DOMAIN cfTodo' : i # j => i + 1 # j + 1
        /\ 1 \in DOMAIN cfTodo /\ \A i \in DOMAIN cfTodo' : i + 1 # 1
    <2>1. cfTodo' = <<>> \/ cfTodo' = Tail(cfTodo)
      BY DEF WriteNext
    <2>2. cfTodo \in Seq(ConfFiles \X Versions)
      BY <1>0 DEF ConfTypeOK
    <2>3. \A i \in DOMAIN cfTodo : cfTodo[i][1] \in ConfFiles
      BY <2>2
    <2>4. CASE cfTodo' = <<>>
      BY <1>0, <2>2, <2>4
    <2>5. CASE cfTodo' = Tail(cfTodo)
      BY <1>0, <2>2, <2>3, <2>5
    <2> QED BY <2>1, <2>4, <2>5
  <1>3. /\ \A i \in DOMAIN cfTodo' : ToWrite(cfTodo'[i][1]) /\ cfTodo'[i][1] # f
        /\ \A i, j \in DOMAIN cfTodo' : i # j => cfTodo'[i][1] # cfTodo'[j][1]
        /\ ToWrite(f)
    <2>1. ASSUME NEW i \in DOMAIN cfTodo' PROVE ToWrite(cfTodo'[i][1]) /\ cfTodo'[i][1] # f
      BY <1>0, <1>1, <1>2 DEF TodoIsSound
    <2>2. ASSUME NEW i \in DOMAIN cfTodo', NEW j \in DOMAIN cfTodo', i # j
          PROVE  cfTodo'[i][1] # cfTodo'[j][1]
      BY <1>0, <1>2, <2>2 DEF TodoIsSound
    <2> QED BY <1>0, <1>1, <1>2, <2>1, <2>2 DEF TodoIsSound
  <1>4. \A g : Copies(g)' = Copies(g)
    BY <1>0 DEF Copies
  <1>5. /\ cfDisk' = cfDisk /\ cfUpload' = cfUpload /\ cfDropped' = cfDropped
        \/ /\ cfDisk' = [cfDisk EXCEPT ![f] = v]
           /\ cfUpload' = [cfUpload EXCEPT ![f] = v]
           /\ cfDropped' = IF cfLoaded[f] /\ cfDisk[f] # Bad
                           THEN [cfDropped EXCEPT ![f] = @ \cup {cfDisk[f]}]
                           ELSE cfDropped
    BY <1>1 DEF WriteNext
  <1>6. /\ cfServer' \in {"up", "leaving"} /\ cfFrozen' \in BOOLEAN
        /\ cfTodo' # <<>> => cfServer' = "up"
        /\ cfServer' = "leaving" => cfFrozen'
        /\ cfServer' = "up" /\ cfTodo' = <<>> => cfUpload' = NoFile
    BY <1>0 DEF WriteNext, ConfTypeOK
  <1>7. /\ cfDisk' \in [ConfFiles -> Versions \cup {Bad}]
        /\ cfUpload' \in [ConfFiles -> Versions \cup {Missing}]
        /\ cfDropped' \in [ConfFiles -> SUBSET Versions]
        /\ \A g \in ConfFiles \ {f} : /\ cfDisk'[g] = cfDisk[g] /\ cfUpload'[g] = cfUpload[g]
                                      /\ cfDropped'[g] = cfDropped[g]
        /\ cfUpload'[f] # Missing => cfDisk'[f] = cfUpload'[f]
        /\ cfDropped'[f] \subseteq Copies(f)
    BY <1>0, <1>3, <1>5 DEF ConfTypeOK, UploadSurvives, ToWrite
  <1>8. ConfTypeOK'
    BY <1>0, <1>2, <1>6, <1>7 DEF ConfTypeOK, WriteNext
  <1>9. UploadSurvives'
    BY <1>0, <1>4, <1>7 DEF UploadSurvives
  <1>a. (\A i \in DOMAIN cfTodo : ToWrite(cfTodo[i][1]))'
    BY <1>0, <1>2, <1>3, <1>4, <1>7 DEF ToWrite
  <1>b. TodoIsSound'
    BY <1>3, <1>6, <1>a DEF TodoIsSound
  <1> QED BY <1>8, <1>9, <1>b DEF ConfInv
\* A save from memory, whole or cut: it happens when no put or restore has
\* written anything since the last start, or it changes no file
LEMMA SaveKeepsConf ==
  ASSUME ConfInv, NEW f \in ConfFiles, NEW v \in Versions,
         ChangeAndSave(f, v) \/ CutSave(f, v)
  PROVE  ConfInv'
  <1>0. /\ ConfTypeOK /\ UploadSurvives /\ TodoIsSound /\ cfTodo = <<>> /\ cfTodo' = <<>>
        /\ cfBackups' = cfBackups /\ cfUpload' = cfUpload /\ cfDropped' = cfDropped
        /\ cfStops' = cfStops /\ cfFrozen' = cfFrozen
    BY DEF ConfInv, ChangeAndSave, CutSave, ConfDown
  <1>1. /\ cfDisk' \in {cfDisk, [cfDisk EXCEPT ![f] = v]}
        /\ cfUpload = NoFile \/ cfDisk' = cfDisk
        /\ cfMemory' \in {NoFile, [cfMemory EXCEPT ![f] = v]}
        /\ cfLoaded' \in {cfLoaded, [g \in ConfFiles |-> FALSE]}
        /\ cfServer' = cfServer \/ cfServer' = "down"
    BY <1>0 DEF ChangeAndSave, CutSave, SaveConfig, WriteReturns, WriteIsCut, ConfDown,
                TodoIsSound, ConfTypeOK
  <1>2. ConfTypeOK'
    <2>1. cfDisk' \in [ConfFiles -> Versions \cup {Bad}]
      BY <1>0, <1>1 DEF ConfTypeOK
    <2>2. cfMemory' \in [ConfFiles -> Versions \cup {Missing}]
      BY <1>0, <1>1 DEF ConfTypeOK, NoFile
    <2> QED BY <1>0, <1>1, <2>1, <2>2 DEF ConfTypeOK
  <1>3. UploadSurvives'
    BY <1>0, <1>1 DEF UploadSurvives, Copies, NoFile
  <1>4. TodoIsSound'
    BY <1>0, <1>1 DEF TodoIsSound
  <1> QED BY <1>2, <1>3, <1>4 DEF ConfInv

\* The process ends, also in the middle of a put; a file is ruined while it is down
LEMMA EndKeepsConf ==
  ASSUME ConfInv, ConfStop \/ CutReplace \/ \E f \in ConfFiles : Corrupt(f)
  PROVE  ConfInv'
  <1>0. /\ ConfTypeOK /\ UploadSurvives /\ TodoIsSound
        /\ cfBackups' = cfBackups /\ cfDropped' = cfDropped
        /\ cfStops' = cfStops /\ cfFrozen' = cfFrozen
        /\ cfTodo' = <<>> /\ cfServer' = "down"
    BY DEF ConfInv, TodoIsSound, ConfStop, CutReplace, Corrupt, ConfDown
  <1>1. \A g : Copies(g)' = Copies(g)
    BY <1>0 DEF Copies
  <1>2. TodoIsSound'
    BY <1>0 DEF TodoIsSound
  <1>3. CASE ConfStop \/ CutReplace
    <2>1. /\ cfUpload' = cfUpload /\ cfMemory' = NoFile
          /\ cfLoaded' = [g \in ConfFiles |-> FALSE]
      BY <1>3 DEF ConfStop, CutReplace, ConfDown
    <2>2. \/ cfDisk' = cfDisk
          \/ \E f \in ConfFiles, v \in Versions :
               cfUpload[f] = Missing /\ cfDisk' = [cfDisk EXCEPT ![f] = v]
      <3>1. CASE CutReplace
        <4>1. /\ cfTodo \in Seq(ConfFiles \X Versions) /\ cfTodo # <<>>
              /\ cfDisk' \in {cfDisk, [cfDisk EXCEPT ![Head(cfTodo)[1]] = Head(cfTodo)[2]]}
          BY <1>0, <3>1 DEF CutReplace, WriteIsCut, ConfTypeOK
        <4>2. /\ Head(cfTodo) = cfTodo[1] /\ Head(cfTodo) \in ConfFiles \X Versions
              /\ 1 \in DOMAIN cfTodo
          BY <4>1
        <4>3. cfUpload[Head(cfTodo)[1]] = Missing
          BY <1>0, <4>2 DEF TodoIsSound, ToWrite
        <4> QED BY <4>1, <4>2, <4>3
      <3> QED BY <1>3, <3>1 DEF ConfStop
    <2>3. ConfTypeOK'
      BY <1>0, <2>1, <2>2 DEF ConfTypeOK, NoFile
    <2>4. UploadSurvives'
      BY <1>0, <1>1, <2>1, <2>2 DEF UploadSurvives, ConfTypeOK
    <2> QED BY <1>2, <2>3, <2>4 DEF ConfInv
  <1>4. ASSUME NEW f \in ConfFiles, Corrupt(f) PROVE ConfInv'
    <2>1. /\ cfDisk' = [cfDisk EXCEPT ![f] = Bad]
          /\ cfUpload' = [cfUpload EXCEPT ![f] = Missing]
          /\ cfLoaded' = cfLoaded /\ cfMemory' = cfMemory
      BY <1>4 DEF Corrupt
    <2>2. ConfTypeOK'
      BY <1>0, <2>1 DEF ConfTypeOK
    <2>3. UploadSurvives'
      BY <1>0, <1>1, <2>1 DEF UploadSurvives, ConfTypeOK
    <2> QED BY <1>2, <2>2, <2>3 DEF ConfInv
  <1> QED BY <1>3, <1>4

LEMMA ConfStep == ConfInv /\ [ConfNext]_cfVars => ConfInv'
  <1>1. ASSUME ConfInv, UNCHANGED cfVars PROVE ConfInv'
    BY <1>1 DEF ConfInv, ConfTypeOK, UploadSurvives, Copies, TodoIsSound, ToWrite, cfVars
  <1> QED
    BY <1>1, StartKeepsConf, ReplaceKeepsConf, WriteNextKeepsConf, SaveKeepsConf, EndKeepsConf
    DEF ConfNext

\* What was uploaded or restored is what the next start finds, wherever a save, a
\* put or the process is cut; what it replaced is in a backup.
THEOREM UploadsSurvive == ConfSpec => [](ConfTypeOK /\ UploadSurvives)
  <1>1. ConfInv => ConfTypeOK /\ UploadSurvives
    BY DEF ConfInv
  <1> QED BY <1>1, ConfInitial, ConfStep, PTL DEF ConfSpec

\* The server never ruins a file that parses, and never replaces one that it could
\* not load but by a put or a restore.
THEOREM FilesStay == ConfSpec => FilesAreKept
  <1> DEFINE Kept == \A f \in ConfFiles :
               cfServer # "down" =>
                 /\ cfDisk'[f] = Bad => cfDisk[f] = Bad
                 /\ ~cfLoaded[f] /\ cfDisk'[f] # cfDisk[f] => cfTodo # <<>>
  <1>1. ASSUME ConfInv, ConfNext PROVE Kept
    <2>0. ConfTypeOK /\ \A v \in Versions : v # Bad
      BY <1>1, ConfigFilesAssumption DEF ConfInv
    <2>1. ASSUME NEW f \in ConfFiles, NEW v \in Versions, ChangeAndSave(f, v) \/ CutSave(f, v)
          PROVE  Kept
      BY <2>0, <2>1, WriteKeeps
      DEF ChangeAndSave, CutSave, SaveConfig, WriteReturns, WriteIsCut
    <2>2. CASE WriteNext \/ CutReplace
      <3>1. cfTodo # <<>> /\ Head(cfTodo)[1] \in ConfFiles /\ Head(cfTodo)[2] \in Versions
        BY <2>0, <2>2 DEF WriteNext, CutReplace, ConfTypeOK
      <3>2. cfDisk' \in {cfDisk, [cfDisk EXCEPT ![Head(cfTodo)[1]] = Head(cfTodo)[2]]}
        BY <2>2 DEF WriteNext, CutReplace, WriteIsCut
      <3> QED BY <2>0, <3>1, <3>2, WriteKeeps
    <2>3. CASE StartServer \/ \E f \in ConfFiles : Corrupt(f)
      BY <2>3 DEF StartServer, Corrupt
    <2>4. CASE ConfStop \/ \E files \in Uploads, restore \in BOOLEAN : Replace(files, restore)
      BY <2>4 DEF ConfStop, Replace
    <2> QED BY <1>1, <2>1, <2>2, <2>3, <2>4 DEF ConfNext
  <1>2. ConfInv /\ [ConfNext]_cfVars => [Kept]_cfVars
    BY <1>1
  <1> QED BY <1>2, ConfInitial, ConfStep, PTL DEF ConfSpec, FilesAreKept
-----------------------------------------------------------------------------
(* History                                                                 *)

\* The queue keeps the order of the requests: what was appended before a read
\* was asked is written, refused, being written, or ahead of it.
Settled(e) == e \in hsEvents \cup hsFailed \/ hsItem = e
QueueInOrder ==
  /\ \A i \in DOMAIN hsQueue :
       /\ hsPushed[hsQueue[i]] # NotPushed
       /\ hsQueue[i] \in HistReads =>
            \A e \in hsPushed[hsQueue[i]] :
              Settled(e) \/ \E j \in DOMAIN hsQueue : j < i /\ hsQueue[j] = e
  /\ \A e \in PushedEvents : Settled(e) \/ \E j \in DOMAIN hsQueue : hsQueue[j] = e
ItemInOrder ==
  /\ hsWorker # "popped" => hsItem = NoRequest
  /\ hsItem # NoRequest => hsPushed[hsItem] # NotPushed
  /\ hsItem \in HistReads => hsPushed[hsItem] \subseteq hsEvents \cup hsFailed
AnswersInOrder ==
  \A r \in HistReads :
    hsAnswer[r].ok => /\ hsPushed[r] # NotPushed
                      /\ hsPushed[r] \ hsFailed \subseteq hsAnswer[r].events
HistInv == HistTypeOK /\ QueueInOrder /\ ItemInOrder /\ AnswersInOrder

LEMMA HistInitial == HistInit => HistInv
  <1> SUFFICES ASSUME HistInit PROVE HistInv
    OBVIOUS
  <1>1. HistTypeOK
    <2>1. hsQueue \in Seq(HistRequests)
      BY DEF HistInit
    <2>2. hsPushed \in [HistRequests -> {NotPushed} \cup SUBSET HistEvents]
      BY DEF HistInit
    <2>3. /\ hsAnswer \in [HistReads -> [sent : BOOLEAN, ok : BOOLEAN,
                                         events : SUBSET HistEvents]]
          /\ hsCalled \in [HistReads -> Nat]
      BY DEF HistInit, Waiting
    <2> QED BY <2>1, <2>2, <2>3 DEF HistInit, HistTypeOK
  <1>2. QueueInOrder
    BY DEF HistInit, QueueInOrder, PushedEvents, HistRequests
  <1>3. ItemInOrder
    BY HistoryAssumption DEF HistInit, ItemInOrder, HistRequests
  <1>4. AnswersInOrder
    BY DEF HistInit, AnswersInOrder, Waiting
  <1> QED BY <1>1, <1>2, <1>3, <1>4 DEF HistInv

\* A request is pushed: the events before it are settled or in the queue
LEMMA PushKeepsHist ==
  ASSUME HistInv, NEW q \in HistRequests, PushRequest(q)
  PROVE  HistInv'
  <1>0. /\ HistTypeOK /\ QueueInOrder /\ ItemInOrder /\ AnswersInOrder
        /\ hsPushed[q] = NotPushed
        /\ hsPushed' = [hsPushed EXCEPT ![q] = PushedEvents]
        /\ hsQueue' = Append(hsQueue, q)
        /\ UNCHANGED <<hsValid, hsDone, hsWorker, hsItem, hsOpened, hsEvents, hsFailed,
                       hsAnswer, hsCalled, hsMain>>
    BY DEF HistInv, PushRequest, hsWorking, hsBase
  <1>1. /\ hsQueue \in Seq(HistRequests) /\ hsQueue' \in Seq(HistRequests)
        /\ \A i \in DOMAIN hsQueue : /\ i \in DOMAIN hsQueue' /\ hsQueue'[i] = hsQueue[i]
                                     /\ hsQueue[i] \in HistRequests /\ i < Len(hsQueue) + 1
        /\ Len(hsQueue) + 1 \in DOMAIN hsQueue' /\ hsQueue'[Len(hsQueue) + 1] = q
        /\ \A i \in DOMAIN hsQueue' : i \in DOMAIN hsQueue \/ i = Len(hsQueue) + 1
    BY <1>0 DEF HistTypeOK
  <1>2. PushedEvents \subseteq HistEvents /\ PushedEvents # NotPushed
    BY HistoryAssumption DEF PushedEvents, NotPushed, HistRequests
  <1>3. /\ \A p \in HistRequests : p # q => hsPushed'[p] = hsPushed[p]
        /\ hsPushed'[q] = PushedEvents
        /\ hsPushed' \in [HistRequests -> {NotPushed} \cup SUBSET HistEvents]
    BY <1>0, <1>2 DEF HistTypeOK
  <1>4. HistTypeOK'
    BY <1>0, <1>1, <1>3 DEF HistTypeOK
  <1>5. \A e : Settled(e)' <=> Settled(e)
    BY <1>0 DEF Settled
  <1>6. ASSUME NEW e \in PushedEvents PROVE Settled(e) \/ \E j \in DOMAIN hsQueue : hsQueue[j] = e
    BY <1>0 DEF QueueInOrder
  <1>7. ASSUME NEW i \in DOMAIN hsQueue'
        PROVE  /\ hsPushed'[hsQueue'[i]] # NotPushed
               /\ hsQueue'[i] \in HistReads =>
                    \A e \in hsPushed'[hsQueue'[i]] :
                      Settled(e) \/ \E j \in DOMAIN hsQueue' : j < i /\ hsQueue'[j] = e
    <2>1. CASE i \in DOMAIN hsQueue
      <3>1. /\ hsQueue'[i] = hsQueue[i] /\ hsQueue[i] \in HistRequests
            /\ hsPushed[hsQueue[i]] # NotPushed /\ hsQueue[i] # q
        BY <1>0, <1>1, <2>1 DEF QueueInOrder
      <3>2. hsPushed'[hsQueue'[i]] = hsPushed[hsQueue[i]]
        BY <1>3, <3>1
      <3> QED BY <1>0, <1>1, <2>1, <3>1, <3>2 DEF QueueInOrder
    <2>2. CASE i = Len(hsQueue) + 1
      BY <1>1, <1>2, <1>3, <1>6, <2>2
    <2> QED BY <1>1, <2>1, <2>2
  <1>8. ASSUME NEW e \in PushedEvents'
        PROVE  Settled(e) \/ \E j \in DOMAIN hsQueue' : hsQueue'[j] = e
    <2>1. e \in PushedEvents \/ e = q
      BY <1>3 DEF PushedEvents, HistRequests
    <2> QED BY <1>1, <1>6, <2>1
  <1>9. QueueInOrder'
    BY <1>5, <1>7, <1>8 DEF QueueInOrder
  <1>a. ItemInOrder'
    <2>1. hsItem # NoRequest => hsItem \in HistRequests /\ hsItem # q
      BY <1>0 DEF ItemInOrder, HistTypeOK
    <2>2. hsItem \in HistReads => hsItem # NoRequest
      BY HistoryAssumption DEF HistRequests
    <2> QED BY <1>0, <1>3, <2>1, <2>2 DEF ItemInOrder
  <1>b. AnswersInOrder'
    BY <1>0, <1>3 DEF AnswersInOrder, HistRequests
  <1> QED BY <1>4, <1>9, <1>a, <1>b DEF HistInv

\* The worker takes the oldest request
LEMMA PopKeepsHist ==
  ASSUME HistInv, WaitPop
  PROVE  HistInv'
  <1>0. /\ HistTypeOK /\ QueueInOrder /\ ItemInOrder /\ AnswersInOrder
        /\ hsItem = NoRequest
        /\ UNCHANGED <<hsOpened, hsEvents, hsFailed, hsAnswer,
                       hsValid, hsDone, hsPushed, hsCalled, hsMain>>
    BY DEF HistInv, WaitPop, ItemInOrder, hsBase, hsLoop
  <1>1. CASE ~hsValid
    <2>1. hsWorker' = "loop" /\ hsQueue' = hsQueue /\ hsItem' = hsItem
      BY <1>1 DEF WaitPop
    <2>2. \A e : Settled(e)' <=> Settled(e)
      BY <1>0, <2>1 DEF Settled
    <2> QED
      BY <1>0, <2>1, <2>2
      DEF HistInv, HistTypeOK, QueueInOrder, ItemInOrder, AnswersInOrder, PushedEvents
  <1>2. CASE hsValid
    <2>1. /\ hsQueue # <<>> /\ hsItem' = Head(hsQueue) /\ hsQueue' = Tail(hsQueue)
          /\ hsWorker' = "popped"
      BY <1>2 DEF WaitPop
    <2>2. /\ hsQueue \in Seq(HistRequests) /\ hsQueue' \in Seq(HistRequests)
          /\ 1 \in DOMAIN hsQueue /\ hsItem' = hsQueue[1] /\ hsItem' \in HistRequests
          /\ \A i \in DOMAIN hsQueue' : i + 1 \in DOMAIN hsQueue /\ hsQueue'[i] = hsQueue[i + 1]
          /\ \A i \in DOMAIN hsQueue : i # 1 => i - 1 \in DOMAIN hsQueue'
                                                /\ hsQueue'[i - 1] = hsQueue[i]
          /\ \A i, j \in DOMAIN hsQueue : j < i /\ j # 1 => j - 1 < i - 1
      BY <1>0, <2>1 DEF HistTypeOK
    <2>3. HistTypeOK'
      BY <1>0, <2>1, <2>2 DEF HistTypeOK
    <2>4. ASSUME NEW e \in HistEvents, Settled(e) PROVE Settled(e)'
      BY <1>0, <2>4, HistoryAssumption DEF Settled, HistRequests
    <2>5. ASSUME NEW j \in DOMAIN hsQueue, NEW e, hsQueue[j] = e
          PROVE  Settled(e)' \/ (j # 1 /\ j - 1 \in DOMAIN hsQueue' /\ hsQueue'[j - 1] = e)
      BY <2>2, <2>5 DEF Settled
    <2>6. ASSUME NEW i \in DOMAIN hsQueue'
          PROVE  /\ hsPushed[hsQueue'[i]] # NotPushed
                 /\ hsQueue'[i] \in HistReads =>
                      \A e \in hsPushed[hsQueue'[i]] :
                        Settled(e)' \/ \E j \in DOMAIN hsQueue' : j < i /\ hsQueue'[j] = e
      <3>1. /\ i + 1 \in DOMAIN hsQueue /\ hsQueue'[i] = hsQueue[i + 1]
            /\ hsPushed[hsQueue[i + 1]] # NotPushed /\ hsQueue[i + 1] \in HistRequests
        BY <1>0, <2>2 DEF QueueInOrder
      <3>2. ASSUME hsQueue[i + 1] \in HistReads, NEW e \in hsPushed[hsQueue[i + 1]]
            PROVE  Settled(e)' \/ \E j \in DOMAIN hsQueue' : j < i /\ hsQueue'[j] = e
        <4>1. e \in HistEvents
          BY <1>0, <3>1, <3>2 DEF HistTypeOK
        <4>2. Settled(e) \/ \E j \in DOMAIN hsQueue : j < i + 1 /\ hsQueue[j] = e
          BY <1>0, <3>1, <3>2 DEF QueueInOrder
        <4>3. ASSUME NEW j \in DOMAIN hsQueue, j < i + 1, hsQueue[j] = e
              PROVE  Settled(e)' \/ \E k \in DOMAIN hsQueue' : k < i /\ hsQueue'[k] = e
          <5>1. i \in Nat /\ j \in Nat
            BY <2>2
          <5>2. CASE j # 1 /\ j - 1 \in DOMAIN hsQueue' /\ hsQueue'[j - 1] = e
            BY <4>3, <5>1, <5>2
          <5> QED BY <2>5, <4>3, <5>2
        <4> QED BY <2>4, <4>1, <4>2, <4>3
      <3> QED BY <3>1, <3>2
    <2>7. ASSUME NEW e \in PushedEvents
          PROVE  Settled(e)' \/ \E j \in DOMAIN hsQueue' : hsQueue'[j] = e
      <3>1. e \in HistEvents /\ (Settled(e) \/ \E j \in DOMAIN hsQueue : hsQueue[j] = e)
        BY <1>0 DEF QueueInOrder, PushedEvents
      <3> QED BY <2>4, <2>5, <3>1
    <2>8. QueueInOrder'
      BY <1>0, <2>6, <2>7 DEF QueueInOrder, PushedEvents
    <2>9. ItemInOrder'
      <3>1. hsPushed[hsItem'] # NotPushed
        BY <1>0, <2>2 DEF QueueInOrder
      <3>2. ASSUME hsItem' \in HistReads, NEW e \in hsPushed[hsItem']
            PROVE  e \in hsEvents \cup hsFailed
        <4>1. e \in HistEvents
          BY <1>0, <2>2, <3>1, <3>2 DEF HistTypeOK
        <4>2. \A j \in DOMAIN hsQueue : ~(j < 1)
          BY <2>2
        <4>3. Settled(e)
          BY <1>0, <2>2, <3>2, <4>2 DEF QueueInOrder
        <4> QED BY <1>0, <4>1, <4>3, HistoryAssumption DEF Settled, HistRequests
      <3> QED BY <1>0, <2>1, <3>1, <3>2 DEF ItemInOrder
    <2>a. AnswersInOrder'
      BY <1>0 DEF AnswersInOrder
    <2> QED BY <2>3, <2>8, <2>9, <2>a DEF HistInv
  <1> QED BY <1>1, <1>2

\* The worker runs it: an event is written or refused, a reader answered
LEMMA RunKeepsHist ==
  ASSUME HistInv, RunRequest
  PROVE  HistInv'
  <1>0. /\ HistTypeOK /\ QueueInOrder /\ ItemInOrder /\ AnswersInOrder
        /\ hsWorker' = "loop" /\ hsItem' = NoRequest
        /\ UNCHANGED <<hsQueue, hsOpened, hsValid, hsDone, hsPushed, hsCalled, hsMain>>
    BY DEF HistInv, RunRequest, hsLoop
  <1>1. PICK ok \in BOOLEAN :
          /\ hsEvents' = IF ok THEN hsEvents \cup ({hsItem} \cap HistEvents) ELSE hsEvents
          /\ hsFailed' = IF ok THEN hsFailed ELSE hsFailed \cup ({hsItem} \cap HistEvents)
          /\ AnswerReader(ok)
    BY <1>0 DEF RunRequest, HistTypeOK
  <1>2. /\ hsEvents' \cup hsFailed' = hsEvents \cup hsFailed \cup ({hsItem} \cap HistEvents)
        /\ hsFailed \subseteq hsFailed' /\ hsEvents \subseteq hsEvents'
        /\ hsEvents' \subseteq HistEvents /\ hsFailed' \subseteq HistEvents
    BY <1>0, <1>1 DEF HistTypeOK
  <1>3. \A r \in HistReads :
          \/ hsAnswer'[r] = hsAnswer[r]
          \/ r = hsItem /\ hsAnswer'[r] = [sent |-> TRUE, ok |-> ok,
                                           events |-> IF ok THEN hsEvents ELSE {}]
    BY <1>0, <1>1 DEF AnswerReader, HistTypeOK
  <1>4. hsAnswer' \in [HistReads -> [sent : BOOLEAN, ok : BOOLEAN, events : SUBSET HistEvents]]
    <2>1. [sent |-> TRUE, ok |-> ok, events |-> IF ok THEN hsEvents ELSE {}]
            \in [sent : BOOLEAN, ok : BOOLEAN, events : SUBSET HistEvents]
      BY <1>0 DEF HistTypeOK
    <2> QED BY <1>0, <1>1, <2>1 DEF AnswerReader, HistTypeOK
  <1>5. HistTypeOK'
    BY <1>0, <1>2, <1>4 DEF HistTypeOK
  <1>6. \A e \in HistEvents : Settled(e) => Settled(e)'
    BY <1>2 DEF Settled
  <1>7. QueueInOrder'
    <2>1. \A i \in DOMAIN hsQueue : hsQueue[i] \in HistRequests
      BY <1>0 DEF HistTypeOK
    <2>2. ASSUME NEW i \in DOMAIN hsQueue, hsQueue[i] \in HistReads,
                 NEW e \in hsPushed[hsQueue[i]]
          PROVE  Settled(e)' \/ \E j \in DOMAIN hsQueue : j < i /\ hsQueue[j] = e
      <3>1. hsPushed[hsQueue[i]] \subseteq HistEvents
        BY <1>0, <2>1, <2>2 DEF HistTypeOK, QueueInOrder
      <3>2. Settled(e) \/ \E j \in DOMAIN hsQueue : j < i /\ hsQueue[j] = e
        BY <1>0, <2>2 DEF QueueInOrder
      <3> QED BY <1>6, <2>2, <3>1, <3>2
    <2>3. ASSUME NEW e \in PushedEvents
          PROVE  Settled(e)' \/ \E j \in DOMAIN hsQueue : hsQueue[j] = e
      BY <1>0, <1>6 DEF QueueInOrder, PushedEvents
    <2> QED BY <1>0, <2>2, <2>3 DEF QueueInOrder, PushedEvents
  <1>8. ItemInOrder'
    BY <1>0, HistoryAssumption DEF ItemInOrder, HistRequests
  <1>9. AnswersInOrder'
    <2>1. ASSUME NEW r \in HistReads, hsAnswer'[r].ok
          PROVE  hsPushed[r] # NotPushed /\ hsPushed[r] \ hsFailed' \subseteq hsAnswer'[r].events
      <3>1. CASE hsAnswer'[r] = hsAnswer[r]
        BY <1>0, <1>2, <2>1, <3>1 DEF AnswersInOrder
      <3>2. CASE r = hsItem /\ hsAnswer'[r] = [sent |-> TRUE, ok |-> ok,
                                               events |-> IF ok THEN hsEvents ELSE {}]
        <4>1. ok /\ hsAnswer'[r].events = hsEvents
          BY <2>1, <3>2
        <4>2. r # NoRequest
          BY HistoryAssumption DEF HistRequests
        <4> QED BY <1>0, <1>2, <3>2, <4>1, <4>2 DEF ItemInOrder
      <3> QED BY <1>3, <3>1, <3>2
    <2> QED BY <1>0, <2>1 DEF AnswersInOrder
  <1> QED BY <1>5, <1>7, <1>8, <1>9 DEF HistInv

LEMMA HistStep == HistInv /\ [HistNext]_hsVars => HistInv'
  <1>1. ASSUME HistInv, UNCHANGED <<hsQueue, hsItem, hsEvents, hsPushed, hsFailed, hsAnswer>>,
               hsWorker' # "popped" \/ hsWorker' = hsWorker
        PROVE  /\ QueueInOrder' /\ AnswersInOrder'
               /\ hsWorker # "popped" \/ hsWorker' = hsWorker => ItemInOrder'
    BY <1>1 DEF HistInv, QueueInOrder, ItemInOrder, AnswersInOrder, Settled, PushedEvents
  <1>2. ASSUME HistInv, Open \/ TestDone PROVE HistInv'
    BY <1>1, <1>2 DEF HistInv, HistTypeOK, Open, TestDone, hsBase, hsLoop
  <1>3. ASSUME HistInv, HistDestructor PROVE HistInv'
    BY <1>1, <1>3
    DEF HistInv, HistTypeOK, HistDestructor, MarkDone, Invalidate, Join, hsWorking, hsBase
  <1>4. ASSUME HistInv, NEW r \in HistReads, CallReader(r) PROVE HistInv'
    <2>1. hsCalled' \in [HistReads -> Nat]
      BY <1>4 DEF HistInv, HistTypeOK, CallReader
    <2> QED BY <1>1, <1>4, <2>1 DEF HistInv, HistTypeOK, CallReader, hsWorking, hsBase
  <1>5. ASSUME HistInv, UNCHANGED hsVars PROVE HistInv'
    BY <1>1, <1>5 DEF HistInv, HistTypeOK, hsVars
  <1> QED
    BY <1>2, <1>3, <1>4, <1>5, PushKeepsHist, PopKeepsHist, RunKeepsHist
    DEF HistNext, HistWorker

\* A read that succeeds returns every event appended before it was asked, but those
\* whose insertion failed: the loop and the worker share nothing but the queue.
THEOREM ReadsAreInOrder == HistSpec => [](HistTypeOK /\ ReadsSeeEarlierEvents)
  <1>1. HistInv => HistTypeOK /\ ReadsSeeEarlierEvents
    BY DEF HistInv, AnswersInOrder, ReadsSeeEarlierEvents
  <1> QED BY <1>1, HistInitial, HistStep, PTL DEF HistSpec
-----------------------------------------------------------------------------
(* Polling                                                                 *)

\* The events numbered from a + 1 to b
Events(a, b) == [i \in 1..b - a |-> a + i]

\* The queue holds what is created and not emitted; a client that has registered
\* has had or holds all that was emitted since
QueueIsNew == plEmitted <= plCreated /\ plQueue = Events(plEmitted, plCreated)
FollowsEvents(c) ==
  /\ plObject[c] = "none" => plGot[c] = <<>> /\ plEvents[c] = <<>>
  /\ plObject[c] = "there" =>
       /\ plSince[c] <= plEmitted
       /\ plGot[c] \o plEvents[c] = Events(plSince[c], plEmitted)
\* A client without a timer is about to be deleted, before the next requests
TimersExpire ==
  /\ \A c \in Clients :
       plObject[c] = "there" /\ plTimer[c] = NoPollTimer => plExpiry[c] = "ready"
  /\ plPhase = "requests" => \A c \in Clients : plExpiry[c] # "ready"
PollInv ==
  PollTypeOK /\ QueueIsNew /\ TimersExpire /\ \A c \in Clients : FollowsEvents(c)

LEMMA EventsAreSeq ==
  ASSUME NEW a \in Nat, NEW b \in Nat, a <= b
  PROVE  /\ Events(a, b) \in Seq(Nat) /\ Len(Events(a, b)) = b - a
         /\ \A i \in 1..b - a : Events(a, b)[i] = a + i
  <1>1. b - a \in Nat
    OBVIOUS
  <1> QED BY <1>1 DEF Events

LEMMA NoEvents ==
  ASSUME NEW a \in Nat
  PROVE  Events(a, a) = <<>>
  <1>1. Events(a, a) \in Seq(Nat) /\ Len(Events(a, a)) = 0
    BY EventsAreSeq
  <1> QED BY <1>1

LEMMA EventsJoin ==
  ASSUME NEW a \in Nat, NEW b \in Nat, NEW c \in Nat, a <= b, b <= c
  PROVE  Events(a, b) \o Events(b, c) = Events(a, c)
  <1>1. PICK s \in Seq(Nat) :
          s = Events(a, b) /\ Len(s) = b - a /\ \A i \in 1..b - a : s[i] = a + i
    BY EventsAreSeq
  <1>2. PICK t \in Seq(Nat) :
          t = Events(b, c) /\ Len(t) = c - b /\ \A i \in 1..c - b : t[i] = b + i
    BY EventsAreSeq
  <1>3. PICK u \in Seq(Nat) :
          u = Events(a, c) /\ Len(u) = c - a /\ \A i \in 1..c - a : u[i] = a + i
    <2>1. a <= c
      OBVIOUS
    <2> QED BY <2>1, EventsAreSeq
  <1>4. /\ s \o t \in Seq(Nat) /\ Len(s \o t) = Len(s) + Len(t)
        /\ \A i \in 1..Len(s) + Len(t) :
             (s \o t)[i] = IF i <= Len(s) THEN s[i] ELSE t[i - Len(s)]
    BY ConcatProperties
  <1>5. Len(s) + Len(t) = c - a
    BY <1>1, <1>2
  <1>6. ASSUME NEW i \in 1..c - a PROVE (s \o t)[i] = u[i]
    <2>1. CASE i <= b - a
      BY <1>1, <1>3, <1>4, <1>5, <2>1
    <2>2. CASE ~(i <= b - a)
      <3>1. i - (b - a) \in 1..c - b
        BY <2>2
      <3>2. (s \o t)[i] = t[i - (b - a)]
        BY <1>1, <1>4, <1>5, <2>2
      <3>3. t[i - (b - a)] = b + (i - (b - a))
        BY <1>2, <3>1
      <3>4. u[i] = a + i /\ b + (i - (b - a)) = a + i
        BY <1>3
      <3> QED BY <3>2, <3>3, <3>4
    <2> QED BY <2>1, <2>2
  <1>7. Len(s \o t) = Len(u) /\ \A i \in 1..Len(s \o t) : (s \o t)[i] = u[i]
    BY <1>3, <1>4, <1>5, <1>6
  <1>8. s \o t = u
    BY <1>4, <1>7, SeqEqual
  <1> QED BY <1>1, <1>2, <1>3, <1>8

LEMMA EventsAppend ==
  ASSUME NEW a \in Nat, NEW b \in Nat, a <= b
  PROVE  Append(Events(a, b), b + 1) = Events(a, b + 1)
  <1>0. PICK n \in Nat : n = b + 1 /\ a <= n
    OBVIOUS
  <1>1. PICK s \in Seq(Nat) :
          s = Events(a, b) /\ Len(s) = b - a /\ \A i \in 1..b - a : s[i] = a + i
    BY EventsAreSeq
  <1>2. PICK u \in Seq(Nat) :
          u = Events(a, n) /\ Len(u) = n - a /\ \A i \in 1..n - a : u[i] = a + i
    BY <1>0, EventsAreSeq
  <1>3. /\ Append(s, n) \in Seq(Nat) /\ Len(Append(s, n)) = Len(s) + 1
        /\ \A i \in 1..Len(s) : Append(s, n)[i] = s[i]
        /\ Append(s, n)[Len(s) + 1] = n
    BY AppendProperties
  <1>4. Len(Append(s, n)) = n - a /\ \A i \in 1..n - a : i \in 1..Len(s) \/ i = Len(s) + 1
    BY <1>0, <1>1, <1>3
  <1>5. ASSUME NEW i \in 1..n - a PROVE Append(s, n)[i] = u[i]
    <2>1. CASE i \in 1..Len(s)
      BY <1>1, <1>2, <1>3, <2>1
    <2>2. CASE i = Len(s) + 1
      BY <1>0, <1>1, <1>2, <1>3, <2>2
    <2> QED BY <1>4, <2>1, <2>2
  <1>6. Append(s, n) = u
    BY <1>2, <1>3, <1>4, <1>5, SeqEqual
  <1> QED BY <1>0, <1>1, <1>2, <1>6

LEMMA PollInitial == PollInit => PollInv
  <1> SUFFICES ASSUME PollInit PROVE PollInv
    OBVIOUS
  <1>1. PollTypeOK
    BY PollingAssumption DEF PollInit, PollTypeOK, NoPollTimer, IdlerStates
  <1>2. QueueIsNew
    BY NoEvents DEF PollInit, QueueIsNew
  <1> QED BY <1>1, <1>2 DEF PollInit, PollInv, TimersExpire, FollowsEvents

\* An event is created
LEMMA CreateKeepsPoll ==
  ASSUME PollInv, CreateEvent
  PROVE  PollInv'
  <1>0. /\ PollTypeOK /\ QueueIsNew /\ plCreated < MaxEvents
        /\ plCreated' = plCreated + 1 /\ plQueue' = Append(plQueue, plCreated + 1)
        /\ UNCHANGED <<plPhase, plClientVars, plEmitted>>
    BY DEF PollInv, CreateEvent
  <1>1. plCreated \in Nat /\ plEmitted \in Nat /\ plEmitted <= plCreated /\ MaxEvents \in Nat
    BY <1>0, PollingAssumption DEF PollTypeOK, QueueIsNew
  <1>2. QueueIsNew'
    <2>1. Append(Events(plEmitted, plCreated), plCreated + 1) = Events(plEmitted, plCreated + 1)
      BY <1>1, EventsAppend
    <2>2. plQueue' = Events(plEmitted', plCreated') /\ plEmitted' <= plCreated'
      BY <1>0, <1>1, <2>1 DEF QueueIsNew
    <2> QED BY <2>2 DEF QueueIsNew
  <1>3. plIdler' \in IdlerStates
    BY <1>0 DEF CreateEvent, StartIdler, PollTypeOK, IdlerStates
  <1>4. plQueue' \in Seq(1..MaxEvents) /\ plCreated' \in 0..MaxEvents
    BY <1>0, <1>1 DEF PollTypeOK
  <1>5. PollTypeOK'
    BY <1>0, <1>3, <1>4 DEF PollTypeOK, plClientVars
  <1>6. TimersExpire' /\ \A c \in Clients : FollowsEvents(c)'
    BY <1>0 DEF PollInv, TimersExpire, FollowsEvents, plClientVars
  <1> QED BY <1>2, <1>5, <1>6 DEF PollInv

\* The queue is emptied, to all who are registered
LEMMA DrainKeepsPoll ==
  ASSUME PollInv, DrainEvents
  PROVE  PollInv'
  <1>0. /\ PollTypeOK /\ QueueIsNew /\ TimersExpire
        /\ plIdler' = "no" /\ plQueue' = <<>> /\ plEmitted' = plEmitted + Len(plQueue)
        /\ plEvents' = [c \in Clients |->
              IF plObject[c] = "there" THEN plEvents[c] \o plQueue ELSE plEvents[c]]
        /\ UNCHANGED <<plPhase, plObject, plTimer, plExpiry, plGot, plSince, plCreated>>
    BY DEF PollInv, DrainEvents, Emitted
  <1>1. /\ plCreated \in Nat /\ plEmitted \in Nat /\ plEmitted <= plCreated
        /\ plCreated \in 0..MaxEvents
        /\ plQueue = Events(plEmitted, plCreated) /\ plQueue \in Seq(1..MaxEvents)
    BY <1>0, PollingAssumption DEF PollTypeOK, QueueIsNew
  <1>2. plEmitted' = plCreated
    BY <1>0, <1>1, EventsAreSeq
  <1>3. QueueIsNew'
    BY <1>0, <1>1, <1>2, NoEvents DEF QueueIsNew
  <1>4. \A c \in Clients : plEvents[c] \in Seq(1..MaxEvents) /\ plGot[c] \in Seq(1..MaxEvents)
    BY <1>0 DEF PollTypeOK
  <1>5. plEvents' \in [Clients -> Seq(1..MaxEvents)]
    <2>1. \A c \in Clients : plEvents[c] \o plQueue \in Seq(1..MaxEvents)
      BY <1>1, <1>4, ConcatProperties
    <2> QED BY <1>0, <1>4, <2>1
  <1>6. PollTypeOK'
    BY <1>0, <1>1, <1>2, <1>5 DEF PollTypeOK, IdlerStates
  <1>7. ASSUME NEW c \in Clients PROVE FollowsEvents(c)'
    <2>1. CASE plObject[c] = "there"
      <3>1. /\ plSince[c] \in Nat /\ plSince[c] <= plEmitted
            /\ plGot[c] \o plEvents[c] = Events(plSince[c], plEmitted)
        BY <1>0, <2>1 DEF PollInv, FollowsEvents, PollTypeOK
      <3>2. plGot[c] \o (plEvents[c] \o plQueue) = (plGot[c] \o plEvents[c]) \o plQueue
        <4>1. PICK S : S = 1..MaxEvents
          OBVIOUS
        <4>2. plGot[c] \in Seq(S) /\ plEvents[c] \in Seq(S) /\ plQueue \in Seq(S)
          BY <1>1, <1>4, <4>1
        <4>3. \A s, t, u \in Seq(S) : (s \o t) \o u = s \o (t \o u)
          BY ConcatAssociative
        <4> QED BY <4>2, <4>3, Zenon
      <3>3. (plGot[c] \o plEvents[c]) \o plQueue = Events(plSince[c], plCreated)
        <4>1. Events(plSince[c], plEmitted) \o Events(plEmitted, plCreated)
                = Events(plSince[c], plCreated)
          BY <1>1, <3>1, EventsJoin
        <4> QED BY <1>1, <3>1, <4>1
      <3>4. plEvents'[c] = plEvents[c] \o plQueue /\ plSince[c] <= plCreated
        BY <1>0, <1>1, <2>1, <3>1
      <3>5. plGot'[c] \o plEvents'[c] = Events(plSince'[c], plEmitted')
        BY <1>0, <1>2, <3>2, <3>3, <3>4
      <3> QED BY <1>0, <1>2, <2>1, <3>4, <3>5 DEF FollowsEvents
    <2>2. CASE plObject[c] # "there"
      BY <1>0, <2>2 DEF PollInv, FollowsEvents
    <2> QED BY <2>1, <2>2
  <1>8. TimersExpire'
    BY <1>0 DEF TimersExpire
  <1> QED BY <1>3, <1>6, <1>7, <1>8 DEF PollInv

\* A client registers, leaves or asks, its timer fires, its object is deleted
LEMMA ClientKeepsPoll ==
  ASSUME PollInv, NEW c \in Clients,
         Register(c) \/ Unregister(c) \/ GetEvents(c) \/ TimeoutCb(c) \/ ExpiryIdler(c)
  PROVE  PollInv'
  <1>0. /\ PollTypeOK /\ QueueIsNew /\ TimersExpire /\ \A d \in Clients : FollowsEvents(d)
        /\ UNCHANGED <<plPhase, plEventVars>>
        /\ PollTimeout \in 0..NoPollTimer /\ NoPollTimer \in 0..NoPollTimer
        /\ PollTimeout # NoPollTimer
    <2>1. /\ PollTimeout \in 0..NoPollTimer /\ NoPollTimer \in 0..NoPollTimer
          /\ PollTimeout # NoPollTimer
      BY PollingAssumption DEF NoPollTimer
    <2>2. UNCHANGED <<plPhase, plEventVars>>
      BY DEF Register, Unregister, Unregistered, GetEvents, TimeoutCb, ExpiryIdler
    <2> QED BY <2>1, <2>2 DEF PollInv
  <1>1. QueueIsNew'
    BY <1>0 DEF QueueIsNew, plEventVars
  <1>2. CASE Register(c)
    <2>1. /\ plPhase = "requests" /\ plObject[c] = "none"
          /\ plObject' = [plObject EXCEPT ![c] = "there"]
          /\ plTimer' = [plTimer EXCEPT ![c] = PollTimeout]
          /\ plSince' = [plSince EXCEPT ![c] = plEmitted]
          /\ UNCHANGED <<plPhase, plEventVars, plExpiry, plEvents, plGot>>
      BY <1>2 DEF Register
    <2>2. PollTypeOK'
      BY <1>0, <2>1 DEF PollTypeOK, plEventVars
    <2>3. TimersExpire'
      BY <1>0, <2>1 DEF TimersExpire, PollTypeOK
    <2>4. FollowsEvents(c)'
      <3>1. plEmitted \in Nat /\ plGot[c] = <<>> /\ plEvents[c] = <<>>
        BY <1>0, <2>1 DEF FollowsEvents, PollTypeOK
      <3>2. plGot[c] \o plEvents[c] = Events(plEmitted, plEmitted)
        BY <3>1, NoEvents, EmptySeq, ConcatEmptySeq
      <3> QED BY <1>0, <2>1, <3>1, <3>2 DEF FollowsEvents, PollTypeOK, plEventVars
    <2>5. \A d \in Clients \ {c} : FollowsEvents(d)'
      BY <1>0, <2>1 DEF FollowsEvents, PollTypeOK, plEventVars
    <2> QED BY <1>1, <2>2, <2>3, <2>4, <2>5 DEF PollInv
  <1>3. CASE Unregister(c) \/ ExpiryIdler(c)
    <2>1. /\ plObject' = [plObject EXCEPT ![c] = "deleted"]
          /\ plTimer' = [plTimer EXCEPT ![c] = NoPollTimer]
          /\ plExpiry' = [plExpiry EXCEPT ![c] = "no"]
          /\ UNCHANGED <<plPhase, plEventVars, plEvents, plGot, plSince>>
      BY <1>3 DEF Unregister, ExpiryIdler, Unregistered
    <2>2. PollTypeOK'
      BY <1>0, <2>1 DEF PollTypeOK, IdlerStates, plEventVars
    <2>3. TimersExpire'
      BY <1>0, <2>1 DEF TimersExpire, PollTypeOK
    <2>4. \A d \in Clients : FollowsEvents(d)'
      BY <1>0, <2>1 DEF FollowsEvents, PollTypeOK, plEventVars
    <2> QED BY <1>1, <2>2, <2>3, <2>4 DEF PollInv
  <1>4. CASE GetEvents(c)
    <2>1. /\ plPhase = "requests"
          /\ plGot' = [plGot EXCEPT ![c] = @ \o plEvents[c]]
          /\ plEvents' = [plEvents EXCEPT ![c] = <<>>]
          /\ plTimer' = [plTimer EXCEPT ![c] = PollTimeout]
          /\ plObject[c] = "there"
          /\ UNCHANGED <<plPhase, plEventVars, plObject, plExpiry, plSince>>
      BY <1>4 DEF GetEvents, ClearEvents
    <2>2. plEvents[c] \in Seq(1..MaxEvents) /\ plGot[c] \in Seq(1..MaxEvents)
      BY <1>0 DEF PollTypeOK
    <2>3. /\ plGot[c] \o plEvents[c] \in Seq(1..MaxEvents) /\ <<>> \in Seq(1..MaxEvents)
          /\ (plGot[c] \o plEvents[c]) \o <<>> = plGot[c] \o plEvents[c]
      BY <2>2, ConcatProperties, ConcatEmptySeq, EmptySeq
    <2>4. PollTypeOK'
      BY <1>0, <2>1, <2>3 DEF PollTypeOK, plEventVars
    <2>5. TimersExpire'
      BY <1>0, <2>1 DEF TimersExpire, PollTypeOK
    <2>6. plGot'[c] = plGot[c] \o plEvents[c] /\ plEvents'[c] = <<>>
      BY <1>0, <2>1 DEF PollTypeOK
    <2>7. FollowsEvents(c)'
      BY <1>0, <2>1, <2>3, <2>6 DEF FollowsEvents, plEventVars
    <2>8. \A d \in Clients \ {c} : FollowsEvents(d)'
      BY <1>0, <2>1 DEF FollowsEvents, PollTypeOK, plEventVars
    <2> QED BY <1>1, <2>4, <2>5, <2>7, <2>8 DEF PollInv
  <1>5. CASE TimeoutCb(c)
    <2>1. /\ plPhase = "timers" /\ plPhase' = plPhase
          /\ plTimer' = [plTimer EXCEPT ![c] = NoPollTimer]
          /\ plExpiry' = [plExpiry EXCEPT ![c] = "ready"]
          /\ UNCHANGED <<plEventVars, plObject, plEvents, plGot, plSince>>
      BY <1>5 DEF TimeoutCb, Expire
    <2>2. PollTypeOK'
      BY <1>0, <2>1 DEF PollTypeOK, IdlerStates, plEventVars
    <2>3. TimersExpire'
      BY <1>0, <2>1 DEF TimersExpire, PollTypeOK
    <2>4. \A d \in Clients : FollowsEvents(d)'
      BY <1>0, <2>1 DEF FollowsEvents, plEventVars
    <2> QED BY <1>1, <2>2, <2>3, <2>4 DEF PollInv
  <1> QED BY <1>2, <1>3, <1>4, <1>5

\* The loop goes on: no idler that is ready is left when requests are read
LEMMA TurnKeepsPoll ==
  ASSUME PollInv, ToIdlers \/ ToRequests \/ ToTimers \/ UNCHANGED plVars
  PROVE  PollInv'
  <1>0. /\ PollTypeOK /\ QueueIsNew /\ TimersExpire /\ \A c \in Clients : FollowsEvents(c)
        /\ UNCHANGED <<plQueue, plEmitted, plCreated, plObject, plEvents, plGot, plSince>>
    BY DEF PollInv, ToIdlers, ToRequests, ToTimers, plVars, plEventVars, plClientVars
  <1>1. QueueIsNew' /\ \A c \in Clients : FollowsEvents(c)'
    BY <1>0 DEF QueueIsNew, FollowsEvents
  <1>2. CASE ToIdlers
    <2>1. /\ plPhase' = "idlers" /\ plIdler' \in IdlerStates
          /\ plTimer' = plTimer /\ plExpiry' = plExpiry
      BY <1>0, <1>2 DEF ToIdlers, plClientVars, Ready, PollTypeOK, IdlerStates
    <2>2. PollTypeOK' /\ TimersExpire'
      BY <1>0, <2>1 DEF PollTypeOK, TimersExpire
    <2> QED BY <1>1, <2>2 DEF PollInv
  <1>3. CASE ToRequests
    <2>1. /\ plPhase' = "requests" /\ \A c \in Clients : plExpiry[c] # "ready"
          /\ plIdler' = plIdler /\ plTimer' = plTimer /\ plExpiry' = plExpiry
      BY <1>3 DEF ToRequests, plEventVars, plClientVars
    <2>2. PollTypeOK' /\ TimersExpire'
      BY <1>0, <2>1 DEF PollTypeOK, TimersExpire
    <2> QED BY <1>1, <2>2 DEF PollInv
  <1>4. CASE ToTimers
    <2>1. /\ plPhase' = "timers" /\ plIdler' = plIdler
          /\ plTimer' = [c \in Clients |-> IF plTimer[c] \in {0, NoPollTimer} THEN plTimer[c]
                                           ELSE plTimer[c] - 1]
          /\ plExpiry' = [c \in Clients |-> Ready(plExpiry[c])]
      BY <1>4 DEF ToTimers, plEventVars
    <2>2. ASSUME NEW c \in Clients
          PROVE  /\ plTimer'[c] \in 0..NoPollTimer /\ plExpiry'[c] \in IdlerStates
                 /\ plTimer'[c] = NoPollTimer => plTimer[c] = NoPollTimer
                 /\ plExpiry[c] = "ready" => plExpiry'[c] = "ready"
      <3>1. plTimer[c] \in 0..NoPollTimer /\ plExpiry[c] \in IdlerStates /\ NoPollTimer \in Nat
        BY <1>0, PollingAssumption DEF PollTypeOK, NoPollTimer
      <3> QED BY <2>1, <3>1 DEF Ready, IdlerStates
    <2>3. PollTypeOK'
      BY <1>0, <2>1, <2>2 DEF PollTypeOK
    <2>4. TimersExpire'
      BY <1>0, <2>1, <2>2 DEF TimersExpire
    <2> QED BY <1>1, <2>3, <2>4 DEF PollInv
  <1>5. CASE UNCHANGED plVars
    BY <1>0, <1>1, <1>5 DEF PollInv, PollTypeOK, TimersExpire, plVars
  <1> QED BY <1>2, <1>3, <1>4, <1>5

LEMMA PollStep == PollInv /\ [PollNext]_plVars => PollInv'
  BY CreateKeepsPoll, DrainKeepsPoll, ClientKeepsPoll, TurnKeepsPoll DEF PollNext, LoopTurns

LEMMA PollSound == PollInv => PollTypeOK /\ PollingIsSound
  <1>1. PollInv => ClientsMissNothing
    BY DEF PollInv, FollowsEvents, ClientsMissNothing, Events
  <1>2. PollInv => TimersAreThere
    BY DEF PollInv, TimersExpire, TimersAreThere
  <1> QED BY <1>1, <1>2 DEF PollInv, PollingIsSound

\* A client gets every event emitted while it is registered, in order and once, and
\* no request finds it between the end of its timer and its deletion.
THEOREM PollersMissNothing == PollSpec => [](PollTypeOK /\ PollingIsSound)
  BY PollInitial, PollStep, PollSound, PTL DEF PollSpec
-----------------------------------------------------------------------------
(* All the components together, which share no state                       *)

\* The components that stand still
Still(component) ==
  /\ component # "frames" => UNCHANGED frVars
  /\ component # "plc" => UNCHANGED udpVars
  /\ component # "player" => UNCHANGED sqVars
  /\ component # "history" => UNCHANGED hsVars
  /\ component # "tokens" => UNCHANGED ptVars
  /\ component # "polling" => UNCHANGED plVars
  /\ component # "files" => UNCHANGED cfVars
  /\ component # "console" => UNCHANGED cnVars
  /\ component # "socket" => UNCHANGED wsVars
  /\ component # "link" => UNCHANGED lkVars
  /\ component # "alerts" => UNCHANGED alVars
  /\ component # "mcp" => UNCHANGED mcpVars

LEMMA ServicesSteps ==
  [ServicesNext]_serviceVars
    => /\ [FrameNext]_frVars /\ [UdpNext]_udpVars /\ [SqNext]_sqVars
       /\ [HistNext]_hsVars /\ [TokenNext]_ptVars /\ [PollNext]_plVars
       /\ [ConfNext]_cfVars /\ [ConsoleNext]_cnVars /\ [SocketNext]_wsVars
       /\ [LinkNext]_lkVars /\ [AlertNext]_alVars /\ [McpNext]_mcpVars
       /\ UNCHANGED part
  <1> SUFFICES ASSUME [ServicesNext]_serviceVars
               PROVE  /\ [FrameNext]_frVars /\ [UdpNext]_udpVars /\ [SqNext]_sqVars
                      /\ [HistNext]_hsVars /\ [TokenNext]_ptVars /\ [PollNext]_plVars
                      /\ [ConfNext]_cfVars /\ [ConsoleNext]_cnVars /\ [SocketNext]_wsVars
                      /\ [LinkNext]_lkVars /\ [AlertNext]_alVars /\ [McpNext]_mcpVars
                      /\ UNCHANGED part
    OBVIOUS
  <1>0. ASSUME NEW component, Alone(component) PROVE Still(component) /\ UNCHANGED part
    BY <1>0 DEF Alone, Still
  <1>1. CASE Alone("frames") /\ FrameNext
    BY <1>0, <1>1 DEF Still
  <1>2. CASE Alone("plc") /\ UdpNext
    BY <1>0, <1>2 DEF Still
  <1>3. CASE Alone("player") /\ SqNext
    BY <1>0, <1>3 DEF Still
  <1>4. CASE Alone("history") /\ HistNext
    BY <1>0, <1>4 DEF Still
  <1>5. CASE Alone("tokens") /\ TokenNext
    BY <1>0, <1>5 DEF Still
  <1>6. CASE Alone("polling") /\ PollNext
    BY <1>0, <1>6 DEF Still
  <1>7. CASE Alone("files") /\ ConfNext
    BY <1>0, <1>7 DEF Still
  <1>8. CASE Alone("console") /\ ConsoleNext
    BY <1>0, <1>8 DEF Still
  <1>9. CASE Alone("socket") /\ SocketNext
    BY <1>0, <1>9 DEF Still
  <1>10. CASE Alone("link") /\ LinkNext
    BY <1>0, <1>10 DEF Still
  <1>11. CASE Alone("alerts") /\ AlertNext
    BY <1>0, <1>11 DEF Still
  <1>12. CASE Alone("mcp") /\ McpNext
    BY <1>0, <1>12 DEF Still
  <1>13. CASE UNCHANGED serviceVars
    BY <1>13 DEF serviceVars
  <1> QED
    BY <1>1, <1>2, <1>3, <1>4, <1>5, <1>6, <1>7, <1>8, <1>9, <1>10, <1>11, <1>12, <1>13
    DEF ServicesNext

\* The whole implements the specification of each of its components.
THEOREM ServicesImplementParts ==
  ServicesSpec => /\ FrameSpec /\ UdpSpec /\ SqSpec /\ HistSpec
                  /\ TokenSpec /\ PollSpec /\ ConfSpec /\ ConsoleSpec
                  /\ SocketSpec /\ LinkSpec /\ AlertSpec /\ McpSpec
  <1>1. ServicesInit => /\ FrameInit /\ UdpInit /\ SqInit /\ HistInit
                        /\ TokenInit /\ PollInit /\ ConfInit /\ ConsoleInit
                        /\ SocketInit /\ LinkInit /\ AlertInit /\ McpInit
    BY DEF ServicesInit
  <1>2. ServicesSpec => FrameSpec
    BY <1>1, ServicesSteps, PTL DEF ServicesSpec, FrameSpec
  <1>3. ServicesSpec => UdpSpec
    BY <1>1, ServicesSteps, PTL DEF ServicesSpec, UdpSpec
  <1>4. ServicesSpec => SqSpec
    BY <1>1, ServicesSteps, PTL DEF ServicesSpec, SqSpec
  <1>5. ServicesSpec => HistSpec
    BY <1>1, ServicesSteps, PTL DEF ServicesSpec, HistSpec
  <1>6. ServicesSpec => TokenSpec
    BY <1>1, ServicesSteps, PTL DEF ServicesSpec, TokenSpec
  <1>7. ServicesSpec => PollSpec
    BY <1>1, ServicesSteps, PTL DEF ServicesSpec, PollSpec
  <1>8. ServicesSpec => ConfSpec
    BY <1>1, ServicesSteps, PTL DEF ServicesSpec, ConfSpec
  <1>9. ServicesSpec => ConsoleSpec
    BY <1>1, ServicesSteps, PTL DEF ServicesSpec, ConsoleSpec
  <1>10. ServicesSpec => SocketSpec
    BY <1>1, ServicesSteps, PTL DEF ServicesSpec, SocketSpec
  <1>11. ServicesSpec => LinkSpec
    BY <1>1, ServicesSteps, PTL DEF ServicesSpec, LinkSpec
  <1>12. ServicesSpec => AlertSpec
    BY <1>1, ServicesSteps, PTL DEF ServicesSpec, AlertSpec
  <1>13. ServicesSpec => McpSpec
    BY <1>1, ServicesSteps, PTL DEF ServicesSpec, McpSpec
  <1> QED
    BY <1>2, <1>3, <1>4, <1>5, <1>6, <1>7, <1>8, <1>9, <1>10, <1>11, <1>12, <1>13

\* In the whole server the approver of a phone and the configuration files are
\* changed by nothing but what may change them.
THEOREM KeptDataIsKept == ServicesSpec => KeptDataStays
  <1>1. ApproverIsFrozen /\ FilesAreKept <=> KeptDataStays
    BY DEF KeptDataStays
  <1> QED BY <1>1, ServicesImplementParts, ApproverStays, FilesStay

\* MessagesInOrder, of the whole server: what a driver or a client cuts into frames is
\* put together again, every message, whole, in order, once.
THEOREM ServicesInOrder == ServicesSpec => []MessagesInOrder
  <1>1. FramesInOrder /\ MessagesAreWhole => MessagesInOrder
    BY DEF MessagesInOrder
  <1> QED BY <1>1, ServicesImplementParts, FramesAreSound, SocketIsSound, PTL

\* ServicesTypeOK: every component of the whole server keeps to its types.
THEOREM ServicesTypes == ServicesSpec => []ServicesTypeOK
  <1>1. /\ part \in Parts
        /\ FrameTypeOK /\ UdpTypeOK /\ SqTypeOK
        /\ HistTypeOK /\ TokenTypeOK /\ PollTypeOK /\ ConfTypeOK
        /\ ConsoleTypeOK /\ SocketTypeOK /\ LinkTypeOK /\ AlertTypeOK /\ McpTypeOK
        => ServicesTypeOK
    BY DEF ServicesTypeOK
  <1>2. ServicesSpec => [](part \in Parts)
    <2>1. ServicesInit => part \in Parts
      BY DEF ServicesInit
    <2>2. part \in Parts /\ UNCHANGED part => (part \in Parts)'
      OBVIOUS
    <2> QED BY <2>1, <2>2, ServicesSteps, PTL DEF ServicesSpec
  <1> QED
    BY <1>1, <1>2, ServicesImplementParts, FramesAreSound, UdpTypes, SqTypes, ReadsAreInOrder,
       TokenTypes, PollersMissNothing, UploadsSurvive, TunnelIsTyped, SocketIsSound,
       ClosedStays, AlertTypes, McpTypes, PTL
=============================================================================
