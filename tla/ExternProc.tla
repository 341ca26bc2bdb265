----------------------------- MODULE ExternProc -----------------------------
(***************************************************************************)
(* ExternProcServer: the server's side of one driver process ("sidecar"),  *)
(* with the policy of the controllers that keep one running (KNX, MQTT,    *)
(* 1-Wire, OLA, Roon, Reolink): processExited is answered by another       *)
(* startProcess.  The server is one libuv loop, so every action is one     *)
(* callback; what may come between two callbacks is any other action.      *)
(*                                                                         *)
(* A failing driver is relaunched ever more slowly: the launch, and never  *)
(* the news of the exit, waits in a timer.  respawn_generation is what     *)
(* makes such a held launch obsolete, and also what tells the SIGTERM of   *)
(* terminate() from a stranger's.                                          *)
(***************************************************************************)
EXTENDS Naturals

CONSTANTS
    Children,       \* names of process handles, each with its IPC connection
    None,           \* no process handle, no client
    Generations,    \* values of respawn_generation, which starts at 0
    MaxFailures,    \* where respawn_failures saturates (INT_MAX)
    MaxTerminates   \* bound on the calls of terminate()

ASSUME ConstantsAssumption ==
    /\ None \notin Children
    /\ 0 \in Generations
    /\ MaxFailures \in Nat \ {0}
    /\ MaxTerminates \in Nat

VARIABLES
    started,        \* the controller has called startProcess once
    proc,           \* each child: none, alive, or how it ended (a zombie)
    handle,         \* process_exe
    closing,        \* the loop turn of its ExitEvent is not over yet
    mark,           \* the generation each child captured when it was spawned
    signalled,      \* children that terminate() sent SIGTERM to
    generation,     \* respawn_generation
    failures,       \* respawn_failures
    notices,        \* processExited emissions armed for 100 ms later
    held,           \* generations of the launches waiting in a timer
    link,           \* the IPC connection of each child
    client,         \* the connection sendMessage writes to
    terminates,     \* calls of terminate() so far
    cancelled       \* a terminate() made the only pending launch obsolete

childVars == <<proc, handle, mark, signalled>>
linkVars  == <<link, client>>
vars == <<started, childVars, closing, generation, failures, notices, held,
          linkVars, terminates, cancelled>>

\* A zero status; a status or a signal that is a failure; a SIGTERM.
Fates == {"clean", "failed", "term"}

TypeOK ==
    /\ started \in BOOLEAN /\ closing \in BOOLEAN /\ cancelled \in BOOLEAN
    /\ proc \in [Children -> {"none", "alive"} \cup Fates]
    /\ handle \in Children \cup {None}
    /\ mark \in [Children -> Generations]
    /\ signalled \in SUBSET Children
    /\ generation \in Generations
    /\ failures \in 0 .. MaxFailures
    /\ notices \in Nat
    /\ held \in SUBSET Generations
    /\ link \in [Children -> {"unused", "open", "stopped", "failing", "closing", "shut"}]
    /\ client \in Children \cup {None}
    /\ terminates \in 0 .. MaxTerminates

\* Children the server has spawned and not heard the end of.
Running == {c \in Children : proc[c] # "none"}

\* A handle and a connection libuv has released.
Free(c) == proc[c] = "none" /\ link[c] = "unused"
NewHandle == CHOOSE c \in Children : Free(c)

Init ==
    /\ started = FALSE
    /\ proc = [c \in Children |-> "none"]
    /\ handle = None
    /\ closing = FALSE
    /\ mark = [c \in Children |-> 0]
    /\ signalled = {}
    /\ generation = 0
    /\ failures = 0
    /\ notices = 0
    /\ held = {}
    /\ link = [c \in Children |-> "unused"]
    /\ client = None
    /\ terminates = 0
    /\ cancelled = FALSE

-----------------------------------------------------------------------------
(* The relaunch ramp.                                                      *)

\* Whether an end counts: a signal is a crash, except the SIGTERM we sent.
IsFailure(end, ours) ==
    \/ end = "failed"
    \/ end = "term" /\ ~ours

\* The count after an end.  A run of kRespawnResetSeconds starts it over.
NeverSaturates(n, end, longRun, ours) ==
    IF ~IsFailure(end, ours) THEN 0 ELSE IF longRun THEN 1 ELSE n + 1
NextFailureCount(n, end, longRun, ours) ==
    IF ~IsFailure(end, ours) THEN 0
    ELSE IF longRun THEN 1
    ELSE IF n = MaxFailures THEN n ELSE n + 1

\* respawnDelay(n) > 0: the launch after a failure waits.
IsHeld(n) == n > 0

\* respawn_generation++: generations are only compared, so the next one is
\* any that nobody holds (no capture is ever 2^32 bumps old).
Captured == {generation} \cup held \cup {mark[c] : c \in Running}
NextGeneration == CHOOSE g \in Generations : g \notin Captured
Bump ==
    /\ \E g \in Generations : g \notin Captured
    /\ generation' = NextGeneration

-----------------------------------------------------------------------------
(* The launch.                                                             *)

\* spawnProcess: a child that carries the generation g, or an ErrorEvent
\* which counts as a failure and arms the news of an exit.
SpawnProcess(g, armed) ==
    \/ /\ \E c \in Children : Free(c)
       /\ proc' = [proc EXCEPT ![NewHandle] = "alive"]
       /\ mark' = [mark EXCEPT ![NewHandle] = g]
       /\ handle' = NewHandle
       /\ notices' = armed
       /\ UNCHANGED <<signalled, failures>>
    \/ /\ failures' = NextFailureCount(failures, "failed", FALSE, FALSE)
       /\ notices' = armed + 1
       /\ handle' = None
       /\ UNCHANGED <<proc, mark, signalled>>

\* startProcess, which either spawns at once or arms the held launch.
MarkBeforeBump(armed) ==
    /\ Bump
    /\ IF IsHeld(failures)
         THEN /\ held' = held \cup {generation'}
              /\ notices' = armed
              /\ UNCHANGED <<childVars, failures>>
         ELSE /\ SpawnProcess(generation, armed)
              /\ UNCHANGED held
    /\ UNCHANGED <<closing, linkVars, terminates, cancelled>>
HoldBeforeBump(armed) ==
    /\ Bump
    /\ IF IsHeld(failures)
         THEN /\ held' = held \cup {generation}
              /\ notices' = armed
              /\ UNCHANGED <<childVars, failures>>
         ELSE /\ SpawnProcess(generation', armed)
              /\ UNCHANGED held
    /\ UNCHANGED <<closing, linkVars, terminates, cancelled>>
StartProcess(armed) ==
    /\ Bump
    /\ IF IsHeld(failures)
         THEN /\ held' = held \cup {generation'}
              /\ notices' = armed
              /\ UNCHANGED <<childVars, failures>>
         ELSE /\ SpawnProcess(generation', armed)
              /\ UNCHANGED held
    /\ UNCHANGED <<closing, linkVars, terminates, cancelled>>

\* The controller's constructor.
Start ==
    /\ ~started
    /\ started' = TRUE
    /\ StartProcess(notices)

\* By the time a timer of 100 ms or more runs, the loop turn of the exit is
\* over and the end of file of the dead child has been read.
TimersDue ==
    /\ ~closing
    /\ \A c \in Children : link[c] = "open" => proc[c] = "alive"

\* The 100 ms are over: processExited, whose handler starts the driver again.
ProcessExited ==
    /\ TimersDue
    /\ notices > 0
    /\ StartProcess(notices - 1)
    /\ UNCHANGED started

\* The timer of a held launch, which is never shorter than the 100 ms of the
\* notices armed before it.
EveryHoldSpawns(g) ==
    /\ TimersDue
    /\ notices = 0
    /\ g \in held
    /\ held' = held \ {g}
    /\ SpawnProcess(generation, notices)
    /\ UNCHANGED <<started, closing, generation, linkVars, terminates, cancelled>>
HoldEnds(g) ==
    /\ TimersDue
    /\ notices = 0
    /\ g \in held
    /\ held' = held \ {g}
    /\ IF g = generation
         THEN SpawnProcess(generation, notices)
         ELSE UNCHANGED <<childVars, failures, notices>>
    /\ UNCHANGED <<started, closing, generation, linkVars, terminates, cancelled>>

-----------------------------------------------------------------------------
(* The end of a child.                                                     *)

\* A child exits, crashes, or is killed: by terminate() or by anyone else.
Die(c, end) ==
    /\ proc[c] = "alive"
    /\ proc' = [proc EXCEPT ![c] = end]
    /\ UNCHANGED <<started, handle, mark, signalled, closing, generation, failures,
                   notices, held, linkVars, terminates, cancelled>>

\* The ExitEvent, which arms the news and forgets what its listener captured.
SilentStop(c, longRun) ==
    /\ proc[c] \in Fates
    /\ proc' = [proc EXCEPT ![c] = "none"]
    /\ failures' = NextFailureCount(failures, proc[c], longRun, generation # mark[c])
    /\ mark' = [mark EXCEPT ![c] = 0]
    /\ link' = [link EXCEPT ![c] = IF @ = "shut" THEN "unused" ELSE @]
    /\ signalled' = signalled \ {c}
    /\ notices' = IF generation = mark[c] THEN notices + 1 ELSE notices
    /\ closing' = TRUE
    /\ UNCHANGED <<started, handle, generation, held, client, terminates, cancelled>>
ExitEvent(c, longRun) ==
    /\ proc[c] \in Fates
    /\ proc' = [proc EXCEPT ![c] = "none"]
    /\ failures' = NextFailureCount(failures, proc[c], longRun, generation # mark[c])
    /\ mark' = [mark EXCEPT ![c] = 0]
    /\ link' = [link EXCEPT ![c] = IF @ = "shut" THEN "unused" ELSE @]
    /\ signalled' = signalled \ {c}
    /\ notices' = notices + 1
    /\ closing' = TRUE
    /\ UNCHANGED <<started, handle, generation, held, client, terminates, cancelled>>

\* libuv releases the closed handle at the end of the loop turn.
TurnEnds ==
    /\ closing
    /\ closing' = FALSE
    /\ UNCHANGED <<started, childVars, generation, failures, notices, held,
                   linkVars, terminates, cancelled>>

\* terminate(), called on a message of another sidecar (KNXCtrl).  A handle
\* that closes but is still referenced answers the kill with an ErrorEvent.
Terminate ==
    /\ started
    /\ terminates < MaxTerminates
    /\ terminates' = terminates + 1
    /\ Bump
    /\ link' = [c \in Children |->
                  IF c = client /\ link[c] = "open" THEN "stopped" ELSE link[c]]
    /\ signalled' = signalled \cup (Running \cap {handle})
    /\ IF closing
         THEN /\ failures' = NextFailureCount(failures, "failed", FALSE, TRUE)
              /\ notices' = notices + 1
              /\ closing' = FALSE
         ELSE UNCHANGED <<failures, notices, closing>>
    /\ cancelled' = (cancelled \/ (generation \in held /\ notices = 0))
    /\ UNCHANGED <<started, proc, handle, mark, held, client>>

-----------------------------------------------------------------------------
(* The IPC connection.                                                     *)

\* The ListenEvent: the newcomer is the client, whatever the client was.
KeepClient(c) ==
    /\ proc[c] = "alive" /\ link[c] = "unused"
    /\ link' = [link EXCEPT ![c] = "open"]
    /\ client' = IF client = None THEN c ELSE client
Connect(c) ==
    /\ proc[c] = "alive" /\ link[c] = "unused"
    /\ link' = [link EXCEPT ![c] = "open"]
    /\ client' = c

\* A write to a child that is gone; its failure is reported a turn later.
SendMessage ==
    /\ client # None
    /\ proc[client] # "alive" /\ link[client] \in {"open", "stopped"}
    /\ link' = [link EXCEPT ![client] = "failing"]
    /\ UNCHANGED client

\* The EndEvent of a connection that is read, or the error of a write.
LinkEnds(c) ==
    /\ \/ link[c] = "open" /\ proc[c] # "alive"
       \/ link[c] = "failing"
    /\ link' = [link EXCEPT ![c] = "closing"]
    /\ UNCHANGED client

\* processData met a framing error on the bytes of c: it closes the client.
FramingError(c) ==
    /\ link[c] = "open"
    /\ client # None
    /\ link' = [link EXCEPT ![client] = "closing"]
    /\ UNCHANGED client

\* The CloseEvent of any connection resets the client.
LinkClosed(c) ==
    /\ link[c] = "closing"
    /\ link' = [link EXCEPT ![c] = IF proc[c] = "none" THEN "unused" ELSE "shut"]
    /\ client' = None

\* The steps of the connections, which leave the rest alone.
Links ==
    /\ \/ SendMessage
       \/ \E c \in Children : \/ Connect(c) \/ LinkEnds(c)
                              \/ FramingError(c) \/ LinkClosed(c)
    /\ UNCHANGED <<started, childVars, closing, generation, failures, notices,
                   held, terminates, cancelled>>

-----------------------------------------------------------------------------
Next ==
    \/ Start
    \/ ProcessExited
    \/ \E g \in held : HoldEnds(g)
    \/ \E c \in Children, end \in Fates : Die(c, end)
    \/ \E c \in Children, longRun \in BOOLEAN : ExitEvent(c, longRun)
    \/ TurnEnds
    \/ Terminate
    \/ Links

Spec == Init /\ [][Next]_vars

\* What the event loop runs once it is due.  When a child dies, when it
\* connects, who writes to it and who terminates it is not the loop's doing.
Callback ==
    \/ Start
    \/ ProcessExited
    \/ \E g \in held : HoldEnds(g)
    \/ \E c \in Children, longRun \in BOOLEAN : ExitEvent(c, longRun)
    \/ TurnEnds
    \/ \E c \in Children :
          /\ LinkEnds(c) \/ LinkClosed(c)
          /\ UNCHANGED <<started, childVars, closing, generation, failures,
                         notices, held, terminates, cancelled>>

FairSpec == Spec /\ WF_vars(Callback)

-----------------------------------------------------------------------------
(* Properties.                                                             *)

\* At most one child runs, and process_exe names it, although exits, kills
\* that fail and held launches all lead to a launch: terminate() and the
\* destructor reach whatever runs.  (ExternProc.cpp:124-158, 346)
OneChild == \A c \in Running : c = handle

\* A launch is under way unless a terminate() withdrew it: a child runs, the
\* news of an exit is armed, or a held launch is still the wanted one.
\* (ExternProc.cpp:149, 343-349)
StillPending ==
    \/ ~started
    \/ cancelled
    \/ Running # {}
    \/ notices > 0
    \/ generation \in held

\* The failures are reset by exactly the ends that are no failure, where a
\* SIGTERM is ours if and only if terminate() signalled this very child,
\* however many launches and terminations happened before.  (ExternProc.cpp:377)
StopsAreAttributed ==
    [][\A c \in Children :
          (proc[c] \in Fates /\ proc'[c] = "none")
             => (failures' = 0 <=> ~IsFailure(proc[c], c \in signalled))]_vars

\* What the controller sends never goes to the connection of an older child
\* while the running child is connected.  (ExternProc.cpp:70, 168)
NoStaleClient ==
    \A c \in Children :
       (proc[c] = "alive" /\ link[c] = "open") => client \in {c, None}

\* The sidecar is slowed down and never given up: unless a terminate()
\* withdrew the launch, again and again a child runs or a launch is tried.
\* (ExternProc.cpp:324-406)
KeepsLaunching ==
    \/ <>cancelled
    \/ []<>(Running # {})
    \/ []<><<notices' > notices>>_vars

\* The same for every terminate(), as KNXCtrl says when it calls it:
\* "Disconnected from knxd, restarting command process...".  (KNXCtrl.cpp:349)
NeverDropped ==
    started => Running # {} \/ notices > 0 \/ generation \in held

=============================================================================
