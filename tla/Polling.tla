------------------------------ MODULE Polling ------------------------------
(***************************************************************************)
(* EventManager and PollListenner: events on their way to the clients that *)
(* poll for them.                                                          *)
(*                                                                         *)
(* An event waits in a queue that an idler empties.  A client that has     *)
(* registered keeps the events since then until it asks for them; its      *)
(* timer is set back by every request, and when it fires an idler          *)
(* unregisters the client.  The event loop runs the timers that are due,   *)
(* then every idler that was started before, then the requests it has      *)
(* received: that order is what the code relies on between the timer,      *)
(* which deletes itself, and the idler.                                    *)
(***************************************************************************)
EXTENDS Naturals, Sequences

CONSTANTS
  Clients,      \* identifiers, each given once
  PollTimeout,  \* TIMEOUT_POLLLISTENNER in turns of the loop
  MaxEvents     \* bound on the events

ASSUME PollingAssumption == PollTimeout \in Nat \ {0} /\ MaxEvents \in Nat

NoPollTimer == PollTimeout + 1

VARIABLES
  plPhase,    \* what the loop runs: "timers", "idlers" or "requests"
  plQueue,    \* eventsQueue; events are numbered in the order of their creation
  plIdler,    \* the idler of EventManager: "no", "started", or "ready" to run
  plObject,   \* the PollObject of each client: "none", "there", "deleted"
  plTimer,    \* its timer, or NoPollTimer after Timeout_cb()
  plExpiry,   \* the idler of Timeout_cb(), like plIdler
  plEvents,   \* its events
  plGot,      \* history: what its requests returned
  plSince,    \* history: events emitted before it registered
  plEmitted,  \* events emitted so far
  plCreated   \* events created so far

plVars == <<plPhase, plQueue, plIdler, plObject, plTimer, plExpiry, plEvents,
            plGot, plSince, plEmitted, plCreated>>
plClientVars == <<plObject, plTimer, plExpiry, plEvents, plGot, plSince>>
plEventVars == <<plQueue, plIdler, plEmitted, plCreated>>

IdlerStates == {"no", "started", "ready"}

PollTypeOK ==
  /\ plPhase \in {"timers", "idlers", "requests"}
  /\ plQueue \in Seq(1..MaxEvents) /\ plIdler \in IdlerStates
  /\ plObject \in [Clients -> {"none", "there", "deleted"}]
  /\ plTimer \in [Clients -> 0..NoPollTimer]
  /\ plExpiry \in [Clients -> IdlerStates]
  /\ plEvents \in [Clients -> Seq(1..MaxEvents)]
  /\ plGot \in [Clients -> Seq(1..MaxEvents)]
  /\ plSince \in [Clients -> 0..MaxEvents]
  /\ plEmitted \in 0..MaxEvents /\ plCreated \in 0..MaxEvents

PollInit ==
  /\ plPhase = "timers"
  /\ plQueue = <<>> /\ plIdler = "no" /\ plEmitted = 0 /\ plCreated = 0
  /\ plObject = [c \in Clients |-> "none"]
  /\ plTimer = [c \in Clients |-> NoPollTimer]
  /\ plExpiry = [c \in Clients |-> "no"]
  /\ plEvents = [c \in Clients |-> <<>>] /\ plGot = [c \in Clients |-> <<>>]
  /\ plSince = [c \in Clients |-> 0]

-----------------------------------------------------------------------------
(* Events.  KeepEvents and ExpireLater are faults, used by no action.      *)

\* appendEvent(), by a rule, a driver or a request: an empty queue has no idler
StartIdler == plIdler' = IF plQueue = <<>> THEN "started" ELSE plIdler
CreateEvent ==
  /\ plCreated < MaxEvents
  /\ plCreated' = plCreated + 1
  /\ plQueue' = Append(plQueue, plCreated + 1)
  /\ StartIdler
  /\ UNCHANGED <<plPhase, plClientVars, plEmitted>>

\* The idler empties the queue; newEvent has a slot for every PollObject
Emitted == plQueue
DrainEvents ==
  /\ plPhase = "idlers" /\ plIdler = "ready"
  /\ plIdler' = "no" /\ plQueue' = <<>>
  /\ plEmitted' = plEmitted + Len(plQueue)
  /\ plEvents' = [c \in Clients |->
                    IF plObject[c] = "there" THEN plEvents[c] \o Emitted ELSE plEvents[c]]
  /\ UNCHANGED <<plPhase, plObject, plTimer, plExpiry, plGot, plSince, plCreated>>

-----------------------------------------------------------------------------
(* Clients                                                                 *)

Register(c) ==
  /\ plPhase = "requests" /\ plObject[c] = "none"
  /\ plObject' = [plObject EXCEPT ![c] = "there"]
  /\ plTimer' = [plTimer EXCEPT ![c] = PollTimeout]
  /\ plSince' = [plSince EXCEPT ![c] = plEmitted]
  /\ UNCHANGED <<plPhase, plEventVars, plExpiry, plEvents, plGot>>

\* Deleting a PollObject disarms its idler: it holds a LifetimeTag
Unregistered(c) ==
  /\ plObject' = [plObject EXCEPT ![c] = "deleted"]
  /\ plTimer' = [plTimer EXCEPT ![c] = NoPollTimer]
  /\ plExpiry' = [plExpiry EXCEPT ![c] = "no"]
  /\ UNCHANGED <<plPhase, plEventVars, plEvents, plGot, plSince>>

Unregister(c) ==
  /\ plPhase = "requests" /\ plObject[c] = "there"
  /\ Unregistered(c)

\* An unknown uuid is answered by an error
KeepEvents(c) == UNCHANGED plEvents
ClearEvents(c) == plEvents' = [plEvents EXCEPT ![c] = <<>>]
GetEvents(c) ==
  /\ plPhase = "requests" /\ plObject[c] = "there"
  /\ plGot' = [plGot EXCEPT ![c] = @ \o plEvents[c]]
  /\ ClearEvents(c)
  /\ plTimer' = [plTimer EXCEPT ![c] = PollTimeout]
  /\ UNCHANGED <<plPhase, plEventVars, plObject, plExpiry, plSince>>

\* Timeout_cb() deletes the timer at once and the object in an idler, which is
\* ready in this turn: the timers come first
ExpireLater(c) == plExpiry' = [plExpiry EXCEPT ![c] = "started"]
Expire(c) == plExpiry' = [plExpiry EXCEPT ![c] = "ready"]
TimeoutCb(c) ==
  /\ plPhase = "timers" /\ plTimer[c] = 0
  /\ plTimer' = [plTimer EXCEPT ![c] = NoPollTimer]
  /\ Expire(c)
  /\ UNCHANGED <<plPhase, plEventVars, plObject, plEvents, plGot, plSince>>

ExpiryIdler(c) ==
  /\ plPhase = "idlers" /\ plExpiry[c] = "ready"
  /\ Unregistered(c)

-----------------------------------------------------------------------------
(* The loop                                                                *)

Ready(idler) == IF idler = "started" THEN "ready" ELSE idler

ToIdlers ==
  /\ plPhase = "timers" /\ \A c \in Clients : plTimer[c] # 0
  /\ plPhase' = "idlers"
  /\ plIdler' = Ready(plIdler)
  /\ UNCHANGED <<plQueue, plEmitted, plCreated, plClientVars>>

ToRequests ==
  /\ plPhase = "idlers" /\ plIdler # "ready" /\ \A c \in Clients : plExpiry[c] # "ready"
  /\ plPhase' = "requests"
  /\ UNCHANGED <<plEventVars, plClientVars>>

\* The next turn: a timer counts one turn less
ToTimers ==
  /\ plPhase = "requests"
  /\ plPhase' = "timers"
  /\ plTimer' = [c \in Clients |-> IF plTimer[c] \in {0, NoPollTimer} THEN plTimer[c]
                                   ELSE plTimer[c] - 1]
  /\ plExpiry' = [c \in Clients |-> Ready(plExpiry[c])]
  /\ UNCHANGED <<plEventVars, plObject, plEvents, plGot, plSince>>

LoopTurns ==
  \/ DrainEvents \/ ToIdlers \/ ToRequests \/ ToTimers
  \/ \E c \in Clients : TimeoutCb(c) \/ ExpiryIdler(c)

PollNext ==
  \/ CreateEvent \/ LoopTurns
  \/ \E c \in Clients : Register(c) \/ Unregister(c) \/ GetEvents(c)

PollSpec == PollInit /\ [][PollNext]_plVars

\* The loop turns.
PollFairSpec == PollSpec /\ WF_plVars(LoopTurns)

-----------------------------------------------------------------------------
(* Properties                                                              *)

\* A client gets every event emitted while it is registered, in the order of
\* their creation, once.
ClientsMissNothing ==
  \A c \in Clients :
    plObject[c] = "there" =>
      plGot[c] \o plEvents[c] = [i \in 1..plEmitted - plSince[c] |-> plSince[c] + i]

\* No request finds a client between the end of its timer and its deletion:
\* GetEvents() sets back a timer that Timeout_cb() has deleted otherwise.
TimersAreThere ==
  plPhase = "requests" =>
    \A c \in Clients : plObject[c] = "there" => plTimer[c] # NoPollTimer
=============================================================================
