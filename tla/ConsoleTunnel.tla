---------------------------- MODULE ConsoleTunnel ---------------------------
(***************************************************************************)
(* ConsoleTunnel: a browser's WebSocket relayed to the console socket that *)
(* calaos-container opens for it.                                          *)
(*                                                                         *)
(* The tunnel waits for the open message, asks for the admin mode and for  *)
(* a console, connects to the socket of the console and upgrades it, then  *)
(* relays both ways.  Two calls to the daemon are answered later, by which *)
(* time the browser may have left.  A side whose peer does not take what   *)
(* is written for it is not read any more: see HighWater and LowWater,     *)
(* here in units of a small message.                                       *)
(*                                                                         *)
(* Left out: what messages say beyond being acceptable, the login throttle *)
(* and the closing handshake of the WebSocket.                             *)
(* OpenedLate, UpgradedKeepTimer and EndOpenOnly are faults, used by no    *)
(* action.                                                                 *)
(***************************************************************************)
EXTENDS Integers, Sequences

CONSTANTS
  HighWater, LowWater,      \* limits of the two write queues
  MaxChunk,                 \* the largest message relayed at once
  OpenDelay, AttachDelay    \* timings, in ticks

ASSUME ConsoleAssumption ==
  /\ HighWater \in Nat /\ LowWater \in Nat /\ LowWater <= HighWater
  /\ MaxChunk \in Nat \ {0} /\ OpenDelay \in Nat /\ AttachDelay \in Nat

Unarmed == -1
ConsoleStates == {"WaitOpen", "Opening", "Attaching", "Open", "Closed"}

VARIABLES
  cn,       \* the members of the tunnel
  cnQueue,  \* what is written and not sent yet, to either side
  cnAsked,  \* the call that will be answered: of the admin mode, for a console
  cnHere,   \* the browser's connection, and the tunnel with it, exists
  cnSaid,   \* history: what the tunnel sent to the browser, outputs counted once
  cnStale   \* history: opened before the household credentials changed

cnVars == <<cn, cnQueue, cnAsked, cnHere, cnSaid, cnStale>>

ConsoleTypeOK ==
  /\ cn \in [state : ConsoleStates, timer : Nat \cup {Unarmed},
             daemon : {"none", "connecting", "connected"}, upgraded : BOOLEAN,
             clientPaused : BOOLEAN, daemonPaused : BOOLEAN]
  /\ cnQueue \in [client : Nat, daemon : Nat]
  /\ cnAsked \in {"nothing", "mode", "console"}
  /\ cnHere \in BOOLEAN /\ cnStale \in BOOLEAN
  /\ cnSaid \in Seq({"ready", "output", "error", "close"})

ConsoleInit ==
  /\ cn = [state |-> "WaitOpen", timer |-> OpenDelay, daemon |-> "none",
           upgraded |-> FALSE, clientPaused |-> FALSE, daemonPaused |-> FALSE]
  /\ cnQueue = [client |-> 0, daemon |-> 0]
  /\ cnAsked = "nothing" /\ cnHere = TRUE /\ cnStale = FALSE
  /\ cnSaid = <<>>

-----------------------------------------------------------------------------
(* How a tunnel ends.  A closed daemon is sent a close frame, which still  *)
(* leaves its queue, if it was upgraded and no error took it away.         *)

CloseFrame(code) == IF cn.daemon # "none" /\ cn.upgraded /\ code THEN 1 ELSE 0

Detached == [cn EXCEPT !.state = "Closed", !.daemon = "none"]
Resumed == [Detached EXCEPT !.clientPaused = FALSE]

Say(s) == cnSaid' = cnSaid \o s
WriteTo(toClient, toDaemon) ==
  cnQueue' = [client |-> cnQueue.client + toClient,
              daemon |-> cnQueue.daemon + toDaemon]

\* Before the console is attached: an error, then 1008
Refuse ==
  IF cn.state = "Closed" THEN UNCHANGED <<cn, cnQueue, cnSaid>>
  ELSE /\ cn' = [Resumed EXCEPT !.timer = Unarmed]
       /\ Say(<<"error", "close">>)
       /\ WriteTo(2, CloseFrame(TRUE))

Finish(code) ==
  /\ cn' = Resumed
  /\ Say(<<"close">>)
  /\ WriteTo(1, CloseFrame(code))

-----------------------------------------------------------------------------
(* The browser                                                             *)

\* Credentials and the fields of the message are judged at once
OpenMessage ==
  /\ cnHere /\ cn.state = "WaitOpen"
  /\ \/ /\ Refuse
        /\ UNCHANGED cnAsked
     \/ /\ cn' = [cn EXCEPT !.state = "Opening", !.timer = Unarmed]
        /\ cnAsked' = "mode"
        /\ UNCHANGED <<cnQueue, cnSaid>>
  /\ UNCHANGED <<cnHere, cnStale>>

Reading == cnHere /\ cn.state = "Open" /\ ~cn.clientPaused

\* Input, or a resize; a write may fail at once, which ends the tunnel
ClientMessage ==
  /\ Reading
  /\ \/ \E n \in 1..MaxChunk :
          /\ WriteTo(0, n)
          /\ cn' = [cn EXCEPT !.clientPaused = cnQueue.daemon + n > HighWater]
          /\ UNCHANGED cnSaid
     \/ Finish(FALSE)
  /\ UNCHANGED <<cnAsked, cnHere, cnStale>>

TooBig ==
  /\ Reading
  /\ Finish(TRUE)
  /\ UNCHANGED <<cnAsked, cnHere, cnStale>>

\* The WebSocket closes: at the browser's wish, or because pongs are missing
ClientClosing ==
  /\ cnHere /\ cn.state # "Closed"
  /\ cn' = [Detached EXCEPT !.timer = Unarmed]
  /\ WriteTo(1, CloseFrame(TRUE))
  /\ UNCHANGED <<cnAsked, cnHere, cnSaid, cnStale>>

\* ~ConsoleTunnel: the answers that are still to come find no tunnel
BrowserGone ==
  /\ cnHere
  /\ cn' = [Detached EXCEPT !.timer = Unarmed]
  /\ WriteTo(0, CloseFrame(TRUE))
  /\ cnHere' = FALSE /\ cnAsked' = "nothing"
  /\ UNCHANGED <<cnSaid, cnStale>>

\* endHouseholdConsoles()
EndOpenOnly ==
  \/ cn.state = "Open" /\ Finish(TRUE)
  \/ cn.state # "Open" /\ UNCHANGED <<cn, cnQueue, cnSaid>>
EndHouseholdConsoles ==
  \/ cn.state = "Open" /\ Finish(TRUE)
  \/ cn.state \in {"Opening", "Attaching"} /\ Refuse
  \/ cn.state \in {"WaitOpen", "Closed"} /\ UNCHANGED <<cn, cnQueue, cnSaid>>

ChangeCredentials ==
  /\ cnHere
  /\ EndHouseholdConsoles
  /\ cnStale' = (cnStale \/ cn.state # "WaitOpen")
  /\ UNCHANGED <<cnAsked, cnHere>>

-----------------------------------------------------------------------------
(* The answers of calaos-container                                         *)

ModeKnown ==
  /\ cnAsked = "mode"
  /\ \/ Refuse /\ cnAsked' = "nothing"
     \/ /\ cnAsked' = IF cn.state = "Opening" THEN "console" ELSE "nothing"
        /\ UNCHANGED <<cn, cnQueue, cnSaid>>
  /\ UNCHANGED <<cnHere, cnStale>>

Attach ==
  /\ cn' = [cn EXCEPT !.state = "Attaching", !.timer = AttachDelay,
                      !.daemon = "connecting"]
  /\ UNCHANGED <<cnQueue, cnSaid>>

OpenedLate == Refuse \/ Attach
Opened ==
  \/ cn.state = "Opening" /\ (Refuse \/ Attach)
  \/ cn.state # "Opening" /\ UNCHANGED <<cn, cnQueue, cnSaid>>

ConsoleAnswered ==
  /\ cnAsked = "console"
  /\ Opened
  /\ cnAsked' = "nothing"
  /\ UNCHANGED <<cnHere, cnStale>>

-----------------------------------------------------------------------------
(* The socket of the console                                               *)

UpgradeDaemon ==
  /\ cn.state = "Attaching" /\ cn.daemon = "connecting"
  /\ cn' = [cn EXCEPT !.daemon = "connected"]
  /\ WriteTo(0, 1)
  /\ UNCHANGED <<cnAsked, cnHere, cnSaid, cnStale>>

UpgradedKeepTimer ==
  /\ cn' = [cn EXCEPT !.state = "Open", !.upgraded = TRUE]
  /\ Say(<<"ready">>)
  /\ WriteTo(1, 1)
Upgraded ==
  /\ cn' = [cn EXCEPT !.state = "Open", !.timer = Unarmed, !.upgraded = TRUE]
  /\ Say(<<"ready">>)
  /\ WriteTo(1, 1)

DaemonHandshake ==
  /\ cn.state = "Attaching" /\ cn.daemon = "connected"
  /\ Upgraded \/ Refuse
  /\ UNCHANGED <<cnAsked, cnHere, cnStale>>

Relaying == cn.state = "Open" /\ ~cn.daemonPaused

DaemonOutput(n) ==
  /\ WriteTo(n, 0)
  /\ Say(IF cnSaid[Len(cnSaid)] = "output" THEN <<>> ELSE <<"output">>)
  /\ cn' = [cn EXCEPT !.daemonPaused = cnQueue.client + n > HighWater]

\* The bound: pings wait for a queue that is not above HighWater
DaemonPing ==
  /\ cnQueue.daemon <= HighWater
  /\ WriteTo(0, 1)
  /\ UNCHANGED <<cn, cnSaid>>

\* Output, a ping, or a close frame and any other end of the protocol
DaemonFrame ==
  /\ Relaying
  /\ (\E n \in 1..MaxChunk : DaemonOutput(n)) \/ DaemonPing \/ Finish(TRUE)
  /\ UNCHANGED <<cnAsked, cnHere, cnStale>>

DaemonGone ==
  \/ cn.state = "Attaching" /\ Refuse
  \/ cn.state = "Open" /\ Finish(FALSE)

\* The end of the stream is read, an error may come at any time
DaemonEnds ==
  /\ cn.daemon # "none"
  /\ DaemonGone
  /\ UNCHANGED <<cnAsked, cnHere, cnStale>>

-----------------------------------------------------------------------------
(* The write queues: the callbacks stay on the handles, also on one that   *)
(* is shut down                                                            *)

SentToDaemon ==
  /\ cnQueue.daemon > 0
  /\ WriteTo(0, -1)
  /\ cn' = [cn EXCEPT !.clientPaused = @ /\ cnQueue.daemon - 1 > LowWater]
  /\ UNCHANGED <<cnAsked, cnHere, cnSaid, cnStale>>

SentToClient ==
  /\ cnQueue.client > 0
  /\ WriteTo(-1, 0)
  /\ cn' = [cn EXCEPT !.daemonPaused =
              @ /\ (cn.daemon = "none" \/ cnQueue.client - 1 > LowWater)]
  /\ UNCHANGED <<cnAsked, cnHere, cnSaid, cnStale>>

-----------------------------------------------------------------------------

ConsoleTimeout ==
  /\ cn.timer = 0
  /\ Refuse
  /\ UNCHANGED <<cnAsked, cnHere, cnStale>>

ConsoleTick ==
  /\ cn.timer > 0
  /\ cn' = [cn EXCEPT !.timer = @ - 1]
  /\ UNCHANGED <<cnQueue, cnAsked, cnHere, cnSaid, cnStale>>

ConsoleNext ==
  \/ OpenMessage \/ ClientMessage \/ TooBig \/ ClientClosing \/ BrowserGone
  \/ ChangeCredentials
  \/ ModeKnown \/ ConsoleAnswered
  \/ UpgradeDaemon \/ DaemonHandshake \/ DaemonFrame \/ DaemonEnds
  \/ SentToDaemon \/ SentToClient
  \/ ConsoleTimeout \/ ConsoleTick

ConsoleSpec == ConsoleInit /\ [][ConsoleNext]_cnVars

-----------------------------------------------------------------------------
(* Properties                                                              *)

\* What the browser hears, in order: "ready", output and one close, or an error
\* and one close
Sayings ==
  {<<>>, <<"error", "close">>} \cup
  {<<"ready">> \o out \o end : out \in {<<>>, <<"output">>}, end \in {<<>>, <<"close">>}}

\* However calls, timers, the two sides and a change of credentials interleave:
\* the browser is refused before it is ready, never after, and hears nothing
\* once the tunnel is closed; a closed tunnel holds neither a timer nor a socket
\* of a console, and an open one no timer that could refuse it; a side is not
\* left unread unless a queue that is still to drain resumes it; "every console
\* opened with the old household credentials closes" (ConsoleTunnel.h:82).
ConsoleIsSound ==
  /\ cnSaid \in Sayings
  /\ (cnSaid # <<>> /\ cnSaid[Len(cnSaid)] = "close") => cn.state = "Closed"
  /\ cn.timer # Unarmed => cn.state \in {"WaitOpen", "Attaching"}
  /\ cn.daemon # "none" <=> cn.state \in {"Attaching", "Open"}
  /\ cn.state = "Open" =>
       /\ cn.clientPaused => cnQueue.daemon > LowWater
       /\ cn.daemonPaused => cnQueue.client > LowWater
  /\ cnStale => cn.state = "Closed"
=============================================================================
