----------------------------- MODULE Squeezebox -----------------------------
(***************************************************************************)
(* Squeezebox: the commands sent to the command line of a media server.    *)
(*                                                                         *)
(* Commands wait in a queue; the head is written on the main connection    *)
(* and leaves when a line arrives, whatever it says, or after 40 s, which  *)
(* also drops both connections and opens them again 3 s later.             *)
(*                                                                         *)
(* A connection that ends or fails is closed and, once closed, opens its   *)
(* successor 3 s later.  Closing one that is still connecting cancels the  *)
(* connection, which is reported as its failure.  One that cannot even be  *)
(* tried (no route) fails before anybody listens.  A connection that is no *)
(* longer conHandle still has its listeners.                               *)
(*                                                                         *)
(* The connection of the notifications is reduced to being there or not.   *)
(* What commands and answers say is left out, and so are those without a   *)
(* callback, which wait for their line like the others.                    *)
(***************************************************************************)
EXTENDS Naturals, Sequences, SequencesExt

CONSTANTS
  SqCommands,   \* commands, each sent once
  MaxLinks      \* bound on the main connections that are ever tried

ASSUME SqueezeboxAssumption == MaxLinks \in Nat \ {0}

SqLinks == 1..MaxLinks
LinkStates == {"none", "connecting", "unheard", "open", "closing", "closed"}

VARIABLES
  player,    \* the members of the player, and its main connections
  sqNotif,   \* the connection of the notifications is open
  sqAsked,   \* history: the commands sent, in order
  sqDone     \* history: the commands called back, in order

sqVars == <<player, sqNotif, sqAsked, sqDone>>

\* onError: once<ErrorEvent> has not been used; heirs: the listeners of its
\* CloseEvent; cancelled: it was closed while connecting; owed: its answers
Link == [state : LinkStates, onError : BOOLEAN, heirs : 0..2,
         cancelled : BOOLEAN, owed : Nat]
NoLink == [state |-> "none", onError |-> FALSE, heirs |-> 0,
           cancelled |-> FALSE, owed |-> 0]
NewLink == [NoLink EXCEPT !.state = "connecting", !.onError = TRUE]

SqTypeOK ==
  /\ player.queue \in Seq(SqCommands)
  /\ player.inProgress \in BOOLEAN /\ player.timer \in BOOLEAN
  /\ player.connected \in BOOLEAN
  /\ player.links \in [SqLinks -> Link] /\ player.current \in SqLinks
  /\ player.reconnects \in Nat
  /\ sqNotif \in BOOLEAN
  /\ sqAsked \in Seq(SqCommands) /\ sqDone \in Seq(SqCommands)

Tried(link) == {link, [link EXCEPT !.state = "unheard"]}

SqInit ==
  /\ \E first \in Tried(NewLink) :
       player = [queue |-> <<>>, inProgress |-> FALSE, timer |-> FALSE,
                 connected |-> FALSE, current |-> 1, reconnects |-> 0,
                 links |-> [l \in SqLinks |-> IF l = 1 THEN first ELSE NoLink]]
  /\ sqNotif = FALSE
  /\ sqAsked = <<>> /\ sqDone = <<>>

-----------------------------------------------------------------------------
(* What the callbacks do to the player P.                                  *)
(* StallOnTimeout is a fault, used by no action.                           *)

\* h.close() and once<CloseEvent>, in the Error and End events of a connection
CloseWithHeir(link) ==
  IF link.state = "closed" THEN link
  ELSE [link EXCEPT !.state = "closing", !.heirs = @ + 1]

OnError(P, l) ==
  IF ~P.links[l].onError THEN P
  ELSE [P EXCEPT !.connected = FALSE,
                 !.links[l] = CloseWithHeir([@ EXCEPT !.onError = FALSE])]

\* A write on a connection that is not there fails at once
Write(P) ==
  IF P.links[P.current].state \in {"connecting", "open"}
  THEN [P EXCEPT !.links[P.current].owed = @ + 1]
  ELSE OnError(P, P.current)

\* _sendRequest()
SqSendHead(P) ==
  LET marked == [P EXCEPT !.inProgress = TRUE, !.timer = TRUE]
  IN IF P.queue = <<>> \/ P.inProgress THEN P
     ELSE IF P.connected THEN Write(marked) ELSE marked

\* processMessage() from the deletion of its timer on
AnsweredOnly(P) ==
  [P EXCEPT !.timer = FALSE, !.inProgress = FALSE,
            !.queue = IF @ = <<>> THEN @ ELSE Tail(@)]
Answered(P) == SqSendHead(AnsweredOnly(P))

\* processMessage(false) up to there
DropLinks(P) ==
  LET close(link) ==
        IF link.state \in {"closing", "closed"} THEN link
        ELSE [link EXCEPT !.state = "closing", !.cancelled = link.state = "connecting"]
  IN [P EXCEPT !.connected = FALSE, !.links[P.current] = close(@),
               !.reconnects = @ + 1]

StallOnTimeout(P) == [DropLinks(P) EXCEPT !.timer = FALSE]
TimedOut(P) == Answered(DropLinks(P))

-----------------------------------------------------------------------------
(* Commands and answers                                                    *)

SendRequest(c) ==
  /\ \A i \in DOMAIN sqAsked : sqAsked[i] # c
  /\ sqAsked' = Append(sqAsked, c)
  /\ player' = SqSendHead([player EXCEPT !.queue = Append(@, c)])
  /\ UNCHANGED <<sqNotif, sqDone>>

CalledBack ==
  sqDone' = IF Len(player'.queue) < Len(player.queue)
            THEN Append(sqDone, Head(player.queue)) ELSE sqDone

DataGetCon(l) ==
  /\ player.links[l].state = "open" /\ player.links[l].owed > 0
  /\ player' = Answered([player EXCEPT !.links[l].owed = @ - 1])
  /\ CalledBack
  /\ UNCHANGED <<sqNotif, sqAsked>>

RequestTimeout ==
  /\ player.timer
  /\ player' = TimedOut(player)
  /\ sqNotif' = FALSE
  /\ CalledBack
  /\ UNCHANGED sqAsked

\* dataGetNotif(): any notification tells that the player is connected
DataGetNotif ==
  /\ sqNotif
  /\ player' = [player EXCEPT !.connected = TRUE]
  /\ UNCHANGED <<sqNotif, sqAsked, sqDone>>

NotifComesAndGoes ==
  /\ sqNotif' = ~sqNotif
  /\ UNCHANGED <<player, sqAsked, sqDone>>

-----------------------------------------------------------------------------
(* Main connections                                                        *)

OnlyPlayer == UNCHANGED <<sqNotif, sqAsked, sqDone>>

\* The command that was under way is sent again, on conHandle
Connected(l) ==
  /\ player.links[l].state = "connecting"
  /\ player' = SqSendHead([player EXCEPT !.links[l].state = "open",
                                       !.connected = TRUE, !.inProgress = FALSE])
  /\ OnlyPlayer

LinkFails(l) ==
  /\ player.links[l].state \in {"connecting", "open"}
  /\ player' = OnError(player, l)
  /\ OnlyPlayer

SqLinkEnds(l) ==
  /\ player.links[l].state = "open"
  /\ player' = [player EXCEPT !.connected = FALSE, !.links[l] = CloseWithHeir(@)]
  /\ OnlyPlayer

SqLinkClosed(l) ==
  LET told == IF player.links[l].cancelled THEN OnError(player, l) ELSE player
  IN /\ player.links[l].state = "closing"
     /\ player' = [told EXCEPT !.links[l].state = "closed",
                               !.links[l].owed = 0,
                               !.reconnects = @ + told.links[l].heirs]
     /\ OnlyPlayer

\* timerConnReconnect()
Reconnect ==
  LET l == SelectInSeq([i \in SqLinks |-> player.links[i].state],
                       LAMBDA state : state = "none")
  IN /\ player.reconnects > 0 /\ l # 0
     /\ \E link \in Tried(NewLink) :
          player' = [player EXCEPT !.links[l] = link, !.current = l,
                                   !.reconnects = @ - 1]
     /\ OnlyPlayer

SqNext ==
  \/ RequestTimeout \/ DataGetNotif \/ NotifComesAndGoes \/ Reconnect
  \/ \E c \in SqCommands : SendRequest(c)
  \/ \E l \in SqLinks : \/ DataGetCon(l) \/ Connected(l) \/ LinkFails(l)
                      \/ SqLinkEnds(l) \/ SqLinkClosed(l)

SqSpec == SqInit /\ [][SqNext]_sqVars

\* The request timer fires.  Nothing is expected of the media server.
SqFairSpec == SqSpec /\ WF_sqVars(RequestTimeout)

-----------------------------------------------------------------------------
(* Properties                                                              *)

\* Every command is called back, in the order of the calls, whatever becomes of
\* the connections: no loss of one, no stray line and no timeout stalls the queue.
CommandsAreAnswered ==
  /\ []IsPrefix(sqDone, sqAsked)
  /\ <>[](\A c \in SqCommands : Contains(sqAsked, c) => Contains(sqDone, c))
=============================================================================
