------------------------------ MODULE WagoUdp ------------------------------
(***************************************************************************)
(* WagoMap: the UDP commands sent to one Wago PLC.                         *)
(*                                                                         *)
(* Commands wait in a queue.  A timer sends the head; a command that wants *)
(* an answer stays at the head until a datagram arrives or two seconds are *)
(* over, any other one leaves the queue when it is sent.  A datagram is    *)
(* the answer of whatever command is at the head: only a DALI read refuses *)
(* one that names another command.  The PLC answers every command with its *)
(* name; the network loses, delays and repeats what it carries.            *)
(*                                                                         *)
(* The first command asks for the version of the PLC program, which        *)
(* decides the shape of DALI reads: until it is known they are deferred.   *)
(***************************************************************************)
EXTENDS Naturals, Sequences, FiniteSets

CONSTANTS
  DaliReads,   \* reads of DALI ballasts, each asked once when its IO is built
  Orders,      \* commands without a callback: heart beat, DALI writes
  MaxQueued    \* bound on the queue up to which orders are given

Version == "WAGO_GET_VERSION"
Wanted == DaliReads \cup {Version}
UdpCommands == Wanted \cup Orders
UdpStates == {"pending", "known", "unknown"}

ASSUME WagoUdpAssumption ==
  /\ DaliReads \cap Orders = {} /\ Version \notin DaliReads \cup Orders
  /\ IsFiniteSet(DaliReads)
  /\ MaxQueued \in Nat

VARIABLES
  queue,       \* udp_commands
  inProgress,  \* the head has been sent and waits for its answer
  udpTimer,    \* udp_timer is armed
  udpTimeout,  \* udp_timeout_timer is armed
  version,     \* plc_version_state
  deferred,    \* pending_dali_gets
  socket,      \* handleSrv is open
  net,         \* commands whose answer may still arrive on that socket
  asked,       \* reads handed to SendDaliGetCommand()
  answers      \* callbacks of each read so far

udpVars == <<queue, inProgress, udpTimer, udpTimeout, version, deferred,
             socket, net, asked, answers>>

UdpTypeOK ==
  /\ queue \in Seq(UdpCommands) /\ deferred \in Seq(DaliReads)
  /\ inProgress \in BOOLEAN /\ udpTimer \in BOOLEAN /\ udpTimeout \in BOOLEAN
  /\ socket \in BOOLEAN
  /\ version \in UdpStates
  /\ net \subseteq UdpCommands
  /\ asked \subseteq DaliReads
  /\ answers \in [DaliReads -> Nat]

\* WagoMap::WagoMap() asks for the version before anything else
UdpInit ==
  /\ queue = <<Version>> /\ inProgress = FALSE
  /\ udpTimer = TRUE /\ udpTimeout = FALSE
  /\ version = "pending" /\ deferred = <<>>
  /\ socket = TRUE /\ net = {}
  /\ asked = {} /\ answers = [r \in DaliReads |-> 0]

-----------------------------------------------------------------------------
(* Commands                                                                *)

\* SendUDPCommand(): the timer is armed again when the queue was empty
ArmWhenEmpty == udpTimer' = (queue = <<>> \/ udpTimer)
SendUDPCommand(c) == queue' = Append(queue, c) /\ ArmWhenEmpty

\* SendDaliGetCommand()
SendDaliGet(r) ==
  \/ /\ version = "pending"
     /\ deferred' = Append(deferred, r)
     /\ UNCHANGED <<queue, udpTimer>>
  \/ /\ version # "pending"
     /\ SendUDPCommand(r)
     /\ UNCHANGED deferred

AskRead(r) ==
  /\ r \notin asked
  /\ asked' = asked \cup {r}
  /\ SendDaliGet(r)
  /\ UNCHANGED <<inProgress, udpTimeout, version, socket, net, answers>>

GiveOrder(c) ==
  /\ Len(queue) < MaxQueued
  /\ SendUDPCommand(c)
  /\ UNCHANGED <<inProgress, udpTimeout, version, deferred, socket, net, asked,
                 answers>>

-----------------------------------------------------------------------------
(* UDPCommand_cb(), every 50 ms                                            *)

\* A frame sent while the socket is reopened is lost like a dropped datagram
Emit(c) == net' = IF socket THEN net \cup {c} ELSE net

SendHead ==
  /\ udpTimer /\ queue # <<>> /\ ~inProgress
  /\ Emit(Head(queue))
  /\ \/ /\ Head(queue) \in Wanted
        /\ inProgress' = TRUE
        /\ udpTimeout' = TRUE
        /\ UNCHANGED queue
     \/ /\ Head(queue) \in Orders
        /\ queue' = Tail(queue)
        /\ UNCHANGED <<inProgress, udpTimeout>>
  /\ UNCHANGED <<udpTimer, version, deferred, socket, asked, answers>>

StopTimer ==
  /\ udpTimer /\ queue = <<>>
  /\ udpTimer' = FALSE
  /\ UNCHANGED <<queue, inProgress, udpTimeout, version, deferred, socket, net,
                 asked, answers>>

-----------------------------------------------------------------------------
(* Answers                                                                 *)

\* The callback of the head, called before the head leaves the queue.  The
\* version query sends what was deferred, whatever its answer is.
VersionReply(known) ==
  /\ version' = IF known THEN "known" ELSE "unknown"
  /\ deferred' = <<>>
  /\ queue' = Tail(queue) \o deferred
  /\ UNCHANGED answers
CallBack(known) ==
  \/ /\ Head(queue) = Version
     /\ VersionReply(known)
  \/ /\ Head(queue) # Version
     /\ queue' = Tail(queue)
     /\ answers' = IF Head(queue) \in DaliReads
                   THEN [answers EXCEPT ![Head(queue)] = @ + 1] ELSE answers
     /\ UNCHANGED <<version, deferred>>

\* udpRequest_cb() past its guard
Served(known) ==
  /\ udpTimeout' = FALSE
  /\ \/ queue = <<>> /\ UNCHANGED <<queue, inProgress, version, deferred, answers>>
     \/ queue # <<>> /\ inProgress' = FALSE /\ CallBack(known)

\* udpReplyMisattributedToDaliGet()
Misattributed(c) ==
  queue # <<>> /\ Head(queue) \in DaliReads /\ c \notin DaliReads

\* A datagram that arrives may arrive again
CancelThenDrop(c) ==
  /\ udpTimeout' = FALSE
  /\ UNCHANGED <<queue, inProgress, version, deferred, answers>>
Drop(c) == UNCHANGED <<udpTimeout, queue, inProgress, version, deferred, answers>>
Receive(c) ==
  /\ socket /\ c \in net
  /\ net' \in {net, net \ {c}}
  /\ \/ Misattributed(c) /\ Drop(c)
     \/ /\ ~Misattributed(c)
        /\ \E readable \in BOOLEAN : Served(c = Version /\ readable)
  /\ UNCHANGED <<udpTimer, socket, asked>>

UdpTimeout ==
  /\ udpTimeout
  /\ Served(FALSE)
  /\ UNCHANGED <<udpTimer, socket, net, asked>>

-----------------------------------------------------------------------------
(* The network and the socket                                              *)

Lose(c) ==
  /\ c \in net
  /\ net' = net \ {c}
  /\ UNCHANGED <<queue, inProgress, udpTimer, udpTimeout, version, deferred,
                 socket, asked, answers>>

\* udpProcessError(): what was sent from the old port is answered to it
SocketError ==
  /\ socket
  /\ socket' = FALSE /\ net' = {}
  /\ UNCHANGED <<queue, inProgress, udpTimer, udpTimeout, version, deferred,
                 asked, answers>>

Reopen ==
  /\ ~socket
  /\ socket' = TRUE
  /\ UNCHANGED <<queue, inProgress, udpTimer, udpTimeout, version, deferred,
                 net, asked, answers>>

UdpCallback == SendHead \/ StopTimer \/ UdpTimeout

UdpNext ==
  \/ UdpCallback \/ SocketError \/ Reopen
  \/ \E r \in DaliReads : AskRead(r)
  \/ \E c \in Orders : GiveOrder(c)
  \/ \E c \in UdpCommands : Receive(c) \/ Lose(c)

UdpSpec == UdpInit /\ [][UdpNext]_udpVars

\* The two timers fire.  Nothing is expected of the PLC or of the network.
UdpFairSpec == UdpSpec /\ WF_udpVars(UdpCallback)

-----------------------------------------------------------------------------
(* Properties                                                              *)

\* "Every one of them must leave": a read that was asked for is answered in the
\* end, by the PLC or by its timeout, whatever the network does, and once: so the
\* start rules do not wait for a lost datagram, and the count that the read owes
\* to StartReadRules is given back exactly once.
ReadsAreAnswered == <>[](\A r \in asked : answers[r] = 1)
=============================================================================
