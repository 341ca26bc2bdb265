----------------------------- MODULE MCServices -----------------------------
(***************************************************************************)
(* The server's connections, threads, clients and files: the frames of a   *)
(* driver process, the queue of a Wago PLC, a Squeezebox, the history      *)
(* thread, the tokens it registers, the polling clients, the configuration *)
(* files, the console tunnel, a WebSocket, the link with calaos-container, *)
(* its alerts, the MCP sidecar.                                            *)
(* They share no state, so one instance follows one of them, "part".       *)
(***************************************************************************)
EXTENDS Framing, WagoUdp, Squeezebox, History, PushTokens, Polling,
        ConfigFiles, ConsoleTunnel, WebSocket, DaemonLink, AdminAlerts, McpSidecar

CONSTANT Parts   \* the components that are followed

\* An empty message, one byte, bytes that look like a header
SmallPayloads == {<<>>, <<1>>, <<TypeMessage, 0>>, <<0, 0, 0>>}
SameKey == [a \in Alerts |-> "key"]

VARIABLE part

serviceVars == <<frVars, udpVars, sqVars, hsVars, ptVars, plVars, cfVars, cnVars,
                 wsVars, lkVars, alVars, mcpVars, part>>

ServicesTypeOK ==
  /\ part \in Parts /\ FrameTypeOK /\ UdpTypeOK /\ SqTypeOK
  /\ HistTypeOK /\ TokenTypeOK /\ PollTypeOK /\ ConfTypeOK
  /\ ConsoleTypeOK /\ SocketTypeOK /\ LinkTypeOK /\ AlertTypeOK /\ McpTypeOK

ServicesInit ==
  /\ part \in Parts
  /\ FrameInit /\ UdpInit /\ SqInit
  /\ HistInit /\ TokenInit /\ PollInit /\ ConfInit /\ ConsoleInit
  /\ SocketInit /\ LinkInit /\ AlertInit /\ McpInit
  /\ part = "player" \/ player.links[1].state = "connecting"
  /\ part = "tokens" \/ ptColumns = 0
  /\ part = "files" \/ cfDisk = [f \in ConfFiles |-> CHOOSE v \in Versions : TRUE]
  /\ part = "link" \/ lkBox.life = "down"
  /\ part = "mcp" \/ ~mc.installed

\* Every component but one stands still
Alone(component) ==
  /\ part = component /\ UNCHANGED part
  /\ component # "frames" => UNCHANGED frVars
  /\ component # "plc" => UNCHANGED udpVars
  /\ component # "player" => UNCHANGED sqVars
  /\ component # "history" => UNCHANGED hsVars
  /\ component # "tokens" => UNCHANGED ptVars
  /\ component # "polling" => UNCHANGED plVars
  /\ component # "files" => UNCHANGED cfVars
  /\ component # "console" => UNCHANGED cnVars
  /\ component # "socket" => UNCHANGED wsVars
  /\ component # "link" => UNCHANGED lkVars
  /\ component # "alerts" => UNCHANGED alVars
  /\ component # "mcp" => UNCHANGED mcpVars

ServicesNext ==
  \/ Alone("frames") /\ FrameNext
  \/ Alone("plc") /\ UdpNext
  \/ Alone("player") /\ SqNext
  \/ Alone("history") /\ HistNext
  \/ Alone("tokens") /\ TokenNext
  \/ Alone("polling") /\ PollNext
  \/ Alone("files") /\ ConfNext
  \/ Alone("console") /\ ConsoleNext
  \/ Alone("socket") /\ SocketNext
  \/ Alone("link") /\ LinkNext
  \/ Alone("alerts") /\ AlertNext
  \/ Alone("mcp") /\ McpNext

ServicesSpec == ServicesInit /\ [][ServicesNext]_serviceVars

\* The event loop, and the thread of the history, run what is due
ServicesCallback ==
  \/ Alone("plc") /\ UdpCallback
  \/ Alone("player") /\ RequestTimeout
  \/ Alone("history") /\ HistWorker
  \/ Alone("polling") /\ LoopTurns
  \/ Alone("socket") /\ SocketCallback
  \/ Alone("link") /\ LinkCallback
  \/ Alone("alerts") /\ AlertCallback
  \/ Alone("mcp") /\ McpCallback

\* The main thread of the history goes on; what is written reaches the kernel
OtherThread ==
  \/ Alone("history") /\ (Invalidate \/ Join \/ \E r \in HistReads : CallReader(r))
  \/ Alone("socket") /\ WriteEvent

\* Time passes
ServicesTick ==
  \/ Alone("socket") /\ SocketTick
  \/ Alone("link") /\ LinkTick
  \/ Alone("alerts") /\ AlertTick
  \/ Alone("mcp") /\ McpTick

ServicesFairSpec ==
  /\ ServicesSpec
  /\ WF_serviceVars(ServicesCallback) /\ WF_serviceVars(OtherThread)
  /\ WF_serviceVars(ServicesTick)

-----------------------------------------------------------------------------
(* Properties of several components                                        *)

\* What was cut into frames, by a driver or by a client, is put together again:
\* every message, whole, in order, once.
MessagesInOrder == FramesInOrder /\ MessagesAreWhole

\* Clients that poll miss no event and are forgotten only by their timers.
PollingIsSound == ClientsMissNothing /\ TimersAreThere

\* Who asked is answered, once and in the end: a read of the PLC, a command of a
\* player, a reader of the history, an alert that waits for its acknowledgement.
EveryCallIsAnswered ==
  ReadsAreAnswered /\ CommandsAreAnswered /\ ReadersAreAnswered /\ AcksGoOn

\* A connection that is to end does, one that is to be there is made again.
ConnectionsSettle == SocketsEnd /\ LinkSettles /\ SidecarComesBack

\* What is kept is changed by nothing but what may change it: the approver of a
\* phone, the configuration files.
KeptDataStays == ApproverIsFrozen /\ FilesAreKept
=============================================================================
