------------------------------ MODULE WebSocket ------------------------------
(***************************************************************************)
(* One connection of HttpServer: HttpClient until the upgrade, WebSocket   *)
(* after it.  What arrives, every timer and every end of a write is a      *)
(* callback of the event loop; several frames of one read are several      *)
(* FrameArrives with nothing in between, also behind a close frame that    *)
(* has closed the connection ("rest").                                     *)
(*                                                                         *)
(* uvw forgets a listener that "once" registered when the next event of    *)
(* its kind comes, so the first write that ends, whichever it is, runs the *)
(* callbacks of every close frame sent before.                             *)
(*                                                                         *)
(* Left out: what requests and messages say, the MCP relay, the limits of  *)
(* connections, masks and lengths.  A frame that is refused leaves the     *)
(* stream out of step, so anything may follow it.                          *)
(* PingForgets, NoCloseTimer, KeepFragments are faults, used by no action. *)
(***************************************************************************)
EXTENDS Integers, Sequences, SequencesExt

CONSTANTS
  PingPeriod, MaxMissed,   \* every 15 s, three pongs
  CloseDelay,              \* 10 s for the peer's close frame
  ReadDelay,               \* 30 s for the first request
  LingerDelay,             \* 0.5 s after the last answer
  MaxWsFrames,             \* bound on the frames of the peer
  MaxCloses                \* bound on the close frames that wait to be written

Single == {"text", "empty", "big"}          \* messages of one frame
Fragments == {"start", "more", "last"}
Refused == {"bad", "badclose"}               \* refused by WebSocketFrame
FrameKinds == Single \cup Fragments \cup Refused \cup {"ping", "pong", "close"}
Off == -1

ASSUME SocketAssumption ==
  /\ {PingPeriod, MaxMissed, CloseDelay, ReadDelay, LingerDelay} \subseteq Nat \ {0}
  /\ MaxWsFrames \in Nat /\ MaxCloses \in Nat \ {0}

VARIABLES
  ws,       \* status, the handle, timers, pings, what waits for a write to end
  wsIn,     \* the fragments kept and the messages delivered, as frame numbers
  wsPeer    \* is the peer there, and the kinds of the frames it has sent

wsVars == <<ws, wsIn, wsPeer>>

SocketTypeOK ==
  /\ ws.status \in {"http", "opened", "closing", "closed"}
  /\ ws.handle \in {"open", "shutting", "shut"}
  /\ ws.once \in Seq(BOOLEAN)
  /\ {ws.ping, ws.close, ws.read, ws.linger} \subseteq Nat \cup {Off}
  /\ {ws.pending, ws.pong, ws.closeReceived, ws.connClose, ws.rest} \subseteq BOOLEAN
  /\ ws.missed \in Nat
  /\ wsIn.current \in Seq(1..MaxWsFrames) /\ wsIn.fragmented \in BOOLEAN
  /\ wsIn.delivered \in Seq(Seq(1..MaxWsFrames))
  /\ wsPeer.alive \in BOOLEAN /\ wsPeer.sent \in Seq(FrameKinds)

SocketInit ==
  /\ ws = [status |-> "http", handle |-> "open", pending |-> FALSE, once |-> <<>>,
           ping |-> Off, close |-> Off, read |-> ReadDelay, linger |-> Off,
           pong |-> TRUE, missed |-> 0, closeReceived |-> FALSE, connClose |-> FALSE,
           rest |-> FALSE]
  /\ wsIn = [current |-> <<>>, fragmented |-> FALSE, delivered |-> <<>>]
  /\ wsPeer = [alive |-> TRUE, sent |-> <<>>]

-----------------------------------------------------------------------------
(* What the handlers share                                                 *)

CloseConnection(s) ==
  IF s.handle # "open" THEN s
  ELSE [s EXCEPT !.handle = "shutting", !.linger = Off]

\* The handle is closed: the connection is deleted, with its timers
Gone(s) ==
  [s EXCEPT !.status = "closed", !.handle = "shut", !.pending = FALSE, !.once = <<>>,
            !.ping = Off, !.close = Off, !.read = Off, !.linger = Off, !.rest = FALSE]

\* Nothing is written in what is left of a read that closed the connection
SendCloseFrame(s, force) ==
  IF s.status = "closing" \/ s.rest THEN s
  ELSE [s EXCEPT !.pending = TRUE, !.once = Append(@, force)]

NoCloseTimer(s, force) ==
  IF ~s.closeReceived /\ ~force
  THEN [s EXCEPT !.ping = Off, !.status = "closing"]
  ELSE CloseConnection([s EXCEPT !.ping = Off, !.status = "closed"])
\* The close frame is written: wait for the peer's, or do not
Written(s, force) ==
  LET t == [s EXCEPT !.ping = Off]
  IN IF ~s.closeReceived /\ ~force
     THEN [t EXCEPT !.status = "closing", !.close = CloseDelay]
     ELSE CloseConnection([t EXCEPT !.status = "closed"])

Reset == [wsIn EXCEPT !.current = <<>>, !.fragmented = FALSE]

-----------------------------------------------------------------------------
(* Requests and frames                                                     *)

HttpRequest(closes) ==
  /\ ws.status = "http" /\ ws.handle = "open" /\ wsPeer.alive /\ ws.read # Off
  /\ ws' = [ws EXCEPT !.read = Off, !.pending = TRUE, !.connClose = closes]
  /\ UNCHANGED <<wsIn, wsPeer>>

Handshake ==
  /\ ws.status = "http" /\ ws.handle = "open" /\ wsPeer.alive /\ ~ws.connClose
  /\ ws' = [ws EXCEPT !.status = "opened", !.read = Off, !.pending = TRUE,
                      !.ping = PingPeriod]
  /\ UNCHANGED <<wsIn, wsPeer>>

\* A frame out of turn, or a message above the limit
OutOfTurn(kind) ==
  \/ kind \in {"more", "last"} /\ ~wsIn.fragmented
  \/ kind \in Single \cup {"start"} /\ wsIn.fragmented
  \/ kind = "big"

KeepFragments(kind, message) ==
  /\ wsIn' = [wsIn EXCEPT !.delivered = Append(@, message)]
  /\ ws' = [ws EXCEPT !.pending = @ \/ ws.status = "opened"]

\* A whole message is delivered and, the connection being open, answered; one
\* that is empty is delivered too, and then closes it
Deliver(kind, message) ==
  /\ wsIn' = [Reset EXCEPT !.delivered = Append(@, message)]
  /\ LET answered == [ws EXCEPT !.pending = @ \/ ws.status = "opened"]
     IN ws' = IF kind = "empty" THEN SendCloseFrame(answered, FALSE) ELSE answered

DataFrame(kind, n) ==
  \/ /\ OutOfTurn(kind)
     /\ ws' = [SendCloseFrame(ws, FALSE) EXCEPT !.rest = FALSE]
     /\ wsIn' = Reset
  \/ /\ ~OutOfTurn(kind)
     /\ \/ kind \in {"start", "more"}
           /\ wsIn' = [wsIn EXCEPT !.current = Append(@, n), !.fragmented = TRUE]
           /\ UNCHANGED ws
        \/ kind \in {"text", "empty", "last"} /\ Deliver(kind, Append(wsIn.current, n))

ControlFrame(kind) ==
  /\ UNCHANGED wsIn
  /\ \/ kind = "ping"
        /\ ws' = [ws EXCEPT !.pending = @ \/ ws.status = "opened"]
     \/ kind = "pong"
        /\ ws' = IF ws.status = "closing" THEN ws
                 ELSE [ws EXCEPT !.pong = TRUE, !.missed = 0]
     \/ kind = "close"
        /\ LET s == [ws EXCEPT !.close = Off, !.closeReceived = TRUE]
           IN ws' = IF s.status = "opened" THEN SendCloseFrame(s, FALSE)
                    ELSE CloseConnection([s EXCEPT !.status = "closed", !.rest = TRUE])

RefusedFrame(kind) ==
  /\ LET s == [ws EXCEPT !.closeReceived = @ \/ kind = "badclose"]
     IN ws' = [SendCloseFrame(s, FALSE) EXCEPT !.rest = FALSE]
  /\ UNCHANGED wsIn

FrameArrives(kind) ==
  /\ \/ ws.status \in {"opened", "closing"} /\ ws.handle = "open"
     \/ ws.rest
  /\ wsPeer.alive /\ Len(wsPeer.sent) < MaxWsFrames /\ Len(ws.once) < MaxCloses
  /\ wsPeer' = [wsPeer EXCEPT !.sent = Append(@, kind)]
  /\ \/ kind \in Single \cup Fragments /\ DataFrame(kind, Len(wsPeer'.sent))
     \/ kind \in {"ping", "pong", "close"} /\ ControlFrame(kind)
     \/ kind \in Refused /\ RefusedFrame(kind)

-----------------------------------------------------------------------------
(* Ends of writes, timers, ends of the connection                          *)

WriteEvent ==
  /\ ws.pending /\ ws.handle # "shut"
  /\ LET s == FoldLeft(Written, [ws EXCEPT !.pending = FALSE, !.once = <<>>, !.rest = FALSE],
                       ws.once)
     IN ws' = IF s.connClose /\ s.handle = "open"
              THEN [s EXCEPT !.linger = LingerDelay] ELSE s
  /\ UNCHANGED <<wsIn, wsPeer>>

\* A read or a write fails, also that of a peer which is no more
ErrorEvent ==
  /\ ws.handle # "shut" /\ ~wsPeer.alive
  /\ ws' = IF ws.handle = "shutting" THEN Gone(ws)
           ELSE CloseConnection([ws EXCEPT !.pending = FALSE,
                  !.status = IF @ = "http" THEN @ ELSE "closed"])
  /\ UNCHANGED <<wsIn, wsPeer>>

\* What is still to be written goes out first
ShutdownEvent ==
  /\ ws.handle = "shutting" /\ ~ws.pending
  /\ ws' = Gone(ws)
  /\ UNCHANGED <<wsIn, wsPeer>>

SocketEnds ==
  /\ ws.handle # "shut" /\ wsPeer.alive
  /\ ws' = Gone(ws)
  /\ UNCHANGED <<wsIn, wsPeer>>

PingForgets(s) ==
  [s EXCEPT !.ping = PingPeriod, !.pending = @ \/ s.handle = "open"]

\* It repeats until the close frame is written
Pinged(s) ==
  LET missed == IF s.pong THEN 0 ELSE s.missed + 1
      t == [s EXCEPT !.ping = PingPeriod, !.missed = missed]
  IN IF missed >= MaxMissed THEN SendCloseFrame(t, TRUE)
     ELSE [t EXCEPT !.pong = FALSE, !.pending = @ \/ s.handle = "open"]

TimerPing ==
  /\ ws.ping = 0 /\ Len(ws.once) < MaxCloses
  /\ ws' = Pinged(ws)
  /\ UNCHANGED <<wsIn, wsPeer>>

CloseTimeout ==
  /\ ws.close = 0
  /\ ws' = CloseConnection([ws EXCEPT !.close = Off, !.status = "closed"])
  /\ UNCHANGED <<wsIn, wsPeer>>

\* No request came, or the last answer is written
HttpTimeout ==
  /\ ws.read = 0 \/ ws.linger = 0
  /\ ws' = CloseConnection([ws EXCEPT !.read = IF @ = 0 THEN ReadDelay ELSE @])
  /\ UNCHANGED <<wsIn, wsPeer>>

SocketTick ==
  /\ 0 \notin {ws.ping, ws.close, ws.read, ws.linger}
  /\ ws.handle = "open" \/ ws.pending
  /\ {ws.ping, ws.close, ws.read, ws.linger} # {Off}
  /\ LET Older(left) == IF left = Off THEN Off ELSE left - 1
     IN ws' = [ws EXCEPT !.ping = Older(@), !.close = Older(@),
                         !.read = Older(@), !.linger = Older(@), !.rest = FALSE]
  /\ UNCHANGED <<wsIn, wsPeer>>

PeerDies ==
  /\ wsPeer.alive /\ ws.handle # "shut"
  /\ wsPeer' = [wsPeer EXCEPT !.alive = FALSE]
  /\ UNCHANGED <<ws, wsIn>>

-----------------------------------------------------------------------------

SocketCallback == TimerPing \/ CloseTimeout \/ HttpTimeout \/ ShutdownEvent

SocketNext ==
  \/ SocketCallback \/ WriteEvent \/ ErrorEvent \/ SocketTick \/ PeerDies \/ SocketEnds
  \/ Handshake \/ \E closes \in BOOLEAN : HttpRequest(closes)
  \/ \E kind \in FrameKinds : FrameArrives(kind)

SocketSpec == SocketInit /\ [][SocketNext]_wsVars
\* What is written reaches the kernel
SocketFairSpec ==
  /\ SocketSpec
  /\ WF_wsVars(SocketCallback) /\ WF_wsVars(WriteEvent) /\ WF_wsVars(SocketTick)

-----------------------------------------------------------------------------
(* Properties                                                              *)

Data(sent) == {i \in DOMAIN sent : sent[i] \in {"text", "empty"} \cup Fragments}
Ends(sent) == {i \in Data(sent) : sent[i] \in {"text", "empty", "last"}}
\* In turn: no message begins within another, no fragment comes without its start
InTurn(sent) ==
  /\ \A i \in DOMAIN sent : sent[i] \notin Refused \cup {"big"}
  /\ \A i \in Data(sent) :
       LET before == {j \in Data(sent) : j < i}
           open == \E j \in before : sent[j] \in {"start", "more"}
                     /\ \A k \in before : k <= j
       IN open <=> sent[i] \in {"more", "last"}
\* The numbers of the data frames of one message, of all since the one before ended
IsMessage(message, sent) ==
  /\ message # <<>>
  /\ \A k, l \in DOMAIN message : k < l => message[k] < message[l]
  /\ Range(message) = {j \in Data(sent) : j <= Last(message) /\
                         \A e \in Ends(sent) : e < Last(message) => e < j}

\* Whatever control frames come between fragments, the messages delivered are the
\* ones the peer cut into frames, in order and once.
MessagesAreWhole ==
  LET delivered == wsIn.delivered
      sent == wsPeer.sent
  IN InTurn(sent) =>
       /\ \A k \in DOMAIN delivered : IsMessage(delivered[k], sent)
       /\ {Last(delivered[k]) : k \in DOMAIN delivered} = Ends(sent)
       /\ \A k, l \in DOMAIN delivered : k < l => Last(delivered[k]) < Last(delivered[l])

\* A connection that is being closed, by whichever side, is closed; one whose peer
\* is gone is found out, by its first request or by its pongs.
SocketsEnd ==
  []<>(\/ ws.handle = "shut"
       \/ /\ ws.once = <<>> /\ ~ws.closeReceived /\ ws.handle # "shutting"
          /\ ws.status \notin {"closing", "closed"}
          /\ wsPeer.alive \/ (ws.status = "http" /\ ws.read = Off))
=============================================================================
