----------------------------- MODULE DaemonLink -----------------------------
(***************************************************************************)
(* What the server knows of calaos-container: the stream of events that    *)
(* AdminEvents keeps open, the polls by which AdminState learns whether an *)
(* admin password is set, the bearer token both of them send.              *)
(*                                                                         *)
(* One unit of time is a period of the pings.  A daemon that is well       *)
(* answers within it; one that is mute is found out by the silence of the  *)
(* stream, by the timeout of a call.  Events of a former connection carry  *)
(* its generation and are ignored, so there are none here.                 *)
(*                                                                         *)
(* Left out: the faster polls of the first two minutes, handshakes that    *)
(* are wrong in other ways than a 401 or a 404, what the events say        *)
(* (AdminAlerts), an unlink of the flag that fails.                        *)
(* ForgetsFlag, KeepsToken are faults, used by no action.                  *)
(***************************************************************************)
EXTENDS Integers

CONSTANTS
  MinDelay, MaxDelay,   \* between attempts to connect
  Silence,              \* a stream that says nothing for longer is dropped
  PollDelay,
  MaxTurns,             \* bound on what happens to the daemon
  MaxStarts             \* bound on restarts of the server

NoDelay == -1
Unreachable == "unknown"

ASSUME LinkAssumption ==
  /\ MinDelay \in Nat \ {0} /\ MaxDelay \in Nat /\ MinDelay <= MaxDelay
  /\ Silence \in Nat \ {0} /\ PollDelay \in Nat \ {0}
  /\ MaxTurns \in Nat /\ MaxStarts \in Nat

VARIABLES
  lkStream,   \* AdminEvents: state, backoff, tokenRetried, its timers
  lkState,    \* AdminState: reach, the flag as it knows it, the poll; the token
  lkBox,      \* the daemon, its token and its admin; the file of the token
  lkFlag,     \* the file "admin_seen_set" is there
  lkLog       \* history: what the daemon last said, a flag not written, turns

lkVars == <<lkStream, lkState, lkBox, lkFlag, lkLog>>

LinkTypeOK ==
  /\ lkStream.state \in {"Waiting", "Connecting", "Open"}
  /\ lkStream.backoff \in 0..MaxDelay /\ lkStream.delay \in 0..MaxDelay \cup {NoDelay}
  /\ {lkStream.retried, lkStream.pinged, lkStream.watch} \subseteq BOOLEAN
  /\ {lkStream.silent, lkStream.up} \subseteq 0..(Silence + 1)
  /\ lkState.reach \in {Unreachable, "set", "unset", "old"}
  /\ lkState.seen \in BOOLEAN /\ lkState.left \in 0..PollDelay \cup {NoDelay}
  /\ lkState.poll \in [step : {"idle", "asked", "answered"}, retried : BOOLEAN,
                      says : {"set", "unset", "old", "bearer", "fail"}]
  /\ lkState.setting \in {"no", "set", "failed"} /\ lkState.token \in Nat
  /\ lkBox \in [life : {"up", "down", "mute", "old"}, token : Nat, file : Nat,
               admin : BOOLEAN, linked : BOOLEAN, alert : BOOLEAN]
  /\ lkFlag \in BOOLEAN
  /\ lkLog \in [said : {"nothing", "set", "unset"}, unwritten : BOOLEAN,
               turns : Nat, starts : Nat]

Idle == [step |-> "idle", retried |-> FALSE, says |-> "fail"]
NewStream ==
  [state |-> "Connecting", backoff |-> 0, delay |-> NoDelay, retried |-> FALSE,
   pinged |-> FALSE, watch |-> FALSE, silent |-> 0, up |-> 0]

\* start() of both: the flag and the token are read, the first poll is asked
NewState(flag, token) ==
  [reach |-> Unreachable, seen |-> flag, left |-> NoDelay, setting |-> "no",
   poll |-> [Idle EXCEPT !.step = "asked"], token |-> token]

LinkInit ==
  /\ lkStream = NewStream
  /\ lkState = NewState(FALSE, 0)
  /\ \E life \in {"up", "down"} :
       lkBox = [life |-> life, token |-> 0, file |-> 0, admin |-> FALSE,
                linked |-> FALSE, alert |-> FALSE]
  /\ lkFlag = FALSE
  /\ lkLog = [said |-> "nothing", unwritten |-> FALSE, turns |-> 0, starts |-> 0]

-----------------------------------------------------------------------------
(* The stream                                                              *)

Doubled(backoff) ==
  IF backoff = 0 THEN MinDelay
  ELSE IF 2 * backoff < MaxDelay THEN 2 * backoff ELSE MaxDelay

\* drop(): with its own delay, or with one that doubles
DropFor(s, delay) ==
  [s EXCEPT !.state = "Waiting", !.delay = delay, !.pinged = FALSE,
            !.watch = FALSE, !.silent = 0, !.up = 0]
DropStream(s) ==
  [DropFor(s, Doubled(s.backoff)) EXCEPT !.backoff = Doubled(s.backoff)]

StreamReconnects ==
  /\ lkStream.delay = 0 /\ lkStream.state = "Waiting"
  /\ lkStream' = [lkStream EXCEPT !.state = "Connecting", !.delay = NoDelay]
  /\ UNCHANGED <<lkState, lkBox, lkFlag, lkLog>>

ConnectFails ==
  /\ lkStream.state = "Connecting" /\ lkBox.life = "down"
  /\ lkStream' = DropStream(lkStream)
  /\ UNCHANGED <<lkState, lkBox, lkFlag, lkLog>>

\* A bearer that is refused is read again once, until a handshake succeeds
Handshaken ==
  /\ lkStream.state = "Connecting" /\ lkBox.life \in {"up", "old"}
  /\ UNCHANGED <<lkFlag, lkLog>>
  /\ \/ /\ lkBox.life = "old"
        /\ lkStream' = DropFor(lkStream, MaxDelay)
        /\ UNCHANGED <<lkState, lkBox>>
     \/ /\ lkBox.life = "up" /\ lkState.token = lkBox.token
        /\ lkStream' = [lkStream EXCEPT !.state = "Open", !.retried = FALSE,
                          !.silent = 0, !.up = 0]
        /\ lkBox' = [lkBox EXCEPT !.linked = TRUE]
        /\ UNCHANGED lkState
     \/ /\ lkBox.life = "up" /\ lkState.token # lkBox.token
        /\ \/ /\ ~lkStream.retried
              /\ lkState' = [lkState EXCEPT !.token = lkBox.file]
              /\ lkStream' = DropFor([lkStream EXCEPT !.retried = TRUE], 0)
           \/ /\ lkStream.retried
              /\ lkStream' = DropStream(lkStream)
              /\ UNCHANGED lkState
        /\ UNCHANGED lkBox

\* The daemon closed it, or was killed
StreamEnds ==
  /\ lkStream.state = "Open" /\ ~lkBox.linked /\ lkBox.life # "mute"
  /\ lkStream' = DropStream(lkStream)
  /\ UNCHANGED <<lkState, lkBox, lkFlag, lkLog>>

PongArrives ==
  /\ lkStream.state = "Open" /\ lkStream.pinged
  /\ lkBox.linked /\ lkBox.life = "up"
  /\ lkStream' = [lkStream EXCEPT !.pinged = FALSE, !.silent = 0]
  /\ UNCHANGED <<lkState, lkBox, lkFlag, lkLog>>

\* Only a stream that stayed up resets the delay
Watchdog ==
  /\ lkStream.watch
  /\ lkStream' =
       IF lkStream.silent > Silence THEN DropStream(lkStream)
       ELSE [lkStream EXCEPT !.watch = FALSE, !.pinged = lkStream.state = "Open",
               !.backoff = IF lkStream.state = "Open" /\ lkStream.up >= Silence
                           THEN 0 ELSE @]
  /\ UNCHANGED <<lkState, lkBox, lkFlag, lkLog>>

-----------------------------------------------------------------------------
(* What AdminState learns                                                  *)

\* setFlag(): a flag that could not be written is not written again
SetFlag(present) ==
  IF present = lkState.seen THEN UNCHANGED <<lkFlag, lkLog>>
  ELSE IF ~present
       THEN lkFlag' = FALSE /\ lkLog' = [lkLog EXCEPT !.said = "unset", !.unwritten = FALSE]
       ELSE \/ /\ lkFlag' = TRUE
               /\ lkLog' = [lkLog EXCEPT !.said = "set", !.unwritten = FALSE]
            \/ /\ lkLog.turns < MaxTurns
               /\ lkLog' = [lkLog EXCEPT !.said = "set", !.unwritten = TRUE,
                                        !.turns = @ + 1]
               /\ UNCHANGED lkFlag

ForgetsFlag(s) == [s EXCEPT !.reach = Unreachable, !.seen = FALSE]

\* observe(), observeTooOld(), observeUnreachable()
ObserveUnreachable(s) == [s EXCEPT !.reach = Unreachable]
Observe(s, says) ==
  IF says \in {"bearer", "fail"}
  THEN lkState' = ObserveUnreachable(s) /\ UNCHANGED <<lkFlag, lkLog>>
  ELSE lkState' = [s EXCEPT !.reach = says, !.seen = says = "set"] /\ SetFlag(says = "set")

\* enforced(): admin set, or presumed set
Enforced(s) == s.reach = "set" \/ (s.reach = Unreachable /\ s.seen)

Ask(s) == [s EXCEPT !.poll = IF @.step = "idle" THEN [Idle EXCEPT !.step = "asked"] ELSE @]

PollTimer ==
  /\ lkState.left = 0
  /\ lkState' = Ask([lkState EXCEPT !.left = PollDelay])
  /\ UNCHANGED <<lkStream, lkBox, lkFlag, lkLog>>

\* What the daemon answers, now, to a call with the token of the server
AnswerNow ==
  IF lkBox.life = "old" THEN "old"
  ELSE IF lkBox.life # "up" THEN "fail"
  ELSE IF lkState.token # lkBox.token THEN "bearer"
  ELSE IF lkBox.admin THEN "set" ELSE "unset"

DaemonAnswers ==
  /\ lkState.poll.step = "asked"
  /\ lkState' = [lkState EXCEPT !.poll.step = "answered", !.poll.says = AnswerNow]
  /\ UNCHANGED <<lkStream, lkBox, lkFlag, lkLog>>

KeepsToken ==
  /\ lkState.poll.step = "answered"
  /\ Observe([lkState EXCEPT !.poll = Idle, !.left = PollDelay], lkState.poll.says)
  /\ UNCHANGED <<lkStream, lkBox>>

\* DaemonClient reads the token again and calls once more; then pollDone()
PollAnswered ==
  /\ lkState.poll.step = "answered"
  /\ \/ /\ lkState.poll.says = "bearer" /\ ~lkState.poll.retried
        /\ lkState' = [lkState EXCEPT !.token = lkBox.file,
                         !.poll = [Idle EXCEPT !.step = "asked", !.retried = TRUE]]
        /\ UNCHANGED <<lkFlag, lkLog>>
     \/ /\ lkState.poll.says # "bearer" \/ lkState.poll.retried
        /\ Observe([lkState EXCEPT !.poll = Idle, !.left = PollDelay], lkState.poll.says)
  /\ UNCHANGED <<lkStream, lkBox>>

\* The alert of a change: a poll that is under way is not asked again
AlertOfChange ==
  /\ lkStream.state = "Open" /\ lkBox.linked /\ lkBox.life = "up" /\ lkBox.alert
  /\ lkBox' = [lkBox EXCEPT !.alert = FALSE]
  /\ lkState' = Ask(lkState)
  /\ lkStream' = [lkStream EXCEPT !.silent = 0]
  /\ UNCHANGED <<lkFlag, lkLog>>

Turn ==
  /\ lkLog.turns < MaxTurns
  /\ lkLog' = [lkLog EXCEPT !.turns = @ + 1]

\* An admin sets the password through this server
AdminSet ==
  /\ lkState.setting = "no" /\ lkBox.life = "up" /\ lkState.token = lkBox.token
  /\ ~lkBox.admin /\ Turn
  /\ lkBox' = [lkBox EXCEPT !.admin = TRUE, !.alert = TRUE]
  /\ \E outcome \in {"set", "failed"} : lkState' = [lkState EXCEPT !.setting = outcome]
  /\ UNCHANGED <<lkStream, lkFlag>>

\* A call that failed says nothing of the admin
AdminSetDone ==
  /\ lkState.setting # "no"
  /\ LET s == [lkState EXCEPT !.setting = "no"]
     IN IF lkState.setting = "set" THEN Observe(s, "set")
        ELSE lkState' = s /\ UNCHANGED <<lkFlag, lkLog>>
  /\ UNCHANGED <<lkStream, lkBox>>

-----------------------------------------------------------------------------
(* The daemon, the server that is started again, the clock                 *)

\* Its life changes, and the streams of a daemon that was killed are closed
DaemonTurns(life) ==
  /\ life # lkBox.life /\ Turn
  /\ lkBox' = [lkBox EXCEPT !.life = life, !.linked = @ /\ life = "mute"]
  /\ UNCHANGED <<lkStream, lkState, lkFlag>>

\* It makes itself a new token; its file follows
TokenChanges ==
  /\ lkBox.file = lkBox.token /\ Turn
  /\ lkBox' = [lkBox EXCEPT !.token = @ + 1, !.linked = FALSE]
  /\ UNCHANGED <<lkStream, lkState, lkFlag>>

TokenWritten ==
  /\ lkBox.file # lkBox.token
  /\ lkBox' = [lkBox EXCEPT !.file = lkBox.token]
  /\ UNCHANGED <<lkStream, lkState, lkFlag, lkLog>>

\* calaos-os admin, on the box itself
AdminChangesElsewhere ==
  /\ lkBox.life = "up" /\ Turn
  /\ lkBox' = [lkBox EXCEPT !.admin = ~@, !.alert = TRUE]
  /\ UNCHANGED <<lkStream, lkState, lkFlag>>

ServerStarts ==
  /\ lkLog.starts < MaxStarts
  /\ lkLog' = [lkLog EXCEPT !.starts = @ + 1]
  /\ lkStream' = NewStream
  /\ lkState' = NewState(lkFlag, lkBox.file)
  /\ lkBox' = [lkBox EXCEPT !.linked = FALSE]
  /\ UNCHANGED lkFlag

\* What is due, and what a daemon that is well does at once, comes first
LinkTick ==
  /\ lkStream.delay # 0 /\ lkState.left # 0 /\ ~lkStream.watch
  /\ lkState.poll.step = "idle" /\ lkState.setting = "no"
  /\ lkStream.state = "Waiting" \/ lkBox.life = "mute"
       \/ (lkStream.state = "Open" /\ lkBox.linked /\ ~lkStream.pinged)
  /\ LET More(n) == IF n <= Silence THEN n + 1 ELSE n
         Less(n) == IF n = NoDelay THEN n ELSE n - 1
     IN /\ lkStream' =
             IF lkStream.state = "Waiting" THEN [lkStream EXCEPT !.delay = Less(@)]
             ELSE [lkStream EXCEPT !.watch = TRUE, !.silent = More(@), !.up = More(@)]
        /\ lkState' = [lkState EXCEPT !.left = Less(@)]
  /\ UNCHANGED <<lkBox, lkFlag, lkLog>>

-----------------------------------------------------------------------------

LinkCallback ==
  \/ StreamReconnects \/ ConnectFails \/ Handshaken \/ StreamEnds \/ PongArrives \/ Watchdog
  \/ PollTimer \/ DaemonAnswers \/ PollAnswered \/ AlertOfChange \/ AdminSetDone

LinkNext ==
  \/ LinkCallback \/ LinkTick
  \/ AdminSet \/ AdminChangesElsewhere \/ ServerStarts \/ TokenChanges \/ TokenWritten
  \/ \E life \in {"up", "down", "mute", "old"} : DaemonTurns(life)

LinkSpec == LinkInit /\ [][LinkNext]_lkVars
LinkFairSpec == LinkSpec /\ WF_lkVars(LinkCallback) /\ WF_lkVars(LinkTick)

-----------------------------------------------------------------------------
(* Properties                                                              *)

\* Once the daemon has said that an admin is set, and until it says otherwise, the
\* rules of the admin apply: through silence, a daemon that refuses the bearer and
\* a restart of the server, as long as the flag could be written.
StaysClosed == lkLog.said = "set" => Enforced(lkState) \/ lkLog.unwritten

\* However often the daemon died, hung, changed its token or was too old: one that
\* is well at last gets its stream of events, and the server knows its admin.
LinkSettles ==
  <>[](lkBox.life = "up" /\ lkBox.file = lkBox.token)
    => <>[](lkStream.state = "Open" /\ Enforced(lkState) = lkBox.admin)
=============================================================================
