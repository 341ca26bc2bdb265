---------------------------- MODULE AdminAlerts -----------------------------
(***************************************************************************)
(* The alerts of calaos-container, as AdminEvents receives them and        *)
(* AdminState stores them.                                                 *)
(*                                                                         *)
(* The daemon keeps an alert until it is acknowledged, and sends it once   *)
(* on every stream of events.  The server saves its id, has the history    *)
(* thread write it as an event, acknowledges it when a read it has queued  *)
(* behind the event is answered, and pushes it to the phones; an ack or a  *)
(* push that fails is tried again, a few times.                            *)
(*                                                                         *)
(* Left out: ids that cannot be used, the alert that is stored without a   *)
(* push, the marks of approvers (PushTokens), the 64 ids and 64 series     *)
(* that are kept at most, what the daemon does with a call that was given  *)
(* up.                                                                     *)
(* AckAtOnce, KeepAcking, RestoreAlways are faults, used by no action.     *)
(***************************************************************************)
EXTENDS Integers, Sequences

CONSTANTS
  Alerts,         \* the alerts of the daemon
  PushKey,        \* the window each one shares: its type, its phone or its id
  MaxRetries, RetryDelay,
  PushInterval,   \* at most one push of a window in that time
  MaxFaults,      \* bound on calls, writes and saves that fail
  MaxCrashes      \* bound on restarts of the server

Kinds == {"push", "ack"}
PushKeys == {PushKey[a] : a \in Alerts}
NoTimer == -1

ASSUME AlertsAssumption ==
  /\ MaxRetries \in Nat /\ RetryDelay \in Nat \ {0} /\ PushInterval \in Nat
  /\ MaxFaults \in Nat /\ MaxCrashes \in Nat

VARIABLES
  al,          \* AdminEvents and AdminState: storedAlerts, storing, acking,
               \* retries, lastAlertPush, and the pushes that are under way
  alHist,      \* the queue of the history thread, and the reads it answered
  alDisk,      \* the ids saved, and how often each alert is in the history
  alDaemon,    \* alerts raised, not acknowledged, sent on this stream; the stream
  alLog,       \* history: what was lost, forgotten, owed, pushed
  alBudget     \* faults and restarts so far

alVars == <<al, alHist, alDisk, alDaemon, alLog, alBudget>>

NoSeries == [left |-> NoTimer, tries |-> 0]
NoPush == [since |-> NoTimer, previous |-> PushInterval, by |-> "nobody"]
Ages == 0..PushInterval

AlertTypeOK ==
  /\ al.stored \subseteq Alerts /\ al.storing \subseteq Alerts
  /\ al.acking \in [Alerts -> {"no", "asked", "taken", "over"}]
  /\ al.series \in [Kinds \X Alerts -> [left : Nat \cup {NoTimer}, tries : Nat]]
  /\ \A k \in PushKeys : al.stamp[k].age \in Ages
  /\ \A a \in Alerts : al.pushing[a].since \in Ages \cup {NoTimer}
  /\ alHist.queue \in Seq({"event", "read"} \X Alerts)
  /\ alHist.answered \subseteq Alerts
  /\ alDisk \in [ids : SUBSET Alerts, rows : [Alerts -> Nat]]
  /\ alDaemon \in [raised : SUBSET Alerts, pending : SUBSET Alerts,
                   sent : SUBSET Alerts, open : BOOLEAN]
  /\ alLog.pushed \in [Alerts -> Nat]

\* A server that has just started
Started(ids) ==
  [stored |-> ids, storing |-> {}, acking |-> [a \in Alerts |-> "no"],
   series |-> [s \in Kinds \X Alerts |-> NoSeries],
   stamp |-> [k \in PushKeys |-> [age |-> PushInterval, by |-> "nobody"]],
   pushing |-> [a \in Alerts |-> NoPush]]

AlertInit ==
  /\ al = Started({})
  /\ alHist = [queue |-> <<>>, answered |-> {}]
  /\ alDisk = [ids |-> {}, rows |-> [a \in Alerts |-> 0]]
  /\ alDaemon = [raised |-> {}, pending |-> {}, sent |-> {}, open |-> FALSE]
  /\ alLog = [lost |-> {}, forgotten |-> {}, owed |-> {},
              pushed |-> [a \in Alerts |-> 0], recent |-> [k \in PushKeys |-> {}]]
  /\ alBudget = [faults |-> 0, crashes |-> 0]

Fault ==
  /\ alBudget.faults < MaxFaults
  /\ alBudget' = [alBudget EXCEPT !.faults = @ + 1]

-----------------------------------------------------------------------------
(* Series of attempts, acks and pushes                                     *)

GivesUp(s, kind, a) ==
  /\ s.series[<<kind, a>>].left = NoTimer
  /\ s.series[<<kind, a>>].tries >= MaxRetries

\* retryDelay * (1 << attempts)
Delay[attempts \in 0..MaxRetries] ==
  IF attempts = 0 THEN RetryDelay ELSE 2 * Delay[attempts - 1]

ScheduleRetry(s, kind, a) ==
  [s EXCEPT !.series[<<kind, a>>] =
     IF @.left # NoTimer THEN @
     ELSE IF @.tries >= MaxRetries THEN NoSeries
     ELSE [left |-> Delay[@.tries], tries |-> @.tries + 1]]

ForgetRetry(s, kind, a) == [s EXCEPT !.series[<<kind, a>>] = NoSeries]

Ack(s, a) ==
  [s EXCEPT !.acking[a] = IF @ = "no" THEN "asked" ELSE @]

\* Within the window of another push there is none, and nothing to try again
PushAlert(s, a) ==
  LET k == PushKey[a] IN
  IF s.stamp[k].age < PushInterval THEN ForgetRetry(s, "push", a)
  ELSE [s EXCEPT !.stamp[k] = [age |-> 0, by |-> a],
                 !.pushing[a] = [since |-> 0, previous |-> s.stamp[k].age,
                                 by |-> s.stamp[k].by]]

\* A push that failed does not count, unless a newer one went out meanwhile
RestoreAlways(s, a) ==
  [s EXCEPT !.stamp[PushKey[a]] =
     [age |-> s.pushing[a].previous, by |-> s.pushing[a].by]]
RestoreStamp(s, a) ==
  [s EXCEPT !.stamp[PushKey[a]] =
     IF @.by # a THEN @
     ELSE [age |-> s.pushing[a].previous, by |-> s.pushing[a].by]]

-----------------------------------------------------------------------------
(* An alert comes                                                          *)

\* storeAlert(): the id is saved first; a save that fails changes no file
StoreAlert(a, s) ==
  /\ al' = PushAlert(s, a)
  /\ alHist' = [alHist EXCEPT !.queue = @ \o << <<"event", a>>, <<"read", a>> >>]
  /\ \/ alDisk' = [alDisk EXCEPT !.ids = s.stored] /\ UNCHANGED alBudget
     \/ Fault /\ UNCHANGED alDisk

AckAtOnce(a) ==
  \/ /\ a \notin al.stored
     /\ StoreAlert(a, Ack([al EXCEPT !.stored = @ \cup {a}, !.storing = @ \cup {a}], a))
  \/ /\ a \in al.stored
     /\ al' = Ack(al, a) /\ UNCHANGED <<alHist, alDisk, alBudget>>

\* Known, it is acknowledged again; being stored, its ack waits for the event
ProcessAlert(a) ==
  \/ /\ a \in al.storing
     /\ UNCHANGED <<al, alHist, alDisk, alBudget>>
  \/ /\ a \notin al.storing /\ a \in al.stored
     /\ al' = Ack(al, a)
     /\ UNCHANGED <<alHist, alDisk, alBudget>>
  \/ /\ a \notin al.storing /\ a \notin al.stored
     /\ StoreAlert(a, [al EXCEPT !.stored = @ \cup {a}, !.storing = @ \cup {a}])

AlertComes(a) ==
  /\ alDaemon.open /\ a \in alDaemon.pending \ alDaemon.sent
  /\ alDaemon' = [alDaemon EXCEPT !.sent = @ \cup {a}]
  /\ ProcessAlert(a)
  /\ alLog' = [alLog EXCEPT !.owed = @ \cup {a}]

\* The history thread: an insertion may fail, a read is answered all the same
HistoryRuns ==
  /\ alHist.queue # <<>>
  /\ LET request == Head(alHist.queue)
         a == request[2]
     IN \/ /\ request[1] = "event"
           /\ alHist' = [alHist EXCEPT !.queue = Tail(@)]
           /\ \/ /\ alDisk' = [alDisk EXCEPT !.rows[a] = @ + 1]
                 /\ UNCHANGED <<alLog, alBudget>>
              \/ /\ Fault
                 /\ alLog' = [alLog EXCEPT !.lost = @ \cup {a}]
                 /\ UNCHANGED alDisk
        \/ /\ request[1] = "read"
           /\ alHist' = [queue |-> Tail(alHist.queue),
                         answered |-> alHist.answered \cup {a}]
           /\ UNCHANGED <<alDisk, alLog, alBudget>>
  /\ UNCHANGED <<al, alDaemon>>

\* The callback of that read, whether it failed or not
Stored(a) ==
  /\ a \in alHist.answered
  /\ alHist' = [alHist EXCEPT !.answered = @ \ {a}]
  /\ al' = Ack([al EXCEPT !.storing = @ \ {a}], a)
  /\ UNCHANGED <<alDisk, alDaemon, alLog, alBudget>>

-----------------------------------------------------------------------------
(* Answers of the daemon and of the push service: every call ends, also by *)
(* its timeout                                                             *)

DaemonTakes(a) ==
  /\ al.acking[a] = "asked"
  /\ al' = [al EXCEPT !.acking[a] = "taken"]
  /\ alDaemon' = [alDaemon EXCEPT !.pending = @ \ {a}]
  /\ UNCHANGED <<alHist, alDisk, alLog, alBudget>>

AckAnswered(a) ==
  /\ al.acking[a] = "taken"
  /\ al' = ForgetRetry([al EXCEPT !.acking[a] = "no"], "ack", a)
  /\ alLog' = [alLog EXCEPT !.owed = @ \ {a}]
  /\ UNCHANGED <<alHist, alDisk, alDaemon, alBudget>>

KeepAcking(a) ==
  /\ al.acking[a] \in {"asked", "taken"}
  /\ Fault
  /\ al' = ScheduleRetry([al EXCEPT !.acking[a] = "over"], "ack", a)
  /\ alLog' = [alLog EXCEPT !.owed = IF GivesUp(al, "ack", a) THEN @ \ {a} ELSE @]
  /\ UNCHANGED <<alHist, alDisk, alDaemon>>

AckFails(a) ==
  /\ al.acking[a] \in {"asked", "taken"}
  /\ Fault
  /\ al' = ScheduleRetry([al EXCEPT !.acking[a] = "no"], "ack", a)
  /\ alLog' = [alLog EXCEPT !.owed = IF GivesUp(al, "ack", a) THEN @ \ {a} ELSE @]
  /\ UNCHANGED <<alHist, alDisk, alDaemon>>

PushSent(a) ==
  /\ al.pushing[a].since # NoTimer
  /\ al' = [ForgetRetry(al, "push", a) EXCEPT !.pushing[a] = NoPush]
  /\ alLog' = [alLog EXCEPT !.pushed[a] = @ + 1,
                 !.recent[PushKey[a]] =
                    IF al.pushing[a].since < PushInterval
                    THEN @ \cup {[of |-> a, nth |-> alLog.pushed[a],
                                  age |-> al.pushing[a].since]}
                    ELSE @]
  /\ UNCHANGED <<alHist, alDisk, alDaemon, alBudget>>

PushFails(a) ==
  /\ al.pushing[a].since # NoTimer
  /\ Fault
  /\ al' = ScheduleRetry([RestoreStamp(al, a) EXCEPT !.pushing[a] = NoPush], "push", a)
  /\ UNCHANGED <<alHist, alDisk, alDaemon, alLog>>

RetryNow(kind, a) ==
  /\ al.series[<<kind, a>>].left = 0
  /\ LET s == [al EXCEPT !.series[<<kind, a>>].left = NoTimer]
     IN al' = IF kind = "push" THEN PushAlert(s, a) ELSE Ack(s, a)
  /\ UNCHANGED <<alHist, alDisk, alDaemon, alLog, alBudget>>

-----------------------------------------------------------------------------
(* The daemon, its stream, a crash and the clock                           *)

AlertRaised(a) ==
  /\ a \notin alDaemon.raised
  /\ alDaemon' = [alDaemon EXCEPT !.raised = @ \cup {a}, !.pending = @ \cup {a}]
  /\ UNCHANGED <<al, alHist, alDisk, alLog, alBudget>>

StreamTurns ==
  /\ alDaemon' = [alDaemon EXCEPT !.open = ~@, !.sent = {}]
  /\ UNCHANGED <<al, alHist, alDisk, alLog, alBudget>>

\* What the thread has not written is gone; the ids saved are read again
ServerRestarts ==
  /\ alBudget.crashes < MaxCrashes
  /\ alBudget' = [alBudget EXCEPT !.crashes = @ + 1]
  /\ al' = Started(alDisk.ids)
  /\ alHist' = [queue |-> <<>>, answered |-> {}]
  /\ alDaemon' = [alDaemon EXCEPT !.open = FALSE, !.sent = {}]
  /\ alLog' = [alLog EXCEPT
       !.lost = @ \cup {a \in Alerts : <<"event", a>> \in
                          {alHist.queue[i] : i \in DOMAIN alHist.queue}},
       !.forgotten = @ \cup (al.stored \ alDisk.ids), !.owed = {},
       !.recent = [k \in PushKeys |-> {}]]
  /\ UNCHANGED alDisk

Older(age) == IF age < PushInterval THEN age + 1 ELSE age

\* Timers that are due run first
AlertTick ==
  /\ \A s \in Kinds \X Alerts : al.series[s].left # 0
  /\ LET Waits(s) == IF s.left = NoTimer THEN s ELSE [s EXCEPT !.left = s.left - 1]
         OlderStamp(s) == [s EXCEPT !.age = Older(s.age)]
         Goes(p) == IF p.since = NoTimer THEN p
                    ELSE [p EXCEPT !.since = Older(p.since), !.previous = Older(p.previous)]
     IN al' = [al EXCEPT
          !.series = [s \in Kinds \X Alerts |-> Waits(al.series[s])],
          !.stamp = [k \in PushKeys |-> OlderStamp(al.stamp[k])],
          !.pushing = [a \in Alerts |-> Goes(al.pushing[a])]]
  /\ alLog' = [alLog EXCEPT !.recent = [k \in PushKeys |->
       {[push EXCEPT !.age = push.age + 1] :
          push \in {p \in alLog.recent[k] : p.age + 1 < PushInterval}}]]
  /\ UNCHANGED <<alHist, alDisk, alDaemon, alBudget>>

-----------------------------------------------------------------------------

\* What the server, or a timeout, does sooner or later
AlertCallback ==
  \/ HistoryRuns
  \/ \E a \in Alerts :
       Stored(a) \/ DaemonTakes(a) \/ AckAnswered(a) \/ AckFails(a)
         \/ PushSent(a) \/ PushFails(a)
  \/ \E kind \in Kinds, a \in Alerts : RetryNow(kind, a)

AlertNext ==
  \/ AlertCallback \/ AlertTick
  \/ \E a \in Alerts : AlertRaised(a) \/ AlertComes(a)
  \/ StreamTurns \/ ServerRestarts

AlertSpec == AlertInit /\ [][AlertNext]_alVars
AlertFairSpec == AlertSpec /\ WF_alVars(AlertCallback) /\ WF_alVars(AlertTick)

-----------------------------------------------------------------------------
(* Properties                                                              *)

\* Whatever is replayed, lost, retried or interrupted, an alert is recorded and
\* pushed once at most, as long as its id could be saved; the pushes of a window
\* that went out are an interval apart; the daemon drops an alert only once the
\* history has written it, or could not.
AlertsAreKeptOnce ==
  /\ \A a \in Alerts \ alLog.forgotten : alDisk.rows[a] <= 1 /\ alLog.pushed[a] <= 1
  /\ \A k \in PushKeys : \A p, q \in alLog.recent[k] : p = q
  /\ \A a \in alDaemon.raised \ alDaemon.pending :
       alDisk.rows[a] > 0 \/ a \in alLog.lost

\* An alert that came is acknowledged, or its series gives up: an ack never waits
\* for nothing.
AcksGoOn == \A a \in Alerts : []<>(a \notin alLog.owed)
=============================================================================
