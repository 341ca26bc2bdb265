-------------------------- MODULE ConnectionsProof --------------------------
(***************************************************************************)
(* What the connections of the server keep for every value of their        *)
(* constants: the link with calaos-container and the alerts that come      *)
(* through it, the console of the machine, the MCP sidecar, a WebSocket.   *)
(***************************************************************************)
EXTENDS AdminAlerts, DaemonLink, ConsoleTunnel, McpSidecar, WebSocket, Inductions

-----------------------------------------------------------------------------
(* AdminAlerts                                                             *)

Requests == {"event", "read"} \X Alerts
Nobody == Alerts \cup {"nobody"}
Series == [left : Nat \cup {NoTimer}, tries : Nat]
Stamp == [age : Ages, by : Nobody]
Push == [since : Ages \cup {NoTimer}, previous : Ages, by : Nobody]
SentPush == [of : Alerts, nth : Nat, age : Ages]

Server ==
  [stored : SUBSET Alerts, storing : SUBSET Alerts,
   acking : [Alerts -> {"no", "asked", "taken", "over"}],
   series : [Kinds \X Alerts -> Series],
   stamp : [PushKeys -> Stamp], pushing : [Alerts -> Push]]

HistoryThread == [queue : Seq(Requests), answered : SUBSET Alerts]
Disk == [ids : SUBSET Alerts, rows : [Alerts -> Nat]]
Daemon ==
  [raised : SUBSET Alerts, pending : SUBSET Alerts, sent : SUBSET Alerts, open : BOOLEAN]
Log ==
  [lost : SUBSET Alerts, forgotten : SUBSET Alerts, owed : SUBSET Alerts,
   pushed : [Alerts -> Nat], recent : [PushKeys -> SUBSET SentPush]]
Budget == [faults : Nat, crashes : Nat]

AlertState ==
  /\ al \in Server /\ alHist \in HistoryThread /\ alDisk \in Disk
  /\ alDaemon \in Daemon /\ alLog \in Log /\ alBudget \in Budget

\* An alert is acknowledged only when the history has written it, or could not:
\* the event of one that is being stored is ahead of its read.
Recorded(a) == alDisk.rows[a] > 0 \/ a \in alLog.lost
EventQueued(a) == \E i \in DOMAIN alHist.queue : alHist.queue[i] = <<"event", a>>
AcksFollowRecords ==
  /\ alDisk.ids \subseteq al.stored /\ al.storing \subseteq al.stored
  /\ \A a \in al.stored : Recorded(a) \/ (a \in al.storing /\ EventQueued(a))
  /\ \A a \in alHist.answered \cup (alDaemon.raised \ alDaemon.pending) : Recorded(a)
  /\ \A i \in DOMAIN alHist.queue :
       alHist.queue[i][1] = "read" =>
         \/ Recorded(alHist.queue[i][2])
         \/ \E j \in DOMAIN alHist.queue : j < i /\ alHist.queue[j] = <<"event", alHist.queue[i][2]>>
  /\ \A a \in Alerts :
       al.acking[a] # "no" \/ al.series[<<"ack", a>>].left # NoTimer => Recorded(a)

\* It is queued once, by a server that stores its id, and not when it is written
QueuedOnce ==
  /\ \A i, j \in DOMAIN alHist.queue :
       alHist.queue[i][1] = "event" /\ alHist.queue[i] = alHist.queue[j] => i = j
  /\ \A i \in DOMAIN alHist.queue : alHist.queue[i][2] \in al.stored
  /\ \A a \in Alerts \ alLog.forgotten :
       /\ alDisk.rows[a] <= 1
       /\ a \notin al.stored \/ EventQueued(a) => alDisk.rows[a] = 0

\* Its push is under way, waits for its retry, or is over
Pushing(a) == al.pushing[a].since # NoTimer
Retrying(a) == al.series[<<"push", a>>].left # NoTimer
PushedOnce ==
  \A a \in Alerts :
    /\ ~(Pushing(a) /\ Retrying(a))
    /\ Pushing(a) \/ Retrying(a) => a \in al.stored
    /\ a \notin alLog.forgotten =>
         /\ alLog.pushed[a] <= 1
         /\ a \notin al.stored \/ Pushing(a) \/ Retrying(a) => alLog.pushed[a] = 0

\* The stamp of a window is that of its last push, under way or sent, until the
\* interval is over
WindowsAreStamped ==
  /\ \A a \in Alerts : Pushing(a) =>
       /\ al.pushing[a].previous = PushInterval
       /\ al.pushing[a].since < PushInterval =>
            /\ al.stamp[PushKey[a]].age = al.pushing[a].since
            /\ al.stamp[PushKey[a]].by = a
  /\ \A k \in PushKeys :
       /\ \A p \in alLog.recent[k] :
            /\ p.age = al.stamp[k].age /\ p.age < PushInterval
            /\ \A a \in Alerts : PushKey[a] = k /\ al.stamp[k].by = a => ~Pushing(a)
       /\ \A p, q \in alLog.recent[k] : p = q

AlertInv ==
  AlertState /\ AcksFollowRecords /\ QueuedOnce /\ PushedOnce /\ WindowsAreStamped

\* A retry waits a natural time: the delays are defined, and doubled.
LEMMA DelaysAre == \A n \in 0..MaxRetries : Delay[n] \in Nat
  <1> DEFINE N == MaxRetries
             Is(f) == f = [n \in 0..N |-> IF n = 0 THEN RetryDelay ELSE 2 * f[n - 1]]
             Doubles(g, n) == \A i \in 0..n : g[i] = IF i = 0 THEN RetryDelay ELSE 2 * g[i - 1]
             S == {n \in 0..N : \E g \in [0..n -> Nat] : Doubles(g, n)}
  <1>0. N \in Nat /\ RetryDelay \in Nat
    BY AlertsAssumption
  <1>1. 0 \in S
    <2> DEFINE g == [i \in 0..0 |-> RetryDelay]
    <2>1. g \in [0..0 -> Nat] /\ Doubles(g, 0)
      BY <1>0
    <2> HIDE DEF g
    <2> QED BY <1>0, <2>1
  <1>2. ASSUME NEW n \in 0..N, n \in S, n < N PROVE n + 1 \in S
    <2>1. PICK g \in [0..n -> Nat] : Doubles(g, n)
      BY <1>2
    <2> DEFINE h == [i \in 0..(n + 1) |-> IF i = n + 1 THEN 2 * g[n] ELSE g[i]]
    <2>2. n \in 0..n /\ 2 * g[n] \in Nat
      BY <2>1
    <2>3. h \in [0..(n + 1) -> Nat]
      BY <2>1, <2>2
    <2>4. ASSUME NEW i \in 0..(n + 1) PROVE h[i] = IF i = 0 THEN RetryDelay ELSE 2 * h[i - 1]
      <3>1. CASE i = n + 1
        BY <1>2, <3>1
      <3>2. CASE i # n + 1
        <4>1. i \in 0..n /\ h[i] = g[i] /\ (i # 0 => i - 1 \in 0..n /\ h[i - 1] = g[i - 1])
          BY <3>2
        <4> QED BY <2>1, <4>1
      <3> QED BY <3>1, <3>2
    <2> HIDE DEF h
    <2>5. n + 1 \in 0..N
      BY <1>0, <1>2
    <2> QED BY <2>3, <2>4, <2>5
  <1>3. N \in S
    <2> HIDE DEF S
    <2>1. \A n \in 0..N : n \in S
      BY <1>0, <1>1, <1>2, Reaches
    <2> QED BY <1>0, <2>1
  <1>4. PICK g \in [0..N -> Nat] : Doubles(g, N)
    BY <1>3
  <1>5. Is(g)
    <2>1. g = [n \in 0..N |-> g[n]]
      OBVIOUS
    <2> QED BY <1>4, <2>1
  <1>6. Is(Delay)
    <2>1. Delay = CHOOSE f : Is(f)
      BY DEF Delay
    <2> HIDE DEF Is
    <2> QED BY <1>5, <2>1
  <1> DEFINE T == {n \in 0..N : Delay[n] \in Nat}
  <1>7. \A n \in 0..N : Delay[n] = IF n = 0 THEN RetryDelay ELSE 2 * Delay[n - 1]
    BY <1>6
  <1>8. 0 \in T
    BY <1>0, <1>7
  <1>9. ASSUME NEW n \in 0..N, n \in T, n < N PROVE n + 1 \in T
    <2>1. n + 1 \in 0..N /\ n + 1 # 0 /\ (n + 1) - 1 = n
      BY <1>0, <1>9
    <2>2. Delay[n + 1] = 2 * Delay[n]
      BY <1>7, <2>1
    <2> QED BY <1>9, <2>1, <2>2
  <1>10. \A n \in 0..N : n \in T
    <2> HIDE DEF T
    <2> QED BY <1>0, <1>8, <1>9, Reaches
  <1> QED BY <1>10

\* What each helper leaves of the server
LEMMA HelpersAreTyped ==
  ASSUME NEW s \in Server, NEW a \in Alerts
  PROVE  /\ Ack(s, a) \in Server /\ PushAlert(s, a) \in Server
         /\ RestoreStamp(s, a) \in Server
         /\ \A kind \in Kinds :
              ForgetRetry(s, kind, a) \in Server /\ ScheduleRetry(s, kind, a) \in Server
  <1>0. /\ PushInterval \in Nat /\ PushInterval \in Ages /\ 0 \in Ages
        /\ RetryDelay \in Nat /\ PushKey[a] \in PushKeys
    BY AlertsAssumption DEF Ages, PushKeys
  <1>1. Ack(s, a) \in Server
    BY DEF Ack, Server
  <1>2. ASSUME NEW kind \in Kinds
        PROVE  ForgetRetry(s, kind, a) \in Server /\ ScheduleRetry(s, kind, a) \in Server
    <2>1. <<kind, a>> \in Kinds \X Alerts /\ s.series[<<kind, a>>] \in Series
      BY DEF Server
    <2>2. PICK r \in Series : r = s.series[<<kind, a>>]
      BY <2>1
    <2>3. PICK t \in Nat : t = r.tries
      BY DEF Series
    <2>4. t < MaxRetries => Delay[t] \in Nat
      <3>1. t < MaxRetries => t \in 0..MaxRetries
        BY <2>3, AlertsAssumption
      <3> QED BY <3>1, DelaysAre
    <2>5. NoSeries \in Series /\ (t < MaxRetries => [left |-> Delay[t], tries |-> t + 1] \in Series)
      BY <2>4 DEF NoSeries, Series
    <2>6. \A x \in Series : [s EXCEPT !.series[<<kind, a>>] = x] \in Server
      BY <2>1 DEF Server
    <2>7. ScheduleRetry(s, kind, a) =
            [s EXCEPT !.series[<<kind, a>>] =
               IF r.left # NoTimer THEN r ELSE IF t >= MaxRetries THEN NoSeries
               ELSE [left |-> Delay[t], tries |-> t + 1]]
      BY <2>2, <2>3 DEF ScheduleRetry
    <2>8. t < MaxRetries \/ t >= MaxRetries
      BY <2>3, AlertsAssumption
    <2> QED BY <2>2, <2>5, <2>6, <2>7, <2>8 DEF ForgetRetry
  <1>3. PushAlert(s, a) \in Server
    <2>1. s.stamp[PushKey[a]] \in Stamp
      BY <1>0 DEF Server
    <2>2. /\ [age |-> 0, by |-> a] \in Stamp
          /\ [since |-> 0, previous |-> s.stamp[PushKey[a]].age,
               by |-> s.stamp[PushKey[a]].by] \in Push
      BY <1>0, <2>1 DEF Stamp, Push, Nobody
    <2>3. \A x \in Stamp, y \in Push :
            [s EXCEPT !.stamp[PushKey[a]] = x, !.pushing[a] = y] \in Server
      BY <1>0 DEF Server
    <2> QED BY <1>2, <2>2, <2>3 DEF PushAlert, Kinds
  <1>4. RestoreStamp(s, a) \in Server
    <2>1. s.pushing[a] \in Push /\ s.stamp[PushKey[a]] \in Stamp
      BY <1>0 DEF Server
    <2>2. [age |-> s.pushing[a].previous, by |-> s.pushing[a].by] \in Stamp
      BY <2>1 DEF Push, Stamp
    <2>3. \A x \in Stamp : [s EXCEPT !.stamp[PushKey[a]] = x] \in Server
      BY <1>0 DEF Server
    <2> QED BY <2>1, <2>2, <2>3 DEF RestoreStamp
  <1> QED BY <1>1, <1>2, <1>3, <1>4

LEMMA AlertStateInit == AlertInit => AlertInv
  <1> SUFFICES ASSUME AlertInit PROVE AlertInv
    OBVIOUS
  <1>0. PushInterval \in Nat /\ PushInterval \in Ages
    BY AlertsAssumption DEF Ages
  <1>1. Started({}) \in Server
    BY <1>0 DEF Started, Server, NoSeries, NoPush, NoTimer, Series, Stamp, Push, Nobody
  <1>2. <<>> \in Seq(Requests) /\ Len(<<>>) = 0 /\ DOMAIN <<>> = {}
    OBVIOUS
  <1>3. AlertState
    BY <1>1, <1>2 DEF AlertInit, AlertState, HistoryThread, Disk, Daemon, Log, Budget
  <1>4. AcksFollowRecords /\ QueuedOnce
    BY <1>2 DEF AlertInit, Started, AcksFollowRecords, QueuedOnce, EventQueued, NoSeries,
                NoTimer, Kinds
  <1>5. /\ \A a \in Alerts : ~Pushing(a) /\ ~Retrying(a) /\ alLog.pushed[a] = 0
        /\ \A k \in PushKeys : alLog.recent[k] = {}
    BY DEF AlertInit, Started, Pushing, Retrying, NoSeries, NoPush, NoTimer, Kinds
  <1>6. PushedOnce /\ WindowsAreStamped
    BY <1>5 DEF PushedOnce, WindowsAreStamped
  <1> QED BY <1>3, <1>4, <1>6 DEF AlertInv

-----------------------------------------------------------------------------

\* The types after each action
LEMMA AlertTypesStep ==
  ASSUME AlertState, AlertNext PROVE AlertState'
  <1> USE DEF AlertState
  <1>0. /\ PushInterval \in Nat /\ PushInterval \in Ages /\ 0 \in Ages /\ NoTimer \notin Ages
        /\ NoPush \in Push /\ Kinds = {"push", "ack"} /\ RetryDelay \in Nat
    BY AlertsAssumption DEF Ages, NoPush, NoTimer, Push, Nobody, Kinds
  <1>1. ASSUME Fault PROVE alBudget' \in Budget
    BY <1>1 DEF Fault, Budget
  <1>2. ASSUME NEW a \in Alerts, NEW s \in Server, StoreAlert(a, s)
        PROVE  /\ al' \in Server /\ alHist' \in HistoryThread
               /\ alDisk' \in Disk
               /\ alBudget' \in Budget
    <2>1. al' \in Server
      BY <1>2, HelpersAreTyped DEF StoreAlert
    <2>2. << <<"event", a>>, <<"read", a>> >> \in Seq(Requests)
      BY DEF Requests
    <2>3. alHist.queue \o << <<"event", a>>, <<"read", a>> >> \in Seq(Requests)
      BY <2>2, ConcatProperties DEF HistoryThread
    <2>4. s.stored \in SUBSET Alerts
      BY DEF Server
    <2> QED BY <1>1, <1>2, <2>1, <2>3, <2>4 DEF StoreAlert, HistoryThread, Disk
  <1>3. ASSUME NEW a \in Alerts, AlertComes(a) PROVE AlertState'
    <2>1. [al EXCEPT !.stored = @ \cup {a}, !.storing = @ \cup {a}] \in Server
      BY DEF Server
    <2>2. /\ al' \in Server /\ alHist' \in HistoryThread
          /\ alDisk' \in Disk
          /\ alBudget' \in Budget
      BY <1>2, <1>3, <2>1, HelpersAreTyped DEF AlertComes, ProcessAlert
    <2> QED BY <1>3, <2>2 DEF AlertComes, Daemon, Log
  <1>4. ASSUME HistoryRuns PROVE AlertState'
    <2>1. Tail(alHist.queue) \in Seq(Requests) /\ Head(alHist.queue) \in Requests
      BY <1>4, HeadTailProperties DEF HistoryRuns, HistoryThread
    <2>2. Head(alHist.queue)[2] \in Alerts
      BY <2>1 DEF Requests
    <2>3. PICK a \in Alerts : a = Head(alHist.queue)[2]
      BY <2>2
    <2>4. \A A \in SUBSET Alerts :
            /\ [alHist EXCEPT !.queue = Tail(@)] \in HistoryThread
            /\ [queue |-> Tail(alHist.queue), answered |-> A] \in HistoryThread
      BY <2>1 DEF HistoryThread
    <2>5. alHist' \in HistoryThread
      <3>1. alHist.answered \cup {a} \in SUBSET Alerts
        BY DEF HistoryThread
      <3>2. \/ alHist' = [alHist EXCEPT !.queue = Tail(@)]
            \/ alHist' = [queue |-> Tail(alHist.queue), answered |-> alHist.answered \cup {a}]
        BY <1>4, <2>3 DEF HistoryRuns
      <3> QED BY <2>4, <3>1, <3>2
    <2>6. [alDisk EXCEPT !.rows[a] = @ + 1] \in Disk /\ [alLog EXCEPT !.lost = @ \cup {a}] \in Log
      BY DEF Disk, Log
    <2>7. alDisk' \in Disk /\ alLog' \in Log /\ alBudget' \in Budget
      BY <1>1, <1>4, <2>3, <2>6 DEF HistoryRuns
    <2> QED BY <1>4, <2>5, <2>7 DEF HistoryRuns
  <1>5. ASSUME NEW a \in Alerts, Stored(a) PROVE AlertState'
    <2>1. [al EXCEPT !.storing = @ \ {a}] \in Server
      BY DEF Server
    <2> QED BY <1>5, <2>1, HelpersAreTyped DEF Stored, HistoryThread
  <1>6. ASSUME NEW a \in Alerts, DaemonTakes(a) \/ AckAnswered(a) \/ AckFails(a) PROVE AlertState'
    <2>1. /\ [al EXCEPT !.acking[a] = "no"] \in Server /\ [al EXCEPT !.acking[a] = "taken"] \in Server
          /\ "ack" \in Kinds
      BY DEF Server, Kinds
    <2>2. al' \in Server
      BY <1>6, <2>1, HelpersAreTyped DEF DaemonTakes, AckAnswered, AckFails
    <2>3. /\ [alDaemon EXCEPT !.pending = @ \ {a}] \in Daemon
          /\ \A A \in SUBSET Alerts : [alLog EXCEPT !.owed = A] \in Log
          /\ alLog.owed \in SUBSET Alerts
      BY DEF Daemon, Log
    <2>4. alDaemon' \in Daemon /\ alLog' \in Log
      BY <1>6, <2>3 DEF DaemonTakes, AckAnswered, AckFails
    <2> QED BY <1>1, <1>6, <2>2, <2>4 DEF DaemonTakes, AckAnswered, AckFails
  <1>7. ASSUME NEW a \in Alerts, PushSent(a) PROVE AlertState'
    <2>0. /\ PushKey[a] \in PushKeys /\ al.pushing[a].since \in Ages
          /\ "push" \in Kinds
      BY <1>7 DEF PushSent, PushKeys, Server, Push, Kinds
    <2>1. \A s \in Server : [s EXCEPT !.pushing[a] = NoPush] \in Server
      BY <1>0 DEF Server
    <2>2. al' \in Server
      BY <1>7, <2>0, <2>1, HelpersAreTyped DEF PushSent
    <2>3. PICK p \in SentPush :
            p = [of |-> a, nth |-> alLog.pushed[a], age |-> al.pushing[a].since]
      BY <2>0 DEF SentPush, Log
    <2>4. alLog' = [alLog EXCEPT !.pushed[a] = @ + 1,
                      !.recent[PushKey[a]] =
                         IF al.pushing[a].since < PushInterval THEN @ \cup {p} ELSE @]
      BY <1>7, <2>3 DEF PushSent
    <2>5. alLog' \in Log
      <3>1. alLog.pushed[a] + 1 \in Nat
        BY DEF Log
      <3>2. /\ alLog.recent[PushKey[a]] \in SUBSET SentPush
            /\ alLog.recent[PushKey[a]] \cup {p} \in SUBSET SentPush
        BY <2>0 DEF Log
      <3>3. \A n \in Nat, S \in SUBSET SentPush :
              [alLog EXCEPT !.pushed[a] = n, !.recent[PushKey[a]] = S] \in Log
        BY <2>0 DEF Log
      <3> QED BY <2>4, <3>1, <3>2, <3>3
    <2> QED BY <1>7, <2>2, <2>5 DEF PushSent
  <1>8. ASSUME NEW a \in Alerts, PushFails(a) PROVE AlertState'
    <2>1. \A s \in Server : [s EXCEPT !.pushing[a] = NoPush] \in Server
      BY <1>0 DEF Server
    <2>2. al' \in Server
      BY <1>0, <1>8, <2>1, HelpersAreTyped DEF PushFails
    <2> QED BY <1>1, <1>8, <2>2 DEF PushFails
  <1>9. ASSUME NEW kind \in Kinds, NEW a \in Alerts, RetryNow(kind, a) PROVE AlertState'
    <2>1. [al EXCEPT !.series[<<kind, a>>].left = NoTimer] \in Server
      <3>1. \A x \in Series : [x EXCEPT !.left = NoTimer] \in Series
        BY DEF Series, NoTimer
      <3> QED BY <3>1 DEF Server
    <2> QED BY <1>9, <2>1, HelpersAreTyped DEF RetryNow
  <1>10. ASSUME NEW a \in Alerts, AlertRaised(a) PROVE AlertState'
    BY <1>10 DEF AlertRaised, Daemon
  <1>11. ASSUME StreamTurns PROVE AlertState'
    BY <1>11 DEF StreamTurns, Daemon
  <1>12. ASSUME ServerRestarts PROVE AlertState'
    <2>1. Started(alDisk.ids) \in Server
      BY <1>0 DEF Started, Server, NoSeries, NoTimer, Series, Stamp, Nobody, Disk
    <2>2. <<>> \in Seq(Requests)
      OBVIOUS
    <2>3. /\ alDaemon' \in Daemon
          /\ alBudget' \in Budget
      <3>1. alDaemon' = [alDaemon EXCEPT !.open = FALSE, !.sent = {}]
        BY <1>12 DEF ServerRestarts
      <3>2. alBudget' = [alBudget EXCEPT !.crashes = @ + 1]
        BY <1>12 DEF ServerRestarts
      <3>3. alDaemon' \in Daemon
        BY <3>1 DEF Daemon
      <3> QED BY <3>2, <3>3 DEF Budget
    <2>4. al.stored \subseteq Alerts
      BY DEF Server
    <2>5. alLog' \in Log
      BY <1>12, <2>4 DEF ServerRestarts, Log
    <2> QED BY <1>12, <2>1, <2>2, <2>3, <2>5 DEF ServerRestarts, HistoryThread
  <1>13. ASSUME AlertTick PROVE AlertState'
    <2>0. \A n \in Ages : Older(n) \in Ages
      BY <1>0 DEF Ages, Older
    <2> DEFINE Waits(x) == IF x.left = NoTimer THEN x ELSE [x EXCEPT !.left = x.left - 1]
               OlderStamp(x) == [x EXCEPT !.age = Older(x.age)]
               Goes(p) == IF p.since = NoTimer THEN p
                          ELSE [p EXCEPT !.since = Older(p.since), !.previous = Older(p.previous)]
    <2>1. \A x \in Series : x.left # 0 => Waits(x) \in Series
      <3>1. \A x \in Series, n \in Nat : [x EXCEPT !.left = n] \in Series
        BY DEF Series
      <3>2. \A x \in Series : x.left # NoTimer => x.left \in Nat
        BY DEF Series
      <3>3. \A n \in Nat : n # 0 => n - 1 \in Nat
        OBVIOUS
      <3> QED BY <3>1, <3>2, <3>3
    <2>2. \A x \in Stamp : OlderStamp(x) \in Stamp
      BY <2>0 DEF Stamp
    <2>3. \A x \in Push : Goes(x) \in Push
      BY <2>0 DEF Push
    <2>4. al' \in Server
      <3>1. al' = [al EXCEPT !.series = [s \in Kinds \X Alerts |-> Waits(al.series[s])],
                             !.stamp = [k \in PushKeys |-> OlderStamp(al.stamp[k])],
                             !.pushing = [a \in Alerts |-> Goes(al.pushing[a])]]
        BY <1>13 DEF AlertTick
      <3>0. \A x \in Kinds \X Alerts : al.series[x].left # 0
        BY <1>13 DEF AlertTick
      <3> HIDE DEF Waits, OlderStamp, Goes
      <3>2. /\ al.series \in [Kinds \X Alerts -> Series] /\ al.stamp \in [PushKeys -> Stamp]
            /\ al.pushing \in [Alerts -> Push]
        BY DEF Server
      <3>3. /\ [s \in Kinds \X Alerts |-> Waits(al.series[s])] \in [Kinds \X Alerts -> Series]
            /\ [k \in PushKeys |-> OlderStamp(al.stamp[k])] \in [PushKeys -> Stamp]
            /\ [a \in Alerts |-> Goes(al.pushing[a])] \in [Alerts -> Push]
        BY <2>1, <2>2, <2>3, <3>0, <3>2
      <3>4. \A f \in [Kinds \X Alerts -> Series], g \in [PushKeys -> Stamp],
               h \in [Alerts -> Push] :
              [al EXCEPT !.series = f, !.stamp = g, !.pushing = h] \in Server
        BY DEF Server
      <3> QED BY <3>1, <3>3, <3>4
    <2>5. \A x \in SentPush : x.age + 1 < PushInterval => [x EXCEPT !.age = x.age + 1] \in SentPush
      <3>1. \A x \in SentPush : x.age \in Ages
        BY DEF SentPush
      <3>2. \A n \in Ages : n + 1 < PushInterval => n + 1 \in Ages
        BY <1>0 DEF Ages
      <3>3. \A x \in SentPush, n \in Ages : [x EXCEPT !.age = n] \in SentPush
        BY DEF SentPush
      <3> QED BY <3>1, <3>2, <3>3
    <2>6. \A S \in SUBSET SentPush :
            {[push EXCEPT !.age = push.age + 1] : push \in {p \in S : p.age + 1 < PushInterval}}
              \in SUBSET SentPush
      BY <2>5
    <2>7. alLog' \in Log
      BY <1>13, <2>6 DEF AlertTick, Log
    <2> QED BY <1>13, <2>4, <2>7 DEF AlertTick
  <1> QED BY <1>3, <1>4, <1>5, <1>6, <1>7, <1>8, <1>9, <1>10, <1>11, <1>12, <1>13
          DEF AlertNext, AlertCallback
-----------------------------------------------------------------------------

\* What the helpers leave alone
LEMMA HelpersKeep ==
  ASSUME NEW s \in Server, NEW a \in Alerts
  PROVE  /\ Ack(s, a).stored = s.stored /\ Ack(s, a).storing = s.storing
         /\ Ack(s, a).series = s.series /\ Ack(s, a).stamp = s.stamp
         /\ Ack(s, a).pushing = s.pushing
         /\ \A b \in Alerts : Ack(s, a).acking[b] # "no" => s.acking[b] # "no" \/ b = a
         /\ PushAlert(s, a).stored = s.stored /\ PushAlert(s, a).storing = s.storing
         /\ PushAlert(s, a).acking = s.acking
         /\ \A b \in Alerts : PushAlert(s, a).series[<<"ack", b>>] = s.series[<<"ack", b>>]
         /\ RestoreStamp(s, a).stored = s.stored /\ RestoreStamp(s, a).storing = s.storing
         /\ RestoreStamp(s, a).acking = s.acking /\ RestoreStamp(s, a).series = s.series
         /\ RestoreStamp(s, a).pushing = s.pushing
  <1>1. <<"push", a>> # <<"ack", a>> /\ \A b \in Alerts : <<"push", a>> # <<"ack", b>>
    OBVIOUS
  <1> QED BY <1>1 DEF Ack, PushAlert, RestoreStamp, ForgetRetry, Server

\* A series that is scheduled or forgotten, and the others
ChangesOneSeries(s, t, kind, a) ==
  /\ t \in Server
  /\ t.stored = s.stored /\ t.storing = s.storing /\ t.acking = s.acking
  /\ t.stamp = s.stamp /\ t.pushing = s.pushing
  /\ \A x \in Kinds \X Alerts : x # <<kind, a>> => t.series[x] = s.series[x]

LEMMA SeriesChange ==
  ASSUME NEW s \in Server, NEW kind \in Kinds, NEW a \in Alerts
  PROVE  /\ ChangesOneSeries(s, ScheduleRetry(s, kind, a), kind, a)
         /\ ChangesOneSeries(s, ForgetRetry(s, kind, a), kind, a)
         /\ ForgetRetry(s, kind, a).series[<<kind, a>>].left = NoTimer
  <1>1. <<kind, a>> \in Kinds \X Alerts
    OBVIOUS
  <1>2. \A r : /\ [s EXCEPT !.series[<<kind, a>>] = r].stored = s.stored
               /\ [s EXCEPT !.series[<<kind, a>>] = r].storing = s.storing
               /\ [s EXCEPT !.series[<<kind, a>>] = r].acking = s.acking
               /\ [s EXCEPT !.series[<<kind, a>>] = r].stamp = s.stamp
               /\ [s EXCEPT !.series[<<kind, a>>] = r].pushing = s.pushing
               /\ [s EXCEPT !.series[<<kind, a>>] = r].series = [s.series EXCEPT ![<<kind, a>>] = r]
    BY DEF Server
  <1>3. \A r : /\ \A x \in Kinds \X Alerts : x # <<kind, a>> =>
                    [s.series EXCEPT ![<<kind, a>>] = r][x] = s.series[x]
               /\ [s.series EXCEPT ![<<kind, a>>] = r][<<kind, a>>] = r
    BY <1>1 DEF Server
  <1>4. ForgetRetry(s, kind, a) \in Server /\ ScheduleRetry(s, kind, a) \in Server
    BY HelpersAreTyped
  <1>5. \E r : ScheduleRetry(s, kind, a) = [s EXCEPT !.series[<<kind, a>>] = r]
    BY DEF ScheduleRetry
  <1>6. NoSeries.left = NoTimer
    BY DEF NoSeries
  <1> QED BY <1>2, <1>3, <1>4, <1>5, <1>6 DEF ForgetRetry, ChangesOneSeries

\* A field of the server that an action sets: the alerts whose event is being written
LEMMA StoringSet ==
  ASSUME NEW s \in Server, NEW S \in SUBSET Alerts
  PROVE  \E t \in Server :
           /\ t = [s EXCEPT !.storing = S]
           /\ t.storing = S
           /\ t.stored = s.stored /\ t.acking = s.acking /\ t.series = s.series
           /\ t.stamp = s.stamp /\ t.pushing = s.pushing
  <1>1. PICK t : t = [s EXCEPT !.storing = S]
    OBVIOUS
  <1>2. t \in Server
    BY <1>1 DEF Server
  <1> QED BY <1>1, <1>2 DEF Server

\* What is known of the acknowledgement of an alert
LEMMA AckingSet ==
  ASSUME NEW s \in Server, NEW a \in Alerts, NEW x \in {"no", "taken"}
  PROVE  \E t \in Server :
           /\ t = [s EXCEPT !.acking[a] = x]
           /\ t.acking = [s.acking EXCEPT ![a] = x]
           /\ t.stored = s.stored /\ t.storing = s.storing /\ t.series = s.series
           /\ t.stamp = s.stamp /\ t.pushing = s.pushing
  <1>1. PICK t : t = [s EXCEPT !.acking[a] = x]
    OBVIOUS
  <1>2. t \in Server
    BY <1>1 DEF Server
  <1> QED BY <1>1, <1>2 DEF Server

\* The push of an alert that is over
LEMMA PushingSet ==
  ASSUME NEW s \in Server, NEW a \in Alerts
  PROVE  \E t \in Server :
           /\ t = [s EXCEPT !.pushing[a] = NoPush]
           /\ t.pushing = [s.pushing EXCEPT ![a] = NoPush]
           /\ t.stored = s.stored /\ t.storing = s.storing /\ t.acking = s.acking
           /\ t.series = s.series /\ t.stamp = s.stamp
  <1>0. NoPush \in Push
    BY AlertsAssumption DEF NoPush, Push, Ages, Nobody
  <1>1. PICK t : t = [s EXCEPT !.pushing[a] = NoPush]
    OBVIOUS
  <1>2. t \in Server
    BY <1>0, <1>1 DEF Server
  <1> QED BY <1>1, <1>2 DEF Server

\* Nothing is queued, written or saved; what is new to acknowledge is recorded
LEMMA QueueFrame ==
  ASSUME AlertState, AcksFollowRecords, QueuedOnce,
         al'.stored = al.stored, al'.storing \subseteq al.storing,
         \A a \in al.storing \ al'.storing : Recorded(a),
         alHist'.queue = alHist.queue, alHist'.answered \subseteq alHist.answered,
         alDisk' = alDisk, alLog'.lost = alLog.lost, alLog'.forgotten = alLog.forgotten,
         \A a \in alDaemon'.raised \ alDaemon'.pending : Recorded(a),
         \A a \in Alerts :
           al'.acking[a] # "no" \/ al'.series[<<"ack", a>>].left # NoTimer => Recorded(a)
  PROVE  AcksFollowRecords' /\ QueuedOnce'
  <1>1. \A a : Recorded(a)' = Recorded(a)
    BY DEF Recorded
  <1>2. \A a : EventQueued(a)' = EventQueued(a)
    BY DEF EventQueued
  <1>3. AcksFollowRecords'
    BY <1>1, <1>2 DEF AcksFollowRecords
  <1>4. QueuedOnce'
    BY <1>2 DEF QueuedOnce
  <1> QED BY <1>3, <1>4

\* The alert that comes is stored, and its event queued ahead of its read
LEMMA StoreKeepsQueue ==
  ASSUME AlertInv, NEW a \in Alerts, a \notin al.stored,
         StoreAlert(a, [al EXCEPT !.stored = @ \cup {a}, !.storing = @ \cup {a}]),
         alDaemon'.raised = alDaemon.raised, alDaemon'.pending = alDaemon.pending,
         alLog'.lost = alLog.lost, alLog'.forgotten = alLog.forgotten
  PROVE  AcksFollowRecords' /\ QueuedOnce'
  <1> DEFINE s == [al EXCEPT !.stored = @ \cup {a}, !.storing = @ \cup {a}]
  <1>0. /\ al \in Server /\ alHist \in HistoryThread /\ alDisk \in Disk
        /\ AcksFollowRecords /\ QueuedOnce
    BY DEF AlertInv, AlertState
  <1>1. /\ s \in Server /\ s.stored = al.stored \cup {a} /\ s.storing = al.storing \cup {a}
        /\ s.acking = al.acking /\ s.series = al.series
    BY <1>0 DEF Server
  <1>2. al' = PushAlert(s, a)
    BY DEF StoreAlert
  <1>3. /\ al'.stored = al.stored \cup {a} /\ al'.storing = al.storing \cup {a}
        /\ al'.acking = al.acking
        /\ \A b \in Alerts : al'.series[<<"ack", b>>] = al.series[<<"ack", b>>]
    <2> HIDE DEF s
    <2> QED BY <1>1, <1>2, HelpersKeep
  <1>4. /\ alHist'.queue = alHist.queue \o << <<"event", a>>, <<"read", a>> >>
        /\ alHist'.answered = alHist.answered
        /\ alDisk'.rows = alDisk.rows
        /\ alDisk'.ids = al.stored \cup {a} \/ alDisk'.ids = alDisk.ids
    BY <1>0, <1>1 DEF StoreAlert, HistoryThread, Disk
  <1>5. PICK q \in Seq(Requests) : q = alHist.queue
    BY <1>0 DEF HistoryThread
  <1>6. PICK r : r = alHist'.queue
    OBVIOUS
  <1>7. PICK n \in Nat : n = Len(q)
    OBVIOUS
  <1>8. /\ DOMAIN q = 1..n /\ DOMAIN r = 1..(n + 2)
        /\ \A i \in 1..n : r[i] = q[i]
        /\ r[n + 1] = <<"event", a>> /\ r[n + 2] = <<"read", a>>
    BY <1>4, <1>5, <1>6, <1>7
  <1>9. \A i \in 1..n : q[i] \in Requests /\ q[i][2] \in al.stored /\ q[i] # <<"event", a>>
    BY <1>0, <1>5, <1>8 DEF QueuedOnce, Requests
  <1>10. \A b : Recorded(b)' = Recorded(b)
    BY <1>4 DEF Recorded
  <1>11. \A b : EventQueued(b)' <=> EventQueued(b) \/ b = a
    <2>1. \A b : EventQueued(b) <=> \E i \in 1..n : q[i] = <<"event", b>>
      BY <1>5, <1>8 DEF EventQueued
    <2>2. \A b : EventQueued(b)' <=> \E i \in 1..(n + 2) : r[i] = <<"event", b>>
      BY <1>6, <1>8 DEF EventQueued
    <2>3. \A i \in 1..(n + 2) : i \in 1..n \/ i = n + 1 \/ i = n + 2
      BY <1>7
    <2>4. 1..n \subseteq 1..(n + 2) /\ n + 1 \in 1..(n + 2)
      BY <1>7
    <2>5. \A b : r[n + 1] = <<"event", b>> <=> b = a
      BY <1>8
    <2>6. \A b : r[n + 2] # <<"event", b>>
      BY <1>8
    <2>7. \A b : (\E i \in 1..(n + 2) : r[i] = <<"event", b>>)
                   <=> (\E i \in 1..n : q[i] = <<"event", b>>) \/ b = a
      <3>1. \A b : \A i \in 1..n : r[i] = <<"event", b>> <=> q[i] = <<"event", b>>
        BY <1>8
      <3> QED BY <3>1, <2>3, <2>4, <2>5, <2>6, Zenon
    <2> QED BY <2>1, <2>2, <2>7
  <1>12. QueuedOnce'
    <2>1. \A i, j \in 1..(n + 2) : r[i][1] = "event" /\ r[i] = r[j] => i = j
      <3> SUFFICES ASSUME NEW i \in 1..(n + 2), NEW j \in 1..(n + 2),
                          r[i][1] = "event", r[i] = r[j]
                   PROVE  i = j
        OBVIOUS
      <3>1. i # n + 2 /\ j # n + 2
        BY <1>8
      <3>2. i = n + 1 => j = n + 1
        BY <1>8, <1>9, <3>1, <1>7
      <3>3. j = n + 1 => i = n + 1
        BY <1>8, <1>9, <3>1, <1>7
      <3>4. CASE i # n + 1 /\ j # n + 1
        <4>1. i \in 1..n /\ j \in 1..n
          BY <1>7, <3>1, <3>4
        <4> QED BY <4>1, <1>0, <1>5, <1>8 DEF QueuedOnce
      <3> QED BY <3>2, <3>3, <3>4
    <2>2. \A i \in 1..(n + 2) : r[i][2] \in al.stored \cup {a}
      BY <1>7, <1>8, <1>9
    <2>3. \A b \in Alerts \ alLog'.forgotten :
            /\ alDisk'.rows[b] <= 1
            /\ (b \notin al'.stored \/ EventQueued(b)') => alDisk'.rows[b] = 0
      BY <1>0, <1>3, <1>4, <1>11 DEF QueuedOnce
    <2> QED BY <1>3, <1>6, <1>8, <2>1, <2>2, <2>3 DEF QueuedOnce
  <1>13. AcksFollowRecords'
    <2>1. alDisk'.ids \subseteq al'.stored /\ al'.storing \subseteq al'.stored
      BY <1>0, <1>3, <1>4 DEF AcksFollowRecords
    <2>2. \A b \in al'.stored : Recorded(b)' \/ (b \in al'.storing /\ EventQueued(b)')
      BY <1>0, <1>3, <1>10, <1>11 DEF AcksFollowRecords
    <2>3. \A b \in alHist'.answered \cup (alDaemon'.raised \ alDaemon'.pending) : Recorded(b)'
      BY <1>0, <1>4, <1>10 DEF AcksFollowRecords
    <2>4. ASSUME NEW i \in 1..(n + 2), r[i][1] = "read"
          PROVE  \/ Recorded(r[i][2])
                 \/ \E j \in 1..(n + 2) : j < i /\ r[j] = <<"event", r[i][2]>>
      <3>1. CASE i \in 1..n
        <4>1. q[i][1] = "read" =>
                \/ Recorded(q[i][2])
                \/ \E j \in 1..n : j < i /\ q[j] = <<"event", q[i][2]>>
          BY <1>0, <1>5, <1>8, <3>1 DEF AcksFollowRecords
        <4>2. 1..n \subseteq 1..(n + 2)
          BY <1>7
        <4> QED BY <1>8, <2>4, <3>1, <4>1, <4>2
      <3>2. CASE i = n + 1
        BY <1>8, <2>4, <3>2
      <3>3. CASE i = n + 2
        <4>1. n + 1 \in 1..(n + 2) /\ n + 1 < n + 2
          BY <1>7
        <4> QED BY <1>8, <3>3, <4>1
      <3> QED BY <1>7, <3>1, <3>2, <3>3
    <2>5. \A b \in Alerts :
            al'.acking[b] # "no" \/ al'.series[<<"ack", b>>].left # NoTimer => Recorded(b)'
      BY <1>0, <1>3, <1>10 DEF AcksFollowRecords
    <2>6. \A i \in DOMAIN alHist'.queue :
            alHist'.queue[i][1] = "read" =>
              \/ Recorded(alHist'.queue[i][2])
              \/ \E j \in DOMAIN alHist'.queue :
                   j < i /\ alHist'.queue[j] = <<"event", alHist'.queue[i][2]>>
      BY <1>6, <1>8, <2>4
    <2>7. \A b : Recorded(b) => Recorded(b)'
      BY <1>10
    <2> HIDE DEF s
    <2> QED BY <2>1, <2>2, <2>3, <2>5, <2>6, <1>4 DEF AcksFollowRecords, Recorded
  <1> QED BY <1>12, <1>13
\* The thread takes the head of its queue: after that its alert is recorded
LEMMA ThreadKeepsQueue ==
  ASSUME AlertInv, HistoryRuns PROVE AcksFollowRecords' /\ QueuedOnce'
  <1>0. /\ al \in Server /\ alHist \in HistoryThread /\ alDisk \in Disk /\ alLog \in Log
        /\ AcksFollowRecords /\ QueuedOnce
    BY DEF AlertInv, AlertState
  <1>1. PICK q \in Seq(Requests) : q = alHist.queue
    BY <1>0 DEF HistoryThread
  <1>2. q # <<>> /\ Tail(q) \in Seq(Requests)
    BY <1>1 DEF HistoryRuns
  <1>3. PICK n \in Nat : n = Len(q) - 1
    BY <1>2
  <1>4. PICK r \in Seq(Requests) : r = Tail(q)
    BY <1>2
  <1>5. /\ DOMAIN q = 1..(n + 1) /\ DOMAIN r = 1..n /\ \A i \in 1..n : r[i] = q[i + 1]
        /\ 1 \in 1..(n + 1)
    BY <1>2, <1>3, <1>4
  <1>6. Head(q) = q[1] /\ q[1] \in Requests
    BY <1>2, <1>5
  <1>7. PICK a \in Alerts : a = q[1][2]
    BY <1>6 DEF Requests
  <1>8. q[1] = <<"event", a>> \/ q[1] = <<"read", a>>
    BY <1>6, <1>7 DEF Requests
  <1>a. \/ /\ q[1][1] = "event"
           /\ alHist' = [alHist EXCEPT !.queue = Tail(@)]
           /\ \/ /\ alDisk' = [alDisk EXCEPT !.rows[a] = @ + 1]
                 /\ alLog' = alLog
              \/ /\ alLog' = [alLog EXCEPT !.lost = @ \cup {a}]
                 /\ alDisk' = alDisk
        \/ /\ q[1][1] = "read"
           /\ alHist' = [queue |-> Tail(alHist.queue), answered |-> alHist.answered \cup {a}]
           /\ alDisk' = alDisk /\ alLog' = alLog
    <2>1. /\ Head(alHist.queue)[1] = q[1][1]
          /\ Head(alHist.queue)[2] = a
      BY <1>1, <1>6, <1>7
    <2> QED BY <1>8, <2>1 DEF HistoryRuns
  <1>9. /\ al' = al /\ alDaemon' = alDaemon /\ alHist'.queue = r
        /\ alDisk'.ids = alDisk.ids /\ alLog'.forgotten = alLog.forgotten
        /\ alHist'.answered \subseteq alHist.answered \cup {a}
        /\ alLog.lost \subseteq alLog'.lost
    <2>1. UNCHANGED <<al, alDaemon>>
      BY DEF HistoryRuns
    <2>2. /\ alHist'.queue = r
          /\ alHist'.answered \in {alHist.answered, alHist.answered \cup {a}}
      BY <1>0, <1>a, <1>1, <1>4 DEF HistoryThread
    <2>3. alDisk'.ids = alDisk.ids
      BY <1>0, <1>a DEF Disk
    <2>4. /\ alLog'.forgotten = alLog.forgotten
          /\ alLog'.lost \in {alLog.lost, alLog.lost \cup {a}}
      BY <1>0, <1>a DEF Log
    <2> QED BY <2>1, <2>2, <2>3, <2>4
  <1>10. /\ q[1][1] = "event" =>
              \/ alDisk'.rows = [alDisk.rows EXCEPT ![a] = @ + 1]
              \/ alDisk'.rows = alDisk.rows /\ a \in alLog'.lost
         /\ q[1][1] = "read" => alDisk'.rows = alDisk.rows
    <2>1. \A x : alDisk' = [alDisk EXCEPT !.rows[a] = x]
                 => alDisk'.rows = [alDisk.rows EXCEPT ![a] = x]
      BY <1>0 DEF Disk
    <2>2. alLog' = [alLog EXCEPT !.lost = @ \cup {a}] => a \in alLog'.lost
      BY <1>0 DEF Log
    <2>3. "event" # "read"
      OBVIOUS
    <2> QED BY <1>a, <2>1, <2>2, <2>3
  <1>11. \A b \in Alerts : alDisk.rows[b] \in Nat
    BY <1>0 DEF Disk
  <1>12. \A b \in Alerts : Recorded(b) => Recorded(b)'
    BY <1>0, <1>8, <1>9, <1>10, <1>11 DEF Recorded, Disk
  <1>13. Recorded(a)'
    <2>1. CASE q[1] = <<"event", a>>
      BY <1>0, <1>10, <1>11, <2>1 DEF Recorded, Disk
    <2>2. CASE q[1] = <<"read", a>>
      <3>1. ~ \E j \in 1..(n + 1) : j < 1
        OBVIOUS
      <3>2. Recorded(a)
        BY <1>0, <1>1, <1>5, <2>2, <3>1 DEF AcksFollowRecords
      <3> QED BY <1>12, <3>2
    <2> QED BY <1>8, <2>1, <2>2
  <1>14. \A i \in 1..n : i + 1 \in 1..(n + 1) /\ i + 1 # 1
    BY <1>3
  <1>15. \A j \in 1..(n + 1) : j # 1 => j - 1 \in 1..n /\ r[j - 1] = q[j]
    <2>1. \A j \in 1..(n + 1) : j # 1 => j - 1 \in 1..n /\ (j - 1) + 1 = j
      BY <1>3
    <2> QED BY <1>5, <2>1
  <1>16. /\ \A b : EventQueued(b) <=> \E i \in 1..(n + 1) : q[i] = <<"event", b>>
         /\ \A b : EventQueued(b)' <=> \E i \in 1..n : r[i] = <<"event", b>>
    BY <1>1, <1>5, <1>9 DEF EventQueued
  <1>17. \A b : EventQueued(b)' => EventQueued(b)
    BY <1>5, <1>14, <1>16
  <1>18. ASSUME NEW b, EventQueued(b), ~EventQueued(b)' PROVE q[1] = <<"event", b>>
    BY <1>15, <1>16, <1>18
  <1>19. AcksFollowRecords'
    <2>1. \A b \in al.stored : Recorded(b)' \/ (b \in al.storing /\ EventQueued(b)')
      <3> SUFFICES ASSUME NEW b \in al.stored, ~Recorded(b)'
                   PROVE  b \in al.storing /\ EventQueued(b)'
        OBVIOUS
      <3>1. b \in Alerts /\ b # a
        BY <1>0, <1>13 DEF Server
      <3>2. b \in al.storing /\ EventQueued(b)
        BY <1>0, <1>12, <3>1 DEF AcksFollowRecords
      <3>3. q[1] # <<"event", b>>
        BY <1>8, <3>1
      <3> QED BY <1>18, <3>2, <3>3
    <2>2. \A b \in alHist'.answered \cup (alDaemon'.raised \ alDaemon'.pending) : Recorded(b)'
      <3>1. alHist.answered \subseteq Alerts /\ alDaemon.raised \subseteq Alerts
        BY DEF AlertInv, AlertState, HistoryThread, Daemon
      <3> QED BY <1>0, <1>9, <1>12, <1>13, <3>1 DEF AcksFollowRecords
    <2>3. ASSUME NEW i \in 1..n, r[i][1] = "read", ~Recorded(r[i][2])'
          PROVE  \E j \in 1..n : j < i /\ r[j] = <<"event", r[i][2]>>
      <3>1. PICK m \in 1..(n + 1) : m = i + 1 /\ m # 1 /\ q[m] = r[i]
        BY <1>5, <1>14
      <3>2. PICK b \in Alerts : b = r[i][2]
        BY <1>5 DEF Requests
      <3>3. b # a /\ ~Recorded(b)
        BY <1>12, <1>13, <2>3, <3>2
      <3>4. PICK j \in 1..(n + 1) : j < m /\ q[j] = <<"event", b>>
        <4>1. q[m][1] = "read" =>
                \/ Recorded(q[m][2])
                \/ \E j \in 1..(n + 1) : j < m /\ q[j] = <<"event", q[m][2]>>
          BY <1>0, <1>1, <1>5 DEF AcksFollowRecords
        <4> QED BY <2>3, <3>1, <3>2, <3>3, <4>1
      <3>5. j # 1
        BY <1>8, <3>3, <3>4
      <3>6. j - 1 \in 1..n /\ r[j - 1] = q[j] /\ j - 1 < i
        BY <1>15, <3>1, <3>4, <3>5
      <3> QED BY <3>2, <3>4, <3>6
    <2>4. /\ alDisk'.ids \subseteq al'.stored /\ al'.storing \subseteq al'.stored
          /\ \A b \in Alerts :
               al'.acking[b] # "no" \/ al'.series[<<"ack", b>>].left # NoTimer => Recorded(b)'
      BY <1>0, <1>9, <1>12 DEF AcksFollowRecords
    <2> QED BY <1>5, <1>9, <2>1, <2>2, <2>3, <2>4 DEF AcksFollowRecords, Recorded
  <1>20. QueuedOnce'
    <2>1. \A i, j \in 1..n : r[i][1] = "event" /\ r[i] = r[j] => i = j
      <3>1. \A i, j \in 1..(n + 1) : q[i][1] = "event" /\ q[i] = q[j] => i = j
        BY <1>0, <1>1, <1>5 DEF QueuedOnce
      <3> SUFFICES ASSUME NEW i \in 1..n, NEW j \in 1..n, r[i][1] = "event", r[i] = r[j]
                   PROVE  i = j
        OBVIOUS
      <3>2. i + 1 = j + 1
        BY <1>5, <1>14, <3>1
      <3> QED BY <3>2
    <2>2. \A i \in 1..n : r[i][2] \in al.stored
      BY <1>0, <1>1, <1>5, <1>14 DEF QueuedOnce
    <2>3. ASSUME NEW b \in Alerts \ alLog'.forgotten
          PROVE  /\ alDisk'.rows[b] <= 1
                 /\ (b \notin al'.stored \/ EventQueued(b)') => alDisk'.rows[b] = 0
      <3>1. /\ alDisk.rows[b] <= 1
            /\ b \notin al.stored \/ EventQueued(b) => alDisk.rows[b] = 0
        BY <1>0, <1>9 DEF QueuedOnce
      <3>2. CASE alDisk'.rows[b] = alDisk.rows[b]
        BY <1>9, <1>17, <3>1, <3>2
      <3>3. CASE alDisk'.rows[b] # alDisk.rows[b]
        <4>1. q[1] = <<"event", a>> /\ b = a
          BY <1>8, <1>10, <3>3, <1>0 DEF Disk
        <4>2. EventQueued(a)
          BY <1>5, <1>16, <4>1
        <4>3. alDisk.rows[a] = 0 /\ alDisk'.rows[a] = 1
          <5>1. EventQueued(b) /\ q[1][1] = "event"
            BY <4>1, <4>2
          <5>2. alDisk.rows[a] = 0
            BY <3>1, <4>1, <5>1
          <5>3. alDisk'.rows = [alDisk.rows EXCEPT ![a] = @ + 1]
            BY <1>10, <3>3, <4>1, <5>1
          <5>4. alDisk.rows \in [Alerts -> Nat]
            BY <1>0 DEF Disk
          <5> QED BY <5>2, <5>3, <5>4
        <4>4. \A i \in 1..n : r[i] # <<"event", a>>
          <5>1. \A i, j \in 1..(n + 1) : q[i][1] = "event" /\ q[i] = q[j] => i = j
            BY <1>0, <1>1, <1>5 DEF QueuedOnce
          <5>2. q[1][1] = "event"
            BY <4>1
          <5>3. ASSUME NEW i \in 1..n, r[i] = <<"event", a>> PROVE FALSE
            <6>1. i + 1 \in 1..(n + 1) /\ i + 1 # 1 /\ q[i + 1] = r[i] /\ 1 \in 1..(n + 1)
              BY <1>5, <1>14
            <6>2. q[1] = q[i + 1]
              BY <4>1, <5>3, <6>1
            <6> QED BY <5>1, <5>2, <6>1, <6>2
          <5> QED BY <5>3
        <4>5. ~EventQueued(a)'
          BY <1>16, <4>4
        <4>6. a \in al.stored
          BY <1>0, <1>1, <1>5, <1>7 DEF QueuedOnce
        <4> QED BY <1>9, <4>1, <4>3, <4>5, <4>6
      <3> QED BY <3>2, <3>3
    <2> QED BY <1>5, <1>9, <2>1, <2>2, <2>3 DEF QueuedOnce
  <1> QED BY <1>19, <1>20

\* What was queued is lost; an id that was not saved is forgotten
LEMMA RestartKeepsQueue ==
  ASSUME AlertInv, ServerRestarts PROVE AcksFollowRecords' /\ QueuedOnce'
  <1>0. /\ al \in Server /\ alHist \in HistoryThread /\ alDisk \in Disk /\ alLog \in Log
        /\ alDaemon \in Daemon /\ AcksFollowRecords /\ QueuedOnce
    BY DEF AlertInv, AlertState
  <1>1. /\ al'.stored = alDisk.ids /\ al'.storing = {}
        /\ \A a \in Alerts : al'.acking[a] = "no" /\ al'.series[<<"ack", a>>].left = NoTimer
    BY DEF ServerRestarts, Started, NoSeries, Kinds
  <1>2. /\ alHist'.queue = <<>> /\ alHist'.answered = {} /\ alDisk' = alDisk
        /\ alDaemon'.raised = alDaemon.raised /\ alDaemon'.pending = alDaemon.pending
        /\ DOMAIN alHist'.queue = {}
    BY <1>0 DEF ServerRestarts, Daemon
  <1>3. /\ alLog'.forgotten = alLog.forgotten \cup (al.stored \ alDisk.ids)
        /\ alLog.lost \subseteq alLog'.lost
        /\ \A a \in Alerts : EventQueued(a) => a \in alLog'.lost
    <2>1. alLog'.lost = alLog.lost \cup {a \in Alerts : <<"event", a>> \in
                          {alHist.queue[i] : i \in DOMAIN alHist.queue}}
      BY <1>0 DEF ServerRestarts, Log
    <2> QED BY <1>0, <2>1 DEF ServerRestarts, Log, EventQueued
  <1>4. \A a \in Alerts : Recorded(a) => Recorded(a)'
    BY <1>2, <1>3 DEF Recorded
  <1>5. \A a \in Alerts : ~EventQueued(a)'
    BY <1>2 DEF EventQueued
  <1>6. AcksFollowRecords'
    <2>1. \A a \in al'.stored : Recorded(a)'
      <3>1. \A a \in al.stored : Recorded(a) \/ EventQueued(a)
        BY <1>0 DEF AcksFollowRecords
      <3>2. al'.stored \subseteq al.stored /\ al.stored \subseteq Alerts
        BY <1>0, <1>1 DEF AcksFollowRecords, Server
      <3>3. \A a \in Alerts : EventQueued(a) => Recorded(a)'
        BY <1>3 DEF Recorded
      <3> QED BY <1>4, <3>1, <3>2, <3>3
    <2>2. \A a \in alDaemon'.raised \ alDaemon'.pending : Recorded(a)'
      <3>1. alDaemon.raised \subseteq Alerts
        BY <1>0 DEF Daemon
      <3> QED BY <1>0, <1>2, <1>4, <3>1 DEF AcksFollowRecords
    <2> QED BY <1>1, <1>2, <2>1, <2>2 DEF AcksFollowRecords
  <1>7. QueuedOnce'
    BY <1>0, <1>1, <1>2, <1>3, <1>5 DEF QueuedOnce
  <1> QED BY <1>6, <1>7
LEMMA QueueStep ==
  ASSUME AlertInv, AlertNext PROVE AcksFollowRecords' /\ QueuedOnce'
  <1>0. /\ al \in Server /\ alHist \in HistoryThread /\ alDisk \in Disk /\ alLog \in Log
        /\ alDaemon \in Daemon /\ AlertState /\ AcksFollowRecords /\ QueuedOnce
    BY DEF AlertInv, AlertState
  <1>1. /\ \A b \in alDaemon.raised \ alDaemon.pending : Recorded(b)
        /\ \A b \in Alerts :
             al.acking[b] # "no" \/ al.series[<<"ack", b>>].left # NoTimer => Recorded(b)
        /\ \A b \in alHist.answered : Recorded(b)
        /\ \A b \in al.stored : b \notin al.storing => Recorded(b)
    BY <1>0 DEF AcksFollowRecords
  <1>2. "ack" \in Kinds /\ "push" \in Kinds
    BY DEF Kinds
  <1>3. ASSUME al'.stored = al.stored, al'.storing = al.storing, UNCHANGED <<alHist, alDisk>>,
               alLog'.lost = alLog.lost, alLog'.forgotten = alLog.forgotten,
               UNCHANGED alDaemon,
               \A b \in Alerts :
                 al'.acking[b] # "no" \/ al'.series[<<"ack", b>>].left # NoTimer => Recorded(b)
        PROVE  AcksFollowRecords' /\ QueuedOnce'
    BY <1>0, <1>1, <1>3, QueueFrame
  <1>4. ASSUME NEW a \in Alerts, AlertComes(a) PROVE AcksFollowRecords' /\ QueuedOnce'
    <2>1. /\ alDaemon'.raised = alDaemon.raised /\ alDaemon'.pending = alDaemon.pending
          /\ alLog'.lost = alLog.lost /\ alLog'.forgotten = alLog.forgotten
      BY <1>0, <1>4 DEF AlertComes, Daemon, Log
    <2>2. ProcessAlert(a)
      BY <1>4 DEF AlertComes
    <2>3. CASE a \in al.storing
      <3>1. UNCHANGED <<al, alHist, alDisk>>
        BY <1>0, <2>2, <2>3 DEF ProcessAlert, AcksFollowRecords
      <3> QED BY <1>0, <1>1, <2>1, <3>1, QueueFrame
    <2>4. CASE a \notin al.storing /\ a \in al.stored
      <3>1. al' = Ack(al, a) /\ UNCHANGED <<alHist, alDisk>>
        BY <2>2, <2>4 DEF ProcessAlert
      <3>2. \A b \in Alerts :
              al'.acking[b] # "no" \/ al'.series[<<"ack", b>>].left # NoTimer => Recorded(b)
        BY <1>0, <1>1, <2>4, <3>1, HelpersKeep
      <3>3. al'.stored = al.stored /\ al'.storing = al.storing
        BY <1>0, <3>1, HelpersKeep
      <3> QED BY <1>0, <1>1, <2>1, <3>1, <3>2, <3>3, QueueFrame
    <2>5. CASE a \notin al.storing /\ a \notin al.stored
      BY <2>1, <2>2, <2>5, StoreKeepsQueue DEF ProcessAlert
    <2> QED BY <2>3, <2>4, <2>5
  <1>5. ASSUME NEW a \in Alerts, Stored(a) PROVE AcksFollowRecords' /\ QueuedOnce'
    <2>1. PICK s \in Server : /\ s = [al EXCEPT !.storing = @ \ {a}]
                              /\ s.stored = al.stored /\ s.storing = al.storing \ {a}
                              /\ s.acking = al.acking /\ s.series = al.series
      <3>1. al.storing \ {a} \in SUBSET Alerts
        BY <1>0 DEF Server
      <3> QED BY <1>0, <3>1, StoringSet
    <2>2. al' = Ack(s, a) /\ UNCHANGED <<alDisk, alDaemon, alLog>> /\ Recorded(a)
      BY <1>1, <1>5, <2>1 DEF Stored
    <2>3. alHist'.queue = alHist.queue /\ alHist'.answered \subseteq alHist.answered
      BY <1>0, <1>5 DEF Stored, HistoryThread
    <2>4. \A b \in Alerts :
            al'.acking[b] # "no" \/ al'.series[<<"ack", b>>].left # NoTimer => Recorded(b)
      <3>1. \A b \in Alerts : al'.acking[b] # "no" => s.acking[b] # "no" \/ b = a
        BY <2>2, HelpersKeep
      <3>2. al'.series = s.series
        BY <2>2, HelpersKeep
      <3> QED BY <1>1, <2>1, <2>2, <3>1, <3>2
    <2>5. al'.stored = al.stored /\ al'.storing = al.storing \ {a}
      BY <2>1, <2>2, HelpersKeep
    <2>6. \A b \in al.storing \ al'.storing : Recorded(b)
      BY <2>2, <2>5
    <2> QED BY <1>0, <1>1, <2>2, <2>3, <2>4, <2>5, <2>6, QueueFrame
  <1>6. ASSUME NEW a \in Alerts, DaemonTakes(a) PROVE AcksFollowRecords' /\ QueuedOnce'
    <2>1. /\ al'.stored = al.stored /\ al'.storing = al.storing /\ al'.series = al.series
          /\ al'.acking = [al.acking EXCEPT ![a] = "taken"] /\ al.acking[a] = "asked"
      BY <1>0, <1>6 DEF DaemonTakes, Server
    <2>2. UNCHANGED <<alHist, alDisk, alLog>>
      BY <1>6 DEF DaemonTakes
    <2>3. Recorded(a)
      BY <1>1, <2>1
    <2>4. \A b \in alDaemon'.raised \ alDaemon'.pending : Recorded(b)
      BY <1>0, <1>1, <1>6, <2>3 DEF DaemonTakes, Daemon
    <2>5. \A b \in Alerts :
            al'.acking[b] # "no" \/ al'.series[<<"ack", b>>].left # NoTimer => Recorded(b)
      BY <1>0, <1>1, <2>1, <2>3 DEF Server
    <2> QED BY <1>0, <2>1, <2>2, <2>4, <2>5, QueueFrame
  <1>7. ASSUME NEW a \in Alerts, AckAnswered(a) \/ AckFails(a)
        PROVE  AcksFollowRecords' /\ QueuedOnce'
    <2>1. PICK s \in Server : /\ s = [al EXCEPT !.acking[a] = "no"]
                              /\ s.stored = al.stored /\ s.storing = al.storing
                              /\ s.acking = [al.acking EXCEPT ![a] = "no"]
                              /\ s.series = al.series
      <3>1. "no" \in {"no", "taken"} /\ al \in Server
        BY <1>0
      <3>2. \E t \in Server :
              /\ t = [al EXCEPT !.acking[a] = "no"]
              /\ t.acking = [al.acking EXCEPT ![a] = "no"]
              /\ t.stored = al.stored /\ t.storing = al.storing /\ t.series = al.series
              /\ t.stamp = al.stamp /\ t.pushing = al.pushing
        BY <3>1, AckingSet, Zenon
      <3> QED BY <3>2, Zenon
    <2>2. /\ ChangesOneSeries(s, al', "ack", a)
          /\ UNCHANGED <<alHist, alDisk, alDaemon>> /\ al.acking[a] # "no"
      <3>1. /\ ChangesOneSeries(s, ScheduleRetry(s, "ack", a), "ack", a)
            /\ ChangesOneSeries(s, ForgetRetry(s, "ack", a), "ack", a)
        BY <1>2, SeriesChange
      <3>2. al' = ScheduleRetry(s, "ack", a) \/ al' = ForgetRetry(s, "ack", a)
        BY <1>7, <2>1 DEF AckAnswered, AckFails
      <3>3. UNCHANGED <<alHist, alDisk, alDaemon>> /\ al.acking[a] # "no"
        BY <1>7 DEF AckAnswered, AckFails
      <3> QED BY <3>1, <3>2, <3>3
    <2>3. alLog'.lost = alLog.lost /\ alLog'.forgotten = alLog.forgotten
      BY <1>0, <1>7 DEF AckAnswered, AckFails, Log
    <2>4. /\ al'.stored = al.stored /\ al'.storing = al.storing /\ al'.acking = s.acking
          /\ \A b \in Alerts : b # a => al'.series[<<"ack", b>>] = al.series[<<"ack", b>>]
      <3>1. \A b \in Alerts : <<"ack", b>> \in Kinds \X Alerts /\ (b # a => <<"ack", b>> # <<"ack", a>>)
        BY <1>2
      <3> QED BY <2>1, <2>2, <3>1 DEF ChangesOneSeries
    <2>5. Recorded(a)
      BY <1>1, <2>2
    <2>6. \A b \in Alerts :
            al'.acking[b] # "no" \/ al'.series[<<"ack", b>>].left # NoTimer => Recorded(b)
      <3>1. \A b \in Alerts : b # a => s.acking[b] = al.acking[b]
        BY <1>0, <2>1 DEF Server
      <3> QED BY <1>1, <2>4, <2>5, <3>1
    <2> QED BY <1>3, <2>2, <2>3, <2>4, <2>6
  <1>8. ASSUME NEW a \in Alerts, PushSent(a) \/ PushFails(a)
        PROVE  AcksFollowRecords' /\ QueuedOnce'
    <2>1. UNCHANGED <<alHist, alDisk, alDaemon>> /\ alLog'.lost = alLog.lost
            /\ alLog'.forgotten = alLog.forgotten
      BY <1>0, <1>8 DEF PushSent, PushFails, Log
    <2>2. \A x \in Kinds \X Alerts : x[1] = "ack" => x # <<"push", a>>
      OBVIOUS
    <2>3. /\ al'.stored = al.stored /\ al'.storing = al.storing /\ al'.acking = al.acking
          /\ \A b \in Alerts : al'.series[<<"ack", b>>] = al.series[<<"ack", b>>]
      <3>1. CASE PushSent(a)
        <4>1. PICK t : t = ForgetRetry(al, "push", a) /\ t \in Server
          BY <1>0, <1>2, HelpersAreTyped
        <4>2. al' = [t EXCEPT !.pushing[a] = NoPush]
          BY <3>1, <4>1 DEF PushSent
        <4>3. al'.stored = t.stored /\ al'.storing = t.storing /\ al'.acking = t.acking /\ al'.series = t.series
          BY <4>1, <4>2, PushingSet
        <4>4. /\ t.stored = al.stored /\ t.storing = al.storing /\ t.acking = al.acking
              /\ \A x \in Kinds \X Alerts : x # <<"push", a>> => t.series[x] = al.series[x]
          <5>1. ChangesOneSeries(al, ForgetRetry(al, "push", a), "push", a)
            BY <1>0, <1>2, SeriesChange
          <5> QED BY <4>1, <5>1 DEF ChangesOneSeries
        <4> QED BY <1>2, <4>3, <4>4
      <3>2. CASE PushFails(a)
        <4>1. PICK u \in Server : u = RestoreStamp(al, a)
          BY <1>0, HelpersAreTyped
        <4>2. PICK t \in Server : /\ t = [u EXCEPT !.pushing[a] = NoPush]
                                  /\ t.stored = u.stored /\ t.storing = u.storing
                                  /\ t.acking = u.acking /\ t.series = u.series
          BY PushingSet
        <4>3. al' = ScheduleRetry(t, "push", a)
          BY <3>2, <4>1, <4>2 DEF PushFails
        <4>4. /\ al'.stored = t.stored /\ al'.storing = t.storing /\ al'.acking = t.acking
              /\ \A x \in Kinds \X Alerts : x # <<"push", a>> => al'.series[x] = t.series[x]
          <5>1. ChangesOneSeries(t, ScheduleRetry(t, "push", a), "push", a)
            BY <1>2, SeriesChange
          <5> QED BY <4>3, <5>1 DEF ChangesOneSeries
        <4>5. /\ u.stored = al.stored /\ u.storing = al.storing /\ u.acking = al.acking
              /\ u.series = al.series
          BY <1>0, <4>1, HelpersKeep
        <4> QED BY <1>2, <4>2, <4>4, <4>5
      <3> QED BY <1>8, <3>1, <3>2
    <2> QED BY <1>1, <1>3, <2>1, <2>3
  <1>9. ASSUME NEW kind \in Kinds, NEW a \in Alerts, RetryNow(kind, a)
        PROVE  AcksFollowRecords' /\ QueuedOnce'
    <2>0. <<kind, a>> \in Kinds \X Alerts /\ NoTimer \in Int /\ 0 # NoTimer
      BY DEF NoTimer
    <2>1. PICK s \in Server : /\ s = [al EXCEPT !.series[<<kind, a>>].left = NoTimer]
                              /\ s.stored = al.stored /\ s.storing = al.storing
                              /\ s.acking = al.acking
                              /\ s.series[<<kind, a>>].left = NoTimer
                              /\ \A x \in Kinds \X Alerts :
                                   x # <<kind, a>> => s.series[x] = al.series[x]
      <3>1. \A x \in Series : [x EXCEPT !.left = NoTimer] \in Series
        BY <2>0 DEF Series
      <3>2. al.series \in [Kinds \X Alerts -> Series]
        BY <1>0 DEF Server
      <3>3. [al EXCEPT !.series[<<kind, a>>].left = NoTimer] \in Server
        BY <1>0, <2>0, <3>1 DEF Server
      <3>4. al.series[<<kind, a>>] \in Series
        BY <2>0, <3>2
      <3> QED BY <1>0, <2>0, <3>3, <3>4 DEF Server, Series
    <2>2. \A b \in Alerts : s.series[<<"ack", b>>].left # NoTimer => Recorded(b)
      <3>1. \A b \in Alerts : <<"ack", b>> \in Kinds \X Alerts
        BY <1>2
      <3> QED BY <1>1, <2>1, <3>1
    <2>3. UNCHANGED <<alHist, alDisk, alDaemon, alLog>>
      BY <1>9 DEF RetryNow
    <2>4. CASE kind = "push"
      <3>1. al' = PushAlert(s, a)
        BY <1>9, <2>1, <2>4 DEF RetryNow
      <3>2. /\ al'.stored = al.stored /\ al'.storing = al.storing /\ al'.acking = al.acking
            /\ \A b \in Alerts : al'.series[<<"ack", b>>] = s.series[<<"ack", b>>]
        BY <2>1, <3>1, HelpersKeep
      <3> QED BY <1>1, <1>3, <2>2, <2>3, <3>2
    <2>5. CASE kind = "ack"
      <3>1. al' = Ack(s, a)
        BY <1>9, <2>1, <2>5 DEF RetryNow
      <3>2. Recorded(a)
        BY <1>1, <1>9, <2>0, <2>5 DEF RetryNow
      <3>3. /\ al'.stored = al.stored /\ al'.storing = al.storing /\ al'.series = s.series
            /\ \A b \in Alerts : al'.acking[b] # "no" => al.acking[b] # "no" \/ b = a
        <4>1. /\ al'.stored = s.stored /\ al'.storing = s.storing /\ al'.series = s.series
              /\ \A b \in Alerts : al'.acking[b] # "no" => s.acking[b] # "no" \/ b = a
          BY <3>1, HelpersKeep
        <4> QED BY <2>1, <4>1
      <3> QED BY <1>1, <1>3, <2>2, <2>3, <3>2, <3>3
    <2> QED BY <2>4, <2>5 DEF Kinds
  <1>10. ASSUME NEW a \in Alerts, AlertRaised(a) PROVE AcksFollowRecords' /\ QueuedOnce'
    <2>1. \A b \in alDaemon'.raised \ alDaemon'.pending : Recorded(b)
      BY <1>0, <1>1, <1>10 DEF AlertRaised, Daemon
    <2> QED BY <1>0, <1>1, <1>10, <2>1, QueueFrame DEF AlertRaised
  <1>11. ASSUME StreamTurns PROVE AcksFollowRecords' /\ QueuedOnce'
    <2>1. \A b \in alDaemon'.raised \ alDaemon'.pending : Recorded(b)
      BY <1>0, <1>1, <1>11 DEF StreamTurns, Daemon
    <2> QED BY <1>0, <1>1, <1>11, <2>1, QueueFrame DEF StreamTurns
  <1>12. ASSUME AlertTick PROVE AcksFollowRecords' /\ QueuedOnce'
    <2>1. /\ al'.stored = al.stored /\ al'.storing = al.storing /\ al'.acking = al.acking
          /\ alLog'.lost = alLog.lost /\ alLog'.forgotten = alLog.forgotten
          /\ UNCHANGED <<alHist, alDisk, alDaemon>>
      BY <1>0, <1>12 DEF AlertTick, Server, Log
    <2>2. \A b \in Alerts : al'.series[<<"ack", b>>].left # NoTimer
                              => al.series[<<"ack", b>>].left # NoTimer
      <3>1. al'.series = [s \in Kinds \X Alerts |->
              IF al.series[s].left = NoTimer THEN al.series[s]
              ELSE [al.series[s] EXCEPT !.left = al.series[s].left - 1]]
        BY <1>0, <1>12 DEF AlertTick, Server
      <3> QED BY <1>2, <3>1
    <2> QED BY <1>1, <1>3, <2>1, <2>2
  <1> QED BY <1>4, <1>5, <1>6, <1>7, <1>8, <1>9, <1>10, <1>11, <1>12,
             ThreadKeepsQueue, RestartKeepsQueue DEF AlertNext, AlertCallback
-----------------------------------------------------------------------------

\* No push begins, ends or waits for another attempt
LEMMA PushFrame ==
  ASSUME PushedOnce, WindowsAreStamped,
         al'.stored = al.stored, al'.stamp = al.stamp, al'.pushing = al.pushing,
         \A a \in Alerts : al'.series[<<"push", a>>].left = al.series[<<"push", a>>].left,
         alLog'.pushed = alLog.pushed, alLog'.recent = alLog.recent,
         alLog'.forgotten = alLog.forgotten
  PROVE  PushedOnce' /\ WindowsAreStamped'
  <1>1. \A a \in Alerts : Pushing(a)' = Pushing(a) /\ Retrying(a)' = Retrying(a)
    BY DEF Pushing, Retrying
  <1>2. PushedOnce'
    BY <1>1 DEF PushedOnce
  <1>3. WindowsAreStamped'
    BY <1>1 DEF WindowsAreStamped
  <1> QED BY <1>2, <1>3

\* A push begins, or is left out within the window of another
LEMMA PushAlertKeeps ==
  ASSUME AlertInv, NEW s \in Server, NEW a \in Alerts,
         s.pushing = al.pushing, s.stamp = al.stamp,
         \A b \in Alerts : b # a => s.series[<<"push", b>>] = al.series[<<"push", b>>],
         s.series[<<"push", a>>].left = NoTimer,
         s.stored = al.stored \cup {a}, ~Pushing(a),
         a \notin alLog.forgotten => alLog.pushed[a] = 0,
         al' = PushAlert(s, a),
         alLog'.pushed = alLog.pushed, alLog'.recent = alLog.recent,
         alLog'.forgotten = alLog.forgotten
  PROVE  PushedOnce' /\ WindowsAreStamped'
  <1>0. /\ al \in Server /\ alLog \in Log /\ PushedOnce /\ WindowsAreStamped
        /\ PushInterval \in Nat /\ PushKey[a] \in PushKeys /\ "push" \in Kinds
        /\ \A b \in Alerts : <<"push", b>> \in Kinds \X Alerts /\ PushKey[b] \in PushKeys
    BY AlertsAssumption DEF AlertInv, AlertState, PushKeys, Kinds
  <1>1. PICK k \in PushKeys : k = PushKey[a]
    BY <1>0
  <1>2. \A b \in Alerts : alLog.pushed[b] \in Nat
    BY <1>0 DEF Log
  <1>3. CASE s.stamp[k].age < PushInterval
    <2>1. al' = ForgetRetry(s, "push", a)
      BY <1>1, <1>3 DEF PushAlert
    <2>2. ChangesOneSeries(s, al', "push", a) /\ al'.series[<<"push", a>>].left = NoTimer
      BY <1>0, <2>1, SeriesChange
    <2>3. /\ al'.stored = al.stored \cup {a} /\ al'.pushing = al.pushing /\ al'.stamp = al.stamp
          /\ \A b \in Alerts : b # a => al'.series[<<"push", b>>] = al.series[<<"push", b>>]
      BY <1>0, <2>2 DEF ChangesOneSeries
    <2>4. \A b \in Alerts : Pushing(b)' = Pushing(b)
      BY <2>3 DEF Pushing
    <2>5. ~Retrying(a)' /\ \A b \in Alerts : b # a => Retrying(b)' = Retrying(b)
      BY <2>2, <2>3 DEF Retrying
    <2>6. PushedOnce'
      BY <1>0, <2>3, <2>4, <2>5 DEF PushedOnce
    <2>7. WindowsAreStamped'
      BY <1>0, <2>3, <2>4 DEF WindowsAreStamped
    <2> QED BY <2>6, <2>7
  <1>4. CASE ~(s.stamp[k].age < PushInterval)
    <2>1. s.stamp[k].age = PushInterval /\ s.stamp \in [PushKeys -> Stamp]
      <3>1. s.stamp \in [PushKeys -> Stamp] /\ s.stamp[k] \in Stamp
        BY DEF Server
      <3>2. s.stamp[k].age \in Ages
        BY <3>1 DEF Stamp
      <3> QED BY <1>0, <1>4, <3>1, <3>2 DEF Ages
    <2>2. PICK p : p = [since |-> 0, previous |-> PushInterval, by |-> s.stamp[k].by]
      OBVIOUS
    <2>3. al' = [s EXCEPT !.stamp[k] = [age |-> 0, by |-> a], !.pushing[a] = p]
      BY <1>1, <1>4, <2>1, <2>2 DEF PushAlert
    <2>4. /\ al'.stored = al.stored \cup {a} /\ al'.series = s.series
          /\ al'.stamp = [al.stamp EXCEPT ![k] = [age |-> 0, by |-> a]]
          /\ al'.pushing = [al.pushing EXCEPT ![a] = p]
      BY <2>3 DEF Server
    <2>5. /\ al'.pushing[a] = p /\ p.since = 0 /\ p.previous = PushInterval
          /\ \A b \in Alerts : b # a => al'.pushing[b] = al.pushing[b]
          /\ al'.stamp[k] = [age |-> 0, by |-> a]
          /\ \A m \in PushKeys : m # k => al'.stamp[m] = al.stamp[m]
      BY <1>0, <2>2, <2>4 DEF Server
    <2>6. /\ ~Retrying(a)' /\ \A b \in Alerts : b # a => Retrying(b)' = Retrying(b)
          /\ \A b \in Alerts : b # a => Pushing(b)' = Pushing(b)
      BY <2>4, <2>5 DEF Retrying, Pushing
    <2>7. PushedOnce'
      BY <1>0, <1>2, <2>4, <2>6 DEF PushedOnce
    <2>8. \A b \in Alerts : Pushing(b) /\ al.pushing[b].since < PushInterval => PushKey[b] # k
      BY <1>0, <2>1 DEF WindowsAreStamped
    <2>9. alLog.recent[k] = {}
      <3>1. \A q \in alLog.recent[k] : q.age = PushInterval /\ q.age < PushInterval
        BY <1>0, <2>1 DEF WindowsAreStamped
      <3> QED BY <1>0, <3>1
    <2>10. \A b \in Alerts : Pushing(b)' =>
             /\ al'.pushing[b].previous = PushInterval
             /\ al'.pushing[b].since < PushInterval =>
                  /\ al'.stamp[PushKey[b]].age = al'.pushing[b].since
                  /\ al'.stamp[PushKey[b]].by = b
      <3> SUFFICES ASSUME NEW b \in Alerts, Pushing(b)'
                   PROVE  /\ al'.pushing[b].previous = PushInterval
                          /\ al'.pushing[b].since < PushInterval =>
                               /\ al'.stamp[PushKey[b]].age = al'.pushing[b].since
                               /\ al'.stamp[PushKey[b]].by = b
        OBVIOUS
      <3>1. CASE b = a
        BY <1>1, <2>5, <3>1
      <3>2. CASE b # a
        <4>1. Pushing(b) /\ al'.pushing[b] = al.pushing[b]
          BY <2>5, <2>6, <3>2
        <4>2. /\ al.pushing[b].previous = PushInterval
              /\ al.pushing[b].since < PushInterval =>
                   /\ al.stamp[PushKey[b]].age = al.pushing[b].since
                   /\ al.stamp[PushKey[b]].by = b
          BY <1>0, <4>1 DEF WindowsAreStamped
        <4>3. al.pushing[b].since < PushInterval => al'.stamp[PushKey[b]] = al.stamp[PushKey[b]]
          BY <1>0, <2>5, <2>8, <4>1
        <4> QED BY <4>1, <4>2, <4>3
      <3> QED BY <3>1, <3>2
    <2>11. ASSUME NEW m \in PushKeys, NEW q \in alLog.recent[m]
           PROVE  /\ q.age = al'.stamp[m].age /\ q.age < PushInterval
                  /\ \A b \in Alerts : PushKey[b] = m /\ al'.stamp[m].by = b => ~Pushing(b)'
      <3>1. m # k /\ al'.stamp[m] = al.stamp[m]
        BY <2>5, <2>9, <2>11
      <3>2. /\ q.age = al.stamp[m].age /\ q.age < PushInterval
            /\ \A b \in Alerts : PushKey[b] = m /\ al.stamp[m].by = b => ~Pushing(b)
        BY <1>0, <2>11 DEF WindowsAreStamped
      <3> QED BY <1>1, <2>6, <3>1, <3>2
    <2>12. \A m \in PushKeys : \A x, y \in alLog.recent[m] : x = y
      BY <1>0 DEF WindowsAreStamped
    <2>13. WindowsAreStamped'
      BY <2>10, <2>11, <2>12 DEF WindowsAreStamped
    <2> QED BY <2>7, <2>13
  <1> QED BY <1>3, <1>4
\* A push went out: it counts, and its window has no other
LEMMA PushSentKeeps ==
  ASSUME AlertInv, NEW a \in Alerts, PushSent(a) PROVE PushedOnce' /\ WindowsAreStamped'
  <1>0. /\ al \in Server /\ alLog \in Log /\ PushedOnce /\ WindowsAreStamped
        /\ PushInterval \in Nat /\ "push" \in Kinds /\ Pushing(a)
        /\ \A b \in Alerts : <<"push", b>> \in Kinds \X Alerts /\ PushKey[b] \in PushKeys
    BY AlertsAssumption DEF AlertInv, AlertState, PushKeys, Kinds, PushSent, Pushing
  <1>1. PICK k \in PushKeys : k = PushKey[a]
    BY <1>0
  <1>2. \A b \in Alerts : alLog.pushed[b] \in Nat
    BY <1>0 DEF Log
  <1>3. PICK t \in Server : t = ForgetRetry(al, "push", a)
    BY <1>0, HelpersAreTyped
  <1>4. ChangesOneSeries(al, t, "push", a) /\ t.series[<<"push", a>>].left = NoTimer
    BY <1>0, <1>3, SeriesChange
  <1>5. al' = [t EXCEPT !.pushing[a] = NoPush]
    BY <1>3 DEF PushSent
  <1>6. /\ al'.stored = al.stored /\ al'.stamp = al.stamp
        /\ al'.pushing = [al.pushing EXCEPT ![a] = NoPush]
        /\ al'.series[<<"push", a>>].left = NoTimer
        /\ \A b \in Alerts : b # a => al'.series[<<"push", b>>] = al.series[<<"push", b>>]
    <2>1. /\ al'.stored = t.stored /\ al'.stamp = t.stamp /\ al'.series = t.series
          /\ al'.pushing = [t.pushing EXCEPT ![a] = NoPush]
      BY <1>5, PushingSet
    <2> QED BY <1>0, <1>4, <2>1 DEF ChangesOneSeries
  <1>7. /\ ~Pushing(a)' /\ ~Retrying(a)'
        /\ \A b \in Alerts : b # a => Pushing(b)' = Pushing(b) /\ Retrying(b)' = Retrying(b)
        /\ \A b \in Alerts : b # a => al'.pushing[b] = al.pushing[b]
    BY <1>0, <1>6 DEF Pushing, Retrying, NoPush, Server
  <1>8. PICK p : p = [of |-> a, nth |-> alLog.pushed[a], age |-> al.pushing[a].since]
    OBVIOUS
  <1>9. /\ alLog'.pushed = [alLog.pushed EXCEPT ![a] = @ + 1]
        /\ alLog'.forgotten = alLog.forgotten
        /\ alLog'.recent = [alLog.recent EXCEPT ![k] =
             IF al.pushing[a].since < PushInterval THEN @ \cup {p} ELSE @]
    BY <1>0, <1>1, <1>8 DEF PushSent, Log
  <1>10. PushedOnce'
    <2>1. /\ alLog'.pushed[a] = alLog.pushed[a] + 1
          /\ \A b \in Alerts : b # a => alLog'.pushed[b] = alLog.pushed[b]
      BY <1>0, <1>9 DEF Log
    <2>2. a \in al.stored /\ (a \notin alLog.forgotten => alLog.pushed[a] = 0)
      BY <1>0 DEF PushedOnce
    <2> QED BY <1>0, <1>2, <1>6, <1>7, <1>9, <2>1, <2>2 DEF PushedOnce
  <1>11. \A b \in Alerts : Pushing(b)' =>
           /\ al'.pushing[b].previous = PushInterval
           /\ al'.pushing[b].since < PushInterval =>
                /\ al'.stamp[PushKey[b]].age = al'.pushing[b].since
                /\ al'.stamp[PushKey[b]].by = b
    BY <1>0, <1>6, <1>7 DEF WindowsAreStamped
  <1>12. \A m \in PushKeys : m # k \/ ~(al.pushing[a].since < PushInterval)
                               => alLog'.recent[m] = alLog.recent[m]
    BY <1>0, <1>9 DEF Log
  <1>13. al.pushing[a].since < PushInterval =>
           /\ alLog.recent[k] = {} /\ alLog'.recent[k] = {p}
           /\ p.age = al.stamp[k].age
    <2> SUFFICES ASSUME al.pushing[a].since < PushInterval
                 PROVE  /\ alLog.recent[k] = {} /\ alLog'.recent[k] = {p}
                        /\ p.age = al.stamp[k].age
      OBVIOUS
    <2>1. al.stamp[k].by = a /\ al.stamp[k].age = al.pushing[a].since
      BY <1>0, <1>1 DEF WindowsAreStamped
    <2>2. alLog.recent[k] = {}
      BY <1>0, <1>1, <2>1 DEF WindowsAreStamped
    <2>3. alLog'.recent[k] = {p}
      BY <1>0, <1>9, <2>2 DEF Log
    <2> QED BY <1>8, <2>1, <2>2, <2>3
  <1>14. ASSUME NEW m \in PushKeys, NEW q \in alLog'.recent[m]
         PROVE  /\ q.age = al'.stamp[m].age /\ q.age < PushInterval
                /\ \A b \in Alerts : PushKey[b] = m /\ al'.stamp[m].by = b => ~Pushing(b)'
    <2>1. CASE m = k /\ al.pushing[a].since < PushInterval
      <3>1. q = p /\ p.age = al'.stamp[k].age /\ p.age < PushInterval
        BY <1>6, <1>8, <1>13, <1>14, <2>1
      <3>2. al'.stamp[k].by = a
        BY <1>0, <1>1, <1>6, <2>1 DEF WindowsAreStamped
      <3> QED BY <1>7, <2>1, <3>1, <3>2
    <2>2. CASE m # k \/ ~(al.pushing[a].since < PushInterval)
      <3>1. q \in alLog.recent[m]
        BY <1>12, <1>14, <2>2
      <3>2. /\ q.age = al.stamp[m].age /\ q.age < PushInterval
            /\ \A b \in Alerts : PushKey[b] = m /\ al.stamp[m].by = b => ~Pushing(b)
        BY <1>0, <3>1 DEF WindowsAreStamped
      <3> QED BY <1>6, <1>7, <3>2
    <2> QED BY <2>1, <2>2
  <1>15. \A m \in PushKeys : \A x, y \in alLog'.recent[m] : x = y
    BY <1>0, <1>12, <1>13 DEF WindowsAreStamped
  <1>16. WindowsAreStamped'
    BY <1>11, <1>14, <1>15 DEF WindowsAreStamped
  <1> QED BY <1>10, <1>16

\* A push failed: its stamp is taken back, unless it is that of a newer one
LEMMA PushFailsKeeps ==
  ASSUME AlertInv, NEW a \in Alerts, PushFails(a) PROVE PushedOnce' /\ WindowsAreStamped'
  <1>0. /\ al \in Server /\ alLog' = alLog /\ PushedOnce /\ WindowsAreStamped
        /\ PushInterval \in Nat /\ "push" \in Kinds /\ Pushing(a)
        /\ \A b \in Alerts : <<"push", b>> \in Kinds \X Alerts /\ PushKey[b] \in PushKeys
    BY AlertsAssumption DEF AlertInv, AlertState, PushKeys, Kinds, PushFails, Pushing
  <1>1. PICK k \in PushKeys : k = PushKey[a]
    BY <1>0
  <1>2. PICK u \in Server : u = RestoreStamp(al, a)
    BY <1>0, HelpersAreTyped
  <1>3. /\ u.stored = al.stored /\ u.series = al.series /\ u.pushing = al.pushing
        /\ \A m \in PushKeys : m # k => u.stamp[m] = al.stamp[m]
        /\ al.stamp[k].by # a => u.stamp[k] = al.stamp[k]
    <2>1. u.stored = al.stored /\ u.series = al.series /\ u.pushing = al.pushing
      BY <1>0, <1>2, HelpersKeep
    <2>2. \E x : u.stamp = [al.stamp EXCEPT ![k] = x] /\ (al.stamp[k].by # a => x = al.stamp[k])
      BY <1>0, <1>1, <1>2 DEF RestoreStamp, Server
    <2> QED BY <1>0, <2>1, <2>2 DEF Server
  <1>4. PICK t \in Server : /\ t = [u EXCEPT !.pushing[a] = NoPush]
                            /\ t.stored = u.stored /\ t.stamp = u.stamp /\ t.series = u.series
                            /\ t.pushing = [u.pushing EXCEPT ![a] = NoPush]
    BY PushingSet
  <1>5. al' = ScheduleRetry(t, "push", a)
    BY <1>2, <1>4 DEF PushFails
  <1>6. ChangesOneSeries(t, al', "push", a)
    BY <1>0, <1>5, SeriesChange
  <1>7. /\ al'.stored = al.stored /\ al'.stamp = u.stamp
        /\ al'.pushing = [al.pushing EXCEPT ![a] = NoPush]
        /\ \A b \in Alerts : b # a => al'.series[<<"push", b>>] = al.series[<<"push", b>>]
    BY <1>0, <1>3, <1>4, <1>6 DEF ChangesOneSeries
  <1>8. /\ ~Pushing(a)'
        /\ \A b \in Alerts : b # a => Pushing(b)' = Pushing(b) /\ Retrying(b)' = Retrying(b)
        /\ \A b \in Alerts : b # a => al'.pushing[b] = al.pushing[b]
    BY <1>0, <1>7 DEF Pushing, Retrying, NoPush, Server
  <1>9. PushedOnce'
    BY <1>0, <1>7, <1>8 DEF PushedOnce
  <1>10. al.stamp[k].by = a =>
           /\ \A b \in Alerts : b # a /\ PushKey[b] = k /\ Pushing(b)
                                  => ~(al.pushing[b].since < PushInterval)
           /\ alLog.recent[k] = {}
    BY <1>0, <1>1 DEF WindowsAreStamped
  <1>11. \A b \in Alerts : Pushing(b)' =>
           /\ al'.pushing[b].previous = PushInterval
           /\ al'.pushing[b].since < PushInterval =>
                /\ al'.stamp[PushKey[b]].age = al'.pushing[b].since
                /\ al'.stamp[PushKey[b]].by = b
    <2> SUFFICES ASSUME NEW b \in Alerts, Pushing(b)'
                 PROVE  /\ al'.pushing[b].previous = PushInterval
                        /\ al'.pushing[b].since < PushInterval =>
                             /\ al'.stamp[PushKey[b]].age = al'.pushing[b].since
                             /\ al'.stamp[PushKey[b]].by = b
      OBVIOUS
    <2>1. b # a /\ Pushing(b) /\ al'.pushing[b] = al.pushing[b]
      BY <1>8
    <2>2. /\ al.pushing[b].previous = PushInterval
          /\ al.pushing[b].since < PushInterval =>
               /\ al.stamp[PushKey[b]].age = al.pushing[b].since
               /\ al.stamp[PushKey[b]].by = b
      BY <1>0, <2>1 DEF WindowsAreStamped
    <2>3. al.pushing[b].since < PushInterval => al'.stamp[PushKey[b]] = al.stamp[PushKey[b]]
      BY <1>0, <1>3, <1>7, <1>10, <2>1
    <2> QED BY <2>1, <2>2, <2>3
  <1>12. ASSUME NEW m \in PushKeys, NEW q \in alLog.recent[m]
         PROVE  /\ q.age = al'.stamp[m].age /\ q.age < PushInterval
                /\ \A b \in Alerts : PushKey[b] = m /\ al'.stamp[m].by = b => ~Pushing(b)'
    <2>1. al'.stamp[m] = al.stamp[m]
      BY <1>3, <1>7, <1>10, <1>12
    <2>2. /\ q.age = al.stamp[m].age /\ q.age < PushInterval
          /\ \A b \in Alerts : PushKey[b] = m /\ al.stamp[m].by = b => ~Pushing(b)
      BY <1>0, <1>12 DEF WindowsAreStamped
    <2> QED BY <1>8, <2>1, <2>2
  <1>13. WindowsAreStamped'
    BY <1>0, <1>11, <1>12 DEF WindowsAreStamped
  <1> QED BY <1>9, <1>13

\* The clock moves a push, its stamp and what was sent together
LEMMA TickKeepsPushes ==
  ASSUME AlertInv, AlertTick PROVE PushedOnce' /\ WindowsAreStamped'
  <1>0. /\ al \in Server /\ alLog \in Log /\ PushedOnce /\ WindowsAreStamped
        /\ PushInterval \in Nat /\ "push" \in Kinds
        /\ \A b \in Alerts : <<"push", b>> \in Kinds \X Alerts /\ PushKey[b] \in PushKeys
    BY AlertsAssumption DEF AlertInv, AlertState, PushKeys, Kinds
  <1>1. /\ al'.stored = al.stored
        /\ alLog'.pushed = alLog.pushed /\ alLog'.forgotten = alLog.forgotten
        /\ \A k \in PushKeys : alLog'.recent[k] =
             {[push EXCEPT !.age = push.age + 1] :
                push \in {p \in alLog.recent[k] : p.age + 1 < PushInterval}}
    BY <1>0 DEF AlertTick, Server, Log
  <1>2. \A x \in Kinds \X Alerts : al'.series[x] =
          IF al.series[x].left = NoTimer THEN al.series[x]
          ELSE [al.series[x] EXCEPT !.left = al.series[x].left - 1]
    BY <1>0 DEF AlertTick, Server
  <1>3. \A k \in PushKeys : al'.stamp[k] = [al.stamp[k] EXCEPT !.age = Older(al.stamp[k].age)]
    BY <1>0 DEF AlertTick, Server
  <1>4. \A b \in Alerts : al'.pushing[b] =
          IF al.pushing[b].since = NoTimer THEN al.pushing[b]
          ELSE [al.pushing[b] EXCEPT !.since = Older(al.pushing[b].since),
                                     !.previous = Older(al.pushing[b].previous)]
    BY <1>0 DEF AlertTick, Server
  <1>5. /\ \A k \in PushKeys : al.stamp[k] \in Stamp
        /\ \A b \in Alerts : al.pushing[b] \in Push
        /\ \A x \in Kinds \X Alerts : al.series[x] \in Series
        /\ \A k \in PushKeys : alLog.recent[k] \subseteq SentPush
    BY <1>0 DEF Server, Log
  <1>6. \A b \in Alerts : Retrying(b)' <=> Retrying(b)
    <2>1. \A x \in Kinds \X Alerts : al.series[x].left # 0
      BY DEF AlertTick
    <2>2. \A x \in Kinds \X Alerts : al'.series[x].left # NoTimer <=> al.series[x].left # NoTimer
      <3> SUFFICES ASSUME NEW x \in Kinds \X Alerts, al.series[x].left # NoTimer
                   PROVE  al'.series[x].left # NoTimer
        BY <1>2
      <3>1. PICK r \in Series : r = al.series[x]
        BY <1>5
      <3>2. PICK n \in Int : n = r.left
        BY DEF Series, NoTimer
      <3>3. n # 0 /\ n # -1
        BY <2>1, <3>1, <3>2 DEF NoTimer
      <3>4. al'.series[x] = [r EXCEPT !.left = n - 1]
        BY <1>2, <3>1, <3>2
      <3>5. al'.series[x].left = n - 1
        BY <3>1, <3>4 DEF Series
      <3> QED BY <3>3, <3>5 DEF NoTimer
    <2> QED BY <1>0, <2>2 DEF Retrying
  <1>7. \A b \in Alerts :
          /\ Pushing(b)' <=> Pushing(b)
          /\ Pushing(b) => /\ al'.pushing[b].since = Older(al.pushing[b].since)
                           /\ al'.pushing[b].previous = Older(al.pushing[b].previous)
                           /\ al.pushing[b].since \in Ages
    <2>1. \A n \in Ages : Older(n) # NoTimer
      BY <1>0 DEF Ages, Older, NoTimer
    <2>2. \A b \in Alerts :
            /\ al.pushing[b].since \in Ages \cup {NoTimer}
            /\ al.pushing[b].since # NoTimer =>
                 /\ al'.pushing[b].since = Older(al.pushing[b].since)
                 /\ al'.pushing[b].previous = Older(al.pushing[b].previous)
      BY <1>4, <1>5 DEF Push
    <2>3. \A b \in Alerts : al.pushing[b].since = NoTimer => al'.pushing[b].since = NoTimer
      BY <1>4
    <2> QED BY <2>1, <2>2, <2>3 DEF Pushing
  <1>8. PushedOnce'
    BY <1>0, <1>1, <1>6, <1>7 DEF PushedOnce
  <1>9. \A k \in PushKeys : al'.stamp[k].age = Older(al.stamp[k].age) /\ al'.stamp[k].by = al.stamp[k].by
    BY <1>3, <1>5 DEF Stamp
  <1>10. /\ Older(PushInterval) = PushInterval
         /\ \A n \in Ages : Older(n) < PushInterval => n < PushInterval
         /\ \A n \in Ages : n + 1 < PushInterval => Older(n) = n + 1
    BY <1>0 DEF Older, Ages
  <1>11. \A b \in Alerts : Pushing(b)' =>
           /\ al'.pushing[b].previous = PushInterval
           /\ al'.pushing[b].since < PushInterval =>
                /\ al'.stamp[PushKey[b]].age = al'.pushing[b].since
                /\ al'.stamp[PushKey[b]].by = b
    <2> SUFFICES ASSUME NEW b \in Alerts, Pushing(b)
                 PROVE  /\ al'.pushing[b].previous = PushInterval
                        /\ al'.pushing[b].since < PushInterval =>
                             /\ al'.stamp[PushKey[b]].age = al'.pushing[b].since
                             /\ al'.stamp[PushKey[b]].by = b
      BY <1>7
    <2>1. /\ al.pushing[b].previous = PushInterval
          /\ al.pushing[b].since < PushInterval =>
               /\ al.stamp[PushKey[b]].age = al.pushing[b].since
               /\ al.stamp[PushKey[b]].by = b
      BY <1>0 DEF WindowsAreStamped
    <2>2. al'.pushing[b].previous = PushInterval
      BY <1>7, <1>10, <2>1
    <2>3. al'.pushing[b].since < PushInterval => al.pushing[b].since < PushInterval
      BY <1>7, <1>10
    <2> QED BY <1>0, <1>7, <1>9, <2>1, <2>2, <2>3
  <1>12. ASSUME NEW k \in PushKeys, NEW q \in alLog'.recent[k]
         PROVE  \E p \in alLog.recent[k] :
                  p.age + 1 < PushInterval /\ q = [p EXCEPT !.age = p.age + 1] /\ q.age = p.age + 1
    <2>1. PICK p \in {p \in alLog.recent[k] : p.age + 1 < PushInterval} :
            q = [p EXCEPT !.age = p.age + 1]
      BY <1>1, <1>12
    <2>2. p \in SentPush
      BY <1>5, <2>1
    <2>3. q.age = p.age + 1
      BY <2>1, <2>2 DEF SentPush
    <2> QED BY <2>1, <2>3
  <1>13. ASSUME NEW k \in PushKeys, NEW q \in alLog'.recent[k]
         PROVE  /\ q.age = al'.stamp[k].age /\ q.age < PushInterval
                /\ \A b \in Alerts : PushKey[b] = k /\ al'.stamp[k].by = b => ~Pushing(b)'
    <2>1. PICK p \in alLog.recent[k] :
            p.age + 1 < PushInterval /\ q.age = p.age + 1
      BY <1>12, <1>13
    <2>2. /\ p.age = al.stamp[k].age
          /\ \A b \in Alerts : PushKey[b] = k /\ al.stamp[k].by = b => ~Pushing(b)
      BY <1>0, <2>1 DEF WindowsAreStamped
    <2>3. al.stamp[k].age \in Ages
      BY <1>5 DEF Stamp
    <2> QED BY <1>7, <1>9, <1>10, <2>1, <2>2, <2>3
  <1>14. \A k \in PushKeys : \A x, y \in alLog'.recent[k] : x = y
    BY <1>0, <1>12 DEF WindowsAreStamped
  <1>15. WindowsAreStamped'
    BY <1>11, <1>13, <1>14 DEF WindowsAreStamped
  <1> QED BY <1>8, <1>15

\* The pushes that were under way are over, and so are the windows
LEMMA RestartKeepsPushes ==
  ASSUME AlertInv, ServerRestarts PROVE PushedOnce' /\ WindowsAreStamped'
  <1>0. al \in Server /\ alDisk \in Disk /\ alLog \in Log /\ AcksFollowRecords /\ PushedOnce
    BY DEF AlertInv, AlertState
  <1>1. /\ al'.stored = alDisk.ids
        /\ \A a \in Alerts : ~Pushing(a)' /\ ~Retrying(a)'
    BY DEF ServerRestarts, Started, NoSeries, NoPush, Kinds, Pushing, Retrying
  <1>2. /\ alLog'.forgotten = alLog.forgotten \cup (al.stored \ alDisk.ids)
        /\ alLog'.pushed = alLog.pushed /\ \A k \in PushKeys : alLog'.recent[k] = {}
    BY <1>0 DEF ServerRestarts, Log
  <1>3. PushedOnce'
    BY <1>0, <1>1, <1>2 DEF PushedOnce
  <1>4. WindowsAreStamped'
    BY <1>1, <1>2 DEF WindowsAreStamped
  <1> QED BY <1>3, <1>4
LEMMA PushStep ==
  ASSUME AlertInv, AlertNext PROVE PushedOnce' /\ WindowsAreStamped'
  <1>0. /\ al \in Server /\ alLog \in Log /\ PushedOnce /\ WindowsAreStamped
        /\ "push" \in Kinds /\ "ack" \in Kinds
        /\ \A b \in Alerts : <<"push", b>> \in Kinds \X Alerts
    BY DEF AlertInv, AlertState, Kinds
  <1>1. ASSUME NEW a \in Alerts, AlertComes(a) PROVE PushedOnce' /\ WindowsAreStamped'
    <2>1. /\ alLog'.pushed = alLog.pushed /\ alLog'.recent = alLog.recent
          /\ alLog'.forgotten = alLog.forgotten
      BY <1>0, <1>1 DEF AlertComes, Log
    <2>2. ProcessAlert(a)
      BY <1>1 DEF AlertComes
    <2>3. CASE UNCHANGED al \/ al' = Ack(al, a)
      <3>1. /\ al'.stored = al.stored /\ al'.stamp = al.stamp /\ al'.pushing = al.pushing
            /\ al'.series = al.series
        BY <1>0, <2>3, HelpersKeep
      <3> QED BY <1>0, <2>1, <3>1, PushFrame
    <2>4. CASE /\ a \notin al.storing /\ a \notin al.stored
               /\ StoreAlert(a, [al EXCEPT !.stored = @ \cup {a}, !.storing = @ \cup {a}])
      <3>1. PICK s \in Server : /\ s = [al EXCEPT !.stored = @ \cup {a}, !.storing = @ \cup {a}]
                                /\ s.stored = al.stored \cup {a} /\ s.series = al.series
                                /\ s.stamp = al.stamp /\ s.pushing = al.pushing
        <4>1. [al EXCEPT !.stored = @ \cup {a}, !.storing = @ \cup {a}] \in Server
          BY <1>0 DEF Server
        <4> QED BY <1>0, <4>1 DEF Server
      <3>2. al' = PushAlert(s, a)
        BY <2>4, <3>1 DEF StoreAlert
      <3>3. /\ ~Pushing(a) /\ s.series[<<"push", a>>].left = NoTimer
            /\ a \notin alLog.forgotten => alLog.pushed[a] = 0
        BY <1>0, <2>4, <3>1 DEF PushedOnce, Retrying
      <3> QED BY <2>1, <3>1, <3>2, <3>3, PushAlertKeeps
    <2> QED BY <2>2, <2>3, <2>4 DEF ProcessAlert
  <1>2. ASSUME HistoryRuns \/ StreamTurns \/ \E a \in Alerts : AlertRaised(a)
        PROVE  PushedOnce' /\ WindowsAreStamped'
    <2>1. UNCHANGED al /\ alLog'.pushed = alLog.pushed /\ alLog'.recent = alLog.recent
            /\ alLog'.forgotten = alLog.forgotten
      BY <1>0, <1>2 DEF HistoryRuns, StreamTurns, AlertRaised, Log
    <2> QED BY <1>0, <2>1, PushFrame
  <1>3. ASSUME NEW a \in Alerts, Stored(a) PROVE PushedOnce' /\ WindowsAreStamped'
    <2>1. PICK s \in Server : /\ s = [al EXCEPT !.storing = @ \ {a}]
                              /\ s.stored = al.stored /\ s.series = al.series
                              /\ s.stamp = al.stamp /\ s.pushing = al.pushing
      <3>1. al.storing \ {a} \in SUBSET Alerts
        BY <1>0 DEF Server
      <3> QED BY <1>0, <3>1, StoringSet
    <2>2. al' = Ack(s, a) /\ alLog' = alLog
      BY <1>3, <2>1 DEF Stored
    <2>3. /\ al'.stored = s.stored /\ al'.series = s.series
          /\ al'.stamp = s.stamp /\ al'.pushing = s.pushing
      BY <2>2, HelpersKeep
    <2> QED BY <1>0, <2>1, <2>2, <2>3, PushFrame
  <1>4. ASSUME NEW a \in Alerts, DaemonTakes(a) \/ AckAnswered(a) \/ AckFails(a)
        PROVE  PushedOnce' /\ WindowsAreStamped'
    <2>1. /\ alLog'.pushed = alLog.pushed /\ alLog'.recent = alLog.recent
          /\ alLog'.forgotten = alLog.forgotten
      BY <1>0, <1>4 DEF DaemonTakes, AckAnswered, AckFails, Log
    <2>2. PICK x \in {"no", "taken"} :
            LET s == [al EXCEPT !.acking[a] = x] IN
            al' = s \/ al' = ScheduleRetry(s, "ack", a) \/ al' = ForgetRetry(s, "ack", a)
      BY <1>4 DEF DaemonTakes, AckAnswered, AckFails
    <2>3. PICK s \in Server : /\ s = [al EXCEPT !.acking[a] = x]
                              /\ s.stored = al.stored /\ s.series = al.series
                              /\ s.stamp = al.stamp /\ s.pushing = al.pushing
      <3>1. /\ [al EXCEPT !.acking[a] = x] \in Server
            /\ [al EXCEPT !.acking[a] = x].stored = al.stored
            /\ [al EXCEPT !.acking[a] = x].series = al.series
            /\ [al EXCEPT !.acking[a] = x].stamp = al.stamp
            /\ [al EXCEPT !.acking[a] = x].pushing = al.pushing
        <4>1. x = "no" \/ x = "taken"
          BY <2>2
        <4> QED BY <1>0, <4>1 DEF Server
      <3> QED BY <3>1
    <2>4. al' = s \/ ChangesOneSeries(s, al', "ack", a)
      <3>1. /\ ChangesOneSeries(s, ScheduleRetry(s, "ack", a), "ack", a)
            /\ ChangesOneSeries(s, ForgetRetry(s, "ack", a), "ack", a)
        BY <1>0, SeriesChange
      <3> QED BY <2>2, <2>3, <3>1
    <2>5. /\ al'.stored = s.stored /\ al'.stamp = s.stamp /\ al'.pushing = s.pushing
          /\ \A b \in Alerts : al'.series[<<"push", b>>] = s.series[<<"push", b>>]
      <3>1. \A b \in Alerts : <<"push", b>> # <<"ack", a>>
        OBVIOUS
      <3> QED BY <1>0, <2>4, <3>1 DEF ChangesOneSeries
    <2> QED BY <1>0, <2>1, <2>3, <2>5, PushFrame
  <1>5. ASSUME NEW kind \in Kinds, NEW a \in Alerts, RetryNow(kind, a)
        PROVE  PushedOnce' /\ WindowsAreStamped'
    <2>0. <<kind, a>> \in Kinds \X Alerts /\ NoTimer \in Int /\ 0 # NoTimer
      BY DEF NoTimer
    <2>1. PICK s \in Server : /\ s = [al EXCEPT !.series[<<kind, a>>].left = NoTimer]
                              /\ s.stored = al.stored /\ s.stamp = al.stamp
                              /\ s.pushing = al.pushing
                              /\ s.series[<<kind, a>>].left = NoTimer
                              /\ \A x \in Kinds \X Alerts :
                                   x # <<kind, a>> => s.series[x] = al.series[x]
      <3>1. \A x \in Series : [x EXCEPT !.left = NoTimer] \in Series
        BY <2>0 DEF Series
      <3>2. al.series \in [Kinds \X Alerts -> Series]
        BY <1>0 DEF Server
      <3>3. [al EXCEPT !.series[<<kind, a>>].left = NoTimer] \in Server
        BY <1>0, <2>0, <3>1 DEF Server
      <3>4. al.series[<<kind, a>>] \in Series
        BY <2>0, <3>2
      <3> QED BY <1>0, <2>0, <3>3, <3>4 DEF Server, Series
    <2>2. alLog' = alLog
      BY <1>5 DEF RetryNow
    <2>3. CASE kind = "push"
      <3>1. al' = PushAlert(s, a)
        BY <1>5, <2>1, <2>3 DEF RetryNow
      <3>2. Retrying(a)
        BY <1>5, <2>0, <2>3 DEF RetryNow, Retrying
      <3>3. /\ ~Pushing(a) /\ a \in al.stored
            /\ a \notin alLog.forgotten => alLog.pushed[a] = 0
        BY <1>0, <3>2 DEF PushedOnce
      <3>4. \A b \in Alerts : b # a => s.series[<<"push", b>>] = al.series[<<"push", b>>]
        <4>1. \A b \in Alerts : b # a => <<"push", b>> # <<kind, a>>
          OBVIOUS
        <4> QED BY <1>0, <2>1, <4>1
      <3>5. s.stored = al.stored \cup {a} /\ s.series[<<"push", a>>].left = NoTimer
        BY <2>1, <2>3, <3>3
      <3> QED BY <2>1, <2>2, <3>1, <3>3, <3>4, <3>5, PushAlertKeeps
    <2>4. CASE kind = "ack"
      <3>1. al' = Ack(s, a)
        BY <1>5, <2>1, <2>4 DEF RetryNow
      <3>2. /\ al'.stored = s.stored /\ al'.series = s.series
            /\ al'.stamp = s.stamp /\ al'.pushing = s.pushing
        BY <3>1, HelpersKeep
      <3>3. \A b \in Alerts : s.series[<<"push", b>>] = al.series[<<"push", b>>]
        <4>1. \A b \in Alerts : <<"push", b>> # <<kind, a>>
          BY <2>4
        <4> QED BY <1>0, <2>1, <4>1
      <3> QED BY <1>0, <2>1, <2>2, <3>2, <3>3, PushFrame
    <2> QED BY <2>3, <2>4 DEF Kinds
  <1> QED BY <1>1, <1>2, <1>3, <1>4, <1>5, PushSentKeeps, PushFailsKeeps, TickKeepsPushes,
             RestartKeepsPushes DEF AlertNext, AlertCallback

LEMMA AlertStep == AlertInv /\ [AlertNext]_alVars => AlertInv'
  <1> SUFFICES ASSUME AlertInv, [AlertNext]_alVars PROVE AlertInv'
    OBVIOUS
  <1>1. CASE AlertNext
    BY <1>1, AlertTypesStep, QueueStep, PushStep DEF AlertInv
  <1>2. CASE UNCHANGED alVars
    <2> USE <1>2 DEF alVars, AlertInv
    <2>1. AlertState'
      BY DEF AlertState
    <2>2. AcksFollowRecords'
      BY DEF AcksFollowRecords, Recorded, EventQueued
    <2>3. QueuedOnce'
      BY DEF QueuedOnce, EventQueued
    <2>4. PushedOnce'
      BY DEF PushedOnce, Pushing, Retrying
    <2>5. WindowsAreStamped'
      BY DEF WindowsAreStamped, Pushing
    <2> QED BY <2>1, <2>2, <2>3, <2>4, <2>5
  <1> QED BY <1>1, <1>2

\* Through every replay of the stream, every call, write or save that fails and every
\* restart of the server: an alert whose id could be saved is in the history once at
\* most and pushed once at most, the pushes of a window are an interval apart, and the
\* daemon drops an alert only once it is recorded, or could not be.
THEOREM AlertsOnce == AlertSpec => []AlertsAreKeptOnce
  <1>1. AlertInv => AlertsAreKeptOnce
    <2> SUFFICES ASSUME AlertInv PROVE AlertsAreKeptOnce
      OBVIOUS
    <2>1. \A a \in Alerts \ alLog.forgotten : alDisk.rows[a] <= 1 /\ alLog.pushed[a] <= 1
      BY DEF AlertInv, QueuedOnce, PushedOnce
    <2>2. \A k \in PushKeys : \A p, q \in alLog.recent[k] : p = q
      BY DEF AlertInv, WindowsAreStamped
    <2>3. \A a \in alDaemon.raised \ alDaemon.pending : alDisk.rows[a] > 0 \/ a \in alLog.lost
      BY DEF AlertInv, AcksFollowRecords, Recorded
    <2> QED BY <2>1, <2>2, <2>3 DEF AlertsAreKeptOnce
  <1> QED BY <1>1, AlertStateInit, AlertStep, PTL DEF AlertSpec

\* The alerts, their queue, their files and the daemon keep their types: no timer of a
\* series goes below zero, no age of a stamp above the interval.
THEOREM AlertTypes == AlertSpec => []AlertTypeOK
  <1>1. AlertInv => AlertTypeOK
    <2> SUFFICES ASSUME AlertInv PROVE AlertTypeOK
      OBVIOUS
    <2>0. /\ al \in Server /\ alHist \in HistoryThread /\ alDisk \in Disk
          /\ alDaemon \in Daemon /\ alLog \in Log
      BY DEF AlertInv, AlertState
    <2>1. /\ al.stored \subseteq Alerts /\ al.storing \subseteq Alerts
          /\ al.acking \in [Alerts -> {"no", "asked", "taken", "over"}]
      BY <2>0 DEF Server
    <2>2. al.series \in [Kinds \X Alerts -> [left : Nat \cup {NoTimer}, tries : Nat]]
      BY <2>0 DEF Server, Series
    <2>3. /\ \A k \in PushKeys : al.stamp[k].age \in Ages
          /\ \A a \in Alerts : al.pushing[a].since \in Ages \cup {NoTimer}
      BY <2>0 DEF Server, Stamp, Push
    <2>4. alHist.queue \in Seq({"event", "read"} \X Alerts) /\ alHist.answered \subseteq Alerts
      BY <2>0 DEF HistoryThread, Requests
    <2>5. /\ alDisk \in [ids : SUBSET Alerts, rows : [Alerts -> Nat]]
          /\ alDaemon \in [raised : SUBSET Alerts, pending : SUBSET Alerts,
                           sent : SUBSET Alerts, open : BOOLEAN]
          /\ alLog.pushed \in [Alerts -> Nat]
      BY <2>0 DEF Disk, Daemon, Log
    <2> QED BY <2>1, <2>2, <2>3, <2>4, <2>5 DEF AlertTypeOK
  <1> QED BY <1>1, AlertStateInit, AlertStep, PTL DEF AlertSpec

-----------------------------------------------------------------------------
(* DaemonLink                                                              *)

Stream ==
  [state : {"Waiting", "Connecting", "Open"}, backoff : 0..MaxDelay,
   delay : 0..MaxDelay \cup {NoDelay}, retried : BOOLEAN, pinged : BOOLEAN,
   watch : BOOLEAN, silent : 0..(Silence + 1), up : 0..(Silence + 1)]
Poll ==
  [step : {"idle", "asked", "answered"}, retried : BOOLEAN,
   says : {"set", "unset", "old", "bearer", "fail"}]
Knowledge ==
  [reach : {Unreachable, "set", "unset", "old"}, seen : BOOLEAN,
   left : 0..PollDelay \cup {NoDelay}, poll : Poll,
   setting : {"no", "set", "failed"}, token : Nat]
Box ==
  [life : {"up", "down", "mute", "old"}, token : Nat, file : Nat,
   admin : BOOLEAN, linked : BOOLEAN, alert : BOOLEAN]
Said ==
  [said : {"nothing", "set", "unset"}, unwritten : BOOLEAN, turns : Nat, starts : Nat]

LinkState ==
  /\ lkStream \in Stream /\ lkState \in Knowledge /\ lkBox \in Box
  /\ lkFlag \in BOOLEAN /\ lkLog \in Said

\* What the daemon said last is in the file and in what AdminState knows of it, and
\* no answer it remembers says otherwise: a server that starts reads it again.
AnswerIsKept ==
  lkLog.said = "set" /\ ~lkLog.unwritten =>
    lkFlag /\ lkState.seen /\ lkState.reach \in {"set", Unreachable}

LinkInv == LinkState /\ AnswerIsKept

\* What drop() leaves of a stream
LEMMA DropsAreStreams ==
  ASSUME NEW s \in Stream, NEW delay \in 0..MaxDelay
  PROVE  DropFor(s, delay) \in Stream /\ DropStream(s) \in Stream
  <1>1. 0 \in 0..(Silence + 1) /\ Silence \in Nat /\ MinDelay \in 0..MaxDelay /\ MaxDelay \in 0..MaxDelay
    BY LinkAssumption
  <1>2. \A d \in 0..MaxDelay : DropFor(s, d) \in Stream
    BY <1>1 DEF DropFor, Stream
  <1>3. s.backoff \in 0..MaxDelay
    BY DEF Stream
  <1>4. Doubled(s.backoff) \in 0..MaxDelay
    BY <1>1, <1>3, LinkAssumption DEF Doubled
  <1>5. \A t \in Stream, d \in 0..MaxDelay : [t EXCEPT !.backoff = d] \in Stream
    BY DEF Stream
  <1> QED BY <1>2, <1>4, <1>5 DEF DropStream

\* An answer that says set, old or unset changes the file and the log with the state
LEMMA ObserveKeeps ==
  ASSUME LinkInv, NEW s \in Knowledge, s.seen = lkState.seen, s.reach = lkState.reach,
         NEW says \in {"set", "unset", "old", "bearer", "fail"}, Observe(s, says)
  PROVE  lkState' \in Knowledge /\ lkFlag' \in BOOLEAN /\ lkLog' \in Said /\ AnswerIsKept'
  <1>0. lkState \in Knowledge /\ lkFlag \in BOOLEAN /\ lkLog \in Said /\ AnswerIsKept
    BY DEF LinkInv, LinkState
  <1>1. CASE says \in {"bearer", "fail"}
    <2>1. lkState' = [s EXCEPT !.reach = Unreachable] /\ UNCHANGED <<lkFlag, lkLog>>
      BY <1>1 DEF Observe, ObserveUnreachable
    <2>2. lkState' \in Knowledge /\ lkState'.seen = lkState.seen /\ lkState'.reach = Unreachable
      BY <2>1 DEF Knowledge
    <2> QED BY <1>0, <2>1, <2>2 DEF AnswerIsKept
  <1>2. CASE says \in {"set", "unset", "old"}
    <2>1. PICK b \in BOOLEAN : b = (says = "set")
      OBVIOUS
    <2>2. lkState' = [s EXCEPT !.reach = says, !.seen = b] /\ SetFlag(b)
      BY <1>2, <2>1 DEF Observe
    <2>3. lkState' \in Knowledge /\ lkState'.seen = b /\ lkState'.reach = says
      BY <1>2, <2>2 DEF Knowledge
    <2>4. CASE b = lkState.seen
      <3>1. UNCHANGED <<lkFlag, lkLog>>
        BY <2>2, <2>4 DEF SetFlag
      <3> QED BY <1>0, <2>1, <2>3, <2>4, <3>1 DEF AnswerIsKept
    <2>5. CASE b # lkState.seen /\ ~b
      <3>1. lkFlag' = FALSE /\ lkLog' = [lkLog EXCEPT !.said = "unset", !.unwritten = FALSE]
        BY <2>2, <2>5 DEF SetFlag
      <3>2. lkLog' \in Said /\ lkLog'.said = "unset"
        BY <1>0, <3>1 DEF Said
      <3> QED BY <2>3, <3>1, <3>2 DEF AnswerIsKept
    <2>6. CASE b # lkState.seen /\ b
      <3>1. \/ lkFlag' = TRUE /\ lkLog' = [lkLog EXCEPT !.said = "set", !.unwritten = FALSE]
            \/ lkFlag' = lkFlag
                 /\ lkLog' = [lkLog EXCEPT !.said = "set", !.unwritten = TRUE, !.turns = @ + 1]
        BY <2>2, <2>6 DEF SetFlag
      <3>2. lkLog' \in Said /\ lkFlag' \in BOOLEAN /\ (lkFlag' = TRUE \/ lkLog'.unwritten = TRUE)
        <4>1. lkLog.turns + 1 \in Nat
          BY <1>0 DEF Said
        <4>2. \A n \in Nat :
                LET l == [lkLog EXCEPT !.said = "set", !.unwritten = TRUE, !.turns = n]
                IN  l \in Said /\ l.unwritten = TRUE
          BY <1>0 DEF Said
        <4>3. [lkLog EXCEPT !.said = "set", !.unwritten = FALSE] \in Said
          BY <1>0 DEF Said
        <4> QED BY <1>0, <3>1, <4>1, <4>2, <4>3
      <3> QED BY <2>1, <2>3, <2>6, <3>2 DEF AnswerIsKept
    <2> QED BY <2>4, <2>5, <2>6
  <1> QED BY <1>1, <1>2

LEMMA LinkStarts == LinkInit => LinkInv
  <1> SUFFICES ASSUME LinkInit PROVE LinkInv
    OBVIOUS
  <1>1. NewStream \in Stream
    BY LinkAssumption DEF NewStream, Stream
  <1>2. NewState(FALSE, 0) \in Knowledge
    BY DEF NewState, Knowledge, Idle, Poll
  <1>3. lkBox \in Box
    BY DEF LinkInit, Box
  <1>4. lkFlag \in BOOLEAN /\ lkLog \in Said /\ lkLog.said = "nothing"
    BY DEF LinkInit, Said
  <1> QED BY <1>1, <1>2, <1>3, <1>4 DEF LinkInit, LinkInv, LinkState, AnswerIsKept
\* The stream and the box change nothing of what is known
LEMMA StreamStep ==
  ASSUME LinkState,
         \/ StreamReconnects \/ ConnectFails \/ Handshaken \/ StreamEnds \/ PongArrives
         \/ Watchdog
  PROVE  LinkState' /\ UNCHANGED <<lkFlag, lkLog>>
           /\ lkState'.reach = lkState.reach /\ lkState'.seen = lkState.seen
  <1>0. /\ lkStream \in Stream /\ lkState \in Knowledge /\ lkBox \in Box
        /\ lkFlag \in BOOLEAN /\ lkLog \in Said
    BY DEF LinkState
  <1>1. 0 \in 0..(Silence + 1) /\ 0 \in 0..MaxDelay /\ MaxDelay \in 0..MaxDelay
    BY LinkAssumption
  <1>2. ASSUME StreamReconnects \/ PongArrives PROVE lkStream' \in Stream
    BY <1>0, <1>1, <1>2 DEF StreamReconnects, PongArrives, Stream
  <1>3. ASSUME ConnectFails \/ StreamEnds PROVE lkStream' \in Stream
    BY <1>0, <1>1, <1>3, DropsAreStreams DEF ConnectFails, StreamEnds
  <1>4. ASSUME Watchdog PROVE lkStream' \in Stream
    <2>1. CASE lkStream.silent > Silence
      BY <1>0, <1>1, <1>4, <2>1, DropsAreStreams DEF Watchdog
    <2>2. CASE ~(lkStream.silent > Silence)
      <3>1. \A b \in BOOLEAN, d \in 0..MaxDelay :
              [lkStream EXCEPT !.watch = FALSE, !.pinged = b, !.backoff = d] \in Stream
        BY <1>0 DEF Stream
      <3>2. PICK b \in BOOLEAN : b = (lkStream.state = "Open")
        OBVIOUS
      <3>3. PICK d \in 0..MaxDelay :
              d = IF lkStream.state = "Open" /\ lkStream.up >= Silence THEN 0 ELSE lkStream.backoff
        BY <1>0, <1>1 DEF Stream
      <3>4. lkStream' = [lkStream EXCEPT !.watch = FALSE, !.pinged = b, !.backoff = d]
        BY <1>4, <2>2, <3>2, <3>3 DEF Watchdog
      <3> QED BY <3>1, <3>4
    <2> QED BY <2>1, <2>2
  <1>5. ASSUME Handshaken
        PROVE  /\ lkStream' \in Stream /\ lkState' \in Knowledge /\ lkBox' \in Box
               /\ UNCHANGED <<lkFlag, lkLog>>
               /\ lkState'.reach = lkState.reach /\ lkState'.seen = lkState.seen
    <2>1. [lkState EXCEPT !.token = lkBox.file] \in Knowledge
      BY <1>0 DEF Knowledge, Box
    <2>2. [lkStream EXCEPT !.retried = TRUE] \in Stream
      BY <1>0 DEF Stream
    <2>3. [lkStream EXCEPT !.state = "Open", !.retried = FALSE, !.silent = 0, !.up = 0] \in Stream
      BY <1>0, <1>1 DEF Stream
    <2>4. lkStream' \in Stream
      BY <1>0, <1>1, <1>5, <2>2, <2>3, DropsAreStreams DEF Handshaken
    <2>5. lkBox' \in Box
      BY <1>0, <1>5 DEF Handshaken, Box
    <2>6. lkState' = lkState \/ lkState' = [lkState EXCEPT !.token = lkBox.file]
      BY <1>5 DEF Handshaken
    <2>7. /\ lkState' \in Knowledge
          /\ lkState'.reach = lkState.reach /\ lkState'.seen = lkState.seen
      BY <1>0, <2>1, <2>6 DEF Knowledge
    <2>8. UNCHANGED <<lkFlag, lkLog>>
      BY <1>5 DEF Handshaken
    <2> QED BY <2>4, <2>5, <2>7, <2>8
  <1>6. CASE Handshaken
    BY <1>0, <1>5, <1>6 DEF LinkState
  <1>7. CASE StreamReconnects \/ ConnectFails \/ StreamEnds \/ PongArrives \/ Watchdog
    <2>1. UNCHANGED <<lkState, lkBox, lkFlag, lkLog>>
      BY <1>7 DEF StreamReconnects, ConnectFails, StreamEnds, PongArrives, Watchdog
    <2>2. lkStream' \in Stream
      BY <1>2, <1>3, <1>4, <1>7
    <2> QED BY <1>0, <2>1, <2>2 DEF LinkState
  <1> QED BY <1>6, <1>7

LEMMA LinkStep == LinkInv /\ [LinkNext]_lkVars => LinkInv'
  <1> SUFFICES ASSUME LinkInv, [LinkNext]_lkVars PROVE LinkInv'
    OBVIOUS
  <1>0. /\ lkStream \in Stream /\ lkState \in Knowledge /\ lkBox \in Box
        /\ lkFlag \in BOOLEAN /\ lkLog \in Said /\ LinkState /\ AnswerIsKept
    BY DEF LinkInv, LinkState
  <1>1. 0 \in 0..(Silence + 1) /\ PollDelay \in 0..PollDelay /\ Idle \in Poll
    BY LinkAssumption DEF Idle, Poll
  <1>2. \A s \in Knowledge : Ask(s) \in Knowledge /\ Ask(s).seen = s.seen /\ Ask(s).reach = s.reach
    <2>1. [Idle EXCEPT !.step = "asked"] \in Poll
      BY <1>1 DEF Poll
    <2>2. \A s \in Knowledge, p \in Poll :
            /\ [s EXCEPT !.poll = p] \in Knowledge
            /\ [s EXCEPT !.poll = p].seen = s.seen /\ [s EXCEPT !.poll = p].reach = s.reach
      BY DEF Knowledge
    <2>3. \A s \in Knowledge : s.poll \in Poll
      BY DEF Knowledge
    <2> QED BY <2>1, <2>2, <2>3 DEF Ask
  <1>3. ASSUME LinkState', UNCHANGED lkFlag, lkState'.seen = lkState.seen,
               lkState'.reach = lkState.reach,
               lkLog'.said = lkLog.said, lkLog'.unwritten = lkLog.unwritten
        PROVE  LinkInv'
    BY <1>0, <1>3 DEF LinkInv, AnswerIsKept
  <1>4. ASSUME Turn
        PROVE  lkLog' \in Said /\ lkLog'.said = lkLog.said /\ lkLog'.unwritten = lkLog.unwritten
    BY <1>0, <1>4 DEF Turn, Said
  <1>5. CASE \/ StreamReconnects \/ ConnectFails \/ Handshaken \/ StreamEnds \/ PongArrives
             \/ Watchdog
    BY <1>0, <1>3, <1>5, StreamStep
  <1>6. CASE PollTimer
    <2>1. [lkState EXCEPT !.left = PollDelay] \in Knowledge
      BY <1>0, <1>1 DEF Knowledge
    <2>2. /\ lkState' \in Knowledge /\ lkState'.seen = lkState.seen
          /\ lkState'.reach = lkState.reach
      BY <1>0, <1>2, <1>6, <2>1 DEF PollTimer, Knowledge
    <2>3. UNCHANGED <<lkStream, lkBox, lkFlag, lkLog>>
      BY <1>6 DEF PollTimer
    <2> QED BY <1>0, <1>3, <2>2, <2>3 DEF LinkState
  <1>7. CASE DaemonAnswers
    <2>1. AnswerNow \in {"set", "unset", "old", "bearer", "fail"}
      BY DEF AnswerNow
    <2>2. \A x \in {"set", "unset", "old", "bearer", "fail"} :
            LET p == [lkState.poll EXCEPT !.step = "answered", !.says = x] IN p \in Poll
      BY <1>0 DEF Knowledge, Poll
    <2>3. \A p \in Poll : [lkState EXCEPT !.poll = p] \in Knowledge
      BY <1>0 DEF Knowledge
    <2>4. lkState' = [lkState EXCEPT
                        !.poll = [lkState.poll EXCEPT !.step = "answered", !.says = AnswerNow]]
      BY <1>0, <1>7 DEF DaemonAnswers, Knowledge
    <2>5. /\ lkState' \in Knowledge /\ lkState'.seen = lkState.seen
          /\ lkState'.reach = lkState.reach
      BY <1>0, <2>1, <2>2, <2>3, <2>4 DEF Knowledge
    <2>6. UNCHANGED <<lkStream, lkBox, lkFlag, lkLog>>
      BY <1>7 DEF DaemonAnswers
    <2> QED BY <1>0, <1>3, <2>5, <2>6 DEF LinkState
  <1>8. CASE PollAnswered
    <2>1. UNCHANGED <<lkStream, lkBox>>
      BY <1>8 DEF PollAnswered
    <2>2. CASE /\ UNCHANGED <<lkFlag, lkLog>>
               /\ lkState' = [lkState EXCEPT !.token = lkBox.file,
                                !.poll = [Idle EXCEPT !.step = "asked", !.retried = TRUE]]
      <3>1. [Idle EXCEPT !.step = "asked", !.retried = TRUE] \in Poll /\ lkBox.file \in Nat
        BY <1>0, <1>1 DEF Poll, Box
      <3>2. /\ lkState' \in Knowledge /\ lkState'.seen = lkState.seen
            /\ lkState'.reach = lkState.reach
        BY <1>0, <2>2, <3>1 DEF Knowledge
      <3> QED BY <1>0, <1>3, <2>1, <2>2, <3>2 DEF LinkState
    <2>3. CASE Observe([lkState EXCEPT !.poll = Idle, !.left = PollDelay], lkState.poll.says)
      <3>1. PICK s \in Knowledge : /\ s = [lkState EXCEPT !.poll = Idle, !.left = PollDelay]
                                   /\ s.seen = lkState.seen /\ s.reach = lkState.reach
        <4>1. LET s == [lkState EXCEPT !.poll = Idle, !.left = PollDelay]
              IN  s \in Knowledge /\ s.seen = lkState.seen /\ s.reach = lkState.reach
          BY <1>0, <1>1 DEF Knowledge
        <4> QED BY <4>1
      <3>2. lkState.poll.says \in {"set", "unset", "old", "bearer", "fail"}
        BY <1>0 DEF Knowledge, Poll
      <3>3. lkState' \in Knowledge /\ lkFlag' \in BOOLEAN /\ lkLog' \in Said /\ AnswerIsKept'
        BY <2>3, <3>1, <3>2, ObserveKeeps
      <3> QED BY <1>0, <2>1, <3>3 DEF LinkInv, LinkState
    <2> QED BY <1>8, <2>2, <2>3 DEF PollAnswered
  <1>9. CASE AlertOfChange
    <2>1. lkStream' \in Stream /\ lkBox' \in Box
      BY <1>0, <1>1, <1>9 DEF AlertOfChange, Stream, Box
    <2>2. lkState' = Ask(lkState) /\ UNCHANGED <<lkFlag, lkLog>>
      BY <1>9 DEF AlertOfChange
    <2> QED BY <1>0, <1>2, <1>3, <2>1, <2>2 DEF LinkState
  <1>10. CASE AdminSetDone
    <2>1. PICK s \in Knowledge : /\ s = [lkState EXCEPT !.setting = "no"]
                                 /\ s.seen = lkState.seen /\ s.reach = lkState.reach
      <3>1. LET s == [lkState EXCEPT !.setting = "no"]
            IN  s \in Knowledge /\ s.seen = lkState.seen /\ s.reach = lkState.reach
        BY <1>0 DEF Knowledge
      <3> QED BY <3>1
    <2>2. UNCHANGED <<lkStream, lkBox>>
      BY <1>10 DEF AdminSetDone
    <2>3. CASE Observe(s, "set")
      <3>1. lkState' \in Knowledge /\ lkFlag' \in BOOLEAN /\ lkLog' \in Said /\ AnswerIsKept'
        BY <2>1, <2>3, ObserveKeeps
      <3> QED BY <1>0, <2>2, <3>1 DEF LinkInv, LinkState
    <2>4. CASE lkState' = s /\ UNCHANGED <<lkFlag, lkLog>>
      BY <1>0, <1>3, <2>1, <2>2, <2>4 DEF LinkState
    <2> QED BY <1>10, <2>1, <2>3, <2>4 DEF AdminSetDone
  <1>11. CASE LinkTick
    <2>1. UNCHANGED <<lkBox, lkFlag, lkLog>>
      BY <1>11 DEF LinkTick
    <2>2. /\ lkStream.delay # 0 /\ lkState.left # 0
          /\ lkState' = [lkState EXCEPT !.left = IF @ = NoDelay THEN @ ELSE @ - 1]
          /\ \/ lkStream' = [lkStream EXCEPT !.delay = IF @ = NoDelay THEN @ ELSE @ - 1]
             \/ lkStream' = [lkStream EXCEPT !.watch = TRUE,
                               !.silent = IF @ <= Silence THEN @ + 1 ELSE @,
                               !.up = IF @ <= Silence THEN @ + 1 ELSE @]
      BY <1>11 DEF LinkTick
    <2>3. lkState' \in Knowledge /\ lkState'.seen = lkState.seen /\ lkState'.reach = lkState.reach
      <3>1. lkState.left \in 0..PollDelay \cup {NoDelay}
        BY <1>0 DEF Knowledge
      <3>2. PICK d \in 0..PollDelay \cup {NoDelay} :
              d = IF lkState.left = NoDelay THEN lkState.left ELSE lkState.left - 1
        BY <2>2, <3>1, LinkAssumption
      <3>3. lkState' = [lkState EXCEPT !.left = d]
        BY <2>2, <3>2
      <3> QED BY <1>0, <3>3 DEF Knowledge
    <2>4. lkStream' \in Stream
      <3>1. /\ lkStream.delay \in 0..MaxDelay \cup {NoDelay}
            /\ lkStream.silent \in 0..(Silence + 1) /\ lkStream.up \in 0..(Silence + 1)
        BY <1>0 DEF Stream
      <3>2. PICK d \in 0..MaxDelay \cup {NoDelay} :
              d = IF lkStream.delay = NoDelay THEN lkStream.delay ELSE lkStream.delay - 1
        BY <2>2, <3>1, LinkAssumption
      <3>3. PICK m \in 0..(Silence + 1) :
              m = IF lkStream.silent <= Silence THEN lkStream.silent + 1 ELSE lkStream.silent
        BY <3>1, LinkAssumption
      <3>4. PICK n \in 0..(Silence + 1) :
              n = IF lkStream.up <= Silence THEN lkStream.up + 1 ELSE lkStream.up
        BY <3>1, LinkAssumption
      <3>5. \/ lkStream' = [lkStream EXCEPT !.delay = d]
            \/ lkStream' = [lkStream EXCEPT !.watch = TRUE, !.silent = m, !.up = n]
        BY <2>2, <3>2, <3>3, <3>4
      <3> QED BY <1>0, <3>5 DEF Stream
    <2> QED BY <1>0, <1>3, <2>1, <2>3, <2>4 DEF LinkState
  <1>12. CASE AdminSet
    <2>1. lkBox' \in Box
      BY <1>0, <1>12 DEF AdminSet, Box
    <2>2. lkState' \in Knowledge /\ lkState'.seen = lkState.seen /\ lkState'.reach = lkState.reach
      BY <1>0, <1>12 DEF AdminSet, Knowledge
    <2>3. Turn /\ UNCHANGED <<lkStream, lkFlag>>
      BY <1>12 DEF AdminSet
    <2> QED BY <1>0, <1>3, <1>4, <2>1, <2>2, <2>3 DEF LinkState
  <1>13. CASE AdminChangesElsewhere \/ TokenChanges \/
                \E life \in {"up", "down", "mute", "old"} : DaemonTurns(life)
    <2>1. lkBox' \in Box
      <3>1. ASSUME AdminChangesElsewhere \/ TokenChanges PROVE lkBox' \in Box
        <4>1. lkBox.token + 1 \in Nat
          BY <1>0 DEF Box
        <4>2. PICK b \in BOOLEAN : b = ~lkBox.admin
          OBVIOUS
        <4>3. \/ lkBox' = [lkBox EXCEPT !.admin = b, !.alert = TRUE]
              \/ lkBox' = [lkBox EXCEPT !.token = lkBox.token + 1, !.linked = FALSE]
          BY <3>1, <4>2 DEF AdminChangesElsewhere, TokenChanges
        <4> QED BY <1>0, <4>1, <4>3 DEF Box
      <3>2. ASSUME NEW life \in {"up", "down", "mute", "old"}, DaemonTurns(life)
            PROVE  lkBox' \in Box
        <4>1. PICK b \in BOOLEAN : b = (lkBox.linked /\ life = "mute")
          OBVIOUS
        <4>2. lkBox' = [lkBox EXCEPT !.life = life, !.linked = b]
          BY <3>2, <4>1 DEF DaemonTurns
        <4> QED BY <1>0, <4>2 DEF Box
      <3> QED BY <1>13, <3>1, <3>2
    <2>2. Turn /\ UNCHANGED <<lkStream, lkState, lkFlag>>
      BY <1>13 DEF AdminChangesElsewhere, TokenChanges, DaemonTurns
    <2> QED BY <1>0, <1>3, <1>4, <2>1, <2>2 DEF LinkState
  <1>14. CASE TokenWritten
    <2>1. lkBox' \in Box
      BY <1>0, <1>14 DEF TokenWritten, Box
    <2>2. UNCHANGED <<lkStream, lkState, lkFlag, lkLog>>
      BY <1>14 DEF TokenWritten
    <2> QED BY <1>0, <1>3, <2>1, <2>2 DEF LinkState
  <1>15. CASE ServerStarts
    <2>1. lkStream' \in Stream
      BY <1>15, LinkAssumption DEF ServerStarts, NewStream, Stream
    <2>2. lkBox' \in Box
      BY <1>0, <1>15 DEF ServerStarts, Box
    <2>3. /\ lkState' \in Knowledge /\ lkState'.seen = lkFlag /\ lkState'.reach = Unreachable
          /\ lkFlag' = lkFlag
      <3>1. [Idle EXCEPT !.step = "asked"] \in Poll /\ lkBox.file \in Nat
        BY <1>0, <1>1 DEF Poll, Box
      <3> QED BY <1>0, <1>15, <3>1 DEF ServerStarts, NewState, Knowledge
    <2>4. lkLog' \in Said /\ lkLog'.said = lkLog.said /\ lkLog'.unwritten = lkLog.unwritten
      BY <1>0, <1>15 DEF ServerStarts, Said
    <2> QED BY <1>0, <2>1, <2>2, <2>3, <2>4 DEF LinkInv, LinkState, AnswerIsKept
  <1>16. CASE UNCHANGED lkVars
    BY <1>0, <1>3, <1>16 DEF lkVars, LinkState
  <1> QED BY <1>5, <1>6, <1>7, <1>8, <1>9, <1>10, <1>11, <1>12, <1>13, <1>14, <1>15, <1>16
          DEF LinkNext, LinkCallback

\* Whatever the daemon, its token and its stream do, and however often the server is
\* started: once the daemon has said that an admin is set the rules apply, until it
\* says otherwise, as long as the flag could be written.
THEOREM ClosedStays == LinkSpec => [](LinkTypeOK /\ StaysClosed)
  <1>1. LinkInv => LinkTypeOK /\ StaysClosed
    <2> SUFFICES ASSUME LinkInv PROVE LinkTypeOK /\ StaysClosed
      OBVIOUS
    <2>0. /\ lkStream \in Stream /\ lkState \in Knowledge /\ lkBox \in Box
          /\ lkFlag \in BOOLEAN /\ lkLog \in Said /\ AnswerIsKept
      BY DEF LinkInv, LinkState
    <2>1. LinkTypeOK
      BY <2>0 DEF LinkTypeOK, Stream, Knowledge, Poll, Box, Said
    <2>2. StaysClosed
      BY <2>0 DEF StaysClosed, AnswerIsKept, Enforced, Said
    <2> QED BY <2>1, <2>2
  <1> QED BY <1>1, LinkStarts, LinkStep, PTL DEF LinkSpec

-----------------------------------------------------------------------------
(* ConsoleTunnel: that a refusal never follows "ready" rests on what the   *)
(* tunnel has said in each of its states (Heard) and on the call that is   *)
(* under way (AskedBefore); that a side held back is resumed, on both      *)
(* sides being read when the relay begins (BothRead).                      *)

Before == {"WaitOpen", "Opening", "Attaching"}
Words == {"ready", "output", "error", "close"}

Heard ==
  /\ cn.state \in Before => cnSaid = <<>>
  /\ cn.state = "Open" => cnSaid \in {<<"ready">>, <<"ready", "output">>}

BothRead == cn.state \in Before => ~cn.clientPaused /\ ~cn.daemonPaused

AskedBefore == cnAsked = "mode" => cn.state \in {"Opening", "Closed"}

\* What depends on the tunnel, its queues and what it said
TunnelType ==
  [state : ConsoleStates, timer : Nat \cup {Unarmed},
   daemon : {"none", "connecting", "connected"}, upgraded : BOOLEAN,
   clientPaused : BOOLEAN, daemonPaused : BOOLEAN]
TunnelTypes ==
  /\ cn \in TunnelType
  /\ cnQueue \in [client : Nat, daemon : Nat]
  /\ cnSaid \in Seq(Words)
TunnelHolds ==
  /\ cn.timer # Unarmed => cn.state \in {"WaitOpen", "Attaching"}
  /\ cn.daemon # "none" <=> cn.state \in {"Attaching", "Open"}
  /\ cn.state = "Open" =>
       /\ cn.clientPaused => cnQueue.daemon > LowWater
       /\ cn.daemonPaused => cnQueue.client > LowWater
SaidSoFar ==
  /\ cnSaid \in Sayings
  /\ (cnSaid # <<>> /\ cnSaid[Len(cnSaid)] = "close") => cn.state = "Closed"
Tunnel == TunnelTypes /\ TunnelHolds /\ SaidSoFar /\ Heard /\ BothRead

TunnelInv ==
  /\ Tunnel /\ AskedBefore
  /\ cnAsked \in {"nothing", "mode", "console"} /\ cnHere \in BOOLEAN
  /\ cnStale \in BOOLEAN /\ (cnStale => cn.state = "Closed")

-----------------------------------------------------------------------------
(* What is said                                                            *)

\* Words are joined as one expects
LEMMA OneMore ==
  ASSUME NEW s \in Seq(Words), NEW t \in Seq(Words), NEW w \in Words,
         Len(t) = Len(s) + 1, t[Len(t)] = w, \A i \in 1..Len(s) : t[i] = s[i]
  PROVE  s \o <<w>> = t
<1> DEFINE j == s \o <<w>>
<1>1. <<w>> \in Seq(Words) /\ Len(<<w>>) = 1 /\ <<w>>[1] = w
  OBVIOUS
<1>2. /\ j \in Seq(Words) /\ Len(j) = Len(s) + 1
      /\ \A i \in 1..Len(s) + 1 : j[i] = IF i <= Len(s) THEN s[i] ELSE <<w>>[i - Len(s)]
  BY <1>1, ConcatProperties
<1>3. Len(s) \in Nat
  BY LenProperties
<1>4. \A i \in 1..Len(j) : j[i] = t[i]
  BY <1>1, <1>2, <1>3
<1> HIDE DEF j
<1>5. j = t
  BY <1>2, <1>4, SeqEqual
<1> QED BY <1>5 DEF j

\* The four joins the tunnel makes
LEMMA Joined ==
  /\ <<"ready">> \o <<"close">> = <<"ready", "close">>
  /\ <<"ready">> \o <<"output">> = <<"ready", "output">>
  /\ <<"ready", "output">> \o <<"close">> = <<"ready", "output", "close">>
  /\ \A s \in Seq(Words) : s \o <<>> = s /\ <<>> \o s = s
<1>1. <<"ready">> \o <<"close">> = <<"ready", "close">>
  <2>1. /\ <<"ready">> \in Seq(Words) /\ <<"ready", "close">> \in Seq(Words)
        /\ "close" \in Words
    BY DEF Words
  <2>2. /\ Len(<<"ready", "close">>) = Len(<<"ready">>) + 1
        /\ <<"ready", "close">>[Len(<<"ready", "close">>)] = "close"
        /\ \A i \in 1..Len(<<"ready">>) : <<"ready", "close">>[i] = <<"ready">>[i]
    OBVIOUS
  <2> QED BY <2>1, <2>2, OneMore
<1>2. <<"ready">> \o <<"output">> = <<"ready", "output">>
  <2>1. /\ <<"ready">> \in Seq(Words) /\ <<"ready", "output">> \in Seq(Words)
        /\ "output" \in Words
    BY DEF Words
  <2>2. /\ Len(<<"ready", "output">>) = Len(<<"ready">>) + 1
        /\ <<"ready", "output">>[Len(<<"ready", "output">>)] = "output"
        /\ \A i \in 1..Len(<<"ready">>) : <<"ready", "output">>[i] = <<"ready">>[i]
    OBVIOUS
  <2> QED BY <2>1, <2>2, OneMore
<1>3. <<"ready", "output">> \o <<"close">> = <<"ready", "output", "close">>
  <2>1. /\ <<"ready", "output">> \in Seq(Words) /\ <<"ready", "output", "close">> \in Seq(Words)
        /\ "close" \in Words
    BY DEF Words
  <2>2. /\ Len(<<"ready", "output", "close">>) = Len(<<"ready", "output">>) + 1
        /\ <<"ready", "output", "close">>[Len(<<"ready", "output", "close">>)] = "close"
        /\ \A i \in 1..Len(<<"ready", "output">>) : <<"ready", "output", "close">>[i] = <<"ready", "output">>[i]
    OBVIOUS
  <2> QED BY <2>1, <2>2, OneMore
<1>4. \A s \in Seq(Words) : s \o <<>> = s /\ <<>> \o s = s
  BY ConcatEmptySeq
<1> QED BY <1>1, <1>2, <1>3, <1>4

\* The six things a browser may have heard
LEMMA SayingsAre ==
  Sayings = {<<>>, <<"error", "close">>, <<"ready">>, <<"ready", "close">>,
             <<"ready", "output">>, <<"ready", "output", "close">>}
<1>1. <<"ready">> \in Seq(Words) /\ <<"ready", "output">> \in Seq(Words)
  BY DEF Words
<1> QED BY <1>1, Joined DEF Sayings

-----------------------------------------------------------------------------
(* The two ways a tunnel ends by itself                                    *)

\* A close frame takes one place of the queue of the daemon
LEMMA CloseFrameIsOne ==
  ASSUME NEW code PROVE CloseFrame(code) \in {0, 1}
BY DEF CloseFrame

\* The queues stay counts: one of them grows, or the other
LEMMA WrittenOut ==
  ASSUME Tunnel, NEW a \in Nat, NEW b \in Nat, WriteTo(a, b)
  PROVE  /\ cnQueue' \in [client : Nat, daemon : Nat]
         /\ cnQueue'.client = cnQueue.client + a /\ cnQueue'.daemon = cnQueue.daemon + b
BY DEF Tunnel, TunnelTypes, WriteTo

\* A refusal says nothing after the close
LEMMA RefuseEnds ==
  ASSUME Tunnel, cn.state # "Open", Refuse
  PROVE  Tunnel' /\ cn'.state = "Closed"
<1>1. CASE cn.state = "Closed"
  <2>1. UNCHANGED <<cn, cnQueue, cnSaid>>
    BY <1>1 DEF Refuse
  <2> QED BY <1>1, <2>1 DEF Tunnel, TunnelTypes, TunnelHolds, SaidSoFar, Heard, BothRead
<1>2. CASE cn.state # "Closed"
  <2>1. cn.state \in Before /\ cnSaid = <<>>
    BY <1>2 DEF Tunnel, TunnelTypes, TunnelType, ConsoleStates, Before, Heard
  <2>2. /\ cn' = [Resumed EXCEPT !.timer = Unarmed]
        /\ cnSaid' = <<"error", "close">>
        /\ WriteTo(2, CloseFrame(TRUE))
    <3>1. <<"error", "close">> \in Seq(Words)
      BY DEF Words
    <3> QED BY <1>2, <2>1, <3>1, Joined DEF Refuse, Say
  <2>3. /\ cn' \in TunnelType
        /\ cn'.state = "Closed" /\ cn'.timer = Unarmed /\ cn'.daemon = "none"
    BY <2>2 DEF Tunnel, TunnelTypes, TunnelType, Resumed, Detached, ConsoleStates, Unarmed
  <2>5. cnQueue' \in [client : Nat, daemon : Nat]
    <3>1. CloseFrame(TRUE) \in {0, 1}
      BY CloseFrameIsOne
    <3> QED BY <2>2, <3>1, WrittenOut
  <2>6. cnSaid' \in Seq(Words)
    <3>1. <<"error", "close">> \in Seq(Words)
      BY DEF Words
    <3> QED BY <2>2, <3>1
  <2>4. SaidSoFar'
    BY <2>2, <2>3, SayingsAre DEF SaidSoFar
  <2> QED BY <2>3, <2>4, <2>5, <2>6 DEF Tunnel, TunnelTypes, TunnelHolds, Heard, BothRead, Before
<1> QED BY <1>1, <1>2

\* What ends an open relay adds one close to what was heard
LEMMA FinishEnds ==
  ASSUME Tunnel, cn.state = "Open", NEW code, Finish(code)
  PROVE  Tunnel' /\ cn'.state = "Closed"
<1>1. cnSaid \in {<<"ready">>, <<"ready", "output">>} /\ cn.timer = Unarmed
  BY DEF Tunnel, Heard, TunnelHolds
<1>2. cnSaid' \in {<<"ready", "close">>, <<"ready", "output", "close">>}
  BY <1>1, Joined DEF Finish, Say
<1>3. /\ cn' \in TunnelType
      /\ cn'.state = "Closed" /\ cn'.timer = Unarmed /\ cn'.daemon = "none"
  BY <1>1 DEF Finish, Tunnel, TunnelTypes, TunnelType, Resumed, Detached, ConsoleStates, Unarmed
<1>5. cnQueue' \in [client : Nat, daemon : Nat]
  <2>1. CloseFrame(code) \in {0, 1}
    BY CloseFrameIsOne
  <2> QED BY <2>1, WrittenOut DEF Finish
<1>6. cnSaid' \in Seq(Words)
  <2>1. <<"ready", "close">> \in Seq(Words) /\ <<"ready", "output", "close">> \in Seq(Words)
    BY DEF Words
  <2> QED BY <1>2, <2>1
<1>4. SaidSoFar'
  BY <1>2, <1>3, SayingsAre DEF SaidSoFar
<1> QED BY <1>3, <1>4, <1>5, <1>6 DEF Tunnel, TunnelTypes, TunnelHolds, Heard, BothRead, Before

\* The browser closes or is gone: nothing is said any more
LEMMA DetachEnds ==
  ASSUME Tunnel, NEW a \in Nat, cn' = [Detached EXCEPT !.timer = Unarmed],
         WriteTo(a, CloseFrame(TRUE)), UNCHANGED cnSaid
  PROVE  Tunnel' /\ cn'.state = "Closed"
<1>1. /\ cn' \in TunnelType
      /\ cn'.state = "Closed" /\ cn'.timer = Unarmed /\ cn'.daemon = "none"
  BY DEF Tunnel, TunnelTypes, TunnelType, Detached, ConsoleStates, Unarmed
<1>2. cnQueue' \in [client : Nat, daemon : Nat]
  <2>1. CloseFrame(TRUE) \in {0, 1}
    BY CloseFrameIsOne
  <2> QED BY <2>1, WrittenOut
<1> QED BY <1>1, <1>2 DEF Tunnel, TunnelTypes, TunnelHolds, SaidSoFar, Heard, BothRead, Before

-----------------------------------------------------------------------------
(* The steps that do not end it                                            *)

\* A step of the relay that says nothing
LEMMA SilentStep ==
  ASSUME Tunnel, cnSaid' = cnSaid, cn' \in TunnelType,
         cnQueue' \in [client : Nat, daemon : Nat],
         cn'.state = cn.state, TunnelHolds', BothRead'
  PROVE  Tunnel'
BY DEF Tunnel, TunnelTypes, Heard, SaidSoFar

\* A step towards the relay: nothing has been said yet
LEMMA StepBefore ==
  ASSUME Tunnel, cnSaid' = cnSaid, cn' \in TunnelType, cnQueue' = cnQueue,
         cn.state \in Before, cn'.state \in Before, TunnelHolds', BothRead'
  PROVE  Tunnel'
BY SayingsAre DEF Tunnel, TunnelTypes, Heard, SaidSoFar, Before

\* A message of the browser is relayed, which may hold its side back
LEMMA MessageKeeps ==
  ASSUME Tunnel, Reading, NEW n \in 1..MaxChunk, WriteTo(0, n), cnSaid' = cnSaid,
         NEW held \in BOOLEAN, held => cnQueue.daemon + n > HighWater,
         cn' = [cn EXCEPT !.clientPaused = held]
  PROVE  Tunnel' /\ cn'.state = cn.state
<1>1. n \in Nat /\ HighWater \in Nat /\ LowWater \in Nat /\ LowWater <= HighWater
  BY ConsoleAssumption
<1>2. /\ cnQueue' \in [client : Nat, daemon : Nat]
      /\ cnQueue'.client = cnQueue.client /\ cnQueue'.daemon = cnQueue.daemon + n
  BY <1>1 DEF Tunnel, TunnelTypes, WriteTo
<1>3. cn' \in TunnelType /\ cn'.state = cn.state
  BY DEF Tunnel, TunnelTypes, TunnelType
<1>4. TunnelHolds' /\ BothRead'
  BY <1>1, <1>2, <1>3 DEF Tunnel, TunnelTypes, TunnelType, TunnelHolds, BothRead, Reading, Before
<1> QED BY <1>2, <1>3, <1>4, SilentStep

\* Output of the console is relayed: it is heard once, after "ready"
LEMMA OutputKeeps ==
  ASSUME Tunnel, Relaying, NEW n \in 1..MaxChunk, WriteTo(n, 0),
         Say(IF cnSaid[Len(cnSaid)] = "output" THEN <<>> ELSE <<"output">>),
         NEW held \in BOOLEAN, held => cnQueue.client + n > HighWater,
         cn' = [cn EXCEPT !.daemonPaused = held]
  PROVE  Tunnel' /\ cn'.state = cn.state
<1>1. n \in Nat /\ HighWater \in Nat /\ LowWater \in Nat /\ LowWater <= HighWater
  BY ConsoleAssumption
<1>2. /\ cnQueue' \in [client : Nat, daemon : Nat]
      /\ cnQueue'.client = cnQueue.client + n /\ cnQueue'.daemon = cnQueue.daemon
  BY <1>1, WrittenOut DEF Tunnel, TunnelTypes
<1>3. cn' \in TunnelType /\ cn'.state = cn.state /\ cn.state = "Open"
  BY DEF Tunnel, TunnelTypes, TunnelType, Relaying
<1>4. TunnelHolds' /\ BothRead'
  BY <1>1, <1>2, <1>3
  DEF Tunnel, TunnelTypes, TunnelType, TunnelHolds, BothRead, Relaying, Before
<1>5. cnSaid' = <<"ready", "output">>
  <2>1. <<"ready", "output">> \in Seq(Words)
    BY DEF Words
  <2>2. CASE cnSaid = <<"ready">>
    BY <2>2, Joined DEF Say
  <2>3. CASE cnSaid = <<"ready", "output">>
    BY <2>1, <2>3, Joined DEF Say
  <2> QED BY <1>3, <2>2, <2>3 DEF Tunnel, Heard
<1>6. cnSaid' \in Seq(Words)
  <2>1. <<"ready", "output">> \in Seq(Words)
    BY DEF Words
  <2> QED BY <1>5, <2>1
<1>7. SaidSoFar' /\ Heard'
  BY <1>3, <1>5, SayingsAre DEF SaidSoFar, Heard, Before
<1> QED BY <1>2, <1>3, <1>4, <1>6, <1>7 DEF Tunnel, TunnelTypes

\* The console is ready: nothing was said before
LEMMA UpgradedKeeps ==
  ASSUME Tunnel, cn.state = "Attaching", cn.daemon = "connected", Upgraded
  PROVE  Tunnel' /\ cn'.state = "Open"
<1>1. /\ cn' \in TunnelType /\ cn'.state = "Open" /\ cn'.timer = Unarmed
      /\ cn'.daemon = "connected" /\ ~cn'.clientPaused /\ ~cn'.daemonPaused
  BY DEF Tunnel, TunnelTypes, TunnelType, Upgraded, ConsoleStates, BothRead, Before
<1>2. cnQueue' \in [client : Nat, daemon : Nat]
  BY WrittenOut DEF Upgraded
<1>3. cnSaid' = <<"ready">> /\ <<"ready">> \in Seq(Words)
  <2>1. <<"ready">> \in Seq(Words)
    BY DEF Words
  <2>2. cnSaid = <<>>
    BY DEF Tunnel, Heard, Before
  <2> QED BY <2>1, <2>2, Joined DEF Upgraded, Say
<1>4. SaidSoFar' /\ Heard'
  BY <1>1, <1>3, SayingsAre DEF SaidSoFar, Heard, Before
<1> QED BY <1>1, <1>2, <1>3, <1>4 DEF Tunnel, TunnelTypes, TunnelHolds, BothRead, Before

\* The queue of the console drains: its browser is read again when it is low
LEMMA SentToDaemonKeeps ==
  ASSUME Tunnel, SentToDaemon PROVE Tunnel' /\ cn'.state = cn.state
<1>1. /\ cnQueue' \in [client : Nat, daemon : Nat]
      /\ cnQueue'.client = cnQueue.client /\ cnQueue'.daemon = cnQueue.daemon - 1
  BY DEF Tunnel, TunnelTypes, WriteTo, SentToDaemon
<1>2. PICK held \in BOOLEAN :
        /\ held => cn.clientPaused /\ cnQueue.daemon - 1 > LowWater
        /\ cn' = [cn EXCEPT !.clientPaused = held]
  BY Zenon DEF SentToDaemon
<1>3. cn' \in TunnelType /\ cn'.state = cn.state
  BY <1>2 DEF Tunnel, TunnelTypes, TunnelType
<1>4. TunnelHolds' /\ BothRead'
  BY <1>1, <1>2, <1>3 DEF Tunnel, TunnelTypes, TunnelType, TunnelHolds, BothRead, Before
<1>5. cnSaid' = cnSaid
  BY DEF SentToDaemon
<1> QED BY <1>1, <1>3, <1>4, <1>5, SilentStep

\* The queue of the browser drains: the console is read again, unless it is gone
LEMMA SentToClientKeeps ==
  ASSUME Tunnel, SentToClient PROVE Tunnel' /\ cn'.state = cn.state
<1>1. /\ cnQueue' \in [client : Nat, daemon : Nat]
      /\ cnQueue'.client = cnQueue.client - 1 /\ cnQueue'.daemon = cnQueue.daemon
  BY DEF Tunnel, TunnelTypes, WriteTo, SentToClient
<1>2. PICK held \in BOOLEAN :
        /\ held => /\ cn.daemonPaused
                   /\ cn.daemon = "none" \/ cnQueue.client - 1 > LowWater
        /\ cn' = [cn EXCEPT !.daemonPaused = held]
  BY Zenon DEF SentToClient
<1>3. cn' \in TunnelType /\ cn'.state = cn.state
  BY <1>2 DEF Tunnel, TunnelTypes, TunnelType
<1>4. TunnelHolds' /\ BothRead'
  BY <1>1, <1>2, <1>3 DEF Tunnel, TunnelTypes, TunnelType, TunnelHolds, BothRead, Before
<1>5. cnSaid' = cnSaid
  BY DEF SentToClient
<1> QED BY <1>1, <1>3, <1>4, <1>5, SilentStep

-----------------------------------------------------------------------------
(* Every action                                                            *)

\* A step of the tunnel keeps it sound, and a closed one closed
LEMMA EveryStep ==
  ASSUME TunnelInv, ConsoleNext
  PROVE  Tunnel' /\ (cn.state = "Closed" => cn'.state = "Closed")
<1>1. CASE OpenMessage
  <2>1. CASE Refuse
    BY <1>1, <2>1, RefuseEnds DEF TunnelInv, OpenMessage
  <2>2. ASSUME cn' = [cn EXCEPT !.state = "Opening", !.timer = Unarmed],
               UNCHANGED <<cnQueue, cnSaid>>, cn.state = "WaitOpen"
        PROVE  Tunnel' /\ (cn.state = "Closed" => cn'.state = "Closed")
    <3>1. cn' \in TunnelType /\ cn.state \in Before /\ cn'.state \in Before
      BY <2>2 DEF TunnelInv, Tunnel, TunnelTypes, TunnelType, Before, ConsoleStates, Unarmed
    <3>2. TunnelHolds' /\ BothRead'
      BY <2>2 DEF TunnelInv, Tunnel, TunnelTypes, TunnelType, TunnelHolds, BothRead, Before
    <3>3. cnSaid' = cnSaid /\ cnQueue' = cnQueue
      BY <2>2
    <3> QED BY <2>2, <3>1, <3>2, <3>3, StepBefore DEF TunnelInv
  <2> QED BY <1>1, <2>1, <2>2 DEF OpenMessage
<1>2. CASE ClientMessage
  <2>1. CASE Finish(FALSE)
    BY <1>2, <2>1, FinishEnds DEF TunnelInv, ClientMessage, Reading
  <2>2. ASSUME NEW n \in 1..MaxChunk, WriteTo(0, n), cnSaid' = cnSaid, Reading,
               cn' = [cn EXCEPT !.clientPaused = cnQueue.daemon + n > HighWater]
        PROVE  Tunnel' /\ (cn.state = "Closed" => cn'.state = "Closed")
    <3>1. (cnQueue.daemon + n > HighWater) \in BOOLEAN
      OBVIOUS
    <3>2. (cnQueue.daemon + n > HighWater) => cnQueue.daemon + n > HighWater
      OBVIOUS
    <3> QED BY <2>2, <3>1, <3>2, MessageKeeps, Zenon DEF TunnelInv
  <2> QED BY <1>2, <2>1, <2>2 DEF ClientMessage
<1>3. CASE TooBig
  BY <1>3, FinishEnds DEF TunnelInv, TooBig, Reading
<1>4. CASE ClientClosing
  BY <1>4, DetachEnds DEF TunnelInv, ClientClosing
<1>5. CASE BrowserGone
  BY <1>5, DetachEnds DEF TunnelInv, BrowserGone
<1>6. CASE ChangeCredentials
  <2>1. CASE cn.state = "Open" /\ Finish(TRUE)
    BY <2>1, FinishEnds DEF TunnelInv
  <2>2. CASE cn.state \in {"Opening", "Attaching"} /\ Refuse
    BY <2>2, RefuseEnds DEF TunnelInv
  <2>3. CASE UNCHANGED <<cn, cnQueue, cnSaid>>
    BY <2>3 DEF TunnelInv, Tunnel, TunnelTypes, TunnelHolds, SaidSoFar, Heard, BothRead
  <2> QED BY <1>6, <2>1, <2>2, <2>3 DEF ChangeCredentials, EndHouseholdConsoles
<1>7. CASE ModeKnown
  <2>1. CASE Refuse
    BY <1>7, <2>1, RefuseEnds DEF TunnelInv, AskedBefore, ModeKnown
  <2>2. CASE UNCHANGED <<cn, cnQueue, cnSaid>>
    BY <2>2 DEF TunnelInv, Tunnel, TunnelTypes, TunnelHolds, SaidSoFar, Heard, BothRead
  <2> QED BY <1>7, <2>1, <2>2 DEF ModeKnown
<1>8. CASE ConsoleAnswered
  <2>1. CASE cn.state = "Opening" /\ Refuse
    BY <2>1, RefuseEnds DEF TunnelInv
  <2>2. CASE cn.state = "Opening" /\ Attach
    <3>1. AttachDelay \in Nat
      BY ConsoleAssumption
    <3>2. cn' \in TunnelType /\ cn.state \in Before /\ cn'.state \in Before
      BY <2>2, <3>1 DEF TunnelInv, Attach, Tunnel, TunnelTypes, TunnelType, Before, ConsoleStates
    <3>3. TunnelHolds' /\ BothRead'
      BY <2>2 DEF TunnelInv, Attach, Tunnel, TunnelTypes, TunnelType, TunnelHolds, BothRead, Before
    <3>4. cnSaid' = cnSaid /\ cnQueue' = cnQueue
      BY <2>2 DEF Attach
    <3> QED BY <2>2, <3>2, <3>3, <3>4, StepBefore DEF TunnelInv
  <2>3. CASE UNCHANGED <<cn, cnQueue, cnSaid>>
    BY <2>3 DEF TunnelInv, Tunnel, TunnelTypes, TunnelHolds, SaidSoFar, Heard, BothRead
  <2> QED BY <1>8, <2>1, <2>2, <2>3 DEF ConsoleAnswered, Opened
<1>9. CASE UpgradeDaemon
  <2>1. cnQueue' \in [client : Nat, daemon : Nat]
    BY <1>9, WrittenOut DEF TunnelInv, UpgradeDaemon
  <2>2. cn' \in TunnelType /\ cn'.state = cn.state
    BY <1>9 DEF TunnelInv, UpgradeDaemon, Tunnel, TunnelTypes, TunnelType
  <2>3. TunnelHolds' /\ BothRead'
    BY <1>9 DEF TunnelInv, UpgradeDaemon, Tunnel, TunnelTypes, TunnelType, TunnelHolds, BothRead, Before
  <2>4. cnSaid' = cnSaid
    BY <1>9 DEF UpgradeDaemon
  <2> QED BY <2>1, <2>2, <2>3, <2>4, SilentStep DEF TunnelInv
<1>10. CASE DaemonHandshake
  BY <1>10, UpgradedKeeps, RefuseEnds DEF TunnelInv, DaemonHandshake
<1>11. CASE DaemonFrame
  <2>1. CASE Finish(TRUE)
    BY <1>11, <2>1, FinishEnds DEF TunnelInv, DaemonFrame, Relaying
  <2>2. CASE DaemonPing
    <3>1. /\ cnQueue' \in [client : Nat, daemon : Nat]
          /\ cnQueue'.client = cnQueue.client /\ cnQueue'.daemon = cnQueue.daemon + 1
      BY <2>2, WrittenOut DEF TunnelInv, DaemonPing, Tunnel, TunnelTypes
    <3>2. LowWater \in Nat
      BY ConsoleAssumption
    <3>3. TunnelHolds' /\ BothRead'
      BY <2>2, <3>1, <3>2 DEF TunnelInv, DaemonPing, Tunnel, TunnelTypes, TunnelHolds, BothRead
    <3>4. cn' \in TunnelType /\ cn'.state = cn.state /\ cnSaid' = cnSaid
      BY <2>2 DEF DaemonPing, TunnelInv, Tunnel, TunnelTypes
    <3> QED BY <3>1, <3>3, <3>4, SilentStep DEF TunnelInv
  <2>3. ASSUME NEW n \in 1..MaxChunk, DaemonOutput(n), Relaying
        PROVE  Tunnel' /\ (cn.state = "Closed" => cn'.state = "Closed")
    <3>1. (cnQueue.client + n > HighWater) \in BOOLEAN
      OBVIOUS
    <3>2. (cnQueue.client + n > HighWater) => cnQueue.client + n > HighWater
      OBVIOUS
    <3> QED BY <2>3, <3>1, <3>2, OutputKeeps, Zenon DEF TunnelInv, DaemonOutput
  <2> QED BY <1>11, <2>1, <2>2, <2>3 DEF DaemonFrame
<1>12. CASE DaemonEnds
  BY <1>12, RefuseEnds, FinishEnds DEF TunnelInv, DaemonEnds, DaemonGone
<1>13. CASE SentToDaemon
  BY <1>13, SentToDaemonKeeps DEF TunnelInv
<1>14. CASE SentToClient
  BY <1>14, SentToClientKeeps DEF TunnelInv
<1>15. CASE ConsoleTimeout
  <2>1. cn.state # "Open"
    BY <1>15 DEF TunnelInv, Tunnel, TunnelHolds, ConsoleTimeout, Unarmed
  <2> QED BY <1>15, <2>1, RefuseEnds DEF TunnelInv, ConsoleTimeout
<1>16. CASE ConsoleTick
  <2>1. cn.timer - 1 \in Nat /\ cn.timer # Unarmed
    BY <1>16 DEF TunnelInv, Tunnel, TunnelTypes, TunnelType, ConsoleTick, Unarmed
  <2>2. cn' \in TunnelType /\ cn'.state = cn.state
    BY <1>16, <2>1 DEF TunnelInv, Tunnel, TunnelTypes, TunnelType, ConsoleTick
  <2>3. TunnelHolds' /\ BothRead'
    BY <1>16, <2>1 DEF TunnelInv, Tunnel, TunnelTypes, TunnelType, TunnelHolds, BothRead, ConsoleTick
  <2>4. cnSaid' = cnSaid /\ cnQueue' = cnQueue
    BY <1>16 DEF ConsoleTick
  <2> QED BY <2>2, <2>3, <2>4, SilentStep DEF TunnelInv, Tunnel, TunnelTypes
<1> QED
  BY <1>1, <1>2, <1>3, <1>4, <1>5, <1>6, <1>7, <1>8, <1>9, <1>10, <1>11, <1>12,
     <1>13, <1>14, <1>15, <1>16 DEF ConsoleNext

-----------------------------------------------------------------------------

\* A new tunnel waits for its open message and has said nothing
LEMMA TunnelInitial == ConsoleInit => TunnelInv
<1> SUFFICES ASSUME ConsoleInit PROVE TunnelInv
  OBVIOUS
<1>1. TunnelTypes
  <2>1. OpenDelay \in Nat
    BY ConsoleAssumption
  <2>2. <<>> \in Seq(Words)
    BY EmptySeq
  <2> QED BY <2>1, <2>2 DEF ConsoleInit, TunnelTypes, TunnelType, ConsoleStates
<1>2. SaidSoFar
  <2>1. cnSaid = <<>>
    BY DEF ConsoleInit
  <2> QED BY <2>1, SayingsAre DEF SaidSoFar
<1>3. TunnelHolds /\ Heard /\ BothRead
  BY DEF ConsoleInit, TunnelHolds, Heard, BothRead
<1> QED BY <1>1, <1>2, <1>3 DEF ConsoleInit, TunnelInv, Tunnel, AskedBefore

\* The call under way and the credentials a tunnel was opened with
LEMMA TunnelStep == TunnelInv /\ [ConsoleNext]_cnVars => TunnelInv'
<1> SUFFICES ASSUME TunnelInv, [ConsoleNext]_cnVars PROVE TunnelInv'
  OBVIOUS
<1>1. CASE UNCHANGED cnVars
  BY <1>1
  DEF cnVars, TunnelInv, Tunnel, TunnelTypes, TunnelHolds, SaidSoFar, Heard, BothRead, AskedBefore
<1>2. CASE ConsoleNext
  <2>1. Tunnel' /\ (cn.state = "Closed" => cn'.state = "Closed")
    BY <1>2, EveryStep
  <2>2. /\ cnAsked' \in {"nothing", "mode", "console"} /\ cnHere' \in BOOLEAN
        /\ cnStale' \in BOOLEAN
    BY <1>2
    DEF TunnelInv, ConsoleNext, OpenMessage, ClientMessage, TooBig, ClientClosing,
        BrowserGone, ChangeCredentials, ModeKnown, ConsoleAnswered, UpgradeDaemon,
        DaemonHandshake, DaemonFrame, DaemonEnds, SentToDaemon, SentToClient,
        ConsoleTimeout, ConsoleTick
  <2>3. AskedBefore'
    <3>1. CASE OpenMessage
      <4>1. CASE Refuse
        BY <3>1, <4>1, RefuseEnds DEF TunnelInv, OpenMessage, AskedBefore
      <4>2. CASE cn' = [cn EXCEPT !.state = "Opening", !.timer = Unarmed]
        BY <4>2 DEF TunnelInv, Tunnel, TunnelTypes, TunnelType, AskedBefore
      <4> QED BY <3>1, <4>1, <4>2 DEF OpenMessage
    <3>2. ASSUME cnAsked' = "mode", ~OpenMessage
          PROVE  /\ cnAsked = "mode"
                 /\ cn.state = "Opening" => cn'.state \in {"Opening", "Closed"}
      <4>1. cnAsked = "mode"
        BY <1>2, <3>2
        DEF ConsoleNext, ClientMessage, TooBig, ClientClosing,
            BrowserGone, ChangeCredentials, ModeKnown, ConsoleAnswered, UpgradeDaemon,
            DaemonHandshake, DaemonFrame, DaemonEnds, SentToDaemon, SentToClient,
            ConsoleTimeout, ConsoleTick
      <4>2. ASSUME cn.state = "Opening" PROVE cn'.state \in {"Opening", "Closed"}
        <5>1. ASSUME Refuse PROVE cn'.state = "Closed"
          BY <4>2, <5>1, RefuseEnds DEF TunnelInv
        <5> QED
          BY <1>2, <3>2, <4>1, <4>2, <5>1
          DEF TunnelInv, Tunnel, TunnelTypes, TunnelType, ConsoleNext, ClientMessage, TooBig,
              Reading, Relaying, ClientClosing, Detached, BrowserGone, ChangeCredentials,
              EndHouseholdConsoles, ModeKnown, ConsoleAnswered, UpgradeDaemon,
              DaemonHandshake, DaemonFrame, DaemonEnds, DaemonGone, SentToDaemon,
              SentToClient, ConsoleTimeout, ConsoleTick
      <4> QED BY <4>1, <4>2
    <3> QED BY <2>1, <3>1, <3>2 DEF TunnelInv, AskedBefore
  <2>4. cnStale' => cn'.state = "Closed"
    <3>1. CASE ChangeCredentials
      <4>1. CASE cn.state = "Open" /\ Finish(TRUE)
        BY <4>1, FinishEnds DEF TunnelInv
      <4>2. CASE cn.state \in {"Opening", "Attaching"} /\ Refuse
        BY <4>2, RefuseEnds DEF TunnelInv
      <4>3. CASE cn.state = "WaitOpen" /\ UNCHANGED cn
        BY <3>1, <4>3 DEF TunnelInv, ChangeCredentials
      <4>4. CASE cn.state = "Closed"
        BY <2>1, <4>4
      <4> QED BY <3>1, <4>1, <4>2, <4>3, <4>4 DEF ChangeCredentials, EndHouseholdConsoles
    <3>2. CASE ~ChangeCredentials
      <4>1. UNCHANGED cnStale
        BY <1>2, <3>2
        DEF ConsoleNext, OpenMessage, ClientMessage, TooBig, ClientClosing,
            BrowserGone, ModeKnown, ConsoleAnswered, UpgradeDaemon,
            DaemonHandshake, DaemonFrame, DaemonEnds, SentToDaemon, SentToClient,
            ConsoleTimeout, ConsoleTick
      <4> QED BY <2>1, <4>1 DEF TunnelInv
    <3> QED BY <3>1, <3>2
  <2> QED BY <2>1, <2>2, <2>3, <2>4 DEF TunnelInv
<1> QED BY <1>1, <1>2

\* Whatever the limits of the queues and the delays: a browser is refused before
\* it is ready or not at all, hears nothing of a closed tunnel, whose timer and
\* console are gone, and no side waits for a queue that has drained.
THEOREM TunnelIsSound == ConsoleSpec => []ConsoleIsSound
<1>1. TunnelInv => ConsoleIsSound
  BY DEF TunnelInv, Tunnel, TunnelHolds, SaidSoFar, ConsoleIsSound
<1> QED BY <1>1, TunnelInitial, TunnelStep, PTL DEF ConsoleSpec

\* The types TLC checks hold in the same states
THEOREM TunnelIsTyped == ConsoleSpec => []ConsoleTypeOK
<1>1. TunnelInv => ConsoleTypeOK
  BY DEF TunnelInv, Tunnel, TunnelTypes, TunnelType, Words, ConsoleTypeOK
<1> QED BY <1>1, TunnelInitial, TunnelStep, PTL DEF ConsoleSpec
-----------------------------------------------------------------------------
(* McpSidecar                                                              *)

Manager ==
  [token : Nat, attempts : Nat, timer : Nat \cup {Never}, down : BOOLEAN,
   installed : BOOLEAN]
Child == [alive : BOOLEAN, token : Nat, termed : BOOLEAN]
McpLog == [failures : Nat, exits : Nat, delays : Seq(Nat \cup {Never})]

McpState == mc \in Manager /\ mcExe \in Child /\ mcLog \in McpLog

\* The restart of a sidecar waits one of the delays, whatever the attempts before it.
LEMMA RestartsAreTyped ==
  ASSUME NEW m \in Manager
  PROVE  /\ ScheduleRestart(m) \in Manager
         /\ \A ok \in BOOLEAN : Spawned(m, ok) \in Manager
  <1>0. m.attempts \in Nat
    BY DEF Manager
  <1>1. Len(McpDelays) = 6 /\ \A n \in 1..6 : McpDelays[n] \in Nat
    BY DEF McpDelays
  <1>2. PICK n \in 1..6 : n = IF m.attempts < Len(McpDelays) THEN m.attempts + 1 ELSE Len(McpDelays)
    BY <1>0, <1>1
  <1>3. PICK delay \in Nat : delay = McpDelays[n]
    BY <1>1
  <1>4. ScheduleRestart(m) = [m EXCEPT !.timer = delay, !.attempts = m.attempts + 1]
    BY <1>2, <1>3 DEF ScheduleRestart
  <1>5. ScheduleRestart(m) \in Manager
    <2>1. PICK attempts \in Nat : attempts = m.attempts + 1
      BY <1>0
    <2>2. [m EXCEPT !.timer = delay, !.attempts = attempts] \in Manager
      BY DEF Manager
    <2> QED BY <1>4, <2>1, <2>2
  <1>6. [m EXCEPT !.attempts = 0] \in Manager
    BY DEF Manager
  <1>7. [ScheduleRestart(m) EXCEPT !.attempts = 0] \in Manager
    <2> HIDE DEF ScheduleRestart
    <2> QED BY <1>5 DEF Manager
  <1> QED BY <1>5, <1>6, <1>7 DEF Spawned

\* A failure, told to the history
LEMMA FailuresAreTyped ==
  ASSUME McpState, mc' \in Manager, mcLog' = [Failed EXCEPT !.delays = Append(@, mc'.timer)]
  PROVE  mcLog' \in McpLog
  <1>1. PICK timer \in Nat \cup {Never} : timer = mc'.timer
    BY DEF Manager
  <1>0. mcLog \in McpLog
    BY DEF McpState
  <1>5. PICK before \in Seq(Nat \cup {Never}) : before = mcLog.delays
    BY <1>0 DEF McpLog
  <1>2. PICK delays \in Seq(Nat \cup {Never}) : delays = Append(mcLog.delays, timer)
    <2>1. Append(before, timer) \in Seq(Nat \cup {Never})
      BY AppendProperties
    <2> QED BY <1>5, <2>1
  <1>6. PICK failures \in Nat, exits \in Nat :
          failures = mcLog.failures + 1 /\ exits = mcLog.exits + 1
    BY <1>0 DEF McpLog
  <1>7. Failed = [mcLog EXCEPT !.failures = failures, !.exits = exits]
    BY <1>6 DEF Failed
  <1>3. Failed \in McpLog /\ Failed.delays = mcLog.delays
    BY <1>0, <1>7 DEF McpLog
  <1>4. mcLog' = [Failed EXCEPT !.delays = delays]
    BY <1>1, <1>2, <1>3
  <1> QED BY <1>3, <1>4 DEF McpLog

\* A step of the manager keeps the types.
LEMMA McpStepTypes == McpState /\ [McpNext]_mcpVars => McpState'
  <1> SUFFICES ASSUME McpState, [McpNext]_mcpVars PROVE McpState'
    OBVIOUS
  <1>0. mc \in Manager /\ mcExe \in Child /\ mcLog \in McpLog
    BY DEF McpState
  <1>1. NoChild \in Child
    BY DEF NoChild, Child
  <1>2. CASE RestartDue
    <2>1. PICK m \in Manager : m = [mc EXCEPT !.timer = Never]
      BY <1>0 DEF Manager
    <2>2. SpawnSidecar(m)
      BY <1>2, <2>1 DEF RestartDue
    <2>3. CASE mc' = m /\ UNCHANGED <<mcExe, mcLog>>
      BY <1>0, <2>3 DEF McpState
    <2>4. CASE /\ mc' = Spawned(m, TRUE) /\ UNCHANGED mcLog
               /\ mcExe' = [alive |-> TRUE, token |-> m.token, termed |-> FALSE]
      <3>1. mcExe' \in Child
        BY <2>1, <2>4 DEF Child, Manager
      <3> QED BY <1>0, <2>4, <3>1, RestartsAreTyped DEF McpState
    <2>5. CASE /\ mc' = Spawned(m, FALSE) /\ mcExe' = NoChild
               /\ mcLog' = [Failed EXCEPT !.delays = Append(@, mc'.timer)]
      <3>1. mc' \in Manager
        BY <2>5, RestartsAreTyped
      <3> QED BY <1>1, <2>5, <3>1, FailuresAreTyped DEF McpState
    <2> QED BY <2>2, <2>3, <2>4, <2>5 DEF SpawnSidecar
  <1>3. CASE SidecarExits
    <2>1. mc' \in Manager /\ mcExe' = NoChild
      BY <1>0, <1>3, RestartsAreTyped DEF SidecarExits
    <2>2. CASE mcLog' = mcLog
      BY <1>0, <1>1, <2>1, <2>2 DEF McpState
    <2>3. CASE mcLog' = [Failed EXCEPT !.delays = Append(@, mc'.timer)]
      BY <1>1, <2>1, <2>3, FailuresAreTyped DEF McpState
    <2> QED BY <1>3, <2>2, <2>3 DEF SidecarExits
  <1>4. CASE RegenerateBearerToken
    <2>1. mc' \in Manager
      BY <1>0, <1>4 DEF RegenerateBearerToken, Manager
    <2>2. PICK termed \in BOOLEAN : termed = (mcExe.termed \/ mcExe.alive)
      OBVIOUS
    <2>3. mcExe' = [mcExe EXCEPT !.termed = termed] /\ mcLog' = mcLog
      BY <1>4, <2>2 DEF RegenerateBearerToken
    <2>4. mcExe' \in Child
      BY <1>0, <2>3 DEF Child
    <2> QED BY <1>0, <2>1, <2>3, <2>4 DEF McpState
  <1>5. CASE McpStop
    <2>1. mc' \in Manager
      BY <1>0, <1>5 DEF McpStop, Manager
    <2> QED BY <1>0, <1>1, <1>5, <2>1 DEF McpStop, McpState
  <1>6. CASE Serves
    <2>1. <<>> \in Seq(Nat \cup {Never})
      OBVIOUS
    <2>2. mcLog' \in McpLog
      BY <1>0, <1>6, <2>1 DEF Serves, McpLog
    <2> QED BY <1>0, <1>6, <2>2 DEF Serves, McpState
  <1>7. CASE McpTick
    <2>1. PICK left \in Nat : left = mc.timer - 1
      BY <1>0, <1>7 DEF McpTick, Manager, Never
    <2>2. mc' = [mc EXCEPT !.timer = left]
      BY <1>7, <2>1 DEF McpTick
    <2>3. mc' \in Manager
      BY <1>0, <2>2 DEF Manager
    <2> QED BY <1>0, <1>7, <2>3 DEF McpTick, McpState
  <1>8. CASE UNCHANGED mcpVars
    BY <1>0, <1>8 DEF mcpVars, McpState
  <1> QED BY <1>2, <1>3, <1>4, <1>5, <1>6, <1>7, <1>8 DEF McpNext

\* The manager of the sidecar, its timer and its token keep their types.
THEOREM McpTypes == McpSpec => []McpTypeOK
  <1>1. McpInit => McpState
    <2>1. <<>> \in Seq(Nat \cup {Never})
      OBVIOUS
    <2> QED BY <2>1 DEF McpInit, McpState, Manager, Child, McpLog, NoChild
  <1>2. McpState => McpTypeOK
    BY DEF McpState, McpTypeOK, Manager, Child, McpLog
  <1> QED BY <1>1, <1>2, McpStepTypes, PTL DEF McpSpec
-----------------------------------------------------------------------------
(* WebSocket: its types                                                    *)

WsTimer == Nat \cup {Off}
Socket ==
  [status : {"http", "opened", "closing", "closed"}, handle : {"open", "shutting", "shut"},
   pending : BOOLEAN, once : Seq(BOOLEAN), ping : WsTimer, close : WsTimer,
   read : WsTimer, linger : WsTimer, pong : BOOLEAN, missed : Nat,
   closeReceived : BOOLEAN, connClose : BOOLEAN, rest : BOOLEAN]
FrameNumbers == 1..MaxWsFrames
Inbox ==
  [current : Seq(FrameNumbers), fragmented : BOOLEAN, delivered : Seq(Seq(FrameNumbers))]
Peer == [alive : BOOLEAN, sent : Seq(FrameKinds)]

SocketState ==
  /\ ws \in Socket /\ wsIn \in Inbox
  /\ wsPeer \in Peer /\ Len(wsPeer.sent) <= MaxWsFrames

\* What the handlers share leaves a connection of the same types.
LEMMA HandlersTypes ==
  ASSUME NEW s \in Socket, NEW force \in BOOLEAN
  PROVE  /\ CloseConnection(s) \in Socket /\ Gone(s) \in Socket
         /\ SendCloseFrame(s, force) \in Socket /\ Written(s, force) \in Socket
  <1>0. Off \in WsTimer /\ CloseDelay \in WsTimer /\ <<>> \in Seq(BOOLEAN)
    BY SocketAssumption DEF WsTimer
  <1>1. ASSUME NEW t \in Socket PROVE CloseConnection(t) \in Socket
    <2>1. [t EXCEPT !.handle = "shutting", !.linger = Off] \in Socket
      BY <1>0 DEF Socket
    <2> QED BY <2>1 DEF CloseConnection
  <1>2. Gone(s) \in Socket
    BY <1>0 DEF Gone, Socket
  <1>3. SendCloseFrame(s, force) \in Socket
    <2>1. PICK once \in Seq(BOOLEAN) : once = Append(s.once, force)
      <3>1. s.once \in Seq(BOOLEAN)
        BY DEF Socket
      <3> QED BY <3>1, AppendProperties
    <2>2. [s EXCEPT !.pending = TRUE, !.once = once] \in Socket
      BY DEF Socket
    <2> QED BY <2>1, <2>2 DEF SendCloseFrame
  <1>4. Written(s, force) \in Socket
    <2>1. PICK t \in Socket : t = [s EXCEPT !.ping = Off]
      <3>1. [s EXCEPT !.ping = Off] \in Socket
        BY <1>0 DEF Socket
      <3> QED BY <3>1
    <2>2. [t EXCEPT !.status = "closing", !.close = CloseDelay] \in Socket
      BY <1>0 DEF Socket
    <2>3. [t EXCEPT !.status = "closed"] \in Socket
      BY DEF Socket
    <2> QED BY <1>1, <2>1, <2>2, <2>3 DEF Written
  <1> QED BY <1>1, <1>2, <1>3, <1>4

\* The end of a write, whichever close frames it is the end of
LEMMA WrittenTypes ==
  ASSUME NEW s \in Socket, NEW once \in Seq(BOOLEAN)
  PROVE  FoldLeft(Written, s, once) \in Socket
  <1> DEFINE N == Len(once)
             V == Socket
             step == [q \in V \X (1..N) |-> Written(q[1], once[q[2]])]
             Is(f) == f = [t \in SUBSET (1..N) |->
                             IF t = {} THEN s
                             ELSE Written(f[t \ {Max(t)}], once[Max(t)])]
             iter == CHOOSE f : Is(f)
  <1>1. N \in Nat /\ DOMAIN once = 1..N /\ \A i \in 1..N : once[i] \in BOOLEAN
    OBVIOUS
  <1>2. s \in V
    OBVIOUS
  <1>3. \A r \in V, i \in 1..N : step[<<r, i>>] = Written(r, once[i])
    OBVIOUS
  <1>4. step \in StepsOf(V, N)
    <2>1. ASSUME NEW q \in V \X (1..N)
          PROVE  Written(q[1], once[q[2]]) \in V
      BY <1>1, HandlersTypes
    <2> QED BY <2>1 DEF StepsOf
  <1>5. FoldLeft(Written, s, once) = iter[1..N]
    BY <1>1 DEF FoldLeft, MapThenFoldSet
  <1> HIDE DEF N, step, V
  <1>6. PICK g : Recurs(V, s, N, step, g)
    <2> HIDE DEF Is, iter
    <2>1. N \in Nat
      BY <1>1
    <2> QED BY <2>1, <1>2, <1>4, FoldIsDefined
  <1>7. Is(g)
    <2>1. ASSUME NEW t \in SUBSET (1..N), t # {}
          PROVE  g[t] = Written(g[t \ {Max(t)}], once[Max(t)])
      <3>1. Max(t) \in 1..N /\ t \ {Max(t)} \in SUBSET (1..N)
        BY <1>1, <2>1, MaxBelow
      <3>2. g[t \ {Max(t)}] \in V
        BY <1>6, <3>1 DEF Recurs
      <3>3. g[t] = step[<<g[t \ {Max(t)}], Max(t)>>]
        BY <1>6, <2>1 DEF Recurs
      <3> QED BY <1>3, <3>1, <3>2, <3>3
    <2>2. \A t \in SUBSET (1..N) : g[t] = IF t = {} THEN s
                             ELSE Written(g[t \ {Max(t)}], once[Max(t)])
      BY <1>6, <2>1 DEF Recurs
    <2>3. g = [t \in SUBSET (1..N) |-> g[t]]
      BY <1>6 DEF Recurs
    <2> QED BY <2>2, <2>3
  <1>8. Is(iter)
    <2> HIDE DEF Is
    <2> QED BY <1>7
  <1> HIDE DEF iter
  <1>9. \A t \in SUBSET (1..N) : iter[t] = IF t = {} THEN s
                             ELSE Written(iter[t \ {Max(t)}], once[Max(t)])
    BY <1>8
  <1>10. iter[{}] = s
    BY <1>9
  <1>11. ASSUME NEW i \in 1..N, iter[1..(i - 1)] \in V
         PROVE  iter[1..i] = step[<<iter[1..(i - 1)], i>>]
    <2>1. /\ 1..i \in SUBSET (1..N) /\ 1..i # {} /\ Max(1..i) = i
          /\ (1..i) \ {i} = 1..(i - 1)
      BY <1>1, PrefixIs
    <2>2. iter[1..i] = Written(iter[1..(i - 1)], once[i])
      BY <1>9, <2>1
    <2> QED BY <1>3, <1>11, <2>2
  <1>12. StepsAlong(V, s, N, step, iter)
    BY <1>10, <1>11 DEF StepsAlong
  <1>13. PICK p : Passes(V, s, N, step, p) /\ p[N] = iter[1..N]
    <2> HIDE DEF Is
    <2>1. N \in Nat
      BY <1>1
    <2> QED BY <2>1, <1>2, <1>4, <1>12, FoldPasses
  <1>14. p[N] \in V
    BY <1>1, <1>13 DEF Passes
  <1> QED BY <1>5, <1>13, <1>14 DEF V

-----------------------------------------------------------------------------
(* WebSocket: the messages that the frames of the peer make                *)

\* The fragments that are kept are the data frames since a message ended.
IsKept(current, fragmented, sent) ==
  /\ \A k, l \in DOMAIN current : k < l => current[k] < current[l]
  /\ Range(current) = {j \in Data(sent) : \A e \in Ends(sent) : e < j}
  /\ fragmented <=> current # <<>>
AreMessages(delivered, sent) ==
  /\ \A k \in DOMAIN delivered : IsMessage(delivered[k], sent)
  /\ {Last(delivered[k]) : k \in DOMAIN delivered} = Ends(sent)
  /\ \A k, l \in DOMAIN delivered : k < l => Last(delivered[k]) < Last(delivered[l])

\* A message is open: its last data frame announces another.
Unended(sent) ==
  \E j \in Data(sent) : sent[j] \in {"start", "more"} /\ \A k \in Data(sent) : k <= j
DataKinds == {"text", "empty"} \cup Fragments
EndKinds == {"text", "empty", "last"}

\* One more frame is one more number.
Adds(sent, kind, next, n) ==
  /\ n = Len(sent) + 1
  /\ Data(sent) \subseteq 1..(n - 1) /\ Ends(sent) \subseteq Data(sent)
  /\ next[n] = kind /\ \A i \in 1..(n - 1) : next[i] = sent[i]
  /\ DOMAIN sent = 1..(n - 1) /\ DOMAIN next = 1..n
  /\ Data(next) = IF kind \in DataKinds THEN Data(sent) \cup {n} ELSE Data(sent)
  /\ Ends(next) = IF kind \in EndKinds THEN Ends(sent) \cup {n} ELSE Ends(sent)

LEMMA FrameAdds ==
  ASSUME NEW sent \in Seq(FrameKinds), NEW kind \in FrameKinds
  PROVE  \E n \in Nat : Adds(sent, kind, Append(sent, kind), n)
  <1> PICK n \in Nat : n = Len(sent) + 1
    OBVIOUS
  <1> PICK next : next = Append(sent, kind)
    OBVIOUS
  <1>0. n = Len(sent) + 1 /\ next = Append(sent, kind)
    OBVIOUS
  <1>1. DOMAIN sent = 1..(n - 1) /\ DOMAIN next = 1..n
    BY <1>0
  <1>2. next[n] = kind /\ \A i \in 1..(n - 1) : next[i] = sent[i]
    BY <1>0
  <1>3. 1..n = (1..(n - 1)) \cup {n} /\ n \notin 1..(n - 1)
    BY <1>0
  <1>4. Data(next) = IF kind \in DataKinds THEN Data(sent) \cup {n} ELSE Data(sent)
    BY <1>1, <1>2, <1>3 DEF Data, DataKinds
  <1>5. Ends(next) = IF kind \in EndKinds THEN Ends(sent) \cup {n} ELSE Ends(sent)
    <2>1. EndKinds \subseteq DataKinds
      BY DEF EndKinds, DataKinds, Fragments
    <2>2. \A i \in Data(sent) : i \in 1..(n - 1)
      BY <1>1 DEF Data
    <2> QED BY <1>2, <1>3, <1>4, <2>1, <2>2 DEF Ends, EndKinds
  <1>6. Data(sent) \subseteq 1..(n - 1) /\ Ends(sent) \subseteq Data(sent)
    BY <1>1 DEF Data, Ends
  <1>7. Adds(sent, kind, next, n)
    BY <1>0, <1>1, <1>2, <1>4, <1>5, <1>6 DEF Adds
  <1> QED BY <1>0, <1>7

\* Frames that come in turn came in turn before, and the last of them did.
LEMMA TurnsBefore ==
  ASSUME NEW sent \in Seq(FrameKinds), NEW kind \in FrameKinds, InTurn(Append(sent, kind))
  PROVE  /\ InTurn(sent) /\ kind \notin Refused \cup {"big"}
         /\ kind \in DataKinds => (Unended(sent) <=> kind \in {"more", "last"})
  <1>0. PICK next : next = Append(sent, kind)
    OBVIOUS
  <1>1. PICK m \in Nat : Adds(sent, kind, next, m)
    BY <1>0, FrameAdds
  <1>2. /\ m \in Nat /\ m >= 1 /\ Data(sent) \subseteq 1..(m - 1)
        /\ next[m] = kind /\ \A i \in 1..(m - 1) : next[i] = sent[i]
        /\ DOMAIN sent = 1..(m - 1) /\ DOMAIN next = 1..m
        /\ Data(next) = IF kind \in DataKinds THEN Data(sent) \cup {m} ELSE Data(sent)
    BY <1>1 DEF Adds
  <1> DEFINE Ahead(s, i) == {j \in Data(s) : j < i}
             Opens(s, i) == \E j \in Ahead(s, i) : s[j] \in {"start", "more"}
                              /\ \A k \in Ahead(s, i) : k <= j
  <1>3. /\ \A i \in DOMAIN next : next[i] \notin Refused \cup {"big"}
        /\ \A i \in Data(next) : Opens(next, i) <=> next[i] \in {"more", "last"}
    BY <1>0 DEF InTurn
  <1>4. ASSUME NEW i \in Data(sent)
        PROVE  Opens(sent, i) <=> sent[i] \in {"more", "last"}
    <2>1. i \in Data(next) /\ next[i] = sent[i]
      BY <1>2
    <2>2. Ahead(sent, i) = Ahead(next, i) /\ \A j \in Ahead(sent, i) : next[j] = sent[j]
      BY <1>2
    <2>3. Opens(sent, i) <=> Opens(next, i)
      <3> HIDE DEF Ahead
      <3> QED BY <2>2
    <2> HIDE DEF Opens
    <2> QED BY <1>3, <2>1, <2>3
  <1>5. \A i \in DOMAIN sent : sent[i] \notin Refused \cup {"big"}
    BY <1>2, <1>3
  <1>6. InTurn(sent)
    BY <1>4, <1>5 DEF InTurn
  <1>7. ASSUME kind \in DataKinds PROVE Unended(sent) <=> kind \in {"more", "last"}
    <2>1. m \in Data(next)
      BY <1>2, <1>7
    <2>2. Ahead(next, m) = Data(sent) /\ \A j \in Data(sent) : next[j] = sent[j]
      BY <1>2
    <2>3. Opens(next, m) <=> Unended(sent)
      <3> HIDE DEF Ahead
      <3> QED BY <2>2 DEF Unended
    <2> HIDE DEF Opens
    <2> QED BY <1>2, <1>3, <2>1, <2>3
  <1>8. kind \notin Refused \cup {"big"}
    <2>1. m \in DOMAIN next
      BY <1>2
    <2> QED BY <1>2, <1>3, <2>1
  <1> QED BY <1>6, <1>7, <1>8

\* A message stays one, whatever comes after it.
LEMMA MessagesStay ==
  ASSUME NEW sent \in Seq(FrameKinds), NEW kind \in FrameKinds,
         NEW message \in Seq(Nat), IsMessage(message, sent)
  PROVE  IsMessage(message, Append(sent, kind)) /\ Last(message) \in Data(sent)
  <1>0. PICK next : next = Append(sent, kind)
    OBVIOUS
  <1>1. PICK n \in Nat : Adds(sent, kind, next, n)
    BY <1>0, FrameAdds
  <1>2. /\ n \in Nat /\ Data(sent) \subseteq 1..(n - 1) /\ Ends(sent) \subseteq Data(sent)
        /\ Data(next) = IF kind \in DataKinds THEN Data(sent) \cup {n} ELSE Data(sent)
        /\ Ends(next) = IF kind \in EndKinds THEN Ends(sent) \cup {n} ELSE Ends(sent)
    BY <1>1 DEF Adds
  <1>3. PICK last \in Nat : last = Last(message) /\ last \in Range(message)
    <2>1. message # <<>>
      BY DEF IsMessage
    <2>2. Len(message) \in DOMAIN message /\ message[Len(message)] \in Nat
      BY <2>1
    <2> QED BY <2>2 DEF Last, Range
  <1>4. Range(message) = {j \in Data(sent) : j <= last /\ \A e \in Ends(sent) : e < last => e < j}
    BY <1>3 DEF IsMessage
  <1>5. last \in Data(sent) /\ last < n
    <2>1. last \in Data(sent)
      BY <1>3, <1>4
    <2> QED BY <1>2, <2>1
  <1>6. Range(message) = {j \in Data(next) : j <= last /\ \A e \in Ends(next) : e < last => e < j}
    BY <1>2, <1>4, <1>5
  <1> QED BY <1>0, <1>3, <1>5, <1>6 DEF IsMessage

\* Fragments are kept when a message is open.
LEMMA KeptIsOpen ==
  ASSUME NEW sent \in Seq(FrameKinds), NEW current \in Seq(Nat), NEW fragmented \in BOOLEAN,
         IsKept(current, fragmented, sent)
  PROVE  fragmented <=> Unended(sent)
  <1>1. /\ Range(current) = {j \in Data(sent) : \A e \in Ends(sent) : e < j}
        /\ fragmented <=> current # <<>>
        /\ \A k, l \in DOMAIN current : k < l => current[k] < current[l]
    BY DEF IsKept
  <1>2. /\ Data(sent) \subseteq Nat /\ Ends(sent) \subseteq Data(sent)
        /\ \A j \in Data(sent) : j \notin Ends(sent) <=> sent[j] \in {"start", "more"}
    BY DEF Data, Ends, Fragments
  <1>3. ASSUME current # <<>> PROVE Unended(sent)
    <2>1. PICK m \in Nat : m = Len(current) /\ m \in DOMAIN current /\ current[m] \in Nat
      BY <1>3
    <2>2. PICK last \in Nat : last = current[m]
      BY <2>1
    <2>3. last \in Range(current)
      BY <2>1, <2>2 DEF Range
    <2>4. last \in Data(sent) /\ \A e \in Ends(sent) : e < last
      BY <1>1, <2>3
    <2>5. last \notin Ends(sent)
      BY <2>4
    <2>6. ASSUME NEW k \in Data(sent) PROVE k <= last
      <3>1. CASE k \in Range(current)
        <4>1. PICK i \in DOMAIN current : k = current[i]
          BY <3>1 DEF Range
        <4>2. i \in Nat /\ i <= m
          BY <2>1
        <4>3. CASE i = m
          BY <4>1, <4>3, <2>2
        <4>4. CASE i # m
          <5>1. current[i] < current[m]
            BY <1>1, <2>1, <4>2, <4>4
          <5> QED BY <1>2, <2>2, <4>1, <5>1
        <4> QED BY <4>3, <4>4
      <3>2. CASE k \notin Range(current)
        <4>1. PICK e \in Ends(sent) : ~(e < k)
          BY <1>1, <3>2
        <4>2. e < last /\ e \in Nat /\ k \in Nat
          BY <1>2, <2>4
        <4> QED BY <4>1, <4>2
      <3> QED BY <3>1, <3>2
    <2> QED BY <1>2, <2>4, <2>5, <2>6 DEF Unended
  <1>4. ASSUME Unended(sent) PROVE current # <<>>
    <2>1. PICK j \in Data(sent) : sent[j] \in {"start", "more"} /\ \A k \in Data(sent) : k <= j
      BY <1>4 DEF Unended
    <2>2. j \notin Ends(sent)
      BY <1>2, <2>1
    <2>3. \A e \in Ends(sent) : e < j
      BY <1>2, <2>1, <2>2
    <2>4. j \in Range(current)
      BY <1>1, <2>3
    <2> QED BY <2>4 DEF Range
  <1> QED BY <1>1, <1>3, <1>4

\* What is kept, after one more frame
LEMMA FrameIsKept ==
  ASSUME NEW sent \in Seq(FrameKinds), NEW kind \in FrameKinds, NEW current \in Seq(Nat),
         NEW fragmented \in BOOLEAN, IsKept(current, fragmented, sent)
  PROVE  /\ kind \notin DataKinds => IsKept(current, fragmented, Append(sent, kind))
         /\ kind \in {"start", "more"} =>
              IsKept(Append(current, Len(sent) + 1), TRUE, Append(sent, kind))
         /\ kind \in EndKinds =>
              /\ IsKept(<<>>, FALSE, Append(sent, kind))
              /\ IsMessage(Append(current, Len(sent) + 1), Append(sent, kind))
              /\ Last(Append(current, Len(sent) + 1)) = Len(sent) + 1
  <1> PICK next : next = Append(sent, kind)
    OBVIOUS
  <1> PICK m \in Seq(Nat) : m = Append(current, Len(sent) + 1)
    <2>1. Len(sent) + 1 \in Nat
      OBVIOUS
    <2>2. Append(current, Len(sent) + 1) \in Seq(Nat)
      BY <2>1, AppendProperties
    <2> QED BY <2>2
  <1>1. PICK n \in Nat : Adds(sent, kind, next, n)
    BY FrameAdds
  <1>2. /\ n = Len(sent) + 1 /\ Data(sent) \subseteq 1..(n - 1) /\ Ends(sent) \subseteq Data(sent)
        /\ Data(next) = IF kind \in DataKinds THEN Data(sent) \cup {n} ELSE Data(sent)
        /\ Ends(next) = IF kind \in EndKinds THEN Ends(sent) \cup {n} ELSE Ends(sent)
    BY <1>1 DEF Adds
  <1>3. /\ Range(current) = {j \in Data(sent) : \A e \in Ends(sent) : e < j}
        /\ fragmented <=> current # <<>>
        /\ \A k, l \in DOMAIN current : k < l => current[k] < current[l]
    BY DEF IsKept
  <1>4. EndKinds \subseteq DataKinds /\ {"start", "more"} \subseteq DataKinds
        /\ EndKinds \cap {"start", "more"} = {}
    BY DEF EndKinds, DataKinds, Fragments
  <1>5. /\ Len(m) = Len(current) + 1 /\ m # <<>> /\ m[Len(m)] = n
        /\ \A k \in DOMAIN current : m[k] = current[k] /\ k < Len(m) /\ k \in DOMAIN m
        /\ \A k \in DOMAIN m : k = Len(m) \/ k \in DOMAIN current
        /\ Len(m) \in DOMAIN m
    BY <1>2
  <1>6. Range(m) = Range(current) \cup {n}
    <2>1. ASSUME NEW x \in Range(m) PROVE x \in Range(current) \cup {n}
      BY <1>5, <2>1 DEF Range
    <2>2. ASSUME NEW x \in Range(current) \cup {n} PROVE x \in Range(m)
      BY <1>5, <2>2 DEF Range
    <2> QED BY <2>1, <2>2
  <1>7. \A k, l \in DOMAIN m : k < l => m[k] < m[l]
    <2>1. ASSUME NEW k \in DOMAIN m, NEW l \in DOMAIN m, k < l PROVE m[k] < m[l]
      <3>1. k \in DOMAIN current
        BY <1>5, <2>1
      <3>2. CASE l \in DOMAIN current
        BY <1>3, <1>5, <2>1, <3>1, <3>2
      <3>3. CASE l = Len(m)
        <4>1. current[k] \in Range(current)
          BY <3>1 DEF Range
        <4>2. current[k] \in Data(sent)
          BY <1>3, <4>1
        <4>3. current[k] < n
          BY <1>2, <4>2
        <4> QED BY <1>5, <3>1, <3>3, <4>3
      <3> QED BY <1>5, <3>2, <3>3
    <2> QED BY <2>1
  <1>8. ASSUME kind \notin DataKinds PROVE IsKept(current, fragmented, next)
    BY <1>2, <1>3, <1>4, <1>8 DEF IsKept
  <1>9. ASSUME kind \in {"start", "more"} PROVE IsKept(m, TRUE, next)
    <2>1. Data(next) = Data(sent) \cup {n} /\ Ends(next) = Ends(sent)
      BY <1>2, <1>4, <1>9
    <2>2. \A e \in Ends(sent) : e < n
      BY <1>2
    <2>3. Range(m) = {j \in Data(next) : \A e \in Ends(next) : e < j}
      BY <1>3, <1>6, <2>1, <2>2
    <2> QED BY <1>5, <1>7, <2>3 DEF IsKept
  <1>10. ASSUME kind \in EndKinds
         PROVE  IsKept(<<>>, FALSE, next) /\ IsMessage(m, next) /\ Last(m) = n
    <2>1. Data(next) = Data(sent) \cup {n} /\ Ends(next) = Ends(sent) \cup {n}
      BY <1>2, <1>4, <1>10
    <2>2. Last(m) = n
      BY <1>5 DEF Last
    <2>3. \A j \in Data(next) : j <= n /\ j \in Nat
      BY <1>2, <2>1
    <2>4. \A e \in Ends(next) : e < n <=> e \in Ends(sent)
      BY <1>2, <2>1
    <2>5. \A e \in Ends(sent) : e < n
      BY <1>2
    <2>6. Range(m) = {j \in Data(next) : j <= n /\ \A e \in Ends(next) : e < n => e < j}
      BY <1>3, <1>6, <2>1, <2>3, <2>4, <2>5
    <2>7. IsMessage(m, next)
      BY <1>5, <1>7, <2>2, <2>6 DEF IsMessage
    <2>8. {j \in Data(next) : \A e \in Ends(next) : e < j} = {}
      <3>1. n \in Ends(next)
        BY <2>1
      <3>2. \A j \in Data(next) : ~(n < j)
        BY <2>3
      <3> QED BY <3>1, <3>2
    <2>9. Range(<<>>) = {} /\ DOMAIN <<>> = {}
      BY DEF Range
    <2>10. IsKept(<<>>, FALSE, next)
      BY <2>8, <2>9 DEF IsKept
    <2> QED BY <2>2, <2>7, <2>10
  <1> QED BY <1>2, <1>8, <1>9, <1>10

\* The messages delivered, after one more frame
LEMMA MessagesGrow ==
  ASSUME NEW sent \in Seq(FrameKinds), NEW kind \in FrameKinds, NEW delivered \in Seq(Seq(Nat)),
         AreMessages(delivered, sent), NEW next, next = Append(sent, kind)
  PROVE  /\ kind \notin EndKinds => AreMessages(delivered, next)
         /\ \A m \in Seq(Nat) :
              kind \in EndKinds /\ IsMessage(m, next) /\ Last(m) = Len(sent) + 1
                => AreMessages(Append(delivered, m), next)
  <1>1. PICK n \in Nat : Adds(sent, kind, next, n)
    BY FrameAdds
  <1>2. /\ n = Len(sent) + 1 /\ Data(sent) \subseteq 1..(n - 1) /\ Ends(sent) \subseteq Data(sent)
        /\ Ends(next) = IF kind \in EndKinds THEN Ends(sent) \cup {n} ELSE Ends(sent)
    BY <1>1 DEF Adds
  <1>3. /\ \A k \in DOMAIN delivered : IsMessage(delivered[k], sent)
        /\ {Last(delivered[k]) : k \in DOMAIN delivered} = Ends(sent)
        /\ \A k, l \in DOMAIN delivered : k < l => Last(delivered[k]) < Last(delivered[l])
    BY DEF AreMessages
  <1>4. \A k \in DOMAIN delivered : IsMessage(delivered[k], next)
    <2>1. \A k \in DOMAIN delivered : delivered[k] \in Seq(Nat)
      OBVIOUS
    <2> QED BY <1>3, <2>1, MessagesStay
  <1>5. kind \notin EndKinds => AreMessages(delivered, next)
    BY <1>2, <1>3, <1>4 DEF AreMessages
  <1>6. ASSUME NEW m \in Seq(Nat), kind \in EndKinds, IsMessage(m, next), Last(m) = n
        PROVE  AreMessages(Append(delivered, m), next)
    <2>1. PICK d : d = Append(delivered, m)
      OBVIOUS
    <2>2. /\ Len(d) \in DOMAIN d /\ d[Len(d)] = m
          /\ \A k \in DOMAIN delivered : d[k] = delivered[k] /\ k \in DOMAIN d
          /\ \A k \in DOMAIN d : k = Len(d) \/ k \in DOMAIN delivered
          /\ \A k \in DOMAIN d : k <= Len(d) /\ k \in Nat
          /\ Len(d) \in Nat
      BY <2>1
    <2>3. \A k \in DOMAIN d : IsMessage(d[k], next)
      BY <1>4, <1>6, <2>2
    <2>4. {Last(d[k]) : k \in DOMAIN d} = {Last(delivered[k]) : k \in DOMAIN delivered} \cup {n}
      <3>1. ASSUME NEW k \in DOMAIN d
            PROVE  Last(d[k]) \in {Last(delivered[i]) : i \in DOMAIN delivered} \cup {n}
        BY <1>6, <2>2
      <3>2. ASSUME NEW k \in DOMAIN delivered
            PROVE  Last(delivered[k]) \in {Last(d[i]) : i \in DOMAIN d}
        BY <2>2
      <3>3. n \in {Last(d[i]) : i \in DOMAIN d}
        BY <1>6, <2>2
      <3> QED BY <3>1, <3>2, <3>3
    <2>5. ASSUME NEW k \in DOMAIN d, NEW l \in DOMAIN d, k < l PROVE Last(d[k]) < Last(d[l])
      <3>1. k \in DOMAIN delivered
        BY <2>2, <2>5
      <3>2. CASE l \in DOMAIN delivered
        BY <1>3, <2>2, <2>5, <3>1, <3>2
      <3>3. CASE l = Len(d)
        <4>1. Last(delivered[k]) \in Ends(sent)
          BY <1>3, <3>1
        <4>2. Last(delivered[k]) < n
          BY <1>2, <4>1
        <4> QED BY <1>6, <2>2, <3>1, <3>3, <4>2
      <3> QED BY <2>2, <3>2, <3>3
    <2> QED BY <1>2, <1>3, <1>6, <2>1, <2>3, <2>4, <2>5 DEF AreMessages
  <1> QED BY <1>2, <1>5, <1>6

\* What the connection has taken of the frames of its peer
SocketInv ==
  /\ SocketState
  /\ InTurn(wsPeer.sent) =>
       /\ IsKept(wsIn.current, wsIn.fragmented, wsPeer.sent)
       /\ AreMessages(wsIn.delivered, wsPeer.sent)

\* A frame that is refused ends what is left of the read.
LEMMA RefusalTypes ==
  ASSUME NEW s \in Socket
  PROVE  [SendCloseFrame(s, FALSE) EXCEPT !.rest = FALSE] \in Socket
  <1>1. PICK t \in Socket : t = SendCloseFrame(s, FALSE)
    BY HandlersTypes
  <1>2. [t EXCEPT !.rest = FALSE] \in Socket
    BY DEF Socket
  <1> QED BY <1>1, <1>2

\* What a data frame does to what is kept and delivered, that it comes in turn or not
LEMMA DataFrameTaken ==
  ASSUME SocketState, NEW kind \in Single \cup Fragments, DataFrame(kind, Len(wsPeer.sent) + 1),
         Len(wsPeer.sent) < MaxWsFrames, Len(wsPeer.sent) + 1 \in FrameNumbers
  PROVE  /\ ws' \in Socket /\ wsIn' \in Inbox
         /\ \/ OutOfTurn(kind)
            \/ /\ kind \in {"start", "more"} /\ wsIn'.fragmented = TRUE
               /\ wsIn'.current = Append(wsIn.current, Len(wsPeer.sent) + 1)
               /\ wsIn'.delivered = wsIn.delivered
            \/ /\ kind \in EndKinds /\ wsIn'.fragmented = FALSE /\ wsIn'.current = <<>>
               /\ wsIn'.delivered =
                    Append(wsIn.delivered, Append(wsIn.current, Len(wsPeer.sent) + 1))
  <1>0. /\ ws \in Socket /\ wsIn \in Inbox
    BY DEF SocketState
  <1>1. PICK n \in FrameNumbers : n = Len(wsPeer.sent) + 1
    OBVIOUS
  <1>2. PICK current \in Seq(FrameNumbers), delivered \in Seq(Seq(FrameNumbers)) :
          current = wsIn.current /\ delivered = wsIn.delivered
    BY <1>0 DEF Inbox
  <1>3. PICK m \in Seq(FrameNumbers) : m = Append(current, n)
    BY <1>2, AppendProperties
  <1>4. PICK more \in Seq(Seq(FrameNumbers)) : more = Append(delivered, m)
    BY <1>2, <1>3, AppendProperties
  <1>5. <<>> \in Seq(FrameNumbers)
    OBVIOUS
  <1>6. PICK cleared \in Inbox : cleared = Reset
    <2>1. [wsIn EXCEPT !.current = <<>>, !.fragmented = FALSE] \in Inbox
      BY <1>0, <1>5 DEF Inbox
    <2> QED BY <2>1 DEF Reset
  <1>7. CASE /\ OutOfTurn(kind) /\ wsIn' = Reset
             /\ ws' = [SendCloseFrame(ws, FALSE) EXCEPT !.rest = FALSE]
    <2>1. ws' \in Socket
      BY <1>0, <1>7, RefusalTypes
    <2> QED BY <1>6, <1>7, <2>1
  <1>8. CASE /\ kind \in {"start", "more"} /\ UNCHANGED ws
             /\ wsIn' = [wsIn EXCEPT !.current = Append(@, n), !.fragmented = TRUE]
    <2>1. wsIn' = [wsIn EXCEPT !.current = m, !.fragmented = TRUE]
      BY <1>2, <1>3, <1>8
    <2>2. wsIn' \in Inbox /\ wsIn'.current = m /\ wsIn'.fragmented = TRUE
          /\ wsIn'.delivered = delivered
      BY <1>0, <1>2, <1>3, <2>1 DEF Inbox
    <2> QED BY <1>0, <1>1, <1>2, <1>3, <1>8, <2>2
  <1>9. CASE kind \in EndKinds /\ Deliver(kind, m)
    <2>1. wsIn' = [cleared EXCEPT !.delivered = Append(@, m)]
      BY <1>6, <1>9 DEF Deliver
    <2>2. cleared.delivered = delivered /\ cleared.current = <<>> /\ cleared.fragmented = FALSE
      BY <1>0, <1>2, <1>6 DEF Reset, Inbox
    <2>3. wsIn' = [cleared EXCEPT !.delivered = more]
      BY <1>4, <2>1, <2>2
    <2>4. wsIn' \in Inbox /\ wsIn'.delivered = more /\ wsIn'.current = <<>>
          /\ wsIn'.fragmented = FALSE
      BY <1>4, <1>6, <2>2, <2>3 DEF Inbox
    <2>5. PICK b \in BOOLEAN : b = (ws.pending \/ ws.status = "opened")
      OBVIOUS
    <2>6. PICK answered \in Socket : answered = [ws EXCEPT !.pending = @ \/ ws.status = "opened"]
      <3>1. [ws EXCEPT !.pending = b] \in Socket
        BY <1>0 DEF Socket
      <3> QED BY <2>5, <3>1
    <2>7. ws' = IF kind = "empty" THEN SendCloseFrame(answered, FALSE) ELSE answered
      BY <1>9, <2>6 DEF Deliver
    <2>8. ws' \in Socket
      BY <2>6, <2>7, HandlersTypes
    <2> QED BY <1>1, <1>2, <1>3, <1>4, <1>9, <2>4, <2>8
  <1> QED BY <1>1, <1>2, <1>3, <1>7, <1>8, <1>9 DEF DataFrame, EndKinds

\* A frame of the peer arrives.
LEMMA FrameTaken ==
  ASSUME SocketInv, NEW kind \in FrameKinds, FrameArrives(kind)
  PROVE  SocketInv'
  <1>0. /\ SocketState /\ ws \in Socket /\ wsIn \in Inbox /\ wsPeer \in Peer
        /\ Len(wsPeer.sent) < MaxWsFrames /\ MaxWsFrames \in Nat
    BY SocketAssumption DEF SocketInv, SocketState, FrameArrives
  <1>1. PICK sent \in Seq(FrameKinds) : sent = wsPeer.sent
    BY <1>0 DEF Peer
  <1>2. PICK next \in Seq(FrameKinds) : next = Append(sent, kind) /\ Len(next) = Len(sent) + 1
    <2>1. Append(sent, kind) \in Seq(FrameKinds) /\ Len(Append(sent, kind)) = Len(sent) + 1
      BY AppendProperties
    <2> QED BY <2>1
  <1>3. wsPeer' \in Peer /\ wsPeer'.sent = next
    <2>1. wsPeer' = [wsPeer EXCEPT !.sent = next]
      BY <1>1, <1>2 DEF FrameArrives
    <2> QED BY <1>0, <1>2, <2>1 DEF Peer
  <1>4. PICK n \in FrameNumbers : n = Len(sent) + 1 /\ n = Len(next) /\ n <= MaxWsFrames
    BY <1>0, <1>1, <1>2 DEF FrameNumbers
  <1>5. PICK current \in Seq(Nat), delivered \in Seq(Seq(Nat)), fragmented \in BOOLEAN :
          /\ current = wsIn.current /\ delivered = wsIn.delivered
          /\ fragmented = wsIn.fragmented
    <2>1. FrameNumbers \subseteq Nat
      BY DEF FrameNumbers
    <2>2. wsIn.current \in Seq(FrameNumbers) /\ wsIn.delivered \in Seq(Seq(FrameNumbers))
      BY <1>0 DEF Inbox
    <2>3. wsIn.current \in Seq(Nat)
      BY <2>1, <2>2, SeqMonotonic
    <2>4. Seq(FrameNumbers) \subseteq Seq(Nat)
      BY <2>1, SeqMonotonic
    <2>5. wsIn.delivered \in Seq(Seq(Nat))
      BY <2>2, <2>4, SeqMonotonic
    <2> QED BY <1>0, <2>3, <2>5 DEF Inbox
  <1>6. InTurn(next) =>
          /\ IsKept(current, fragmented, sent) /\ AreMessages(delivered, sent)
          /\ kind \notin Refused \cup {"big"}
          /\ kind \in DataKinds => (fragmented <=> kind \in {"more", "last"})
    <2> SUFFICES ASSUME InTurn(next)
                 PROVE  /\ IsKept(current, fragmented, sent) /\ AreMessages(delivered, sent)
                        /\ kind \notin Refused \cup {"big"}
                        /\ kind \in DataKinds => (fragmented <=> kind \in {"more", "last"})
      OBVIOUS
    <2>1. /\ InTurn(sent) /\ kind \notin Refused \cup {"big"}
          /\ kind \in DataKinds => (Unended(sent) <=> kind \in {"more", "last"})
      BY <1>2, TurnsBefore
    <2>2. IsKept(current, fragmented, sent) /\ AreMessages(delivered, sent)
      BY <1>1, <1>5, <2>1 DEF SocketInv
    <2>3. fragmented <=> Unended(sent)
      BY <2>2, KeptIsOpen
    <2> QED BY <2>1, <2>2, <2>3
  <1>7. CASE kind \in {"ping", "pong", "close"} /\ ControlFrame(kind)
    <2>1. UNCHANGED wsIn /\ kind \notin DataKinds /\ kind \notin EndKinds
      BY <1>7 DEF ControlFrame, DataKinds, EndKinds, Fragments
    <2>2. ws' \in Socket
      <3>1. CASE kind = "ping"
        <4>1. PICK b \in BOOLEAN : b = (ws.pending \/ ws.status = "opened")
          OBVIOUS
        <4>2. [ws EXCEPT !.pending = b] \in Socket
          BY <1>0 DEF Socket
        <4> QED BY <1>7, <3>1, <4>1, <4>2 DEF ControlFrame
      <3>2. CASE kind = "pong"
        <4>1. [ws EXCEPT !.pong = TRUE, !.missed = 0] \in Socket
          BY <1>0 DEF Socket
        <4> QED BY <1>0, <1>7, <3>2, <4>1 DEF ControlFrame
      <3>3. CASE kind = "close"
        <4>1. PICK s \in Socket : s = [ws EXCEPT !.close = Off, !.closeReceived = TRUE]
          <5>1. Off \in WsTimer
            BY DEF WsTimer
          <5>2. [ws EXCEPT !.close = Off, !.closeReceived = TRUE] \in Socket
            BY <1>0, <5>1 DEF Socket
          <5> QED BY <5>2
        <4>2. [s EXCEPT !.status = "closed", !.rest = TRUE] \in Socket
          BY DEF Socket
        <4>3. ws' = IF s.status = "opened" THEN SendCloseFrame(s, FALSE)
                    ELSE CloseConnection([s EXCEPT !.status = "closed", !.rest = TRUE])
          BY <1>7, <3>3, <4>1 DEF ControlFrame
        <4> QED BY <4>2, <4>3, HandlersTypes
      <3> QED BY <1>7, <3>1, <3>2, <3>3
    <2>3. InTurn(next) => IsKept(current, fragmented, next) /\ AreMessages(delivered, next)
      <3>1. PICK m \in Seq(Nat) : m = Append(current, Len(sent) + 1)
        <4>1. Len(sent) + 1 \in Nat
          OBVIOUS
        <4>2. Append(current, Len(sent) + 1) \in Seq(Nat)
          BY <4>1, AppendProperties
        <4> QED BY <4>2
      <3>2. ASSUME InTurn(next) PROVE IsKept(current, fragmented, next)
        BY <1>2, <1>6, <2>1, <3>1, <3>2, FrameIsKept
      <3>3. ASSUME InTurn(next) PROVE AreMessages(delivered, next)
        BY <1>2, <1>6, <2>1, <3>3, MessagesGrow
      <3> QED BY <3>2, <3>3
    <2> QED BY <1>0, <1>3, <1>4, <1>5, <2>1, <2>2, <2>3 DEF SocketInv, SocketState
  <1>8. CASE kind \in Refused /\ RefusedFrame(kind)
    <2>1. ~InTurn(next) /\ UNCHANGED wsIn
      BY <1>6, <1>8 DEF RefusedFrame
    <2>2. PICK b \in BOOLEAN : b = (ws.closeReceived \/ kind = "badclose")
      OBVIOUS
    <2>3. PICK s \in Socket : s = [ws EXCEPT !.closeReceived = b]
      <3>1. [ws EXCEPT !.closeReceived = b] \in Socket
        BY <1>0 DEF Socket
      <3> QED BY <3>1
    <2>4. ws' \in Socket
      BY <1>8, <2>2, <2>3, RefusalTypes DEF RefusedFrame
    <2> QED BY <1>0, <1>3, <1>4, <2>1, <2>4 DEF SocketInv, SocketState
  <1>9. CASE kind \in Single \cup Fragments /\ DataFrame(kind, n)
    <2>1. /\ ws' \in Socket /\ wsIn' \in Inbox
          /\ \/ OutOfTurn(kind)
             \/ /\ kind \in {"start", "more"} /\ wsIn'.fragmented = TRUE
                /\ wsIn'.current = Append(current, n)
                /\ wsIn'.delivered = delivered
             \/ /\ kind \in EndKinds /\ wsIn'.fragmented = FALSE /\ wsIn'.current = <<>>
                /\ wsIn'.delivered = Append(delivered, Append(current, n))
      BY <1>0, <1>1, <1>4, <1>5, <1>9, DataFrameTaken
    <2>2. PICK m \in Seq(Nat) : m = Append(current, n)
      <3>1. n \in Nat
        BY DEF FrameNumbers
      <3> QED BY <3>1, AppendProperties
    <2>3. InTurn(next) =>
            /\ IsKept(wsIn'.current, wsIn'.fragmented, next)
            /\ AreMessages(wsIn'.delivered, next)
      <3> SUFFICES ASSUME InTurn(next)
                   PROVE  /\ IsKept(wsIn'.current, wsIn'.fragmented, next)
                          /\ AreMessages(wsIn'.delivered, next)
        OBVIOUS
      <3>1. ~OutOfTurn(kind)
        <4>1. kind # "big" => kind \in DataKinds
          BY <1>9 DEF Single, DataKinds
        <4>2. fragmented <=> kind \in {"more", "last"}
          BY <1>6, <4>1
        <4> QED BY <1>5, <1>6, <4>2 DEF OutOfTurn, Single
      <3>2. /\ kind \notin DataKinds => IsKept(current, fragmented, next)
            /\ kind \in {"start", "more"} => IsKept(m, TRUE, next)
            /\ kind \in EndKinds =>
                 IsKept(<<>>, FALSE, next) /\ IsMessage(m, next) /\ Last(m) = Len(sent) + 1
        <4>1. m = Append(current, Len(sent) + 1)
          BY <1>4, <2>2
        <4>2. next = Append(sent, kind) /\ IsKept(current, fragmented, sent)
          BY <1>2, <1>6
        <4> QED BY <4>1, <4>2, FrameIsKept
      <3>3. /\ kind \notin EndKinds => AreMessages(delivered, next)
            /\ kind \in EndKinds /\ IsMessage(m, next) /\ Last(m) = Len(sent) + 1
                 => AreMessages(Append(delivered, m), next)
        BY <1>2, <1>6, <2>2, MessagesGrow
      <3>4. CASE kind \in {"start", "more"} /\ wsIn'.fragmented = TRUE
                 /\ wsIn'.current = m /\ wsIn'.delivered = delivered
        <4>1. kind \notin EndKinds
          BY <3>4 DEF EndKinds
        <4> QED BY <3>2, <3>3, <3>4, <4>1
      <3>5. CASE kind \in EndKinds /\ wsIn'.fragmented = FALSE /\ wsIn'.current = <<>>
                 /\ wsIn'.delivered = Append(delivered, m)
        BY <3>2, <3>3, <3>5
      <3> QED BY <2>1, <2>2, <3>1, <3>4, <3>5
    <2> QED BY <1>0, <1>3, <1>4, <2>1, <2>3 DEF SocketInv, SocketState
  <1>10. Len(wsPeer'.sent) = n
    BY <1>3, <1>4
  <1> QED BY <1>7, <1>8, <1>9, <1>10 DEF FrameArrives

\* What is neither a frame nor a step of the peer takes no frame.
LEMMA SocketMoves ==
  ASSUME SocketInv, ws' \in Socket, UNCHANGED wsIn, UNCHANGED wsPeer
  PROVE  SocketInv'
  BY DEF SocketInv, SocketState

\* The timers and the ends of a connection keep its types.
LEMMA SocketEndsTypes ==
  ASSUME ws \in Socket
  PROVE  /\ WriteEvent => ws' \in Socket
         /\ ErrorEvent => ws' \in Socket
         /\ TimerPing => ws' \in Socket
         /\ CloseTimeout \/ HttpTimeout \/ ShutdownEvent \/ SocketEnds => ws' \in Socket
         /\ SocketTick => ws' \in Socket
         /\ Handshake => ws' \in Socket
         /\ \A closes \in BOOLEAN : HttpRequest(closes) => ws' \in Socket
  <1>0. /\ Off \in WsTimer /\ LingerDelay \in WsTimer /\ ReadDelay \in WsTimer
        /\ PingPeriod \in WsTimer /\ <<>> \in Seq(BOOLEAN)
    BY SocketAssumption DEF WsTimer
  <1>1. ASSUME WriteEvent PROVE ws' \in Socket
    <2>1. PICK t \in Socket : t = [ws EXCEPT !.pending = FALSE, !.once = <<>>, !.rest = FALSE]
      <3>1. [ws EXCEPT !.pending = FALSE, !.once = <<>>, !.rest = FALSE] \in Socket
        BY <1>0 DEF Socket
      <3> QED BY <3>1
    <2>2. ws.once \in Seq(BOOLEAN)
      BY DEF Socket
    <2>3. PICK s \in Socket : s = FoldLeft(Written, t, ws.once)
      BY <2>1, <2>2, WrittenTypes
    <2>4. [s EXCEPT !.linger = LingerDelay] \in Socket
      BY <1>0 DEF Socket
    <2>5. ws' = IF s.connClose /\ s.handle = "open"
                THEN [s EXCEPT !.linger = LingerDelay] ELSE s
      BY <1>1, <2>1, <2>3 DEF WriteEvent
    <2> QED BY <2>3, <2>4, <2>5
  <1>2. ASSUME ErrorEvent PROVE ws' \in Socket
    <2>1. PICK st \in {"http", "opened", "closing", "closed"} :
            st = IF ws.status = "http" THEN ws.status ELSE "closed"
      OBVIOUS
    <2>2. PICK s \in Socket : s = [ws EXCEPT !.pending = FALSE, !.status = st]
      <3>1. [ws EXCEPT !.pending = FALSE, !.status = st] \in Socket
        BY DEF Socket
      <3> QED BY <3>1
    <2>3. ws' = IF ws.handle = "shutting" THEN Gone(ws) ELSE CloseConnection(s)
      BY <1>2, <2>1, <2>2 DEF ErrorEvent
    <2>4. Gone(ws) \in Socket
      BY HandlersTypes
    <2>5. CloseConnection(s) \in Socket
      BY <2>2, HandlersTypes
    <2> QED BY <2>3, <2>4, <2>5
  <1>3. ASSUME TimerPing PROVE ws' \in Socket
    <2>1. PICK missed \in Nat : missed = IF ws.pong THEN 0 ELSE ws.missed + 1
      BY DEF Socket
    <2>2. PICK t \in Socket : t = [ws EXCEPT !.ping = PingPeriod, !.missed = missed]
      <3>1. [ws EXCEPT !.ping = PingPeriod, !.missed = missed] \in Socket
        BY <1>0 DEF Socket
      <3> QED BY <3>1
    <2>3. PICK b \in BOOLEAN : b = (t.pending \/ ws.handle = "open")
      OBVIOUS
    <2>4. [t EXCEPT !.pong = FALSE, !.pending = b] \in Socket
      BY DEF Socket
    <2>5. ws' = IF missed >= MaxMissed THEN SendCloseFrame(t, TRUE)
                ELSE [t EXCEPT !.pong = FALSE, !.pending = b]
      BY <1>3, <2>1, <2>2, <2>3 DEF TimerPing, Pinged
    <2> QED BY <2>4, <2>5, HandlersTypes
  <1>4. ASSUME CloseTimeout \/ HttpTimeout \/ ShutdownEvent \/ SocketEnds PROVE ws' \in Socket
    <2>1. Gone(ws) \in Socket
      BY HandlersTypes
    <2>2. PICK s \in Socket : s = [ws EXCEPT !.close = Off, !.status = "closed"]
      <3>1. [ws EXCEPT !.close = Off, !.status = "closed"] \in Socket
        BY <1>0 DEF Socket
      <3> QED BY <3>1
    <2>3. PICK read \in WsTimer : read = IF ws.read = 0 THEN ReadDelay ELSE ws.read
      BY <1>0 DEF Socket
    <2>4. PICK r \in Socket : r = [ws EXCEPT !.read = read]
      <3>1. [ws EXCEPT !.read = read] \in Socket
        BY DEF Socket
      <3> QED BY <3>1
    <2>5. CloseConnection(s) \in Socket
      BY <2>2, HandlersTypes
    <2>6. CloseConnection(r) \in Socket
      BY <2>4, HandlersTypes
    <2>7. CloseTimeout => ws' = CloseConnection(s)
      BY <2>2 DEF CloseTimeout
    <2>8. HttpTimeout => ws' = CloseConnection(r)
      BY <2>3, <2>4 DEF HttpTimeout
    <2> QED BY <1>4, <2>1, <2>5, <2>6, <2>7, <2>8 DEF ShutdownEvent, SocketEnds
  <1>5. ASSUME SocketTick PROVE ws' \in Socket
    <2> DEFINE Aged(left) == IF left = Off THEN Off ELSE left - 1
    <2>1. \A left \in WsTimer : left # 0 => Aged(left) \in WsTimer
      BY DEF WsTimer, Off
    <2>2. {ws.ping, ws.close, ws.read, ws.linger} \subseteq WsTimer
      BY DEF Socket
    <2>3. 0 \notin {ws.ping, ws.close, ws.read, ws.linger}
      BY <1>5 DEF SocketTick
    <2>4. PICK ping \in WsTimer, close \in WsTimer, read \in WsTimer, linger \in WsTimer :
            /\ ping = Aged(ws.ping) /\ close = Aged(ws.close)
            /\ read = Aged(ws.read) /\ linger = Aged(ws.linger)
      <3> HIDE DEF Aged
      <3>1. Aged(ws.ping) \in WsTimer /\ Aged(ws.close) \in WsTimer
            /\ Aged(ws.read) \in WsTimer /\ Aged(ws.linger) \in WsTimer
        BY <2>1, <2>2, <2>3
      <3> QED BY <3>1
    <2>5. [ws EXCEPT !.ping = ping, !.close = close, !.read = read, !.linger = linger,
                     !.rest = FALSE] \in Socket
      BY DEF Socket
    <2>6. ws' = [ws EXCEPT !.ping = ping, !.close = close, !.read = read, !.linger = linger,
                           !.rest = FALSE]
      BY <1>5, <2>4 DEF SocketTick
    <2> QED BY <2>5, <2>6
  <1>6. ASSUME Handshake PROVE ws' \in Socket
    <2>1. [ws EXCEPT !.status = "opened", !.read = Off, !.pending = TRUE, !.ping = PingPeriod]
            \in Socket
      BY <1>0 DEF Socket
    <2> QED BY <1>6, <2>1 DEF Handshake
  <1>7. ASSUME NEW closes \in BOOLEAN, HttpRequest(closes) PROVE ws' \in Socket
    <2>1. [ws EXCEPT !.read = Off, !.pending = TRUE, !.connClose = closes] \in Socket
      BY <1>0 DEF Socket
    <2> QED BY <1>7, <2>1 DEF HttpRequest
  <1> QED BY <1>1, <1>2, <1>3, <1>4, <1>5, <1>6, <1>7

\* A step of a connection or of its peer
LEMMA SocketStepKeeps == SocketInv /\ [SocketNext]_wsVars => SocketInv'
  <1> SUFFICES ASSUME SocketInv, [SocketNext]_wsVars PROVE SocketInv'
    OBVIOUS
  <1>0. ws \in Socket /\ wsPeer \in Peer
    BY DEF SocketInv, SocketState
  <1>1. CASE WriteEvent
    BY <1>0, <1>1, SocketEndsTypes, SocketMoves DEF WriteEvent
  <1>2. CASE ErrorEvent
    BY <1>0, <1>2, SocketEndsTypes, SocketMoves DEF ErrorEvent
  <1>3. CASE TimerPing
    BY <1>0, <1>3, SocketEndsTypes, SocketMoves DEF TimerPing
  <1>4. CASE CloseTimeout \/ HttpTimeout \/ ShutdownEvent \/ SocketEnds
    <2>1. UNCHANGED wsIn /\ UNCHANGED wsPeer
      BY <1>4 DEF CloseTimeout, HttpTimeout, ShutdownEvent, SocketEnds
    <2>2. ws' \in Socket
      BY <1>0, <1>4, SocketEndsTypes
    <2> QED BY <2>1, <2>2, SocketMoves
  <1>5. CASE SocketTick
    BY <1>0, <1>5, SocketEndsTypes, SocketMoves DEF SocketTick
  <1>6. CASE Handshake
    BY <1>0, <1>6, SocketEndsTypes, SocketMoves DEF Handshake
  <1>7. ASSUME NEW closes \in BOOLEAN, HttpRequest(closes) PROVE SocketInv'
    <2>1. UNCHANGED wsIn /\ UNCHANGED wsPeer
      BY <1>7 DEF HttpRequest
    <2>2. ws' \in Socket
      BY <1>0, <1>7, SocketEndsTypes
    <2> QED BY <2>1, <2>2, SocketMoves
  <1>8. CASE PeerDies
    <2>1. wsPeer' \in Peer /\ wsPeer'.sent = wsPeer.sent
      BY <1>0, <1>8 DEF PeerDies, Peer
    <2> QED BY <1>8, <2>1 DEF PeerDies, SocketInv, SocketState
  <1>9. ASSUME NEW kind \in FrameKinds, FrameArrives(kind) PROVE SocketInv'
    BY <1>9, FrameTaken
  <1>10. CASE UNCHANGED wsVars
    BY <1>0, <1>10, SocketMoves DEF wsVars
  <1> QED BY <1>1, <1>2, <1>3, <1>4, <1>5, <1>6, <1>7, <1>8, <1>9, <1>10
         DEF SocketNext, SocketCallback

LEMMA SocketStarts == SocketInit => SocketInv
  <1> SUFFICES ASSUME SocketInit PROVE SocketInv
    OBVIOUS
  <1>0. Off \in WsTimer /\ ReadDelay \in WsTimer /\ MaxWsFrames \in Nat
    BY SocketAssumption DEF WsTimer
  <1>1. ws \in Socket
    <2>1. <<>> \in Seq(BOOLEAN)
      OBVIOUS
    <2> QED BY <1>0, <2>1 DEF SocketInit, Socket
  <1>2. wsIn \in Inbox /\ wsPeer \in Peer
    <2>1. <<>> \in Seq(FrameNumbers) /\ <<>> \in Seq(Seq(FrameNumbers)) /\ <<>> \in Seq(FrameKinds)
      OBVIOUS
    <2> QED BY <2>1 DEF SocketInit, Inbox, Peer
  <1>3. Len(wsPeer.sent) <= MaxWsFrames
    <2>1. wsPeer.sent = <<>>
      BY DEF SocketInit
    <2>2. Len(<<>>) = 0
      OBVIOUS
    <2> QED BY <1>0, <2>1, <2>2
  <1>4. Data(<<>>) = {} /\ Ends(<<>>) = {} /\ Range(<<>>) = {}
    BY DEF Data, Ends, Range
  <1>5. IsKept(<<>>, FALSE, <<>>)
    BY <1>4 DEF IsKept
  <1>6. AreMessages(<<>>, <<>>)
    <2>1. DOMAIN <<>> = {}
      OBVIOUS
    <2> QED BY <1>4, <2>1 DEF AreMessages
  <1> QED BY <1>1, <1>2, <1>3, <1>5, <1>6 DEF SocketInit, SocketInv, SocketState

LEMMA SocketHolds == SocketInv => SocketTypeOK /\ MessagesAreWhole
  <1> SUFFICES ASSUME SocketInv PROVE SocketTypeOK /\ MessagesAreWhole
    OBVIOUS
  <1>1. ws \in Socket /\ wsIn \in Inbox /\ wsPeer \in Peer
    BY DEF SocketInv, SocketState
  <1>2. SocketTypeOK
    BY <1>1 DEF SocketTypeOK, Socket, Inbox, Peer, WsTimer, FrameNumbers
  <1>3. MessagesAreWhole
    BY DEF SocketInv, AreMessages, MessagesAreWhole
  <1> QED BY <1>2, <1>3

\* A connection keeps its types, and the messages it delivers are the ones its peer has
\* cut into frames.
THEOREM SocketIsSound == SocketSpec => [](SocketTypeOK /\ MessagesAreWhole)
  BY SocketStarts, SocketStepKeeps, SocketHolds, PTL DEF SocketSpec
=============================================================================
