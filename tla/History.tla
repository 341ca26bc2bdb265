------------------------------ MODULE History ------------------------------
(***************************************************************************)
(* HistLogger: the history of events, kept in SQLite by the only thread of *)
(* the server besides the event loop.                                      *)
(*                                                                         *)
(* The loop pushes requests in a ThreadedQueue, the worker pops and runs   *)
(* them in order.  Requests that read hold a handle: the worker signals    *)
(* it, the loop then calls the reader back.  Another process may lock the  *)
(* database at any time, so any request may fail.  The destructor stops    *)
(* the worker and waits for it.                                            *)
(* The requests about push tokens are in module PushTokens.                *)
(***************************************************************************)
EXTENDS Naturals, Sequences

CONSTANTS
  HistEvents,  \* events, each appended once
  HistReads,   \* reads of the history, each asked once
  MaxHist      \* bound on the length of the queue

NoRequest == "none"

ASSUME HistoryAssumption ==
  /\ HistEvents \cap HistReads = {}
  /\ NoRequest \notin HistEvents \cup HistReads
  /\ MaxHist \in Nat \ {0}

HistRequests == HistEvents \cup HistReads
Waiting == [sent |-> FALSE, ok |-> FALSE, events |-> {}]

VARIABLES
  hsQueue,     \* eventQueue
  hsValid,     \* its valid flag
  hsDone,      \* done
  hsWorker,    \* where the worker thread is
  hsItem,      \* the request it has popped
  hsOpened,    \* the database could be opened
  hsEvents,    \* rows of events
  hsPushed,    \* history: requests pushed, with the events pushed before
  hsFailed,    \* history: events whose insertion failed
  hsAnswer,    \* what the worker left for each read
  hsCalled,    \* calls of the callback of each read
  hsMain       \* the event loop, or how far its destructor is

NotPushed == {NoRequest}

hsVars == <<hsQueue, hsValid, hsDone, hsWorker, hsItem, hsOpened, hsEvents,
            hsPushed, hsFailed, hsAnswer, hsCalled, hsMain>>
hsBase == <<hsEvents, hsFailed, hsAnswer>>

HistTypeOK ==
  /\ hsQueue \in Seq(HistRequests) /\ hsItem \in HistRequests \cup {NoRequest}
  /\ hsValid \in BOOLEAN /\ hsDone \in BOOLEAN /\ hsOpened \in BOOLEAN
  /\ hsWorker \in {"opening", "loop", "waiting", "popped", "ended"}
  /\ hsEvents \subseteq HistEvents /\ hsFailed \subseteq HistEvents
  /\ hsPushed \in [HistRequests -> {NotPushed} \cup SUBSET HistEvents]
  /\ hsAnswer \in [HistReads -> [sent : BOOLEAN, ok : BOOLEAN,
                                 events : SUBSET HistEvents]]
  /\ hsCalled \in [HistReads -> Nat]
  /\ hsMain \in {"running", "stopping", "joining", "joined"}

HistInit ==
  /\ hsQueue = <<>> /\ hsValid = TRUE /\ hsDone = FALSE
  /\ hsWorker = "opening" /\ hsItem = NoRequest /\ hsOpened = FALSE
  /\ hsEvents = {}
  /\ hsPushed = [q \in HistRequests |-> NotPushed] /\ hsFailed = {}
  /\ hsAnswer = [r \in HistReads |-> Waiting]
  /\ hsCalled = [r \in HistReads |-> 0]
  /\ hsMain = "running"

-----------------------------------------------------------------------------
(* The event loop                                                          *)

hsWorking == <<hsWorker, hsItem, hsOpened, hsBase>>

PushedEvents == {e \in HistEvents : hsPushed[e] # NotPushed}

\* appendEvent(), getEvents(), getEvent()
PushRequest(q) ==
  /\ hsMain = "running" /\ Len(hsQueue) < MaxHist
  /\ hsPushed[q] = NotPushed
  /\ hsPushed' = [hsPushed EXCEPT ![q] = PushedEvents]
  /\ hsQueue' = Append(hsQueue, q)
  /\ UNCHANGED <<hsValid, hsDone, hsWorking, hsCalled, hsMain>>

\* The AsyncEvent of a handle, once: the handle is closed
CallReader(r) ==
  /\ hsMain = "running" /\ hsAnswer[r].sent /\ hsCalled[r] = 0
  /\ hsCalled' = [hsCalled EXCEPT ![r] = @ + 1]
  /\ UNCHANGED <<hsQueue, hsValid, hsDone, hsWorking, hsPushed, hsMain>>

\* ~HistLogger(): done, then invalidate(), then join()
MarkDone ==
  /\ hsMain = "running"
  /\ hsMain' = "stopping" /\ hsDone' = TRUE
  /\ UNCHANGED <<hsQueue, hsValid, hsWorking, hsPushed, hsCalled>>
NotifyOnly ==
  /\ hsMain = "stopping"
  /\ hsMain' = "joining"
  /\ UNCHANGED <<hsQueue, hsValid, hsDone, hsWorking, hsPushed, hsCalled>>
Invalidate ==
  /\ hsMain = "stopping"
  /\ hsMain' = "joining" /\ hsValid' = FALSE
  /\ UNCHANGED <<hsQueue, hsDone, hsWorking, hsPushed, hsCalled>>
Join ==
  /\ hsMain = "joining" /\ hsWorker = "ended"
  /\ hsMain' = "joined"
  /\ UNCHANGED <<hsQueue, hsValid, hsDone, hsWorking, hsPushed, hsCalled>>

-----------------------------------------------------------------------------
(* The worker                                                              *)

hsLoop == <<hsValid, hsDone, hsPushed, hsCalled, hsMain>>

\* sqliteWorker() until its loop; a database that cannot be opened is refused
Open ==
  /\ hsWorker = "opening"
  /\ hsWorker' = "loop"
  /\ hsOpened' \in BOOLEAN
  /\ UNCHANGED <<hsQueue, hsItem, hsBase, hsLoop>>

TestDone ==
  /\ hsWorker = "loop"
  /\ hsWorker' = IF hsDone THEN "ended" ELSE "waiting"
  /\ UNCHANGED <<hsQueue, hsItem, hsOpened, hsBase, hsLoop>>

\* waitPop().  PopNewest, NotifyOnly and AnswerOnSuccess are faults, used by no
\* action.
PopNewest ==
  /\ hsWorker = "waiting"
  /\ hsQueue # <<>> /\ hsValid
  /\ hsItem' = hsQueue[Len(hsQueue)]
  /\ hsQueue' = SubSeq(hsQueue, 1, Len(hsQueue) - 1)
  /\ hsWorker' = "popped"
  /\ UNCHANGED <<hsOpened, hsBase, hsLoop>>
WaitPop ==
  /\ hsWorker = "waiting"
  /\ hsQueue # <<>> \/ ~hsValid
  /\ \/ /\ ~hsValid
        /\ hsWorker' = "loop"
        /\ UNCHANGED <<hsQueue, hsItem>>
     \/ /\ hsValid
        /\ hsItem' = Head(hsQueue) /\ hsQueue' = Tail(hsQueue)
        /\ hsWorker' = "popped"
  /\ UNCHANGED <<hsOpened, hsBase, hsLoop>>

\* The handle is signalled whether the request succeeded or not
AnswerOnSuccess(ok) ==
  hsAnswer' = IF hsItem \in HistReads /\ ok
              THEN [hsAnswer EXCEPT ![hsItem] =
                      [sent |-> TRUE, ok |-> TRUE, events |-> hsEvents]]
              ELSE hsAnswer
AnswerReader(ok) ==
  hsAnswer' = IF hsItem \in HistReads
              THEN [hsAnswer EXCEPT ![hsItem] =
                      [sent |-> TRUE, ok |-> ok, events |-> IF ok THEN hsEvents ELSE {}]]
              ELSE hsAnswer

\* A request succeeds, or fails: with a database that was not opened, always
RunRequest ==
  /\ hsWorker = "popped"
  /\ hsWorker' = "loop" /\ hsItem' = NoRequest
  /\ \E ok \in {hsOpened, FALSE} :
       /\ hsEvents' = IF ok THEN hsEvents \cup ({hsItem} \cap HistEvents) ELSE hsEvents
       /\ hsFailed' = IF ok THEN hsFailed ELSE hsFailed \cup ({hsItem} \cap HistEvents)
       /\ AnswerReader(ok)
  /\ UNCHANGED <<hsQueue, hsOpened, hsLoop>>

HistWorker == Open \/ TestDone \/ WaitPop \/ RunRequest
HistDestructor == MarkDone \/ Invalidate \/ Join

HistNext ==
  \/ HistWorker \/ HistDestructor
  \/ \E q \in HistRequests : PushRequest(q)
  \/ \E r \in HistReads : CallReader(r)

HistSpec == HistInit /\ [][HistNext]_hsVars

\* Both threads run; the destructor, once begun, goes on.
HistFairSpec ==
  /\ HistSpec
  /\ WF_hsVars(HistWorker)
  /\ WF_hsVars(Invalidate \/ Join \/ \E r \in HistReads : CallReader(r))

-----------------------------------------------------------------------------
(* Properties                                                              *)

\* A read that succeeds returns every event that was appended before it was
\* asked, but those whose insertion failed.
ReadsSeeEarlierEvents ==
  \A r \in HistReads :
    hsAnswer[r].ok => hsPushed[r] \ hsFailed \subseteq hsAnswer[r].events

\* "Readers wait on their handle": every read is called back, however the
\* database fails, unless the server ends first; and then it does end, its
\* destructor does not wait for ever for a worker that sleeps in waitPop().
ReadersAreAnswered ==
  <>[](\A r \in HistReads :
         hsPushed[r] # NotPushed => hsCalled[r] = 1 \/ hsMain = "joined")
=============================================================================
