---------------------------- MODULE TriggerQueue ----------------------------
(***************************************************************************)
(* What the rule engine promises about the changes that IOs signal to it:  *)
(* none is lost, none is served twice, they are served in the order they   *)
(* were signalled and one is over before the next one starts.  The head of *)
(* the queue is the trigger being served.                                  *)
(***************************************************************************)
EXTENDS Sequences

CONSTANT Ids    \* what can be signalled

VARIABLE queue

Init == queue = <<>>

Signal(id) == queue' = Append(queue, id)

Finish ==
  /\ queue # <<>>
  /\ queue' = Tail(queue)

Next == Finish \/ \E id \in Ids : Signal(id)

Spec == Init /\ [][Next]_queue

FairSpec == Spec /\ WF_queue(Finish)
=============================================================================
