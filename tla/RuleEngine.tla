----------------------------- MODULE RuleEngine -----------------------------
(***************************************************************************)
(* ListeRule, Rule and IOChangeHub: what happens when an IO changes.       *)
(*                                                                         *)
(* The server has one thread.  A change of an IO runs a march: the rules   *)
(* it triggers are collected with their conditions evaluated, their        *)
(* actions write other IOs, script conditions are sent to other processes, *)
(* and the subscribers of the IO are called.  What a march writes signals  *)
(* back into the engine, which defers it while execInProgress is set.      *)
(* Outside of a march the event loop brings inputs, results of scripts,    *)
(* deletions and additions made by the API.                                *)
(*                                                                         *)
(* Rules are numbered in the order they are added, so the order of the     *)
(* list is the order of the numbers and a removal keeps it.  A rule that   *)
(* is destroyed and created again has a new number.  An IO is on or off.   *)
(***************************************************************************)
EXTENDS Integers, Sequences, FiniteSets

CONSTANTS
  IOs,        \* identities of IOs
  NoIO,       \* no identity
  RuleIds,    \* the rules that may be added, in the order of addition
  AtLoad,     \* the rules read from the configuration
  Watches,    \* rule -> the IOs whose change triggers it
  Needs,      \* rule -> the <<io, value>> its standard conditions require
  Writes,     \* rule -> the sequence of <<io, value>> its actions write
  Scripted,   \* rules with script conditions
  StartRules, \* rules with a ConditionStart
  Marked,     \* rules with a scenario marker (auto_scenario, autoscenario_uid)
  HubWrites,  \* io -> what its IOChangeHub subscribers write when it changes
  Reads,      \* IOs that are read before the start rules run
  MaxScripts  \* bound on the scripts in flight for one rule

Changes == IOs \X BOOLEAN

ASSUME RuleEngineAssumption ==
  /\ NoIO \notin IOs
  /\ RuleIds \subseteq Nat
  /\ AtLoad \subseteq RuleIds
  /\ Watches \in [RuleIds -> SUBSET IOs]
  /\ Needs \in [RuleIds -> SUBSET Changes]
  /\ Writes \in [RuleIds -> Seq(Changes)]
  /\ Scripted \subseteq RuleIds
  /\ StartRules \subseteq RuleIds \ Scripted
  /\ Marked \subseteq RuleIds
  /\ HubWrites \in [IOs -> Seq(Changes)]
  /\ Reads \in Nat
  /\ MaxScripts \in Nat \ {0}

VARIABLES
  ios, value,      \* the IOs of the rooms, and their values
  rules,           \* the rules of the list
  index,           \* rules_scenarios, the non-owning index
  missing,         \* missingIoIds of each rule
  armed,           \* start rules whose ConditionStart is still true
  scripts,         \* script evaluations in flight, by rule
  locked,          \* execInProgress
  pending,         \* pendingTriggers
  current,         \* the trigger being marched, NoIO between two marches
  syncTodo, asyncTodo, hubTodo,  \* what that march has left to do
  lockedWrites,    \* what the action or callback of the march has left to write
  acting,          \* the rule whose actions these are, if any
  reads,           \* count_io
  startTodo,       \* what ExecuteStartRules() has left to try
  freeWrites,      \* what runs outside of the lock has left to write
  freeActing,      \* the start rule whose actions these are, if any
  acted            \* history: start rules whose actions have run

config == <<ios, rules, index, missing>>
march == <<locked, pending, current, syncTodo, asyncTodo, hubTodo,
           lockedWrites, acting>>
free == <<reads, startTodo, freeWrites, freeActing>>
vars == <<ios, value, rules, index, missing, armed, scripts, locked, pending,
          current, syncTodo, asyncTodo, hubTodo, lockedWrites, acting,
          reads, startTodo, freeWrites, freeActing, acted>>

\* conditionUsesIO() and actionUsesIO()
Uses(r) == Watches[r] \cup {n[1] : n \in Needs[r]}
             \cup {Writes[r][i][1] : i \in DOMAIN Writes[r]}

\* Rule::isDisabled()
Disabled(r) == missing[r] # {}

\* The standard conditions of a rule, for the values v of the IOs
Holds(r, v) == \A n \in Needs[r] : n[1] \in ios /\ v[n[1]] = n[2]

IsFirst(r, todo) == r \in todo /\ \A q \in todo : r <= q

TypeOK ==
  /\ ios \subseteq IOs
  /\ value \in [IOs -> BOOLEAN]
  /\ rules \subseteq RuleIds
  /\ index \subseteq RuleIds
  /\ missing \in [RuleIds -> SUBSET IOs]
  /\ armed \subseteq StartRules
  /\ scripts \in [RuleIds -> 0..MaxScripts]
  /\ locked \in BOOLEAN
  /\ pending \in Seq(IOs)
  /\ current \in IOs \cup {NoIO}
  /\ syncTodo \subseteq RuleIds
  /\ asyncTodo \subseteq RuleIds
  /\ hubTodo \in BOOLEAN
  /\ lockedWrites \in Seq(Changes)
  /\ acting \subseteq RuleIds
  /\ reads \in 0..Reads
  /\ startTodo \subseteq RuleIds
  /\ freeWrites \in Seq(Changes)
  /\ freeActing \subseteq RuleIds
  /\ acted \subseteq StartRules

Init ==
  /\ ios = IOs
  /\ value = [io \in IOs |-> FALSE]
  /\ rules = AtLoad
  /\ index = AtLoad \cap Marked
  /\ missing = [r \in RuleIds |-> {}]
  /\ armed = StartRules
  /\ scripts = [r \in RuleIds |-> 0]
  /\ locked = FALSE /\ pending = <<>> /\ current = NoIO
  /\ syncTodo = {} /\ asyncTodo = {} /\ hubTodo = FALSE
  /\ lockedWrites = <<>> /\ acting = {}
  /\ reads = Reads
  /\ startTodo = {} /\ freeWrites = <<>> /\ freeActing = {}
  /\ acted = {}

-----------------------------------------------------------------------------
(* The engine                                                              *)

\* The rules whose conditions collectTriggeredRules() evaluates
Evaluated(id) == {r \in rules \ Scripted : ~Disabled(r) /\ id \in Watches[r]}

\* collectTriggeredRules(): evaluating a ConditionStart uses it up, whatever
\* the other conditions say
Collect(id) ==
  /\ current' = id
  /\ syncTodo' = {r \in Evaluated(id) :
                    Holds(r, value') /\ (r \in StartRules => r \in armed)}
  /\ armed' = armed \ Evaluated(id)
  /\ asyncTodo' = {r \in rules \cap Scripted :
                     ~Disabled(r) /\ id \in Watches[r] /\ id \in ios}
  /\ hubTodo' = TRUE

\* ExecuteRuleSignal() while a march runs, and otherwise
ServeNested(id) == Collect(id) /\ UNCHANGED <<locked, pending>>
Defer(id) ==
  /\ pending' = Append(pending, id)
  /\ UNCHANGED <<locked, current, syncTodo, asyncTodo, hubTodo, armed>>

ExecuteRuleSignal(id) ==
  \/ locked /\ Defer(id)
  \/ /\ ~locked
     /\ locked' = TRUE
     /\ UNCHANGED pending
     /\ Collect(id)

\* set_value() of an IO that is still there: the new value is signalled
Write(change) ==
  \/ /\ change[1] \in ios
     /\ value' = [value EXCEPT ![change[1]] = change[2]]
     /\ ExecuteRuleSignal(change[1])
  \/ /\ change[1] \notin ios
     /\ UNCHANGED <<value, locked, pending, current, syncTodo, asyncTodo,
                    hubTodo, armed>>

\* Rule::ExecuteActions(), called with the lock held
ExecuteUnchecked(r) ==
  /\ lockedWrites' = Writes[r]
  /\ acting' = IF Writes[r] = <<>> THEN {} ELSE {r}
  /\ acted' = acted \cup (StartRules \cap {r})
ExecuteActions(r) ==
  \/ ~Disabled(r) /\ ExecuteUnchecked(r)
  \/ /\ Disabled(r)
     /\ UNCHANGED <<lockedWrites, acting, acted>>

InMarch == locked /\ lockedWrites = <<>>

\* One IO written by an action or a callback of the march
LockedWrite ==
  /\ locked /\ lockedWrites # <<>>
  /\ Write(Head(lockedWrites))
  /\ lockedWrites' = Tail(lockedWrites)
  /\ acting' = IF lockedWrites' = <<>> THEN {} ELSE acting
  /\ UNCHANGED <<config, scripts, free, acted>>

\* executeTrigger(): the actions of the next rule
ExecuteSyncRule ==
  /\ InMarch /\ current # NoIO
  /\ \E r \in syncTodo :
       /\ IsFirst(r, syncTodo)
       /\ syncTodo' = syncTodo \ {r}
       /\ ExecuteActions(r)
  /\ UNCHANGED <<config, value, armed, scripts, locked, pending, current,
                 asyncTodo, hubTodo, free>>

\* dispatchAsyncRule(), CheckConditionsAsync(): the standard conditions are
\* evaluated once more, and the scripts start if they hold
DispatchAsyncRule ==
  /\ InMarch /\ current # NoIO /\ syncTodo = {}
  /\ \E r \in asyncTodo :
       /\ IsFirst(r, asyncTodo)
       /\ asyncTodo' = asyncTodo \ {r}
       /\ scripts' = IF Holds(r, value) /\ ~Disabled(r)
                        /\ scripts[r] < MaxScripts
                     THEN [scripts EXCEPT ![r] = @ + 1] ELSE scripts
  /\ UNCHANGED <<config, value, armed, locked, pending, current, syncTodo,
                 hubTodo, lockedWrites, acting, free, acted>>

\* IOChangeHub::notify()
Notify ==
  /\ InMarch /\ current # NoIO /\ syncTodo = {} /\ asyncTodo = {} /\ hubTodo
  /\ hubTodo' = FALSE
  /\ lockedWrites' = IF current \in ios THEN HubWrites[current] ELSE <<>>
  /\ UNCHANGED <<config, value, armed, scripts, locked, pending, current,
                 syncTodo, asyncTodo, acting, free, acted>>

\* The march of one trigger is over
EndTrigger ==
  /\ InMarch /\ current # NoIO /\ syncTodo = {} /\ asyncTodo = {} /\ ~hubTodo
  /\ current' = NoIO
  /\ UNCHANGED <<config, value, armed, scripts, locked, pending, syncTodo,
                 asyncTodo, hubTodo, lockedWrites, acting, free, acted>>

\* drainPendingTriggers(): the next deferred trigger
DrainPending ==
  /\ InMarch /\ current = NoIO /\ pending # <<>>
  /\ pending' = Tail(pending)
  /\ UNCHANGED value
  /\ Collect(Head(pending))
  /\ UNCHANGED <<config, scripts, locked, lockedWrites, acting, free, acted>>

ReleaseEarly ==
  /\ InMarch /\ current = NoIO
  /\ locked' = FALSE
  /\ UNCHANGED <<config, value, armed, scripts, pending, current, syncTodo,
                 asyncTodo, hubTodo, lockedWrites, acting, free, acted>>
Release ==
  /\ InMarch /\ current = NoIO /\ pending = <<>>
  /\ locked' = FALSE
  /\ UNCHANGED <<config, value, armed, scripts, pending, current, syncTodo,
                 asyncTodo, hubTodo, lockedWrites, acting, free, acted>>

-----------------------------------------------------------------------------
(* Outside of the lock: start rules and changes of connection status        *)

\* The next write of a start rule or of a callback called by setStatusInfo()
FreeWrite ==
  /\ ~locked /\ freeWrites # <<>>
  /\ Write(Head(freeWrites))
  /\ freeWrites' = Tail(freeWrites)
  /\ freeActing' = IF freeWrites' = <<>> THEN {} ELSE freeActing
  /\ UNCHANGED <<config, scripts, lockedWrites, acting, reads, startTodo, acted>>

\* ExecuteStartRules() calls Rule::Execute() on the rules that have a
\* ConditionStart and are not disabled
ExecuteStartRule ==
  /\ ~locked /\ freeWrites = <<>>
  /\ \E r \in startTodo :
       /\ IsFirst(r, startTodo)
       /\ startTodo' = startTodo \ {r}
       /\ armed' = armed \ {r}
       /\ \/ /\ r \in armed /\ Holds(r, value)
             /\ freeWrites' = Writes[r]
             /\ freeActing' = IF Writes[r] = <<>> THEN {} ELSE {r}
             /\ acted' = acted \cup {r}
          \/ /\ ~(r \in armed /\ Holds(r, value))
             /\ UNCHANGED <<freeWrites, freeActing, acted>>
  /\ UNCHANGED <<config, value, scripts, march, reads>>

Step ==
  \/ LockedWrite \/ ExecuteSyncRule \/ DispatchAsyncRule \/ Notify
  \/ EndTrigger \/ DrainPending \/ Release
  \/ FreeWrite \/ ExecuteStartRule

-----------------------------------------------------------------------------
(* The event loop, when nothing of the above is on the stack                *)

Idle == ~locked /\ freeWrites = <<>> /\ startTodo = {}

\* An IO gets a value from outside: a device or a client
IOChanges(io, v) ==
  /\ Idle /\ io \in ios
  /\ Write(<<io, v>>)
  /\ UNCHANGED <<config, scripts, lockedWrites, acting, free, acted>>

\* setStatusInfo(): the subscribers are called outside of any march
StatusChanges(io) ==
  /\ Idle /\ io \in ios
  /\ freeWrites' = HubWrites[io]
  /\ UNCHANGED <<config, value, armed, scripts, march, reads, startTodo,
                 freeActing, acted>>

\* StartReadRules::ioRead()
ReadAgain ==
  /\ Idle
  /\ reads' = reads - 1
  /\ UNCHANGED <<config, value, armed, scripts, march, startTodo, freeWrites,
                 freeActing, acted>>
ReadDone ==
  /\ Idle /\ reads > 0
  /\ reads' = reads - 1
  /\ startTodo' = IF reads' = 0
                  THEN {r \in rules \cap StartRules : ~Disabled(r)} ELSE {}
  /\ UNCHANGED <<config, value, armed, scripts, march, freeWrites, freeActing,
                 acted>>

\* asyncConditionsChecked(), for a script that ends: the token of the rule
\* tells whether it is still there
CompleteAnyRule(r, ok) ==
  /\ Idle /\ scripts[r] > 0
  /\ scripts' = [scripts EXCEPT ![r] = @ - 1]
  /\ locked' = TRUE
  /\ ExecuteUnchecked(r)
  /\ UNCHANGED <<config, value, armed, pending, current, syncTodo, asyncTodo,
                 hubTodo, free>>
ScriptDone(r, ok) ==
  /\ Idle /\ scripts[r] > 0
  /\ scripts' = [scripts EXCEPT ![r] = @ - 1]
  /\ \/ /\ ok /\ r \in rules
        /\ locked' = TRUE
        /\ ExecuteActions(r)
     \/ /\ ~(ok /\ r \in rules)
        /\ UNCHANGED <<locked, lockedWrites, acting, acted>>
  /\ UNCHANGED <<config, value, armed, pending, current, syncTodo, asyncTodo,
                 hubTodo, free>>

\* deleteIO() and RemoveRule(): the rules that use the IO are disabled
DisableNone(io) ==
  /\ Idle /\ io \in ios
  /\ ios' = ios \ {io}
  /\ UNCHANGED <<value, rules, index, missing, armed, scripts, march, free, acted>>
DeleteIO(io) ==
  /\ Idle /\ io \in ios
  /\ ios' = ios \ {io}
  /\ missing' = [r \in RuleIds |-> IF r \in rules /\ io \in Uses(r)
                                   THEN missing[r] \cup {io} ELSE missing[r]]
  /\ UNCHANGED <<value, rules, index, armed, scripts, march, free, acted>>

\* deleteIO() with RuleDetachPolicy::Destroy: they are destroyed
KeepIndex(io) ==
  /\ Idle /\ io \in ios
  /\ ios' = ios \ {io}
  /\ rules' = {r \in rules : io \notin Uses(r)}
  /\ UNCHANGED <<value, index, missing, armed, scripts, march, free, acted>>
DeleteIOAndRules(io) ==
  /\ Idle /\ io \in ios
  /\ ios' = ios \ {io}
  /\ rules' = {r \in rules : io \notin Uses(r)}
  /\ index' = index \cap rules'
  /\ missing' = [r \in RuleIds |-> IF r \in rules' THEN missing[r] ELSE {}]
  /\ UNCHANGED <<value, armed, scripts, march, free, acted>>

\* An IO comes back under the same identity: the rules stay disabled
CreateIO(io) ==
  /\ Idle /\ io \notin ios
  /\ ios' = ios \cup {io}
  /\ UNCHANGED <<value, rules, index, missing, armed, scripts, march, free,
                 acted>>

\* A rule is built, AddCondition() and AddAction() note what it lacks, and
\* ListeRule::Add() takes it
AddRule(r) ==
  /\ Idle
  /\ r \in RuleIds \ rules /\ \A q \in rules : q < r
  /\ scripts[r] = 0
  /\ rules' = rules \cup {r}
  /\ index' = IF r \in Marked THEN index \cup {r} ELSE index
  /\ missing' = [missing EXCEPT ![r] = Uses(r) \ ios]
  /\ armed' = armed \cup (StartRules \cap {r})
  /\ UNCHANGED <<ios, value, scripts, march, free, acted>>

\* ListeRule::Remove()
RemoveRule(r) ==
  /\ Idle /\ r \in rules
  /\ rules' = rules \ {r}
  /\ index' = index \ {r}
  /\ missing' = [missing EXCEPT ![r] = {}]
  /\ UNCHANGED <<ios, value, armed, scripts, march, free, acted>>

Event ==
  \/ \E io \in IOs, v \in BOOLEAN : IOChanges(io, v)
  \/ \E io \in IOs : StatusChanges(io) \/ DeleteIO(io)
                       \/ DeleteIOAndRules(io) \/ CreateIO(io)
  \/ ReadDone
  \/ \E r \in RuleIds, ok \in BOOLEAN : ScriptDone(r, ok)
  \/ \E r \in RuleIds : AddRule(r) \/ RemoveRule(r)

Next == Step \/ Event

Spec == Init /\ [][Next]_vars

\* What is on the stack runs.
FairSpec == Spec /\ WF_vars(Step)

-----------------------------------------------------------------------------
(* Properties                                                              *)

\* The lock is released only when the march is over and nothing is deferred:
\* no signalled change is forgotten in pendingTriggers.
LockDiscipline ==
  ~locked => /\ pending = <<>> /\ current = NoIO
             /\ syncTodo = {} /\ asyncTodo = {} /\ ~hubTodo
             /\ lockedWrites = <<>> /\ acting = {}

\* A rule that is destroyed, or that names an IO that is gone, never acts,
\* even when its script was in flight: no dangling rule, no partial rule.
ActingRulesAreWhole ==
  /\ \A r \in acting \cup freeActing : r \in rules /\ Uses(r) \subseteq ios
  /\ syncTodo \cup asyncTodo \cup startTodo \subseteq rules

\* rules_scenarios holds exactly the rules of the list with a scenario marker.
IndexMatches == index = rules \cap Marked

\* The changes signalled to the engine are served one at a time, in order,
\* each exactly once.
Queue == INSTANCE TriggerQueue WITH
           Ids <- IOs,
           queue <- (IF current = NoIO THEN <<>> ELSE <<current>>) \o pending
ServesInOrder == Queue!Spec

\* ... and each of them is served, when the rules write in no circle.
ServesAll == Queue!FairSpec

\* IOChangeHub.h: an IO written from a callback is queued, "never handled
\* recursively".
CallbacksNotRecursive ==
  [][FreeWrite /\ freeActing = {} => current' = NoIO]_vars

\* ListeRule.h: "All rules with ConditionStart will be evaluated and executed
\* (only once)".  A start rule whose other conditions hold has acted once
\* ExecuteStartRules() is past it.
StartRulesRun ==
  [][\A r \in startTodo \ startTodo' : Holds(r, value) => r \in acted']_vars
=============================================================================
