-------------------------- MODULE RuleEngineProof --------------------------
(***************************************************************************)
(* What RuleEngine keeps for every set of IOs, rules and actions.          *)
(*                                                                         *)
(* LockDiscipline is not inductive: Release only sees that no trigger is   *)
(* marched and none is deferred.  MarchOver says that nothing of a march   *)
(* outlives its trigger.  ActingRulesAreWhole is not either: a rule that   *)
(* is not disabled is whole because missing names all the IOs it lacks,    *)
(* which MissingIsKnown says, and nothing is deleted in the middle of the  *)
(* actions of a rule.                                                      *)
(***************************************************************************)
EXTENDS RuleEngine, SequenceTheorems, TLAPS

MarchOver == /\ current = NoIO => syncTodo = {} /\ asyncTodo = {} /\ ~hubTodo
             /\ lockedWrites = <<>> => acting = {}
             /\ freeWrites = <<>> => freeActing = {}

MissingIsKnown == \A r \in rules : Uses(r) \ ios \subseteq missing[r]

-----------------------------------------------------------------------------
(* Types                                                                   *)

\* A rule uses IOs and nothing else
LEMMA UsesAreIOs ==
  ASSUME NEW r \in RuleIds
  PROVE  Uses(r) \subseteq IOs
  <1>1. Watches[r] \subseteq IOs
    BY RuleEngineAssumption
  <1>2. \A n \in Needs[r] : n[1] \in IOs
    BY RuleEngineAssumption DEF Changes
  <1>3. \A i \in DOMAIN Writes[r] : Writes[r][i][1] \in IOs
    BY RuleEngineAssumption DEF Changes
  <1> QED BY <1>1, <1>2, <1>3 DEF Uses

\* What an IO may change to is written as a pair
LEMMA ChangeParts ==
  ASSUME NEW change \in Changes
  PROVE  change[1] \in IOs /\ change[2] \in BOOLEAN
  BY DEF Changes

\* The head of a non-empty sequence is one of its elements, the tail a sequence
LEMMA HeadTailType ==
  ASSUME NEW S, NEW s \in Seq(S), s # <<>>
  PROVE  Head(s) \in S /\ Tail(s) \in Seq(S)
  BY HeadTailProperties

\* The part of the type invariant that a march can disturb
MarchTypes ==
  /\ locked \in BOOLEAN
  /\ pending \in Seq(IOs)
  /\ current \in IOs \cup {NoIO}
  /\ syncTodo \subseteq RuleIds
  /\ asyncTodo \subseteq RuleIds
  /\ hubTodo \in BOOLEAN
  /\ armed \subseteq StartRules

\* Collecting the rules of a trigger keeps the types
LEMMA CollectTypes ==
  ASSUME TypeOK, NEW id \in IOs, Collect(id)
  PROVE  /\ current' \in IOs /\ syncTodo' \subseteq RuleIds
         /\ asyncTodo' \subseteq RuleIds /\ hubTodo' \in BOOLEAN
         /\ armed' \subseteq StartRules
  BY DEF Collect, Evaluated, TypeOK

\* A signalled change keeps the types, deferred or marched
LEMMA SignalTypes ==
  ASSUME TypeOK, NEW id \in IOs, ExecuteRuleSignal(id)
  PROVE  MarchTypes'
  <1>1. CASE locked /\ Defer(id)
    <2>1. pending' \in Seq(IOs)
      BY <1>1, AppendProperties DEF Defer, TypeOK
    <2> QED BY <1>1, <2>1 DEF Defer, TypeOK, MarchTypes
  <1>2. CASE ~locked /\ locked' = TRUE /\ UNCHANGED pending /\ Collect(id)
    BY <1>2, CollectTypes DEF TypeOK, MarchTypes
  <1> QED BY <1>1, <1>2 DEF ExecuteRuleSignal

\* So does a write, whether its IO is still there or not
LEMMA WriteTypes ==
  ASSUME TypeOK, NEW change \in Changes, Write(change)
  PROVE  value' \in [IOs -> BOOLEAN] /\ MarchTypes'
  <1>1. change[1] \in IOs /\ change[2] \in BOOLEAN
    BY ChangeParts
  <1>2. CASE change[1] \in ios
    BY <1>1, <1>2, SignalTypes DEF Write, TypeOK
  <1>3. CASE change[1] \notin ios
    BY <1>3 DEF Write, TypeOK, MarchTypes
  <1> QED BY <1>2, <1>3

\* Executing the actions of a rule keeps the types
LEMMA ActionTypes ==
  ASSUME TypeOK, NEW r \in RuleIds, ExecuteActions(r)
  PROVE  /\ lockedWrites' \in Seq(Changes) /\ acting' \subseteq RuleIds
         /\ acted' \subseteq StartRules
  <1>1. Writes[r] \in Seq(Changes)
    BY RuleEngineAssumption
  <1>2. CASE ExecuteUnchecked(r)
    BY <1>1, <1>2 DEF ExecuteUnchecked, TypeOK
  <1>3. CASE UNCHANGED <<lockedWrites, acting, acted>>
    BY <1>3 DEF TypeOK
  <1> QED BY <1>2, <1>3 DEF ExecuteActions

\* The constructor and the configuration establish the types
THEOREM InitTypes == Init => TypeOK
  <1> SUFFICES ASSUME Init PROVE TypeOK
    OBVIOUS
  <1>1. <<>> \in Seq(IOs) /\ <<>> \in Seq(Changes)
    BY EmptySeq
  <1>2. /\ value \in [IOs -> BOOLEAN] /\ missing \in [RuleIds -> SUBSET IOs]
        /\ scripts \in [RuleIds -> 0..MaxScripts]
    BY RuleEngineAssumption DEF Init
  <1>3. rules \subseteq RuleIds /\ index \subseteq RuleIds /\ reads \in 0..Reads
    BY RuleEngineAssumption DEF Init
  <1> QED BY <1>1, <1>2, <1>3 DEF Init, TypeOK

\* Every step of a march and every event keeps the types
THEOREM StepTypes == TypeOK /\ [Next]_vars => TypeOK'
  <1> SUFFICES ASSUME TypeOK, [Next]_vars PROVE TypeOK'
    OBVIOUS
  <1> USE DEF march, free, config
  <1>1. CASE LockedWrite
    <2>1. Head(lockedWrites) \in Changes /\ Tail(lockedWrites) \in Seq(Changes)
      BY <1>1, HeadTailType DEF LockedWrite, TypeOK
    <2>2. value' \in [IOs -> BOOLEAN] /\ MarchTypes'
      BY <1>1, <2>1, WriteTypes DEF LockedWrite
    <2> QED BY <1>1, <2>1, <2>2 DEF LockedWrite, TypeOK, MarchTypes
  <1>2. CASE ExecuteSyncRule
    <2>1. PICK r \in syncTodo : syncTodo' = syncTodo \ {r} /\ ExecuteActions(r)
      BY <1>2 DEF ExecuteSyncRule
    <2>2. lockedWrites' \in Seq(Changes) /\ acting' \subseteq RuleIds
            /\ acted' \subseteq StartRules
      BY <2>1, ActionTypes DEF TypeOK
    <2> QED BY <1>2, <2>1, <2>2 DEF ExecuteSyncRule, TypeOK
  <1>3. CASE DispatchAsyncRule
    <2>1. scripts' \in [RuleIds -> 0..MaxScripts] /\ asyncTodo' \subseteq RuleIds
      BY <1>3, RuleEngineAssumption DEF DispatchAsyncRule, TypeOK
    <2> QED BY <1>3, <2>1 DEF DispatchAsyncRule, TypeOK
  <1>4. CASE Notify
    <2>1. lockedWrites' \in Seq(Changes)
      BY <1>4, EmptySeq, RuleEngineAssumption DEF Notify, TypeOK
    <2> QED BY <1>4, <2>1 DEF Notify, TypeOK
  <1>5. CASE EndTrigger \/ Release
    BY <1>5 DEF EndTrigger, Release, TypeOK
  <1>6. CASE DrainPending
    <2>1. Head(pending) \in IOs /\ Tail(pending) \in Seq(IOs)
      BY <1>6, HeadTailType DEF DrainPending, TypeOK
    <2> QED BY <1>6, <2>1, CollectTypes DEF DrainPending, TypeOK
  <1>7. CASE FreeWrite
    <2>1. Head(freeWrites) \in Changes /\ Tail(freeWrites) \in Seq(Changes)
      BY <1>7, HeadTailType DEF FreeWrite, TypeOK
    <2>2. value' \in [IOs -> BOOLEAN] /\ MarchTypes'
      BY <1>7, <2>1, WriteTypes DEF FreeWrite
    <2> QED BY <1>7, <2>1, <2>2 DEF FreeWrite, TypeOK, MarchTypes
  <1>8. CASE ExecuteStartRule
    <2>1. PICK r \in startTodo :
            /\ startTodo' = startTodo \ {r} /\ armed' = armed \ {r}
            /\ \/ /\ freeWrites' = Writes[r]
                  /\ freeActing' = IF Writes[r] = <<>> THEN {} ELSE {r}
                  /\ acted' = acted \cup {r} /\ r \in armed
               \/ UNCHANGED <<freeWrites, freeActing, acted>>
      BY <1>8 DEF ExecuteStartRule
    <2>2. r \in RuleIds /\ Writes[r] \in Seq(Changes)
      BY <2>1, RuleEngineAssumption DEF TypeOK
    <2>3. /\ freeWrites' \in Seq(Changes) /\ freeActing' \subseteq RuleIds
          /\ acted' \subseteq StartRules
      BY <2>1, <2>2 DEF TypeOK
    <2> QED BY <1>8, <2>1, <2>3 DEF ExecuteStartRule, TypeOK
  <1>9. ASSUME NEW io \in IOs, NEW v \in BOOLEAN, IOChanges(io, v) PROVE TypeOK'
    <2>1. <<io, v>> \in Changes
      BY DEF Changes
    <2>2. value' \in [IOs -> BOOLEAN] /\ MarchTypes'
      BY <1>9, <2>1, WriteTypes DEF IOChanges
    <2> QED BY <1>9, <2>2 DEF IOChanges, TypeOK, MarchTypes
  <1>10. ASSUME NEW io \in IOs, StatusChanges(io) PROVE TypeOK'
    <2>1. freeWrites' \in Seq(Changes)
      BY <1>10, RuleEngineAssumption DEF StatusChanges
    <2> QED BY <1>10, <2>1 DEF StatusChanges, TypeOK
  <1>11. CASE ReadDone
    <2>1. reads' \in 0..Reads
      BY <1>11, RuleEngineAssumption DEF ReadDone, TypeOK
    <2>2. startTodo' \subseteq RuleIds
      BY <1>11 DEF ReadDone, TypeOK
    <2> QED BY <1>11, <2>1, <2>2 DEF ReadDone, TypeOK
  <1>12. ASSUME NEW r \in RuleIds, NEW ok \in BOOLEAN, ScriptDone(r, ok)
         PROVE  TypeOK'
    <2>1. scripts' \in [RuleIds -> 0..MaxScripts]
      BY <1>12, RuleEngineAssumption DEF ScriptDone, TypeOK
    <2>2. /\ lockedWrites' \in Seq(Changes) /\ acting' \subseteq RuleIds
          /\ acted' \subseteq StartRules /\ locked' \in BOOLEAN
      BY <1>12, ActionTypes DEF ScriptDone, TypeOK
    <2> QED BY <1>12, <2>1, <2>2 DEF ScriptDone, TypeOK
  <1>13. ASSUME NEW io \in IOs, DeleteIO(io) \/ DeleteIOAndRules(io) \/ CreateIO(io)
         PROVE  TypeOK'
    BY <1>13 DEF DeleteIO, DeleteIOAndRules, CreateIO, TypeOK
  <1>14. ASSUME NEW r \in RuleIds, AddRule(r) PROVE TypeOK'
    BY <1>14, UsesAreIOs DEF AddRule, TypeOK
  <1>15. ASSUME NEW r \in RuleIds, RemoveRule(r) PROVE TypeOK'
    BY <1>15 DEF RemoveRule, TypeOK
  <1>16. CASE UNCHANGED vars
    BY <1>16 DEF vars, TypeOK
  <1> QED
    BY <1>1, <1>2, <1>3, <1>4, <1>5, <1>6, <1>7, <1>8, <1>9, <1>10, <1>11,
       <1>12, <1>13, <1>14, <1>15, <1>16
    DEF Next, Step, Event

\* Every variable of the engine keeps its type.
THEOREM TypeCorrect == Spec => []TypeOK
  BY InitTypes, StepTypes, PTL DEF Spec

-----------------------------------------------------------------------------
(* The lock                                                                *)

LockInv == TypeOK /\ LockDiscipline /\ MarchOver

\* A signalled change that finds no march starts one, and only then
LEMMA SignalKeepsLock ==
  ASSUME LockInv, NEW id \in IOs, ExecuteRuleSignal(id)
  PROVE  /\ locked' /\ (current' = NoIO => current = NoIO)
         /\ current' = NoIO => syncTodo' = {} /\ asyncTodo' = {} /\ ~hubTodo'
  <1>1. NoIO \notin IOs
    BY RuleEngineAssumption
  <1>2. CASE locked /\ Defer(id)
    BY <1>2 DEF Defer, LockInv, MarchOver
  <1>3. CASE ~locked /\ locked' = TRUE /\ Collect(id)
    BY <1>1, <1>3 DEF Collect
  <1> QED BY <1>2, <1>3 DEF ExecuteRuleSignal

\* The constructor leaves the lock free and nothing to do
THEOREM InitLock == Init => LockInv
  BY InitTypes DEF Init, LockInv, LockDiscipline, MarchOver

\* Every step keeps the discipline of the lock
THEOREM StepLock == LockInv /\ [Next]_vars => LockInv'
  <1> SUFFICES ASSUME LockInv, [Next]_vars PROVE (LockDiscipline /\ MarchOver)'
    BY StepTypes DEF LockInv
  <1>0. TypeOK /\ LockDiscipline /\ MarchOver /\ NoIO \notin IOs
    BY RuleEngineAssumption DEF LockInv
  <1> USE DEF LockDiscipline, MarchOver, march, free, config
  <1>1. CASE LockedWrite
    <2>1. Head(lockedWrites) \in Changes
      BY <1>0, <1>1, HeadTailType DEF LockedWrite, TypeOK
    <2>2. Head(lockedWrites)[1] \in IOs
      BY <2>1, ChangeParts
    <2>3. CASE Head(lockedWrites)[1] \in ios
      BY <1>0, <1>1, <2>2, <2>3, SignalKeepsLock DEF LockedWrite, Write
    <2>4. CASE Head(lockedWrites)[1] \notin ios
      <3>1. /\ UNCHANGED <<locked, pending, current, syncTodo, asyncTodo, hubTodo>>
            /\ UNCHANGED <<freeWrites, freeActing>>
            /\ locked /\ (lockedWrites' = <<>> => acting' = {})
        BY <1>1, <2>4 DEF LockedWrite, Write
      <3> QED BY <1>0, <3>1
    <2> QED BY <2>3, <2>4
  <1>2. CASE ExecuteSyncRule
    BY <1>0, <1>2 DEF ExecuteSyncRule, InMarch, ExecuteActions, ExecuteUnchecked
  <1>3. CASE DispatchAsyncRule \/ Notify \/ EndTrigger \/ Release
    BY <1>0, <1>3 DEF DispatchAsyncRule, Notify, EndTrigger, Release, InMarch
  <1>4. CASE DrainPending
    <2>1. Head(pending) \in IOs
      BY <1>0, <1>4, HeadTailType DEF DrainPending, TypeOK
    <2>2. locked' /\ current' = Head(pending)
      BY <1>4 DEF DrainPending, Collect, InMarch
    <2>3. UNCHANGED <<lockedWrites, acting, freeWrites, freeActing>>
      BY <1>4 DEF DrainPending
    <2> QED BY <1>0, <2>1, <2>2, <2>3
  <1>5. CASE FreeWrite
    <2>1. Head(freeWrites) \in Changes
      BY <1>0, <1>5, HeadTailType DEF FreeWrite, TypeOK
    <2>2. Head(freeWrites)[1] \in IOs
      BY <2>1, ChangeParts
    <2>3. CASE Head(freeWrites)[1] \in ios
      BY <1>0, <1>5, <2>2, <2>3, SignalKeepsLock DEF FreeWrite, Write
    <2>4. CASE Head(freeWrites)[1] \notin ios
      BY <1>0, <1>5, <2>4 DEF FreeWrite, Write
    <2> QED BY <2>3, <2>4
  <1>6. CASE ExecuteStartRule
    BY <1>0, <1>6 DEF ExecuteStartRule
  <1>7. ASSUME NEW io \in IOs, NEW v \in BOOLEAN, IOChanges(io, v)
        PROVE  (LockDiscipline /\ MarchOver)'
    <2>1. ExecuteRuleSignal(io)
      BY <1>7 DEF IOChanges, Write
    <2> QED BY <1>0, <1>7, <2>1, SignalKeepsLock DEF IOChanges
  <1>8. ASSUME NEW r \in RuleIds, NEW ok \in BOOLEAN, ScriptDone(r, ok)
        PROVE  (LockDiscipline /\ MarchOver)'
    BY <1>0, <1>8 DEF ScriptDone, Idle, ExecuteActions, ExecuteUnchecked
  <1>9. CASE \E io \in IOs : StatusChanges(io) \/ DeleteIO(io)
                               \/ DeleteIOAndRules(io) \/ CreateIO(io)
    BY <1>0, <1>9
    DEF StatusChanges, DeleteIO, DeleteIOAndRules, CreateIO, Idle
  <1>10. CASE ReadDone \/ \E r \in RuleIds : AddRule(r) \/ RemoveRule(r)
    BY <1>0, <1>10 DEF ReadDone, AddRule, RemoveRule
  <1>11. CASE UNCHANGED vars
    BY <1>0, <1>11 DEF vars
  <1> QED
    BY <1>1, <1>2, <1>3, <1>4, <1>5, <1>6, <1>7, <1>8, <1>9, <1>10, <1>11
    DEF Next, Step, Event

\* The lock is never released while a change waits or a march is unfinished,
\* whatever the rules write and whoever calls.
THEOREM LockIsDisciplined == Spec => []LockDiscipline
  <1>1. LockInv => LockDiscipline
    BY DEF LockInv
  <1> QED BY InitLock, StepLock, <1>1, PTL DEF Spec

-----------------------------------------------------------------------------
(* Rules that are whole                                                    *)

StartsAreWhole == \A r \in startTodo : Uses(r) \subseteq ios

WholeInv == /\ LockInv /\ MissingIsKnown /\ IndexMatches
            /\ ActingRulesAreWhole /\ StartsAreWhole

\* The rules that a trigger collects are rules of the list
LEMMA SignalKeepsRules ==
  ASSUME syncTodo \cup asyncTodo \subseteq rules, NEW id, ExecuteRuleSignal(id)
  PROVE  syncTodo' \cup asyncTodo' \subseteq rules
  BY DEF ExecuteRuleSignal, Defer, Collect, Evaluated

\* A rule of the list that is not disabled lacks no IO
LEMMA EnabledIsWhole ==
  ASSUME MissingIsKnown, NEW r \in rules, ~Disabled(r)
  PROVE  Uses(r) \subseteq ios
  BY DEF MissingIsKnown, Disabled

\* The configuration is loaded with every IO there, and no rule acts
THEOREM InitWhole == Init => WholeInv
  <1> SUFFICES ASSUME Init PROVE WholeInv
    OBVIOUS
  <1>1. MissingIsKnown
    BY UsesAreIOs, RuleEngineAssumption DEF Init, MissingIsKnown
  <1> QED
    BY <1>1, InitLock
    DEF Init, WholeInv, IndexMatches, ActingRulesAreWhole, StartsAreWhole

\* Every step keeps the list, its index and what the rules lack in agreement,
\* and lets only whole rules act
THEOREM StepWhole == WholeInv /\ [Next]_vars => WholeInv'
  <1> SUFFICES ASSUME WholeInv, [Next]_vars
               PROVE  /\ MissingIsKnown' /\ IndexMatches'
                      /\ ActingRulesAreWhole' /\ StartsAreWhole'
    BY StepLock DEF WholeInv
  <1>0. /\ TypeOK /\ LockDiscipline /\ MarchOver /\ MissingIsKnown
        /\ IndexMatches /\ ActingRulesAreWhole /\ StartsAreWhole
    BY DEF WholeInv, LockInv
  <1> DEFINE Actors == acting' \cup freeActing' \subseteq acting \cup freeActing
             Todo == syncTodo' \cup asyncTodo' \cup startTodo' \subseteq rules
  <1>a. ASSUME UNCHANGED config, Actors, Todo, startTodo' \subseteq startTodo
        PROVE  /\ MissingIsKnown' /\ IndexMatches'
               /\ ActingRulesAreWhole' /\ StartsAreWhole'
    <2>1. UNCHANGED <<ios, rules, index, missing>>
      BY <1>a DEF config
    <2>2. MissingIsKnown' /\ IndexMatches'
      BY <1>0, <2>1 DEF MissingIsKnown, IndexMatches, Uses
    <2>3. ActingRulesAreWhole' /\ StartsAreWhole'
      BY <1>0, <1>a, <2>1 DEF ActingRulesAreWhole, StartsAreWhole, Uses
    <2> QED BY <2>2, <2>3
  <1>b. ASSUME Idle
        PROVE  /\ acting = {} /\ freeActing = {} /\ syncTodo = {}
               /\ asyncTodo = {} /\ startTodo = {}
    BY <1>0, <1>b DEF Idle, LockDiscipline, MarchOver
  <1>1. CASE LockedWrite \/ FreeWrite \/ \E io \in IOs, v \in BOOLEAN : IOChanges(io, v)
    <2>1. syncTodo \cup asyncTodo \cup startTodo \subseteq rules
      BY <1>0 DEF ActingRulesAreWhole
    <2>2. UNCHANGED config /\ UNCHANGED startTodo /\ Actors
      BY <1>1 DEF LockedWrite, FreeWrite, IOChanges, free
    <2>3. ASSUME NEW change, Write(change)
          PROVE  syncTodo' \cup asyncTodo' \subseteq rules
      BY <2>1, <2>3, SignalKeepsRules DEF Write
    <2>4. syncTodo' \cup asyncTodo' \subseteq rules
      BY <1>1, <2>3 DEF LockedWrite, FreeWrite, IOChanges
    <2> QED BY <1>a, <2>1, <2>2, <2>4
  <1>2. CASE ExecuteSyncRule
    <2>1. PICK r \in syncTodo : syncTodo' = syncTodo \ {r} /\ ExecuteActions(r)
      BY <1>2 DEF ExecuteSyncRule
    <2>2. UNCHANGED config /\ UNCHANGED <<asyncTodo, startTodo, freeActing>>
      BY <1>2 DEF ExecuteSyncRule, free
    <2>3. r \in rules /\ Todo
      BY <1>0, <2>1, <2>2 DEF ActingRulesAreWhole
    <2>4. CASE Disabled(r)
      BY <1>a, <2>1, <2>2, <2>3, <2>4 DEF ExecuteActions
    <2>5. CASE ~Disabled(r)
      <3>1. Uses(r) \subseteq ios
        BY <1>0, <2>3, <2>5, EnabledIsWhole
      <3>2. UNCHANGED <<ios, rules, index, missing>>
        BY <2>2 DEF config
      <3>3. acting' \subseteq {r}
        BY <2>1, <2>5 DEF ExecuteActions, ExecuteUnchecked
      <3>4. MissingIsKnown' /\ IndexMatches' /\ StartsAreWhole'
        BY <1>0, <2>2, <3>2
        DEF MissingIsKnown, IndexMatches, StartsAreWhole, Uses
      <3>5. ActingRulesAreWhole'
        BY <1>0, <2>2, <2>3, <3>1, <3>2, <3>3 DEF ActingRulesAreWhole, Uses
      <3> QED BY <3>4, <3>5
    <2> QED BY <2>4, <2>5
  <1>3. CASE DispatchAsyncRule \/ Notify \/ EndTrigger \/ Release
    <2>1. UNCHANGED <<config, startTodo, acting, freeActing, syncTodo>>
            /\ asyncTodo' \subseteq asyncTodo
      BY <1>3 DEF DispatchAsyncRule, Notify, EndTrigger, Release, free
    <2>2. Actors /\ Todo
      BY <1>0, <2>1 DEF ActingRulesAreWhole
    <2> QED BY <1>a, <2>1, <2>2
  <1>4. CASE DrainPending
    <2>1. UNCHANGED <<config, startTodo, acting, freeActing>>
      BY <1>4 DEF DrainPending, free
    <2>2. syncTodo' \cup asyncTodo' \subseteq rules
      BY <1>4 DEF DrainPending, Collect, Evaluated
    <2>3. Actors /\ Todo
      BY <1>0, <2>1, <2>2 DEF ActingRulesAreWhole
    <2> QED BY <1>a, <2>1, <2>3
  <1>5. CASE ExecuteStartRule
    <2>1. PICK r \in startTodo : /\ startTodo' = startTodo \ {r}
                                 /\ freeActing' \subseteq {r} \cup freeActing
      BY <1>5 DEF ExecuteStartRule
    <2>2. UNCHANGED <<ios, rules, index, missing, acting, syncTodo, asyncTodo>>
      BY <1>5 DEF ExecuteStartRule, config, march
    <2>3. r \in rules /\ Uses(r) \subseteq ios
      BY <1>0, <2>1 DEF ActingRulesAreWhole, StartsAreWhole
    <2>4. MissingIsKnown' /\ IndexMatches' /\ StartsAreWhole'
      BY <1>0, <2>1, <2>2 DEF MissingIsKnown, IndexMatches, StartsAreWhole, Uses
    <2>5. ActingRulesAreWhole'
      BY <1>0, <2>1, <2>2, <2>3 DEF ActingRulesAreWhole, Uses
    <2> QED BY <2>4, <2>5
  <1>6. CASE \E io \in IOs : StatusChanges(io)
    <2>1. UNCHANGED <<config, startTodo, acting, freeActing, syncTodo, asyncTodo>>
      BY <1>6 DEF StatusChanges, march
    <2>2. Actors /\ Todo
      BY <1>0, <2>1 DEF ActingRulesAreWhole
    <2> QED BY <1>a, <2>1, <2>2
  <1>7. CASE ReadDone
    <2>1. UNCHANGED <<ios, rules, index, missing, acting, freeActing, syncTodo,
                      asyncTodo>>
      BY <1>7 DEF ReadDone, march, config
    <2>2. \A r \in startTodo' : r \in rules /\ ~Disabled(r)
      BY <1>7 DEF ReadDone
    <2>3. \A r \in startTodo' : r \in rules /\ Uses(r) \subseteq ios
      BY <1>0, <2>2, EnabledIsWhole
    <2>4. MissingIsKnown' /\ IndexMatches'
      BY <1>0, <2>1 DEF MissingIsKnown, IndexMatches, Uses
    <2>5. ActingRulesAreWhole' /\ StartsAreWhole'
      BY <1>0, <2>1, <2>3 DEF ActingRulesAreWhole, StartsAreWhole, Uses
    <2> QED BY <2>4, <2>5
  <1>8. ASSUME NEW r \in RuleIds, NEW ok \in BOOLEAN, ScriptDone(r, ok)
        PROVE  /\ MissingIsKnown' /\ IndexMatches'
               /\ ActingRulesAreWhole' /\ StartsAreWhole'
    <2>1. UNCHANGED <<ios, rules, index, missing, startTodo, freeActing,
                      syncTodo, asyncTodo>>
      BY <1>8 DEF ScriptDone, config, free
    <2>2. MissingIsKnown' /\ IndexMatches' /\ StartsAreWhole'
      BY <1>0, <2>1 DEF MissingIsKnown, IndexMatches, StartsAreWhole, Uses
    <2>3. \/ acting' = acting
          \/ acting' \subseteq {r} /\ r \in rules /\ ~Disabled(r)
      BY <1>8 DEF ScriptDone, ExecuteActions, ExecuteUnchecked
    <2>4. \/ acting' = acting
          \/ acting' \subseteq {r} /\ r \in rules /\ Uses(r) \subseteq ios
      BY <1>0, <2>3, EnabledIsWhole
    <2>5. ActingRulesAreWhole'
      BY <1>0, <2>1, <2>4 DEF ActingRulesAreWhole, Uses
    <2> QED BY <2>2, <2>5
  <1>9. CASE \E io \in IOs : DeleteIO(io) \/ DeleteIOAndRules(io) \/ CreateIO(io)
    <2>1. Idle /\ UNCHANGED <<acting, freeActing, syncTodo, asyncTodo, startTodo>>
      BY <1>9 DEF DeleteIO, DeleteIOAndRules, CreateIO, march, free
    <2>2. ActingRulesAreWhole' /\ StartsAreWhole'
      BY <1>b, <2>1 DEF ActingRulesAreWhole, StartsAreWhole
    <2>3. IndexMatches'
      BY <1>0, <1>9 DEF DeleteIO, DeleteIOAndRules, CreateIO, IndexMatches
    <2>4. MissingIsKnown'
      <3>1. ASSUME NEW io \in IOs, DeleteIO(io) PROVE MissingIsKnown'
        BY <1>0, <3>1 DEF DeleteIO, MissingIsKnown, TypeOK, Uses
      <3>2. ASSUME NEW io \in IOs, DeleteIOAndRules(io) PROVE MissingIsKnown'
        BY <1>0, <3>2 DEF DeleteIOAndRules, MissingIsKnown, TypeOK, Uses
      <3>3. ASSUME NEW io \in IOs, CreateIO(io) PROVE MissingIsKnown'
        BY <1>0, <3>3 DEF CreateIO, MissingIsKnown, TypeOK, Uses
      <3> QED BY <1>9, <3>1, <3>2, <3>3
    <2> QED BY <2>2, <2>3, <2>4
  <1>10. ASSUME NEW r \in RuleIds, AddRule(r) \/ RemoveRule(r)
         PROVE  /\ MissingIsKnown' /\ IndexMatches'
                /\ ActingRulesAreWhole' /\ StartsAreWhole'
    <2>1. Idle /\ UNCHANGED <<acting, freeActing, syncTodo, asyncTodo, startTodo>>
      BY <1>10 DEF AddRule, RemoveRule, march, free
    <2>2. ActingRulesAreWhole' /\ StartsAreWhole'
      BY <1>b, <2>1 DEF ActingRulesAreWhole, StartsAreWhole
    <2>3. IndexMatches'
      BY <1>0, <1>10 DEF AddRule, RemoveRule, IndexMatches
    <2>4. MissingIsKnown'
      BY <1>0, <1>10 DEF AddRule, RemoveRule, MissingIsKnown, TypeOK, Uses
    <2> QED BY <2>2, <2>3, <2>4
  <1>11. CASE UNCHANGED vars
    <2>1. UNCHANGED <<config, startTodo, acting, freeActing, syncTodo, asyncTodo>>
      BY <1>11 DEF vars, config
    <2>2. Actors /\ Todo
      BY <1>0, <2>1 DEF ActingRulesAreWhole
    <2> QED BY <1>a, <2>1, <2>2
  <1> QED
    BY <1>1, <1>2, <1>3, <1>4, <1>5, <1>6, <1>7, <1>8, <1>9, <1>10, <1>11
    DEF Next, Step, Event

\* No destroyed rule and no rule that lacks an IO ever acts, and the index of
\* the scenario rules names exactly the rules of the list that are marked.
THEOREM RulesAreWhole == Spec => [](ActingRulesAreWhole /\ IndexMatches)
  <1>1. WholeInv => ActingRulesAreWhole /\ IndexMatches
    BY DEF WholeInv
  <1> QED BY InitWhole, StepWhole, <1>1, PTL DEF Spec

\* The index of the scenario rules names exactly the rules of the list that are
\* marked, whatever was added, removed or deleted with an IO meanwhile.
THEOREM IndexIsExact == Spec => []IndexMatches
  BY RulesAreWhole, PTL

-----------------------------------------------------------------------------
(* The queue                                                               *)

Served == (IF current = NoIO THEN <<>> ELSE <<current>>) \o pending

\* A sequence of one element before another one
LEMMA OneAndSome ==
  ASSUME NEW S, NEW e \in S, NEW s \in Seq(S)
  PROVE  /\ <<e>> \o s # <<>> /\ Tail(<<e>> \o s) = s
         /\ \A x \in S : Append(<<e>> \o s, x) = <<e>> \o Append(s, x)
         /\ <<>> \o s = s /\ s # <<>> => <<Head(s)>> \o Tail(s) = s
  <1>1. <<e>> \in Seq(S) /\ <<e>> \o s \in Seq(S)
    BY ConcatProperties
  <1>2. Len(<<e>> \o s) = 1 + Len(s)
    BY <1>1, ConcatProperties
  <1>3. <<e>> \o s # <<>> /\ Tail(<<e>> \o s) = s
    BY <1>1, <1>2
  <1>4. ASSUME NEW x \in S
        PROVE  Append(<<e>> \o s, x) = <<e>> \o Append(s, x)
    BY <1>1, <1>4
  <1>5. <<>> \o s = s
    BY ConcatEmptySeq
  <1>6. ASSUME s # <<>> PROVE <<Head(s)>> \o Tail(s) = s
    BY <1>6
  <1> QED BY <1>3, <1>4, <1>5, <1>6

\* A signalled change is appended to the queue
LEMMA SignalAppends ==
  ASSUME LockInv, NEW id \in IOs, ExecuteRuleSignal(id)
  PROVE  Served' = Append(Served, id)
  <1>0. pending \in Seq(IOs) /\ current \in IOs \cup {NoIO} /\ NoIO \notin IOs
    BY RuleEngineAssumption DEF LockInv, TypeOK
  <1>1. CASE locked /\ Defer(id)
    <2>1. pending' = Append(pending, id) /\ current' = current
      BY <1>1 DEF Defer
    <2>2. pending' \in Seq(IOs)
      BY <1>0, <2>1
    <2>3. CASE current = NoIO
      BY <1>0, <2>1, <2>2, <2>3, ConcatEmptySeq DEF Served
    <2>4. CASE current # NoIO
      BY <1>0, <2>1, <2>4, OneAndSome DEF Served
    <2> QED BY <2>3, <2>4
  <1>2. CASE ~locked /\ UNCHANGED pending /\ Collect(id)
    <2>1. pending = <<>> /\ current = NoIO
      BY <1>2 DEF LockInv, LockDiscipline
    <2>2. current' = id /\ current' # NoIO /\ pending' = <<>>
      BY <1>0, <1>2, <2>1 DEF Collect
    <2> QED BY <2>1, <2>2 DEF Served
  <1> QED BY <1>1, <1>2 DEF ExecuteRuleSignal

\* Every step signals one change, ends the service of one, or leaves the
\* queue alone
LEMMA StepServes ==
  ASSUME LockInv, [Next]_vars
  PROVE  \/ \E id \in IOs : Served' = Append(Served, id)
         \/ Served # <<>> /\ Served' = Tail(Served)
         \/ UNCHANGED Served
  <1>0. /\ TypeOK /\ pending \in Seq(IOs) /\ current \in IOs \cup {NoIO}
        /\ NoIO \notin IOs
    BY RuleEngineAssumption DEF LockInv, TypeOK
  <1>a. ASSUME UNCHANGED <<current, pending>> PROVE UNCHANGED Served
    BY <1>a DEF Served
  <1>1. ASSUME NEW change \in Changes, Write(change)
        PROVE  (\E id \in IOs : Served' = Append(Served, id)) \/ UNCHANGED Served
    BY <1>1, <1>a, ChangeParts, SignalAppends DEF Write
  <1>2. CASE LockedWrite
    <2>1. Head(lockedWrites) \in Changes
      BY <1>0, <1>2, HeadTailType DEF LockedWrite, TypeOK
    <2> QED BY <1>1, <1>2, <2>1 DEF LockedWrite
  <1>3. CASE FreeWrite
    <2>1. Head(freeWrites) \in Changes
      BY <1>0, <1>3, HeadTailType DEF FreeWrite, TypeOK
    <2> QED BY <1>1, <1>3, <2>1 DEF FreeWrite
  <1>4. ASSUME NEW io \in IOs, NEW v \in BOOLEAN, IOChanges(io, v)
        PROVE  (\E id \in IOs : Served' = Append(Served, id)) \/ UNCHANGED Served
    BY <1>1, <1>4 DEF IOChanges, Changes
  <1>5. CASE EndTrigger
    <2>1. current # NoIO /\ current' = NoIO /\ pending' = pending
      BY <1>5 DEF EndTrigger
    <2>2. Served = <<current>> \o pending /\ Served' = <<>> \o pending
      BY <2>1 DEF Served
    <2> QED BY <1>0, <2>1, <2>2, OneAndSome
  <1>6. CASE DrainPending
    <2>1. /\ current = NoIO /\ pending # <<>> /\ pending' = Tail(pending)
          /\ current' = Head(pending)
      BY <1>6 DEF DrainPending, Collect
    <2>2. Head(pending) \in IOs /\ Tail(pending) \in Seq(IOs)
      BY <1>0, <2>1, HeadTailType
    <2>3. Served = <<>> \o pending /\ Served' = <<Head(pending)>> \o Tail(pending)
      BY <1>0, <2>1, <2>2 DEF Served
    <2> QED BY <1>0, <2>1, <2>2, <2>3, OneAndSome
  <1>7. CASE ExecuteSyncRule \/ DispatchAsyncRule \/ Notify \/ Release
               \/ ExecuteStartRule \/ ReadDone
    BY <1>7, <1>a
    DEF ExecuteSyncRule, DispatchAsyncRule, Notify, Release, ExecuteStartRule,
        ReadDone, march
  <1>8. CASE \E io \in IOs : StatusChanges(io) \/ DeleteIO(io)
                               \/ DeleteIOAndRules(io) \/ CreateIO(io)
    BY <1>8, <1>a
    DEF StatusChanges, DeleteIO, DeleteIOAndRules, CreateIO, march
  <1>9. CASE (\E r \in RuleIds, ok \in BOOLEAN : ScriptDone(r, ok))
               \/ (\E r \in RuleIds : AddRule(r) \/ RemoveRule(r))
    BY <1>9, <1>a DEF ScriptDone, AddRule, RemoveRule, march
  <1>10. CASE UNCHANGED vars
    BY <1>10, <1>a DEF vars
  <1> QED
    BY <1>2, <1>3, <1>4, <1>5, <1>6, <1>7, <1>8, <1>9, <1>10
    DEF Next, Step, Event

\* The engine implements the queue: every change that is signalled, by whom
\* and when so ever, is served once, in order and alone.
THEOREM ImplementsQueue == Spec => ServesInOrder
  <1>1. Init => Queue!Init
    BY ConcatEmptySeq, EmptySeq DEF Init, Queue!Init
  <1>2. LockInv /\ [Next]_vars => [Queue!Next]_Served
    BY StepServes DEF Queue!Next, Queue!Signal, Queue!Finish, Served
  <1> QED
    BY <1>1, <1>2, InitLock, StepLock, PTL
    DEF Spec, ServesInOrder, Queue!Spec, Served
=============================================================================
