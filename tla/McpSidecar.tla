----------------------------- MODULE McpSidecar -----------------------------
(***************************************************************************)
(* McpServerManager: the calaos_mcp process that the server starts, starts *)
(* again when it exits, and signals when its token is replaced.            *)
(*                                                                         *)
(* Left out: the output of the process, the service token, a token that    *)
(* cannot be made or saved, a token replaced in the turn of the loop in    *)
(* which the process exited.                                               *)
(* OldToken, SpawnForgets are faults, used by no action.                   *)
(***************************************************************************)
EXTENDS Integers, Sequences

CONSTANTS
  MaxTokens,      \* bound on the tokens made
  MaxExits        \* bound on exits and failures, and on attempts

Never == -1
\* Of a restart, by the number of attempts before it
McpDelays == <<1, 2, 5, 10, 30, 60>>

ASSUME McpAssumption ==
  /\ MaxTokens \in Nat /\ MaxExits \in Nat

VARIABLES
  mc,      \* the manager: mcpToken, restartAttempts, the timer, shuttingDown
  mcExe,   \* the child: is it there, its token, was it signalled
  mcLog    \* history: exits in a row, the delay before each restart, exits

mcpVars == <<mc, mcExe, mcLog>>

McpTypeOK ==
  /\ mc \in [token : Nat, attempts : Nat, timer : Nat \cup {Never}, down : BOOLEAN,
             installed : BOOLEAN]
  /\ mcExe \in [alive : BOOLEAN, token : Nat, termed : BOOLEAN]
  /\ mcLog.failures \in Nat /\ mcLog.exits \in Nat /\ mcLog.delays \in Seq(Nat \cup {Never})

NoChild == [alive |-> FALSE, token |-> 0, termed |-> FALSE]

\* scheduleRestart()
ScheduleRestart(m) ==
  LET last == Len(McpDelays)
      n == IF m.attempts < last THEN m.attempts + 1 ELSE last
  IN [m EXCEPT !.timer = McpDelays[n], !.attempts = @ + 1]

SpawnForgets(m, ok) == IF ok THEN [m EXCEPT !.attempts = 0] ELSE [m EXCEPT !.timer = Never]

\* A spawn that fails runs its callback first, and the attempts are reset as well
Spawned(m, ok) ==
  IF ok THEN [m EXCEPT !.attempts = 0] ELSE [ScheduleRestart(m) EXCEPT !.attempts = 0]

Failed == [mcLog EXCEPT !.failures = @ + 1, !.exits = @ + 1]

\* spawnSidecar(): without its program there is nothing to do
SpawnSidecar(m) ==
  \/ /\ ~m.installed
     /\ mc' = m /\ UNCHANGED <<mcExe, mcLog>>
  \/ /\ m.installed
     /\ mc' = Spawned(m, TRUE)
     /\ mcExe' = [alive |-> TRUE, token |-> m.token, termed |-> FALSE]
     /\ UNCHANGED mcLog
  \/ /\ m.installed /\ mcLog.exits < MaxExits
     /\ mc' = Spawned(m, FALSE)
     /\ mcExe' = NoChild
     /\ mcLog' = [Failed EXCEPT !.delays = Append(@, mc'.timer)]

McpInit ==
  /\ \E there \in BOOLEAN :
       mc = [token |-> 1, attempts |-> 0, timer |-> 0, down |-> FALSE,
             installed |-> there]
  /\ mcExe = NoChild
  /\ mcLog = [failures |-> 0, exits |-> 0, delays |-> <<>>]

\* start() spawns at once, singleShot() after its delay
RestartDue ==
  /\ mc.timer = 0 /\ ~mc.down
  /\ SpawnSidecar([mc EXCEPT !.timer = Never])

\* The process exits, by itself or because it was signalled
SidecarExits ==
  /\ mcExe.alive
  /\ mcExe.termed \/ mcLog.exits < MaxExits
  /\ mcExe' = NoChild
  /\ mc' = ScheduleRestart(mc)
  /\ mcLog' = IF mcExe.termed THEN mcLog
              ELSE [Failed EXCEPT !.delays = Append(@, mc'.timer)]

OldToken ==
  /\ mc.token < MaxTokens /\ ~mc.down
  /\ mc' = [mc EXCEPT !.token = @ + 1]
  /\ UNCHANGED <<mcExe, mcLog>>

\* The child reads its token when it starts
RegenerateBearerToken ==
  /\ mc.token < MaxTokens /\ ~mc.down
  /\ mc' = [mc EXCEPT !.token = @ + 1]
  /\ mcExe' = [mcExe EXCEPT !.termed = @ \/ mcExe.alive]
  /\ UNCHANGED mcLog

\* After the event loop: the child is signalled, nothing more is run
McpStop ==
  /\ ~mc.down /\ mc.timer # 0
  /\ mc' = [mc EXCEPT !.down = TRUE]
  /\ mcExe' = NoChild
  /\ UNCHANGED mcLog

\* One that serves for a while has not failed
Serves ==
  /\ mcExe.alive /\ ~mcExe.termed /\ mcLog.failures > 0
  /\ mcLog' = [mcLog EXCEPT !.failures = 0, !.delays = <<>>]
  /\ UNCHANGED <<mc, mcExe>>

McpTick ==
  /\ mc.timer > 0 /\ ~mc.down
  /\ mc' = [mc EXCEPT !.timer = @ - 1]
  /\ UNCHANGED <<mcExe, mcLog>>

McpCallback == RestartDue \/ (mcExe.termed /\ SidecarExits)
McpNext ==
  RestartDue \/ SidecarExits \/ RegenerateBearerToken \/ McpStop \/ Serves \/ McpTick

McpSpec == McpInit /\ [][McpNext]_mcpVars
McpFairSpec == McpSpec /\ WF_mcpVars(McpCallback) /\ WF_mcpVars(McpTick)

-----------------------------------------------------------------------------
(* Properties                                                              *)

\* Whatever fails and whatever token is replaced meanwhile, a sidecar that is
\* installed is sooner or later there again, with the token of the server.
SidecarComesBack ==
  []<>(mc.installed /\ ~mc.down => mcExe.alive /\ mcExe.token = mc.token)

\* "Re-spawn on unexpected exit with exponential backoff." (McpServerManager.h:44):
\* of failures in a row, each waits longer than the one before.
BackoffGrows ==
  \A i \in 2..Len(mcLog.delays) :
    mcLog.delays[i] > mcLog.delays[i - 1] \/ mcLog.delays[i] = McpDelays[Len(McpDelays)]
=============================================================================
