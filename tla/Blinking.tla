------------------------------ MODULE Blinking -----------------------------
(***************************************************************************)
(* The argument of "impulse", read by OutputLight and OutputLightDimmer:   *)
(* one duration, or a blinking pattern of durations, "loop" and "old".     *)
(* OldAsNext is a fault, used by no action.                                *)
(***************************************************************************)
EXTENDS Integers, Sequences, SequencesExt

LoopToken == -1
OldToken == -2
PatternToken == Nat \cup {LoopToken, OldToken}

IsClassic(tokens) == Len(tokens) = 1 /\ tokens[1] \in Nat

\* What a pattern that ends with "old", and ends, must restore
Restores(tokens) ==
  /\ \A i \in DOMAIN tokens : tokens[i] # LoopToken
  /\ tokens[Len(tokens)] = OldToken

\* current_blink and next count from 1
BlinkInfo == [state : BOOLEAN, duration : Nat, next : Nat]

Blink(state, duration, steps) ==
  [state |-> state, duration |-> duration, next |-> Len(steps) + 2]

OldAsNext(value, read, token) ==
  IF token = LoopToken THEN read
  ELSE [read EXCEPT !.steps = Append(@, Blink(read.state, IF token = OldToken THEN 0 ELSE token, @)),
                    !.state = ~@]
ReadToken(value, read, token) ==
  CASE token = OldToken ->
         [read EXCEPT !.steps = Append(@, Blink(value, 0, @))]
    [] token = LoopToken ->
         IF read.loop = 0 THEN [read EXCEPT !.loop = Len(read.steps) + 1] ELSE read
    [] OTHER ->
         [read EXCEPT !.steps = Append(@, Blink(read.state, token, @)), !.state = ~@]

\* The last step goes back to the first one after "loop", if there is any
ParsePattern(tokens, value) ==
  LET read == FoldLeft(LAMBDA r, token : ReadToken(value, r, token),
                       [steps |-> <<>>, state |-> TRUE, loop |-> 0], tokens)
  IN IF read.loop \in DOMAIN read.steps
     THEN [read.steps EXCEPT ![Len(read.steps)].next = read.loop]
     ELSE read.steps
=============================================================================
