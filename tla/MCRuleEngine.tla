--------------------------- MODULE MCRuleEngine ---------------------------
(***************************************************************************)
(* A house of three IOs.  A presence sensor (a) triggers rule 1, which     *)
(* writes both others; b triggers rule 2 and a callback of the hub, which  *)
(* both write c; c triggers the scripted rule 3, which writes b.  Rule 4   *)
(* is a start rule that a can also trigger.  Rule 5 is added later.        *)
(***************************************************************************)
EXTENDS RuleEngine

CONSTANTS a, b, c

Watch == [r \in RuleIds |-> CASE r \in {1, 4} -> {a} [] r = 2 -> {b}
                             [] r \in {3, 5} -> {c}]
Need == [r \in RuleIds |-> CASE r \in {1, 3} -> {<<a, TRUE>>}
                             [] r = 2 -> {<<c, FALSE>>}
                             [] r = 4 -> {<<b, FALSE>>}
                             [] r = 5 -> {}]
Act == [r \in RuleIds |-> CASE r = 1 -> << <<b, TRUE>>, <<c, FALSE>> >>
                            [] r = 2 -> << <<c, TRUE>> >>
                            [] r = 3 -> << <<b, FALSE>> >>
                            [] r = 4 -> << <<b, TRUE>>, <<c, TRUE>> >>
                            [] r = 5 -> <<>>]
Hub == [io \in IOs |-> IF io = b THEN << <<c, FALSE>> >> ELSE <<>>]
=============================================================================
