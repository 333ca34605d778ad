------------------------------ MODULE MCRunsPage ------------------------------
(* Three runs, two with an "a" in their name; aBlank is "a" with a blank.   *)
EXTENDS RunsPage

CONSTANTS a, aBlank, red

MCFound == [t \in Texts |-> CASE t = NoText -> Runs [] t = a -> Runs \ {2} [] OTHER -> {}]
MCStartDb == [w \in Runs |-> CASE w = 1 -> "SUCCESS" [] w = 2 -> "RUNNING" [] OTHER -> "absent"]
MCTagOf == [w \in Runs |-> red]
MCTrim == [t \in Texts |-> IF t = aBlank THEN a ELSE t]
===============================================================================
