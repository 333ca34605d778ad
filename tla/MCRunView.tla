------------------------------- MODULE MCRunView -------------------------------
(* Three jobs, two of them of the rule align; the last has not started.     *)
EXTENDS RunView

CONSTANTS align, sort

MCRuleOf == [j \in Jobs |-> IF j = 2 THEN sort ELSE align]
MCStartJobs == [j \in Jobs |-> CASE j = 1 -> "SUCCESS" [] j = 2 -> "RUNNING" [] OTHER -> "none"]
===============================================================================
