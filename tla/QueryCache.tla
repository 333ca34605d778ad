------------------------------ MODULE QueryCache ------------------------------
(***************************************************************************)
(* The query cache of the web pages (React Query, as frontend/src/main.tsx *)
(* configures it): operators on one entry.                                 *)
(*                                                                         *)
(* An entry is fresh for thirty seconds after its answer, and shown while  *)
(* it is asked again.  The generated query functions take React Query's    *)
(* signal, so an entry that nobody looks at any more is not asked on.      *)
(***************************************************************************)
CONSTANT Missing   \* no data yet

Stages == {"idle", "sent", "read"}

\* [data, fresh, stage, copy]: copy is what the server read for the answer
NoEntry == [data |-> Missing, fresh |-> FALSE, stage |-> "idle", copy |-> Missing]

Asked(e) == [e EXCEPT !.fresh = FALSE, !.stage = "sent", !.copy = Missing]

\* a component that shows the entry is mounted, or turns to it
Observed(e) == IF e.fresh \/ e.stage # "idle" THEN e ELSE Asked(e)

\* the last component that showed the entry is gone: its request is given up
Left(e) == [e EXCEPT !.stage = "idle", !.copy = Missing]

\* the server reads v for the answer
ReadAs(e, v) == [e EXCEPT !.stage = "read", !.copy = v]

Answered(e) == [data |-> e.copy, fresh |-> TRUE, stage |-> "idle", copy |-> Missing]

(* invalidateQueries: an entry that is shown is asked again, in place of a *)
(* request in flight; but its very first request is left to finish, and    *)
(* its answer counts as fresh.                                             *)
Invalidated(e, shown) ==
  CASE ~shown -> [e EXCEPT !.fresh = FALSE]
    [] shown /\ e.data = Missing /\ e.stage # "idle" -> e
    [] OTHER -> Asked(e)

\* invalidateQueries finds this entry in the midst of its first request, whose
\* answer is already on its way
Overtaken(e) == e.data = Missing /\ e.stage = "read"

\* the thirty seconds are over
Expired(e) == [e EXCEPT !.fresh = FALSE]
===============================================================================
