----------------------------- MODULE MCPgListener -----------------------------
(* Two streams of one user: each wants the global channel and its user's.   *)
EXTENDS PgListener, TLC

CONSTANTS s1, s2, global, mine

MCWants == s1 :> {global, mine} @@ s2 :> {global, mine}

\* a payload is named after its channel
MCChannelOf == [n \in Notices |-> n]
=============================================================================
