------------------------------- MODULE CliLogin -------------------------------
(***************************************************************************)
(* What "flowo login" promises, without tabs, requests and locks: a        *)
(* session is approved once, one API token is made for it at most, and the *)
(* CLI is given it once, or nobody is.                                     *)
(***************************************************************************)
EXTENDS Naturals

VARIABLES
  session,  \* "none", "waiting", "ready" or "over"
  tokens,   \* API tokens made
  has       \* the CLI has written the token to its configuration

cliLoginVars == <<session, tokens, has>>

CliLoginInit == session = "none" /\ tokens = 0 /\ has = FALSE

Start == session = "none" /\ session' = "waiting" /\ UNCHANGED <<tokens, has>>

Approve ==
  /\ session = "waiting" /\ session' = "ready"
  /\ tokens = 0 /\ tokens' = 1 /\ UNCHANGED has

(* The token is handed out, or the session expires, or the server dies,    *)
(* which may have made the token just before.                              *)
End ==
  /\ session \in {"waiting", "ready"} /\ session' = "over"
  /\ tokens' \in {tokens, 1} /\ UNCHANGED has

\* an approval that outlived its session: nobody will have the token
Orphan == session = "over" /\ ~has /\ tokens = 0 /\ tokens' = 1 /\ UNCHANGED <<session, has>>

Obtain == session = "over" /\ tokens = 1 /\ ~has /\ has' = TRUE /\ UNCHANGED <<session, tokens>>

CliLoginNext == Start \/ Approve \/ End \/ Orphan \/ Obtain

CliLoginSpec == CliLoginInit /\ [][CliLoginNext]_cliLoginVars
===============================================================================
