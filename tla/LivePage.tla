------------------------------- MODULE LivePage -------------------------------
(***************************************************************************)
(* What the pages of runs have in common: their part of the query cache,   *)
(* and useWorkflowRealtime, the stream of notices that makes them read     *)
(* again.  The actions take the keys in view, and those with the tag of    *)
(* runs; a page adds its own variables.                                    *)
(***************************************************************************)
EXTENDS PageCache, Naturals, Sequences

CONSTANT QueueSize   \* of the queue that the server keeps for a stream

ASSUME QueueAssumption == QueueSize \in Nat \ {0}

VARIABLES
  stream,    \* "connecting"; "open", but nobody listens for it; "listening"; "retry"
  notices,   \* notices on their way to the page
  due        \* the debounced refresh is scheduled

streamVars == <<stream, notices, due>>
liveVars == <<cacheVars, streamVars>>

-----------------------------------------------------------------------------
(* useWorkflowRealtime *)

(* The notice of a change leaves if the page's stream is listened for, and *)
(* is dropped when the stream's queue is full: then the page may not learn *)
(* of the change in time for the entries in unheard.  A change while the   *)
(* stream is open and nobody listens is missed by every entry.             *)
Notice(n, unheard) ==
  /\ notices' = IF stream = "listening" /\ Len(notices) < QueueSize
                  THEN Append(notices, n) ELSE notices
  /\ missed' = CASE stream = "open" -> missed \cup DOMAIN cache
                 [] stream = "listening" /\ Len(notices) >= QueueSize -> missed \cup unheard
                 [] OTHER -> missed
  /\ UNCHANGED <<cache, stream, due>>

\* onOpen, when the headers of the response arrive
OpenStream(view, tagged) ==
  /\ stream = "connecting" /\ stream' = "open"
  /\ Invalidate(view, tagged)
  /\ UNCHANGED <<notices, due>>

\* the server has sent LISTEN, for the first time or over a new connection
Listen ==
  /\ stream = "open" /\ stream' = "listening"
  /\ UNCHANGED <<cache, notices, due, missed>>

(* The listener's connection to the database, which all streams share, is  *)
(* lost, and replaced after some time (Listen).  The stream stays open:    *)
(* the page is not told, and reads nothing again.                          *)
LoseConnection ==
  /\ stream = "listening" /\ stream' = "open"
  /\ UNCHANGED <<cache, notices, due, missed>>

DropStream ==
  /\ stream \in {"connecting", "open", "listening"}
  /\ stream' = "retry" /\ notices' = <<>>
  /\ UNCHANGED <<cache, due, missed>>

\* three or five seconds later
Retry ==
  /\ stream = "retry" /\ stream' = "connecting"
  /\ UNCHANGED <<cache, notices, due, missed>>

(* onData: the notice schedules a refresh, or is ignored: then the entries *)
(* in outdated may show a run as it was before.                            *)
Notified(concerns, outdated) ==
  /\ notices # <<>> /\ notices' = Tail(notices)
  /\ IF concerns THEN due' = TRUE /\ UNCHANGED missed
                 ELSE missed' = missed \cup outdated /\ UNCHANGED due
  /\ UNCHANGED <<cache, stream>>

\* debounceSync: one second after the last notice, two after the first
Flush(view, tagged) ==
  /\ due /\ due' = FALSE
  /\ Invalidate(view, tagged)
  /\ UNCHANGED <<stream, notices>>

\* nothing is on its way to the page
Quiet(view) == stream \in {"open", "listening"} /\ notices = <<>> /\ ~due /\ Idle(view)
===============================================================================
