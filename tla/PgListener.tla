------------------------------ MODULE PgListener ------------------------------
(***************************************************************************)
(* The bridge from PostgreSQL NOTIFY to the Server-Sent Event streams.     *)
(*                                                                         *)
(* One connection per process listens for all streams.  An asyncio lock    *)
(* guards its replacement and its LISTEN and UNLISTEN commands, and the    *)
(* coroutines interleave wherever they await: here, between actions.  The  *)
(* health check uses the connection without the lock, and while its query  *)
(* runs asyncpg refuses any other on that connection.                      *)
(***************************************************************************)
EXTENDS Naturals, Sequences, FiniteSets

CONSTANTS
  Streams,     \* calls of listen(), each with a queue of its own
  Channels,    \* NOTIFY channels
  Wants,       \* Wants[s]: the channels stream s subscribes to
  Notices,     \* the payloads
  ChannelOf,   \* ChannelOf[n]: the channel payload n is sent on
  Nobody, Health, \* holders of the lock that are not streams
  MaxQueue,    \* the queues' maxsize
  MaxNotes,    \* bound: notifications sent
  MaxDrops,    \* bound: losses of the connection or of the database
  MaxChecks,   \* bound: health checks
  MaxCancels   \* bound: streams cancelled while they set up or clean up

ASSUME StreamsAssumption == {Nobody, Health} \cap Streams = {} /\ Nobody # Health
ASSUME WantsAssumption == Wants \in [Streams -> SUBSET Channels]
ASSUME NoticesAssumption == ChannelOf \in [Notices -> Channels]
ASSUME QueueAssumption == MaxQueue \in Nat \ {0}   \* 0 would mean a queue without limit

VARIABLES
  up,        \* the connection is alive
  heard,     \* channels whose notifications asyncpg passes to the callback
  listening, \* _listening_channels
  subs,      \* subs[c]: _subscribers
  lock,      \* the holder of _lock
  stream,    \* stream[s]: where the generator of s stands
  todo,      \* todo[s]: channels its loop still has to visit
  queue,     \* queue[s]: its asyncio.Queue
  checking,  \* a health check's query runs on the connection
  notes, drops, checks, cancels

listenVars == <<up, heard, listening, subs>>
streamVars == <<lock, stream, todo>>
countVars  == <<notes, drops, checks, cancels>>
pgVars     == <<listenVars, streamVars, queue, checking, countVars>>

StreamStates == {"idle", "waiting", "probing", "subscribing", "open", "beating",
                 "leaving", "cleaning", "ended"}

PgInit ==
  /\ up = TRUE /\ heard = {} /\ listening = {}
  /\ subs = [c \in Channels |-> {}]
  /\ lock = Nobody
  /\ stream = [s \in Streams |-> "idle"]
  /\ todo = [s \in Streams |-> {}]
  /\ queue = [s \in Streams |-> <<>>]
  /\ checking = FALSE
  /\ notes = 0 /\ drops = 0 /\ checks = 0 /\ cancels = 0

-----------------------------------------------------------------------------
(* The database and its connection                                         *)

\* mutant: put_nowait on an unbounded queue
EnqueueAlways(q, n) == Append(q, n)

\* put_nowait: a full queue drops the notification
Enqueue(q, n) == IF Len(q) < MaxQueue THEN Append(q, n) ELSE q

Publish(n) ==
  /\ notes < MaxNotes /\ notes' = notes + 1
  /\ queue' = [s \in Streams |->
                IF ChannelOf[n] \in heard /\ s \in subs[ChannelOf[n]]
                  THEN Enqueue(queue[s], n) ELSE queue[s]]
  /\ UNCHANGED <<listenVars, streamVars, checking, drops, checks, cancels>>

LoseConnection ==
  /\ up /\ drops < MaxDrops
  /\ drops' = drops + 1
  /\ up' = FALSE /\ heard' = {} /\ checking' = FALSE
  /\ UNCHANGED <<listening, subs, streamVars, queue, notes, checks, cancels>>

-----------------------------------------------------------------------------
(* The lock: a stream takes it to subscribe, to leave, and, after fifteen  *)
(* silent seconds, to test the connection; the health check takes it when  *)
(* it finds the connection closed.                                         *)

TakeLock(s) ==
  /\ lock = Nobody /\ lock' = s
  /\ \/ /\ stream[s] = "waiting"
        /\ stream' = [stream EXCEPT ![s] = "probing"]
        /\ UNCHANGED todo
     \/ /\ stream[s] = "leaving"
        /\ stream' = [stream EXCEPT ![s] = "cleaning"]
        /\ todo' = [todo EXCEPT ![s] = Wants[s]]
  /\ UNCHANGED <<listenVars, queue, checking, countVars>>

Heartbeat(s) ==
  /\ stream[s] = "open" /\ queue[s] = <<>>
  /\ lock = Nobody /\ lock' = s
  /\ stream' = [stream EXCEPT ![s] = "beating"]
  /\ UNCHANGED <<listenVars, todo, queue, checking, countVars>>

StartCheck ==
  /\ checks < MaxChecks /\ checks' = checks + 1
  /\ ~checking
  /\ IF up THEN checking' = TRUE /\ UNCHANGED lock
           ELSE lock = Nobody /\ lock' = Health /\ UNCHANGED checking
  /\ UNCHANGED <<listenVars, stream, todo, queue, notes, drops, cancels>>

EndCheck ==
  /\ checking /\ checking' = FALSE
  /\ UNCHANGED <<listenVars, streamVars, queue, countVars>>

(* What the holder does after _ensure_live_connection_unlocked.            *)
AfterProbe(h, ok) ==
  \/ /\ h = Health
     /\ lock' = Nobody /\ UNCHANGED <<stream, todo>>
  \/ /\ h \in Streams /\ stream[h] = "beating"
     /\ stream' = [stream EXCEPT ![h] = "open"]
     /\ lock' = Nobody /\ UNCHANGED todo
  \/ /\ h \in Streams /\ stream[h] = "probing" /\ ok
     /\ stream' = [stream EXCEPT ![h] = "subscribing"]
     /\ todo' = [todo EXCEPT ![h] = Wants[h]]
     /\ UNCHANGED lock
  \/ /\ h \in Streams /\ stream[h] = "probing" /\ ~ok
     /\ stream' = [stream EXCEPT ![h] = "ended"]
     /\ lock' = Nobody /\ UNCHANGED todo

\* mutant: a reconnection leaves the cached channels as they were
RelistenedStale == listening

\* the channels a new connection listens on
Relistened == {c \in Channels : subs[c] # {}}

(* SELECT 1 succeeds, or the connection is replaced and every channel with *)
(* a subscriber is listened on again, or ten attempts were not enough.     *)
Probe(h) ==
  /\ lock = h
  /\ \/ /\ up /\ ~checking
        /\ AfterProbe(h, TRUE)
        /\ UNCHANGED <<listenVars, checking, drops>>
     \/ /\ ~up \/ checking
        /\ up' = TRUE /\ checking' = FALSE
        /\ heard' = {c \in Channels : subs[c] # {}} /\ listening' = Relistened
        /\ AfterProbe(h, TRUE)
        /\ UNCHANGED <<subs, drops>>
     \/ /\ ~up /\ drops < MaxDrops /\ drops' = drops + 1
        /\ listening' = {}
        /\ AfterProbe(h, FALSE)
        /\ UNCHANGED <<up, heard, subs, checking>>
  /\ UNCHANGED <<queue, notes, checks, cancels>>

-----------------------------------------------------------------------------
(* listen(): subscribing, streaming, leaving                               *)

RequestStream(s) ==
  /\ stream[s] = "idle"
  /\ stream' = [stream EXCEPT ![s] = "waiting"]
  /\ UNCHANGED <<listenVars, lock, todo, queue, checking, countVars>>

\* the loop over the channels goes on, or ends in state end and frees the lock
Visited(s, c, end) ==
  /\ todo' = [todo EXCEPT ![s] = @ \ {c}]
  /\ IF todo[s] = {c} THEN stream' = [stream EXCEPT ![s] = end] /\ lock' = Nobody
                      ELSE UNCHANGED <<stream, lock>>

\* mutant: the lock is acquired and released by hand, without a finally
AbortHolding(s) ==
  /\ stream' = [stream EXCEPT ![s] = "ended"]
  /\ todo' = [todo EXCEPT ![s] = {}]
  /\ UNCHANGED lock

\* the generator is over before or within its last step
Abort(s) ==
  /\ stream' = [stream EXCEPT ![s] = "ended"]
  /\ todo' = [todo EXCEPT ![s] = {}]
  /\ lock' = IF lock = s THEN Nobody ELSE lock

(* The queue is subscribed first; LISTEN is sent when the process does not *)
(* listen on that channel yet.  A connection that is known to be closed is *)
(* skipped; one that fails, or is busy, ends the stream, and the queue     *)
(* stays among the subscribers.                                            *)
Subscribe(s) ==
  /\ stream[s] = "subscribing"
  /\ \E c \in todo[s] :
       /\ subs' = [subs EXCEPT ![c] = @ \cup {s}]
       /\ \/ /\ c \in listening \/ ~up
             /\ Visited(s, c, "open")
             /\ UNCHANGED <<heard, listening>>
          \/ /\ c \notin listening /\ up /\ ~checking
             /\ heard' = heard \cup {c} /\ listening' = listening \cup {c}
             /\ Visited(s, c, "open")
          \/ /\ c \notin listening /\ (~up \/ checking)
             /\ Abort(s)
             /\ UNCHANGED <<heard, listening>>
  /\ UNCHANGED <<up, queue, checking, countVars>>

\* one queued notification goes out on the stream
Take(s) ==
  /\ stream[s] = "open" /\ queue[s] # <<>>
  /\ queue' = [queue EXCEPT ![s] = Tail(@)]
  /\ UNCHANGED <<listenVars, streamVars, checking, countVars>>

\* the client is gone, and the generator gets to its finally
Leave(s) ==
  /\ stream[s] = "open"
  /\ stream' = [stream EXCEPT ![s] = "leaving"]
  /\ UNCHANGED <<listenVars, lock, todo, queue, checking, countVars>>

\* mutant: whoever leaves stops the channel
LastOneAlways(s, c) == TRUE

\* does the departure of s leave channel c without a subscriber?
LastOne(s, c) == subs[c] \subseteq {s}

(* The last subscriber of a channel stops listening on it.  asyncpg drops  *)
(* the callback before it sends UNLISTEN, so when UNLISTEN is refused the  *)
(* channel is not heard any more, and still among the listening ones.      *)
Clean(s) ==
  /\ stream[s] = "cleaning"
  /\ \E c \in todo[s] :
       /\ subs' = [subs EXCEPT ![c] = @ \ {s}]
       /\ IF LastOne(s, c) /\ c \in listening
            THEN /\ heard' = heard \ {c}
                 /\ listening' = IF up /\ checking THEN listening ELSE listening \ {c}
            ELSE UNCHANGED <<heard, listening>>
       /\ Visited(s, c, "ended")
  /\ UNCHANGED <<up, queue, checking, countVars>>

(* The server cancels the stream of a client that went away wherever it    *)
(* awaits.  Before the try nothing is undone; inside the finally the rest  *)
(* of the clean-up is skipped.                                             *)
Cancel(s) ==
  /\ cancels < MaxCancels /\ cancels' = cancels + 1
  /\ \/ /\ stream[s] \in {"waiting", "probing", "leaving"}
        /\ Abort(s)
        /\ UNCHANGED <<heard, listening, subs>>
     \/ /\ stream[s] = "beating"
        /\ stream' = [stream EXCEPT ![s] = "leaving"]
        /\ lock' = Nobody
        /\ UNCHANGED <<todo, heard, listening, subs>>
     \/ /\ stream[s] = "subscribing"
        /\ \E c \in todo[s] \ listening : subs' = [subs EXCEPT ![c] = @ \cup {s}]
        /\ Abort(s)
        /\ UNCHANGED <<heard, listening>>
     \/ /\ stream[s] = "cleaning" /\ up
        /\ \E c \in todo[s] \cap listening :
             /\ LastOne(s, c)
             /\ subs' = [subs EXCEPT ![c] = @ \ {s}]
             /\ heard' = heard \ {c}
        /\ Abort(s)
        /\ UNCHANGED listening
  /\ UNCHANGED <<up, queue, checking, notes, drops, checks>>

-----------------------------------------------------------------------------
StreamStep(s) == \/ TakeLock(s) \/ Heartbeat(s) \/ Subscribe(s) \/ Clean(s)
                 \/ Cancel(s)

Background == \/ LoseConnection \/ StartCheck \/ EndCheck
              \/ \E h \in Streams \cup {Health} : Probe(h)
              \/ \E s \in Streams : StreamStep(s)

PgNext == \/ Background
          \/ \E n \in Notices : Publish(n)
          \/ \E s \in Streams : RequestStream(s) \/ Take(s) \/ Leave(s)

PgSpec == PgInit /\ [][PgNext]_pgVars

(***************************************************************************)
(* Fairness: the event loop resumes every coroutine whose await is over,   *)
(* and asyncio.Lock wakes its waiters in turn.  Nothing makes a client     *)
(* connect or leave, or the database fail.                                 *)
(***************************************************************************)
PgFairness ==
  /\ WF_pgVars(EndCheck)
  /\ \A h \in Streams \cup {Health} : WF_pgVars(Probe(h))
  /\ \A s \in Streams : /\ SF_pgVars(TakeLock(s))
                        /\ WF_pgVars(Subscribe(s)) /\ WF_pgVars(Clean(s))

FairPgSpec == PgSpec /\ PgFairness

-----------------------------------------------------------------------------
(* Properties *)

(* Every variable holds a value of its kind; no queue outgrows its size.   *)
PgTypeOK ==
  /\ up \in BOOLEAN /\ checking \in BOOLEAN
  /\ heard \subseteq Channels /\ listening \subseteq Channels
  /\ subs \in [Channels -> SUBSET Streams]
  /\ lock \in Streams \cup {Nobody, Health}
  /\ stream \in [Streams -> StreamStates]
  /\ todo \in [Streams -> SUBSET Channels]
  /\ queue \in [Streams -> Seq(Notices)]
  /\ \A s \in Streams : Len(queue[s]) <= MaxQueue
  /\ notes \in Nat /\ drops \in Nat /\ checks \in Nat /\ cancels \in Nat

(* A stream that is open is heard: while the connection is alive and       *)
(* nobody is changing it, each of its channels is listened on and its      *)
(* queue is among the subscribers.  Other streams that leave, fail or      *)
(* reconnect must not take the channel away from it.                       *)
StreamsHeard ==
  up /\ lock = Nobody =>
    \A s \in Streams : stream[s] = "open" =>
      \A c \in Wants[s] : c \in heard /\ s \in subs[c]

\* no health check has used the connection, no stream was cancelled half-way
Calm == checks = 0 /\ cancels = 0

(* So it is for whatever streams come and leave, and however the           *)
(* connection is lost and replaced, as long as the health check leaves the *)
(* connection alone and no stream is cancelled within its clean-up.        *)
HeardWhileCalm == Calm => StreamsHeard

(* The cached set of channels tells what the connection listens on, so a   *)
(* new stream sends LISTEN exactly when it is needed.                      *)
ListeningIsTrue == Calm /\ up /\ lock = Nobody => listening = heard

(* Nobody keeps the lock for ever, and whoever asks for it gets it.        *)
LockMovesOn ==
  /\ lock # Nobody ~> lock = Nobody
  /\ \A s \in Streams : stream[s] \in {"waiting", "leaving"} ~>
                          stream[s] \notin {"waiting", "leaving"}

=============================================================================
