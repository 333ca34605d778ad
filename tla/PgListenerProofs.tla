---------------------------- MODULE PgListenerProofs ---------------------------
(* Theorems about PgListener, for any streams, channels, queues and faults. *)
EXTENDS PgListener, TLAPS

USE WantsAssumption, NoticesAssumption, QueueAssumption

-----------------------------------------------------------------------------
(* Types *)

ConnectionTypes ==
  /\ up \in BOOLEAN /\ checking \in BOOLEAN
  /\ heard \subseteq Channels /\ listening \subseteq Channels
  /\ subs \in [Channels -> SUBSET Streams]

CoroutineTypes ==
  /\ lock \in Streams \cup {Nobody, Health}
  /\ stream \in [Streams -> StreamStates]
  /\ todo \in [Streams -> SUBSET Channels]

QueueTypes ==
  /\ queue \in [Streams -> Seq(Notices)]
  /\ \A s \in Streams : Len(queue[s]) <= MaxQueue

CountTypes == notes \in Nat /\ drops \in Nat /\ checks \in Nat /\ cancels \in Nat

LEMMA TypeParts == PgTypeOK <=> ConnectionTypes /\ CoroutineTypes /\ QueueTypes /\ CountTypes
BY DEF PgTypeOK, ConnectionTypes, CoroutineTypes, QueueTypes, CountTypes

LEMMA EnqueueTypes ==
  ASSUME NEW q \in Seq(Notices), Len(q) <= MaxQueue, NEW n \in Notices
  PROVE  Enqueue(q, n) \in Seq(Notices) /\ Len(Enqueue(q, n)) <= MaxQueue
<1>1. CASE Len(q) < MaxQueue
  <2>1. Append(q, n) \in Seq(Notices) /\ Len(Append(q, n)) = Len(q) + 1
    OBVIOUS
  <2> QED
    BY <1>1, <2>1 DEF Enqueue
<1>2. CASE ~(Len(q) < MaxQueue)
  BY <1>2 DEF Enqueue
<1> QED
  BY <1>1, <1>2

LEMMA QueueKept ==
  ASSUME PgTypeOK, [PgNext]_pgVars
  PROVE  QueueTypes'
<1> USE TypeParts
<1>1. ASSUME NEW n \in Notices, Publish(n)
      PROVE  QueueTypes'
  <2>1. \A s \in Streams : queue'[s] \in {queue[s], Enqueue(queue[s], n)}
    BY <1>1 DEF Publish
  <2>2. \A s \in Streams : queue'[s] \in Seq(Notices) /\ Len(queue'[s]) <= MaxQueue
    BY <2>1, EnqueueTypes DEF QueueTypes
  <2>3. queue' = [s \in Streams |-> queue'[s]]
    BY <1>1 DEF Publish
  <2> QED
    BY <2>2, <2>3 DEF QueueTypes
<1>2. ASSUME NEW s \in Streams, Take(s)
      PROVE  QueueTypes'
  <2>1. queue[s] # <<>> /\ queue' = [queue EXCEPT ![s] = Tail(queue[s])]
    BY <1>2 DEF Take
  <2>2. Tail(queue[s]) \in Seq(Notices) /\ Len(Tail(queue[s])) <= MaxQueue
    BY <2>1 DEF QueueTypes
  <2> QED
    BY <2>1, <2>2 DEF QueueTypes
<1>3. CASE UNCHANGED queue
  BY <1>3 DEF QueueTypes
<1>4. ASSUME NEW h, Probe(h)
      PROVE  UNCHANGED queue
  BY <1>4 DEF Probe
<1>5. ASSUME NEW s,
             TakeLock(s) \/ Heartbeat(s) \/ Subscribe(s) \/ Clean(s) \/ Cancel(s)
               \/ RequestStream(s) \/ Leave(s)
      PROVE  UNCHANGED queue
  BY <1>5 DEF TakeLock, Heartbeat, Subscribe, Clean, Cancel, RequestStream, Leave
<1>6. LoseConnection \/ StartCheck \/ EndCheck \/ UNCHANGED pgVars => UNCHANGED queue
  BY DEF LoseConnection, StartCheck, EndCheck, pgVars
<1> QED
  BY <1>1, <1>2, <1>3, <1>4, <1>5, <1>6 DEF PgNext, Background, StreamStep

LEMMA CountKept ==
  ASSUME PgTypeOK, [PgNext]_pgVars
  PROVE  CountTypes'
<1> CountTypes
  BY TypeParts
<1> USE DEF CountTypes
<1>1. ASSUME NEW h, Probe(h)
      PROVE  CountTypes'
  <2>1. UNCHANGED <<notes, checks, cancels>> /\ drops' \in {drops, drops + 1}
    BY <1>1 DEF Probe
  <2> QED
    BY <2>1
<1>2. ASSUME NEW n, Publish(n)
      PROVE  CountTypes'
  BY <1>2 DEF Publish
<1>3. ASSUME NEW s, Cancel(s)
      PROVE  CountTypes'
  BY <1>3 DEF Cancel
<1>4. CASE LoseConnection \/ StartCheck
  BY <1>4 DEF LoseConnection, StartCheck
<1>5. ASSUME NEW s,
             TakeLock(s) \/ Heartbeat(s) \/ Subscribe(s) \/ Clean(s)
               \/ RequestStream(s) \/ Take(s) \/ Leave(s)
      PROVE  UNCHANGED countVars
  BY <1>5 DEF TakeLock, Heartbeat, Subscribe, Clean, RequestStream, Take, Leave
<1>6. EndCheck \/ UNCHANGED pgVars => UNCHANGED countVars
  BY DEF EndCheck, pgVars
<1>7. CASE UNCHANGED countVars
  BY <1>7 DEF countVars
<1> QED
  BY <1>1, <1>2, <1>3, <1>4, <1>5, <1>6, <1>7 DEF PgNext, Background, StreamStep

LEMMA ConnectionKept ==
  ASSUME PgTypeOK, [PgNext]_pgVars
  PROVE  ConnectionTypes'
<1> USE TypeParts
<1>1. ASSUME NEW h, Probe(h)
      PROVE  ConnectionTypes'
  <2>1. UNCHANGED subs /\ up' \in {up, TRUE} /\ checking' \in {checking, FALSE}
    BY <1>1 DEF Probe, listenVars
  <2>2. heard' \in {heard, Relistened} /\ listening' \in {listening, Relistened, {}}
    BY <1>1 DEF Probe, listenVars, Relistened
  <2>3. Relistened \subseteq Channels
    BY DEF Relistened
  <2> QED
    BY <2>1, <2>2, <2>3 DEF ConnectionTypes
<1>2. ASSUME NEW s \in Streams, Subscribe(s)
      PROVE  ConnectionTypes'
  <2>1. PICK c \in todo[s] : /\ subs' = [subs EXCEPT ![c] = @ \cup {s}]
                             /\ heard' \subseteq heard \cup {c}
                             /\ listening' \subseteq listening \cup {c}
    BY <1>2 DEF Subscribe
  <2>2. c \in Channels
    BY <2>1 DEF CoroutineTypes
  <2>3. UNCHANGED <<up, checking>>
    BY <1>2 DEF Subscribe
  <2> QED
    BY <2>1, <2>2, <2>3 DEF ConnectionTypes
<1>3. ASSUME NEW s \in Streams, Clean(s)
      PROVE  ConnectionTypes'
  <2>1. PICK c \in todo[s] : /\ subs' = [subs EXCEPT ![c] = @ \ {s}]
                             /\ heard' \subseteq heard /\ listening' \subseteq listening
    BY <1>3 DEF Clean
  <2>2. UNCHANGED <<up, checking>>
    BY <1>3 DEF Clean
  <2> QED
    BY <2>1, <2>2 DEF ConnectionTypes
<1>4. ASSUME NEW s \in Streams, Cancel(s)
      PROVE  ConnectionTypes'
  <2>1. UNCHANGED <<up, checking, listening>> /\ heard' \subseteq heard
    BY <1>4 DEF Cancel
  <2>2. \/ UNCHANGED subs
        \/ \E c : subs' = [subs EXCEPT ![c] = @ \cup {s}]
        \/ \E c : subs' = [subs EXCEPT ![c] = @ \ {s}]
    BY <1>4 DEF Cancel
  <2>3. subs' \in [Channels -> SUBSET Streams]
    BY <2>2 DEF ConnectionTypes
  <2> QED
    BY <2>1, <2>3 DEF ConnectionTypes
<1>5. CASE LoseConnection \/ StartCheck \/ EndCheck
  BY <1>5 DEF LoseConnection, StartCheck, EndCheck, listenVars, ConnectionTypes
<1>6. ASSUME NEW s,
             TakeLock(s) \/ Heartbeat(s) \/ RequestStream(s) \/ Take(s) \/ Leave(s)
      PROVE  UNCHANGED <<listenVars, checking>>
  BY <1>6 DEF TakeLock, Heartbeat, RequestStream, Take, Leave
<1>7. (\E n \in Notices : Publish(n)) \/ UNCHANGED pgVars => UNCHANGED <<listenVars, checking>>
  BY DEF Publish, pgVars
<1>8. CASE UNCHANGED <<listenVars, checking>>
  BY <1>8 DEF listenVars, ConnectionTypes
<1> QED
  BY <1>1, <1>2, <1>3, <1>4, <1>5, <1>6, <1>7, <1>8 DEF PgNext, Background, StreamStep

LEMMA CoroutineKept ==
  ASSUME PgTypeOK, [PgNext]_pgVars
  PROVE  CoroutineTypes'
<1> USE TypeParts
<1>1. ASSUME NEW h \in Streams \cup {Health}, Probe(h)
      PROVE  CoroutineTypes'
  <2>1. PICK ok \in BOOLEAN : AfterProbe(h, ok)
    BY <1>1 DEF Probe
  <2> QED
    BY <2>1 DEF AfterProbe, CoroutineTypes, StreamStates
<1>2. ASSUME NEW s \in Streams, NEW c, NEW end \in StreamStates, Visited(s, c, end)
      PROVE  CoroutineTypes'
  BY <1>2 DEF Visited, CoroutineTypes
<1>3. ASSUME NEW s \in Streams, Abort(s)
      PROVE  CoroutineTypes'
  BY <1>3 DEF Abort, CoroutineTypes, StreamStates
<1>4. ASSUME NEW s \in Streams, Subscribe(s)
      PROVE  CoroutineTypes'
  BY <1>2, <1>3, <1>4 DEF Subscribe, StreamStates
<1>5. ASSUME NEW s \in Streams, Clean(s)
      PROVE  CoroutineTypes'
  BY <1>2, <1>5 DEF Clean, StreamStates
<1>6. ASSUME NEW s \in Streams, Cancel(s)
      PROVE  CoroutineTypes'
  <2>1. Abort(s) \/ (stream' = [stream EXCEPT ![s] = "leaving"] /\ lock' = Nobody /\ UNCHANGED todo)
    BY <1>6 DEF Cancel
  <2> QED
    BY <1>3, <2>1 DEF CoroutineTypes, StreamStates
<1>7. ASSUME NEW s \in Streams, TakeLock(s) \/ Heartbeat(s)
      PROVE  CoroutineTypes'
  BY <1>7 DEF TakeLock, Heartbeat, CoroutineTypes, StreamStates
<1>8. ASSUME NEW s \in Streams, RequestStream(s) \/ Leave(s)
      PROVE  CoroutineTypes'
  BY <1>8 DEF RequestStream, Leave, CoroutineTypes, StreamStates
<1>9. CASE LoseConnection \/ StartCheck \/ EndCheck
  BY <1>9 DEF LoseConnection, StartCheck, EndCheck, streamVars, CoroutineTypes
<1>10. CASE UNCHANGED streamVars
  BY <1>10 DEF streamVars, CoroutineTypes
<1>11. (\E n \in Notices : Publish(n)) \/ (\E s \in Streams : Take(s)) \/ UNCHANGED pgVars
         => UNCHANGED streamVars
  BY DEF Publish, Take, pgVars
<1> QED
  BY <1>1, <1>4, <1>5, <1>6, <1>7, <1>8, <1>9, <1>10, <1>11 DEF PgNext, Background, StreamStep

LEMMA PgTypesInit == PgInit => PgTypeOK
<1> SUFFICES ASSUME PgInit
             PROVE  PgTypeOK
  OBVIOUS
<1>1. ConnectionTypes
  BY DEF PgInit, ConnectionTypes
<1>2. CoroutineTypes
  BY DEF PgInit, CoroutineTypes, StreamStates
<1>3. QueueTypes
  <2>1. queue = [s \in Streams |-> <<>>]
    BY DEF PgInit
  <2>2. <<>> \in Seq(Notices) /\ Len(<<>>) <= MaxQueue
    OBVIOUS
  <2> QED
    BY <2>1, <2>2 DEF QueueTypes
<1>4. CountTypes
  BY DEF PgInit, CountTypes
<1> QED
  BY <1>1, <1>2, <1>3, <1>4, TypeParts

LEMMA PgTypesStep == PgTypeOK /\ [PgNext]_pgVars => PgTypeOK'
<1> SUFFICES ASSUME PgTypeOK, [PgNext]_pgVars
             PROVE  ConnectionTypes' /\ CoroutineTypes' /\ QueueTypes' /\ CountTypes'
  BY DEF PgTypeOK, ConnectionTypes, CoroutineTypes, QueueTypes, CountTypes
<1>1. ConnectionTypes' /\ CoroutineTypes'
  BY ConnectionKept, CoroutineKept
<1>2. QueueTypes' /\ CountTypes'
  BY QueueKept, CountKept
<1> QED
  BY <1>1, <1>2

(* Whatever connects, leaves, fails and is cancelled, every variable holds *)
(* a value of its kind, and no stream's queue outgrows its size.           *)
THEOREM PgTypesCorrect == PgSpec => []PgTypeOK
BY PgTypesInit, PgTypesStep, PTL DEF PgSpec

-----------------------------------------------------------------------------
(* While it is calm *)

\* the process knows what the living connection listens on
CacheTrue == up => listening = heard

\* and that is every channel somebody has subscribed to
SubscribedHeard == up => \A c \in Channels : subs[c] # {} => c \in heard

\* a stream gives no subscription up before it cleans up
Enrolled ==
  \A s \in Streams :
    /\ stream[s] \in {"open", "beating"} => \A c \in Wants[s] : s \in subs[c]
    /\ stream[s] = "subscribing" => \A c \in Wants[s] \ todo[s] : s \in subs[c]

CalmInv == Calm => ~checking /\ CacheTrue /\ SubscribedHeard /\ Enrolled

LEMMA CalmInit == PgInit => CalmInv
BY DEF PgInit, CalmInv, Calm, CacheTrue, SubscribedHeard, Enrolled

\* nothing comes back to calm, and a calm step is no check and no cancellation
LEMMA CalmBefore ==
  ASSUME PgTypeOK, [PgNext]_pgVars, Calm'
  PROVE  Calm /\ ~StartCheck /\ \A s : ~Cancel(s)
<1>1. ~StartCheck
  BY DEF Calm, StartCheck, PgTypeOK
<1>2. \A s : ~Cancel(s)
  BY DEF Calm, Cancel, PgTypeOK
<1>3. ASSUME NEW h, Probe(h)
      PROVE  UNCHANGED <<checks, cancels>>
  BY <1>3 DEF Probe
<1>4. ASSUME NEW s,
             TakeLock(s) \/ Heartbeat(s) \/ Subscribe(s) \/ Clean(s)
               \/ RequestStream(s) \/ Take(s) \/ Leave(s)
      PROVE  UNCHANGED <<checks, cancels>>
  BY <1>4 DEF TakeLock, Heartbeat, Subscribe, Clean, RequestStream, Take, Leave, countVars
<1>5. LoseConnection \/ EndCheck \/ (\E n \in Notices : Publish(n)) \/ UNCHANGED pgVars
        => UNCHANGED <<checks, cancels>>
  BY DEF LoseConnection, EndCheck, Publish, pgVars, countVars
<1>6. UNCHANGED <<checks, cancels>>
  BY <1>1, <1>2, <1>3, <1>4, <1>5 DEF PgNext, Background, StreamStep
<1> QED
  BY <1>1, <1>2, <1>6 DEF Calm

LEMMA ProbeCalm ==
  ASSUME PgTypeOK, Calm, CalmInv, NEW h \in Streams \cup {Health}, Probe(h)
  PROVE  ~checking' /\ CacheTrue' /\ SubscribedHeard' /\ Enrolled'
<1>1. ~checking' /\ CacheTrue' /\ SubscribedHeard'
  <2>1. CASE UNCHANGED <<listenVars, checking>>
    BY <2>1 DEF CalmInv, CacheTrue, SubscribedHeard, listenVars
  <2>2. CASE /\ checking' = FALSE /\ UNCHANGED subs
             /\ heard' = Relistened /\ listening' = Relistened
    BY <2>2 DEF Relistened, CacheTrue, SubscribedHeard
  <2>3. CASE ~up /\ UNCHANGED <<up, subs, checking>>
    BY <2>3 DEF CalmInv, CacheTrue, SubscribedHeard
  <2> QED
    BY <2>1, <2>2, <2>3 DEF Probe, Relistened
<1>2. UNCHANGED subs
  BY DEF Probe, listenVars
<1>3. PICK ok \in BOOLEAN : AfterProbe(h, ok)
  BY DEF Probe
<1>4. Enrolled'
  <2>1. CASE UNCHANGED <<stream, todo>>
    BY <1>2, <2>1 DEF CalmInv, Enrolled
  <2>2. CASE h \in Streams /\ stream[h] = "beating" /\ stream' = [stream EXCEPT ![h] = "open"]
             /\ UNCHANGED todo
    BY <1>2, <2>2 DEF CalmInv, Enrolled, PgTypeOK
  <2>3. CASE h \in Streams /\ stream' = [stream EXCEPT ![h] = "subscribing"]
             /\ todo' = [todo EXCEPT ![h] = Wants[h]]
    BY <1>2, <2>3 DEF CalmInv, Enrolled, PgTypeOK
  <2>4. CASE h \in Streams /\ stream' = [stream EXCEPT ![h] = "ended"] /\ UNCHANGED todo
    BY <1>2, <2>4 DEF CalmInv, Enrolled, PgTypeOK
  <2> QED
    BY <1>3, <2>1, <2>2, <2>3, <2>4 DEF AfterProbe
<1> QED
  BY <1>1, <1>4

LEMMA SubscribeCalm ==
  ASSUME PgTypeOK, Calm, CalmInv, NEW s \in Streams, Subscribe(s)
  PROVE  ~checking' /\ CacheTrue' /\ SubscribedHeard' /\ Enrolled'
<1>1. stream[s] = "subscribing" /\ UNCHANGED <<up, checking>> /\ ~checking
  BY DEF Subscribe, CalmInv
<1>2. PICK c \in todo[s] :
        /\ subs' = [subs EXCEPT ![c] = @ \cup {s}]
        /\ \/ (c \in listening \/ ~up) /\ Visited(s, c, "open") /\ UNCHANGED <<heard, listening>>
           \/ /\ heard' = heard \cup {c} /\ listening' = listening \cup {c}
              /\ Visited(s, c, "open")
           \/ ~up /\ Abort(s) /\ UNCHANGED <<heard, listening>>
  BY <1>1 DEF Subscribe
<1>3. c \in Channels
  BY <1>2 DEF PgTypeOK
<1>4. /\ \A d \in Channels : subs[d] \subseteq subs'[d] /\ (d # c => subs'[d] = subs[d])
      /\ s \in subs'[c]
  BY <1>2, <1>3 DEF PgTypeOK
<1>5. CacheTrue'
  BY <1>1, <1>2 DEF CalmInv, CacheTrue
<1>6. SubscribedHeard'
  BY <1>1, <1>2, <1>4 DEF CalmInv, CacheTrue, SubscribedHeard
<1>7. Enrolled'
  <2> SUFFICES ASSUME NEW t \in Streams
               PROVE  /\ stream'[t] \in {"open", "beating"} => \A d \in Wants[t] : t \in subs'[d]
                      /\ stream'[t] = "subscribing" => \A d \in Wants[t] \ todo'[t] : t \in subs'[d]
    BY DEF Enrolled
  <2>1. Wants[t] \subseteq Channels
    OBVIOUS
  <2>2. CASE t # s
    <3>1. stream'[t] = stream[t] /\ todo'[t] = todo[t]
      BY <1>2, <2>2 DEF Visited, Abort, PgTypeOK
    <3> QED
      BY <1>4, <2>1, <3>1 DEF CalmInv, Enrolled
  <2>3. CASE t = s
    <3>1. CASE Abort(s)
      <4>1. stream'[s] = "ended"
        BY <3>1 DEF Abort, PgTypeOK
      <4> QED
        BY <2>3, <4>1
    <3>2. CASE Visited(s, c, "open")
      <4>1. todo'[s] = todo[s] \ {c} /\ (stream'[s] = "open" => todo[s] = {c})
        BY <1>1, <3>2 DEF Visited, PgTypeOK
      <4>2. stream'[s] \in {"open", "subscribing"}
        BY <1>1, <3>2 DEF Visited, PgTypeOK
      <4>3. \A d \in Wants[s] \ todo'[s] : s \in subs'[d]
        BY <1>1, <1>4, <2>1, <2>3, <4>1 DEF CalmInv, Enrolled
      <4>4. stream'[s] = "open" => todo'[s] = {}
        BY <4>1
      <4> QED
        BY <2>3, <4>2, <4>3, <4>4
    <3> QED
      BY <1>2, <3>1, <3>2
  <2> QED
    BY <2>2, <2>3
<1> QED
  BY <1>1, <1>5, <1>6, <1>7

LEMMA CleanCalm ==
  ASSUME PgTypeOK, Calm, CalmInv, NEW s \in Streams, Clean(s)
  PROVE  ~checking' /\ CacheTrue' /\ SubscribedHeard' /\ Enrolled'
<1>1. stream[s] = "cleaning" /\ UNCHANGED <<up, checking>> /\ ~checking
  BY DEF Clean, CalmInv
<1>2. PICK c \in todo[s] :
        /\ subs' = [subs EXCEPT ![c] = @ \ {s}]
        /\ \/ LastOne(s, c) /\ heard' = heard \ {c} /\ listening' = listening \ {c}
           \/ ~(LastOne(s, c) /\ c \in listening) /\ UNCHANGED <<heard, listening>>
        /\ Visited(s, c, "ended")
  BY <1>1 DEF Clean
<1>3. c \in Channels
  BY <1>2 DEF PgTypeOK
<1>4. /\ \A d \in Channels : d # c => subs'[d] = subs[d]
      /\ subs'[c] = subs[c] \ {s}
  BY <1>2, <1>3 DEF PgTypeOK
<1>5. CacheTrue'
  BY <1>1, <1>2 DEF CalmInv, CacheTrue
<1>6. SubscribedHeard'
  <2>1. LastOne(s, c) => subs'[c] = {}
    BY <1>4 DEF LastOne
  <2> QED
    BY <1>1, <1>2, <1>4, <2>1 DEF CalmInv, SubscribedHeard
<1>7. Enrolled'
  <2> SUFFICES ASSUME NEW t \in Streams
               PROVE  /\ stream'[t] \in {"open", "beating"} => \A d \in Wants[t] : t \in subs'[d]
                      /\ stream'[t] = "subscribing" => \A d \in Wants[t] \ todo'[t] : t \in subs'[d]
    BY DEF Enrolled
  <2>1. Wants[t] \subseteq Channels
    OBVIOUS
  <2>2. CASE t # s
    <3>1. stream'[t] = stream[t] /\ todo'[t] = todo[t]
      BY <1>2, <2>2 DEF Visited, PgTypeOK
    <3>2. \A d \in Channels : t \in subs[d] => t \in subs'[d]
      BY <1>4, <2>2
    <3> QED
      BY <2>1, <3>1, <3>2 DEF CalmInv, Enrolled
  <2>3. CASE t = s
    <3>1. stream'[s] \in {"cleaning", "ended"}
      BY <1>1, <1>2 DEF Visited, PgTypeOK
    <3> QED
      BY <2>3, <3>1
  <2> QED
    BY <2>2, <2>3
<1> QED
  BY <1>1, <1>5, <1>6, <1>7

LEMMA CalmStep ==
  ASSUME PgTypeOK, CalmInv, [PgNext]_pgVars
  PROVE  CalmInv'
<1> SUFFICES ASSUME Calm'
             PROVE  ~checking' /\ CacheTrue' /\ SubscribedHeard' /\ Enrolled'
  BY DEF CalmInv
<1>0. Calm /\ ~StartCheck /\ \A s : ~Cancel(s)
  BY CalmBefore
<1> DEFINE Good == ~checking' /\ CacheTrue' /\ SubscribedHeard' /\ Enrolled'
<1>1. ASSUME NEW h \in Streams \cup {Health}, Probe(h)
      PROVE  Good
  BY <1>0, <1>1, ProbeCalm
<1>2. ASSUME NEW s \in Streams, Subscribe(s) \/ Clean(s)
      PROVE  Good
  BY <1>0, <1>2, SubscribeCalm, CleanCalm
<1>3. CASE LoseConnection
  BY <1>0, <1>3 DEF LoseConnection, CalmInv, CacheTrue, SubscribedHeard, Enrolled, streamVars
<1>4. ASSUME NEW s \in Streams, TakeLock(s) \/ Heartbeat(s)
      PROVE  Good
  <2>1. UNCHANGED <<listenVars, checking>>
    BY <1>4 DEF TakeLock, Heartbeat
  <2>2. Enrolled'
    BY <1>0, <1>4, <2>1 DEF TakeLock, Heartbeat, CalmInv, Enrolled, listenVars, PgTypeOK
  <2> QED
    BY <1>0, <2>1, <2>2 DEF CalmInv, CacheTrue, SubscribedHeard, listenVars
<1>5. ASSUME NEW s \in Streams, RequestStream(s) \/ Leave(s)
      PROVE  Good
  <2>1. UNCHANGED <<listenVars, checking>>
    BY <1>5 DEF RequestStream, Leave
  <2>2. Enrolled'
    BY <1>0, <1>5, <2>1 DEF RequestStream, Leave, CalmInv, Enrolled, listenVars, PgTypeOK
  <2> QED
    BY <1>0, <2>1, <2>2 DEF CalmInv, CacheTrue, SubscribedHeard, listenVars
<1>6. CASE UNCHANGED <<listenVars, streamVars, checking>>
  BY <1>0, <1>6 DEF CalmInv, CacheTrue, SubscribedHeard, Enrolled, listenVars, streamVars
<1>7. (\E n \in Notices : Publish(n)) \/ (\E s \in Streams : Take(s)) \/ UNCHANGED pgVars
        => UNCHANGED <<listenVars, streamVars, checking>>
  BY DEF Publish, Take, pgVars
<1>8. ~EndCheck
  BY <1>0 DEF EndCheck, CalmInv
<1> QED
  BY <1>0, <1>1, <1>2, <1>3, <1>4, <1>5, <1>6, <1>7, <1>8 DEF PgNext, Background, StreamStep

LEMMA CalmAlways == PgSpec => []CalmInv
BY PgTypesInit, PgTypesStep, CalmInit, CalmStep, PTL DEF PgSpec

(* Whatever streams come and leave, and however the connection is lost and *)
(* replaced, an open stream is heard: others that leave do not take its    *)
(* channels away, and a new connection listens on all of them              *)
(* (pg_listener.py).                                                       *)
THEOREM OpenStreamsHeard == PgSpec => []HeardWhileCalm
<1>1. CalmInv => HeardWhileCalm
  BY DEF CalmInv, Enrolled, SubscribedHeard, HeardWhileCalm, StreamsHeard
<1> QED
  BY <1>1, CalmAlways, PTL

(* The cached set of channels tells what the connection listens on, so a   *)
(* new stream sends LISTEN exactly when it is needed (pg_listener.py).     *)
THEOREM ListeningStaysTrue == PgSpec => []ListeningIsTrue
<1>1. CalmInv => ListeningIsTrue
  BY DEF CalmInv, CacheTrue, ListeningIsTrue
<1> QED
  BY <1>1, CalmAlways, PTL
================================================================================
