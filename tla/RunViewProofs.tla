----------------------------- MODULE RunViewProofs -----------------------------
(***************************************************************************)
(* What is proved of the page of one run: for any number of jobs, rules    *)
(* and panels, any sizes of the table's pages and of the stream's queue.   *)
(***************************************************************************)
EXTENDS RunView, FiniteSetTheorems, TLAPS

-----------------------------------------------------------------------------
(* The entries of the cache *)

Keys == AllKeys \cup JobKeys \cup {Panel("files")}

AnswersTo(k) == {Answers(d, k) : d \in States}

Values == {Missing} \cup UNION {AnswersTo(k) : k \in Keys}

Entries == [data : Values, fresh : BOOLEAN, stage : Stages, copy : Values]

LEMMA MissingIsValue == Missing \in Values
BY DEF Values

LEMMA NoEntryTyped == /\ NoEntry \in Entries
                      /\ ~NoEntry.fresh /\ NoEntry.stage = "idle"
                      /\ NoEntry.data = Missing /\ NoEntry.copy = Missing
BY MissingIsValue DEF NoEntry, Entries, Stages

\* every operator on an entry gives an entry; what it leaves of the old one
LEMMA AskedEntry ==
  ASSUME NEW e \in Entries
  PROVE  /\ Asked(e) \in Entries
         /\ ~Asked(e).fresh /\ Asked(e).stage = "sent"
         /\ Asked(e).data = e.data /\ Asked(e).copy = Missing
BY MissingIsValue DEF Asked, Entries, Stages

LEMMA LeftEntry ==
  ASSUME NEW e \in Entries
  PROVE  /\ Left(e) \in Entries
         /\ Left(e).fresh = e.fresh /\ Left(e).stage = "idle"
         /\ Left(e).data = e.data /\ Left(e).copy = Missing
BY MissingIsValue DEF Left, Entries, Stages

LEMMA ExpiredEntry ==
  ASSUME NEW e \in Entries
  PROVE  /\ Expired(e) \in Entries
         /\ ~Expired(e).fresh /\ Expired(e).stage = e.stage
         /\ Expired(e).data = e.data /\ Expired(e).copy = e.copy
BY MissingIsValue DEF Expired, Entries, Stages

LEMMA AnsweredEntry ==
  ASSUME NEW e \in Entries
  PROVE  /\ Answered(e) \in Entries
         /\ Answered(e).fresh /\ Answered(e).stage = "idle"
         /\ Answered(e).data = e.copy /\ Answered(e).copy = Missing
BY MissingIsValue DEF Answered, Entries, Stages

LEMMA ReadEntry ==
  ASSUME NEW e \in Entries, NEW v \in Values
  PROVE  /\ ReadAs(e, v) \in Entries
         /\ ReadAs(e, v).fresh = e.fresh /\ ReadAs(e, v).stage = "read"
         /\ ReadAs(e, v).data = e.data /\ ReadAs(e, v).copy = v
BY MissingIsValue DEF ReadAs, Entries, Stages

-----------------------------------------------------------------------------
(* The inductive invariant *)

CacheTyped == cache \in [DOMAIN cache -> Entries] /\ DOMAIN cache \subseteq Keys

\* what is asked for is in view, and what is in view is asked for or fresh, unless it
\* could not be read
Asking == \A k \in DOMAIN cache : cache[k].stage # "idle" => k \in InView /\ ~cache[k].fresh

Looked == \A k \in InView :
  k \in DOMAIN cache /\ (cache[k].fresh \/ cache[k].stage # "idle" \/ k \in missed)

PageTyped ==
  /\ jobs \in States
  /\ tab \in Tabs /\ rule \in Rules \cup {NoRule}
  /\ TableHere \in TableKeys /\ viewer \in JobKeys \cup {Nothing}
  /\ stream \in {"connecting", "open", "listening", "retry"}
  /\ notices \in Seq({"job"}) /\ due \in BOOLEAN

TypeInv == CacheTyped /\ Asking /\ Looked /\ PageTyped

\* something that is still to happen makes the page read again
Behind == due \/ notices # <<>> \/ stream \in {"connecting", "retry"}

\* the answer that is shown, and one that is on its way, are those of now
Current(k) == /\ cache[k].fresh => cache[k].data = Read(k)
              /\ cache[k].stage = "read" => cache[k].copy = Read(k)

UpToDate == Behind \/ \A k \in DOMAIN cache \cap AllKeys : k \in missed \/ Current(k)

AgreeInv == TypeInv /\ UpToDate

LEMMA KeysInView == PageTyped => InView \subseteq Keys
BY DEF PageTyped, InView, OfTab, Keys, AllKeys

LEMMA ReadIsValue == ASSUME PageTyped, NEW k \in Keys PROVE Read(k) \in Values
BY DEF PageTyped, Read, Values, AnswersTo

LEMMA FirstPage == 1 \in 1..Cardinality(Jobs)
<1>1. Cardinality(Jobs) \in Nat /\ Cardinality(Jobs) # 0
  BY JobsAssumption, FS_CardinalityType, FS_EmptySet
<1> QED
  BY <1>1

LEMMA AgreeInvInit == RvInit => AgreeInv
<1> SUFFICES ASSUME RvInit PROVE AgreeInv
  OBVIOUS
<1>1. PageTyped
  <2>1. TableHere \in TableKeys
    BY FirstPage, JobSizesAssumption DEF RvInit, TableHere, TableKeys
  <2>2. notices \in Seq({"job"})
    BY DEF RvInit
  <2> QED
    BY <2>1, <2>2, StartAssumption, Zenon DEF RvInit, PageTyped, Tabs
<1>2. DOMAIN cache = InView /\ \A k \in InView : cache[k] = Asked(NoEntry)
  BY DEF RvInit
<1>3. CacheTyped
  <2>1. cache \in [InView -> Entries]
    BY <1>2, NoEntryTyped, AskedEntry DEF RvInit
  <2> QED
    BY <2>1, <1>1, <1>2, KeysInView DEF CacheTyped
<1>4. Asking /\ Looked
  BY <1>2, NoEntryTyped, AskedEntry DEF Asking, Looked
<1>5. UpToDate
  BY DEF RvInit, UpToDate, Behind
<1> QED
  BY <1>1, <1>3, <1>4, <1>5 DEF AgreeInv, TypeInv

-----------------------------------------------------------------------------
(* Someone turns to other panels *)

LEMMA TurnEntries ==
  ASSUME CacheTyped, NEW before, NEW after \in SUBSET Keys, Turn(before, after),
         \A k \in before : k \in DOMAIN cache /\ (cache[k].fresh \/ cache[k].stage # "idle" \/ k \in missed)
  PROVE  /\ CacheTyped'
         /\ DOMAIN cache' = DOMAIN cache \cup after
         /\ \A k \in after : \/ /\ k \in DOMAIN cache /\ cache'[k] = cache[k]
                                /\ cache[k].fresh \/ cache[k].stage # "idle" \/ k \in missed
                             \/ cache'[k] = Asked(Entry(k))
         /\ \A k \in DOMAIN cache \ after :
              cache'[k] = IF k \in before THEN Left(cache[k]) ELSE cache[k]
<1>1. /\ DOMAIN cache' = DOMAIN cache \cup after
      /\ cache' = [k \in DOMAIN cache \cup after |-> cache'[k]]
      /\ \A k \in after \ before : cache'[k] = Observed(Entry(k))
      /\ \A k \in after \cap before : cache'[k] = cache[k]
      /\ \A k \in DOMAIN cache \ after :
           cache'[k] = IF k \in before THEN Left(cache[k]) ELSE cache[k]
  BY DEF Turn
<1>2. \A k : Entry(k) \in Entries
  BY NoEntryTyped DEF Entry, CacheTyped
<1>3. ASSUME NEW k \in after
      PROVE  \/ /\ k \in DOMAIN cache /\ cache'[k] = cache[k]
                /\ cache[k].fresh \/ cache[k].stage # "idle" \/ k \in missed
             \/ cache'[k] = Asked(Entry(k))
  BY <1>1, NoEntryTyped DEF Observed, Entry
<1>4. \A k \in DOMAIN cache' : cache'[k] \in Entries
  BY <1>1, <1>2, <1>3, AskedEntry, LeftEntry DEF CacheTyped
<1>5. CacheTyped'
  <2>1. cache' \in [DOMAIN cache' -> Entries]
    BY <1>1, <1>4
  <2> QED
    BY <2>1, <1>1 DEF CacheTyped
<1> QED
  BY <1>1, <1>3, <1>5

LEMMA TurnKeeps ==
  ASSUME AgreeInv, PageTyped', TurnTo
  PROVE  AgreeInv'
<1>1. Turn(InView, InView') /\ UNCHANGED <<jobs, stream, notices, due, missed>>
  BY DEF TurnTo, streamVars
<1>2. InView' \in SUBSET Keys
  BY DEF PageTyped, InView, OfTab, Keys, AllKeys
<1>3. CacheTyped /\ Asking /\ Looked
  BY DEF AgreeInv, TypeInv
<1>4. /\ CacheTyped'
      /\ DOMAIN cache' = DOMAIN cache \cup InView'
      /\ \A k \in InView' : \/ /\ k \in DOMAIN cache /\ cache'[k] = cache[k]
                               /\ cache[k].fresh \/ cache[k].stage # "idle" \/ k \in missed
                            \/ cache'[k] = Asked(Entry(k))
      /\ \A k \in DOMAIN cache \ InView' :
           cache'[k] = IF k \in InView THEN Left(cache[k]) ELSE cache[k]
  BY <1>1, <1>2, <1>3, TurnEntries DEF Looked
<1>5. \A k : Entry(k) \in Entries
  BY <1>3, NoEntryTyped DEF Entry, CacheTyped
<1>6. Asking'
  <2> SUFFICES ASSUME NEW k \in DOMAIN cache', cache'[k].stage # "idle"
               PROVE  k \in InView' /\ ~cache'[k].fresh
    BY DEF Asking
  <2>1. CASE k \in InView'
    BY <2>1, <1>3, <1>4, <1>5, AskedEntry DEF Asking
  <2>2. CASE k \notin InView'
    BY <2>2, <1>3, <1>4, LeftEntry DEF Asking, CacheTyped
  <2> QED
    BY <2>1, <2>2
<1>7. Looked'
  BY <1>1, <1>4, <1>5, AskedEntry DEF Looked
<1>8. UpToDate'
  <2> SUFFICES ASSUME ~Behind', NEW k \in DOMAIN cache' \cap AllKeys, k \notin missed'
               PROVE  Current(k)'
    BY DEF UpToDate, AllKeys, Panel, TableKeys
  <2>1. k \in DOMAIN cache => Current(k)
    BY <1>1 DEF AgreeInv, UpToDate, Behind
  <2>2. Read(k)' = Read(k)
    BY <1>1 DEF Read
  <2>3. CASE k \in InView'
    BY <2>1, <2>2, <2>3, <1>4, <1>5, AskedEntry DEF Current
  <2>4. CASE k \notin InView'
    BY <2>1, <2>2, <2>4, <1>3, <1>4, LeftEntry DEF Current, CacheTyped
  <2> QED
    BY <2>3, <2>4
<1> QED
  BY <1>4, <1>6, <1>7, <1>8 DEF AgreeInv, TypeInv
-----------------------------------------------------------------------------
(* What goes on without the user *)

\* for a step that leaves what the page shows, and the jobs
LEMMA SamePage ==
  ASSUME UNCHANGED <<jobs, tab, rule, page, size, status, viewer>>
  PROVE  /\ UNCHANGED <<InView, TableHere>>
         /\ \A k : Read(k)' = Read(k)
BY DEF InView, OfTab, TableHere, Panel, Read

LEMMA ServeReadKeeps ==
  ASSUME AgreeInv, NEW k \in DOMAIN cache, ServeRead(k, Read(k)),
         UNCHANGED <<jobs, tab, rule, page, size, status, viewer, stream, notices, due>>
  PROVE  AgreeInv'
<1>1. CacheTyped /\ Asking /\ Looked /\ PageTyped
  BY DEF AgreeInv, TypeInv
<1> DEFINE e == cache[k]
<1>2. e \in Entries /\ k \in Keys /\ Read(k) \in Values
  BY <1>1, ReadIsValue DEF CacheTyped
<1>3. /\ e.stage = "sent" /\ missed' = missed \ {k}
      /\ DOMAIN cache' = DOMAIN cache
      /\ cache'[k] = ReadAs(e, Read(k))
      /\ \A j \in DOMAIN cache \ {k} : cache'[j] = cache[j]
      /\ cache' = [j \in DOMAIN cache |-> cache'[j]]
  BY <1>1 DEF ServeRead, CacheTyped
<1>4. k \in InView /\ ~e.fresh
  BY <1>1, <1>3 DEF Asking
<1>5. /\ cache'[k] \in Entries
      /\ ~cache'[k].fresh /\ cache'[k].stage = "read" /\ cache'[k].copy = Read(k)
  BY <1>2, <1>3, <1>4, ReadEntry
<1>6. CacheTyped'
  <2>1. \A j \in DOMAIN cache : cache'[j] \in Entries
    BY <1>1, <1>3, <1>5 DEF CacheTyped
  <2>2. cache' \in [DOMAIN cache' -> Entries]
    BY <2>1, <1>3
  <2> QED
    BY <2>2, <1>1, <1>3 DEF CacheTyped
<1>7. UNCHANGED <<InView, TableHere>> /\ \A j : Read(j)' = Read(j)
  BY SamePage
<1>8. Asking' /\ Looked'
  BY <1>1, <1>3, <1>4, <1>5, <1>7 DEF Asking, Looked
<1>9. PageTyped'
  BY <1>1, <1>7 DEF PageTyped
<1>10. UpToDate'
  <2> SUFFICES ASSUME ~Behind', NEW j \in DOMAIN cache' \cap AllKeys, j \notin missed'
               PROVE  Current(j)'
    BY DEF UpToDate, AllKeys, Panel, TableKeys
  <2>1. CASE j = k
    BY <2>1, <1>5, <1>7 DEF Current
  <2>2. CASE j # k
    <3>1. Current(j)
      BY <2>2, <1>3 DEF AgreeInv, UpToDate, Behind
    <3> QED
      BY <3>1, <2>2, <1>3, <1>7 DEF Current
  <2> QED
    BY <2>1, <2>2
<1> QED
  BY <1>6, <1>8, <1>9, <1>10 DEF AgreeInv, TypeInv

LEMMA AnswerKeeps ==
  ASSUME AgreeInv, NEW k \in DOMAIN cache, Answer(k),
         UNCHANGED <<jobs, tab, rule, page, size, status, viewer, stream, notices, due>>
  PROVE  AgreeInv'
<1>1. CacheTyped /\ Asking /\ Looked /\ PageTyped
  BY DEF AgreeInv, TypeInv
<1> DEFINE e == cache[k]
<1>2. e \in Entries
  BY <1>1 DEF CacheTyped
<1>3. /\ e.stage = "read" /\ UNCHANGED missed
      /\ DOMAIN cache' = DOMAIN cache
      /\ cache'[k] = Answered(e)
      /\ \A j \in DOMAIN cache \ {k} : cache'[j] = cache[j]
      /\ cache' = [j \in DOMAIN cache |-> cache'[j]]
  BY <1>1 DEF Answer, CacheTyped
<1>4. /\ cache'[k] \in Entries
      /\ cache'[k].fresh /\ cache'[k].stage = "idle" /\ cache'[k].data = e.copy
  BY <1>2, <1>3, AnsweredEntry
<1>5. CacheTyped'
  <2>1. \A j \in DOMAIN cache : cache'[j] \in Entries
    BY <1>1, <1>3, <1>4 DEF CacheTyped
  <2>2. cache' \in [DOMAIN cache' -> Entries]
    BY <2>1, <1>3
  <2> QED
    BY <2>2, <1>1, <1>3 DEF CacheTyped
<1>6. UNCHANGED <<InView, TableHere>> /\ \A j : Read(j)' = Read(j)
  BY SamePage
<1>7. Asking' /\ Looked'
  BY <1>1, <1>3, <1>4, <1>6 DEF Asking, Looked
<1>8. PageTyped'
  BY <1>1, <1>6 DEF PageTyped
<1>9. UpToDate'
  <2> SUFFICES ASSUME ~Behind', NEW j \in DOMAIN cache' \cap AllKeys, j \notin missed'
               PROVE  Current(j)'
    BY DEF UpToDate, AllKeys, Panel, TableKeys
  <2>1. Current(j)
    BY <1>3 DEF AgreeInv, UpToDate, Behind
  <2> QED
    BY <2>1, <1>3, <1>4, <1>6 DEF Current
<1> QED
  BY <1>5, <1>7, <1>8, <1>9 DEF AgreeInv, TypeInv

LEMMA ExpireKeeps ==
  ASSUME AgreeInv, NEW k \in DOMAIN cache, Expire(k, InView),
         UNCHANGED <<jobs, tab, rule, page, size, status, viewer, stream, notices, due>>
  PROVE  AgreeInv'
<1>1. CacheTyped /\ Asking /\ Looked /\ PageTyped
  BY DEF AgreeInv, TypeInv
<1> DEFINE e == cache[k]
<1>2. e \in Entries
  BY <1>1 DEF CacheTyped
<1>3. /\ k \notin InView /\ UNCHANGED missed
      /\ DOMAIN cache' = DOMAIN cache
      /\ cache'[k] = Expired(e)
      /\ \A j \in DOMAIN cache \ {k} : cache'[j] = cache[j]
      /\ cache' = [j \in DOMAIN cache |-> cache'[j]]
  BY <1>1 DEF Expire, CacheTyped
<1>4. /\ cache'[k] \in Entries
      /\ ~cache'[k].fresh /\ cache'[k].stage = e.stage /\ cache'[k].copy = e.copy
  BY <1>2, <1>3, ExpiredEntry
<1>5. CacheTyped'
  <2>1. \A j \in DOMAIN cache : cache'[j] \in Entries
    BY <1>1, <1>3, <1>4 DEF CacheTyped
  <2>2. cache' \in [DOMAIN cache' -> Entries]
    BY <2>1, <1>3
  <2> QED
    BY <2>2, <1>1, <1>3 DEF CacheTyped
<1>6. UNCHANGED <<InView, TableHere>> /\ \A j : Read(j)' = Read(j)
  BY SamePage
<1>7. Asking' /\ Looked'
  BY <1>1, <1>3, <1>4, <1>6 DEF Asking, Looked
<1>8. PageTyped'
  BY <1>1, <1>6 DEF PageTyped
<1>9. UpToDate'
  <2> SUFFICES ASSUME ~Behind', NEW j \in DOMAIN cache' \cap AllKeys, j \notin missed'
               PROVE  Current(j)'
    BY DEF UpToDate, AllKeys, Panel, TableKeys
  <2>1. Current(j)
    BY <1>3 DEF AgreeInv, UpToDate, Behind
  <2> QED
    BY <2>1, <1>3, <1>4, <1>6 DEF Current
<1> QED
  BY <1>5, <1>7, <1>8, <1>9 DEF AgreeInv, TypeInv

LEMMA FailReadKeeps ==
  ASSUME AgreeInv, NEW k \in DOMAIN cache, FailRead(k),
         UNCHANGED <<jobs, tab, rule, page, size, status, viewer, stream, notices, due>>
  PROVE  AgreeInv'
<1>1. CacheTyped /\ Asking /\ Looked /\ PageTyped
  BY DEF AgreeInv, TypeInv
<1> DEFINE e == cache[k]
<1>2. e \in Entries
  BY <1>1 DEF CacheTyped
<1>3. /\ missed' = missed \cup {k}
      /\ DOMAIN cache' = DOMAIN cache
      /\ cache'[k] = Left(e)
      /\ \A j \in DOMAIN cache \ {k} : cache'[j] = cache[j]
      /\ cache' = [j \in DOMAIN cache |-> cache'[j]]
  BY <1>1 DEF FailRead, CacheTyped
<1>4. cache'[k] \in Entries /\ cache'[k].stage = "idle"
  BY <1>2, <1>3, LeftEntry
<1>5. CacheTyped'
  <2>1. \A j \in DOMAIN cache : cache'[j] \in Entries
    BY <1>1, <1>3, <1>4 DEF CacheTyped
  <2>2. cache' \in [DOMAIN cache' -> Entries]
    BY <2>1, <1>3
  <2> QED
    BY <2>2, <1>1, <1>3 DEF CacheTyped
<1>6. UNCHANGED <<InView, TableHere>> /\ \A j : Read(j)' = Read(j)
  BY SamePage
<1>7. Asking' /\ Looked'
  BY <1>1, <1>3, <1>4, <1>6 DEF Asking, Looked
<1>8. PageTyped'
  BY <1>1, <1>6 DEF PageTyped
<1>9. UpToDate'
  <2> SUFFICES ASSUME ~Behind', NEW j \in DOMAIN cache' \cap AllKeys, j \notin missed'
               PROVE  Current(j)'
    BY DEF UpToDate, AllKeys, Panel, TableKeys
  <2>1. Current(j) /\ j # k
    BY <1>3 DEF AgreeInv, UpToDate, Behind
  <2> QED
    BY <2>1, <1>3, <1>6 DEF Current
<1> QED
  BY <1>5, <1>7, <1>8, <1>9 DEF AgreeInv, TypeInv

(* An invalidation of all the panels makes up for every change there has   *)
(* been, but in a panel's first request whose answer is on its way.        *)
LEMMA InvalidateKeeps ==
  ASSUME AgreeInv, Invalidate(InView, AllKeys),
         UNCHANGED <<jobs, tab, rule, page, size, status, viewer>>
  PROVE  /\ CacheTyped' /\ Asking' /\ Looked'
         /\ \A k \in DOMAIN cache' \cap AllKeys : k \in missed' \/ Current(k)'
<1>1. CacheTyped /\ Asking /\ Looked /\ PageTyped
  BY DEF AgreeInv, TypeInv
<1>2. /\ DOMAIN cache' = DOMAIN cache
      /\ cache' = [k \in DOMAIN cache |-> cache'[k]]
      /\ \A k \in DOMAIN cache :
           cache'[k] = IF k \in AllKeys THEN Invalidated(cache[k], k \in InView) ELSE cache[k]
      /\ \A k \in InView \cap AllKeys \cap DOMAIN cache : Overtaken(cache[k]) => k \in missed'
      /\ \A k \in missed : k \in missed'
  BY DEF Invalidate
<1>3. UNCHANGED <<InView, TableHere>>
  BY SamePage
<1>4. ASSUME NEW k \in DOMAIN cache
      PROVE  /\ cache'[k] \in Entries
             /\ cache'[k].stage # "idle" => k \in InView /\ ~cache'[k].fresh
             /\ k \in InView => cache'[k].fresh \/ cache'[k].stage # "idle" \/ k \in missed'
             /\ k \in AllKeys => k \in missed' \/ (~cache'[k].fresh /\ cache'[k].stage # "read")
  <2>1. /\ cache[k] \in Entries
        /\ cache[k].stage # "idle" => k \in InView /\ ~cache[k].fresh
        /\ k \in InView => cache[k].fresh \/ cache[k].stage # "idle" \/ k \in missed
    BY <1>1 DEF CacheTyped, Asking, Looked
  <2>2. CASE k \notin AllKeys
    BY <2>1, <2>2, <1>2
  <2>3. CASE k \in AllKeys /\ k \notin InView
    <3>1. cache'[k] = Expired(cache[k])
      BY <2>3, <1>2 DEF Invalidated, Expired
    <3> QED
      BY <3>1, <2>1, <2>3, ExpiredEntry
  <2>4. CASE k \in AllKeys /\ k \in InView /\ cache[k].data = Missing /\ cache[k].stage # "idle"
    <3>1. cache'[k] = cache[k]
      BY <2>4, <1>2 DEF Invalidated
    <3>2. cache[k].stage = "read" => k \in missed'
      BY <2>4, <1>2 DEF Overtaken
    <3> QED
      BY <3>1, <3>2, <2>1, <2>4
  <2>5. CASE k \in AllKeys /\ k \in InView /\ ~(cache[k].data = Missing /\ cache[k].stage # "idle")
    <3>1. cache'[k] = Asked(cache[k])
      BY <2>5, <1>2 DEF Invalidated
    <3> QED
      BY <3>1, <2>1, <2>5, AskedEntry
  <2> QED
    BY <2>2, <2>3, <2>4, <2>5
<1>5. CacheTyped'
  <2>1. cache' \in [DOMAIN cache' -> Entries]
    BY <1>2, <1>4
  <2> QED
    BY <2>1, <1>1, <1>2 DEF CacheTyped
<1>6. Asking' /\ Looked'
  BY <1>1, <1>2, <1>3, <1>4 DEF Asking, Looked
<1>7. \A k \in DOMAIN cache' \cap AllKeys : k \in missed' \/ Current(k)'
  BY <1>2, <1>4 DEF Current
<1> QED
  BY <1>5, <1>6, <1>7
LEMMA BackgroundKeeps ==
  ASSUME AgreeInv, Background
  PROVE  AgreeInv'
<1>1. CacheTyped /\ Asking /\ Looked /\ PageTyped
  BY DEF AgreeInv, TypeInv
<1>2. UNCHANGED <<jobs, tab, rule, page, size, status, viewer>>
  BY DEF Background, tableVars
<1>3. UNCHANGED <<InView, TableHere>> /\ \A k : Read(k)' = Read(k)
  BY <1>2, SamePage
<1>4. CASE Reads(InView, Read) /\ UNCHANGED streamVars
  <2>1. PICK k \in DOMAIN cache :
               ServeRead(k, Read(k)) \/ Answer(k) \/ FailRead(k) \/ Expire(k, InView)
    BY <1>4 DEF Reads
  <2>2. UNCHANGED <<jobs, tab, rule, page, size, status, viewer, stream, notices, due>>
    BY <1>2, <1>4 DEF streamVars
  <2> QED
    BY <2>1, <2>2, ServeReadKeeps, AnswerKeeps, FailReadKeeps, ExpireKeeps
<1>5. CASE OpenStream(InView, AllKeys) \/ Flush(InView, AllKeys)
  <2>1. /\ Invalidate(InView, AllKeys)
        /\ UNCHANGED notices /\ due' \in {FALSE, due}
        /\ stream' \in {"open", stream}
    BY <1>5 DEF OpenStream, Flush
  <2>2. PageTyped'
    BY <1>1, <1>2, <1>3, <2>1 DEF PageTyped
  <2> QED
    BY <1>2, <2>1, <2>2, InvalidateKeeps DEF AgreeInv, TypeInv, UpToDate
<1>6. CASE Listen \/ Retry \/ Notified(TRUE, {})
  <2>1. /\ UNCHANGED <<cache, missed>>
        /\ \/ stream = "open" /\ stream' = "listening" /\ UNCHANGED <<notices, due>>
           \/ stream = "retry" /\ stream' = "connecting" /\ UNCHANGED <<notices, due>>
           \/ notices # <<>> /\ notices' = Tail(notices) /\ due' = TRUE /\ UNCHANGED stream
    BY <1>6 DEF Listen, Retry, Notified
  <2>2. PageTyped'
    <3>1. notices' \in Seq({"job"})
      BY <1>1, <2>1 DEF PageTyped
    <3>2. due' \in BOOLEAN /\ stream' \in {"connecting", "open", "listening", "retry"}
      BY <1>1, <2>1 DEF PageTyped
    <3> QED
      BY <1>1, <1>2, <1>3, <3>1, <3>2 DEF PageTyped
  <2>3. CacheTyped' /\ Asking' /\ Looked'
    BY <1>1, <1>3, <2>1 DEF CacheTyped, Asking, Looked
  <2>4. UpToDate'
    BY <1>3, <2>1 DEF AgreeInv, UpToDate, Behind, Current
  <2> QED
    BY <2>2, <2>3, <2>4 DEF AgreeInv, TypeInv
<1> QED
  BY <1>4, <1>5, <1>6 DEF Background

LEMMA InterruptedKeeps ==
  ASSUME AgreeInv, Interrupted
  PROVE  AgreeInv'
<1>1. UNCHANGED <<jobs, tab, rule, page, size, status, viewer>>
  BY DEF Interrupted, tableVars
<1>2. UNCHANGED <<InView, TableHere>> /\ \A k : Read(k)' = Read(k)
  BY <1>1, SamePage
<1>3. CASE DropStream \/ LoseConnection
  <2>1. /\ UNCHANGED <<cache, missed, due>>
        /\ \/ stream' = "retry" /\ notices' = <<>>
           \/ stream = "listening" /\ stream' = "open" /\ UNCHANGED notices
    BY <1>3 DEF DropStream, LoseConnection
  <2>2. CacheTyped' /\ Asking' /\ Looked'
    BY <1>2, <2>1 DEF AgreeInv, TypeInv, CacheTyped, Asking, Looked
  <2>3. notices' \in Seq({"job"})
    <3>1. CASE notices' = <<>>
      BY <3>1
    <3>2. CASE notices' = notices
      BY <3>2 DEF AgreeInv, TypeInv, PageTyped
    <3> QED
      BY <2>1, <3>1, <3>2
  <2>4. PageTyped'
    BY <1>1, <1>2, <2>1, <2>3 DEF AgreeInv, TypeInv, PageTyped
  <2>5. UpToDate'
    BY <1>2, <2>1 DEF AgreeInv, UpToDate, Behind, Current
  <2> QED
    BY <2>2, <2>4, <2>5 DEF AgreeInv, TypeInv
<1>4. CASE (\E k \in DOMAIN cache : FailRead(k)) /\ UNCHANGED streamVars
  BY <1>1, <1>4, FailReadKeeps DEF streamVars
<1> QED
  BY <1>3, <1>4 DEF Interrupted

(* A change is announced to a page that listens; the notices that leave no *)
(* room for it make the page read again as well.                           *)
LEMMA ChangeJobKeeps ==
  ASSUME AgreeInv, NEW j \in Jobs, ChangeJob(j)
  PROVE  AgreeInv'
<1>1. CacheTyped /\ Asking /\ Looked /\ PageTyped
  BY DEF AgreeInv, TypeInv
<1>2. /\ UNCHANGED <<cache, stream, due, tab, rule, page, size, status, viewer>>
      /\ notices' = IF stream = "listening" /\ Len(notices) < QueueSize
                      THEN Append(notices, "job") ELSE notices
      /\ stream = "open" => missed' = missed \cup DOMAIN cache
      /\ \A k \in missed : k \in missed'
  BY DEF ChangeJob, Notice, tableVars
<1>3. UNCHANGED <<InView, TableHere>>
  BY <1>2 DEF InView, OfTab, TableHere, Panel
<1>4. CacheTyped' /\ Asking' /\ Looked'
  BY <1>1, <1>2, <1>3 DEF CacheTyped, Asking, Looked
<1>5. jobs' \in States
  <2>1. PICK s \in Statuses : jobs' = [jobs EXCEPT ![j] = s]
    BY DEF ChangeJob, Statuses
  <2> QED
    BY <2>1, <1>1 DEF PageTyped, States
<1>6. notices' \in Seq({"job"})
  BY <1>1, <1>2 DEF PageTyped
<1>7. PageTyped'
  BY <1>1, <1>2, <1>3, <1>5, <1>6 DEF PageTyped
<1>8. UpToDate'
  <2>1. CASE stream = "listening"
    <3>1. Len(notices) \in Nat /\ (Len(notices) >= QueueSize => notices # <<>>)
      BY <1>1, QueueAssumption DEF PageTyped
    <3>2. notices' # <<>>
      <4>1. CASE Len(notices) < QueueSize
        BY <4>1, <2>1, <1>1, <1>2 DEF PageTyped
      <4>2. CASE ~(Len(notices) < QueueSize)
        BY <4>2, <3>1, <1>2, QueueAssumption
      <4> QED
        BY <4>1, <4>2
    <3> QED
      BY <3>2 DEF UpToDate, Behind
  <2>2. CASE stream \in {"connecting", "retry"}
    BY <2>2, <1>2 DEF UpToDate, Behind
  <2>3. CASE stream = "open"
    BY <2>3, <1>2 DEF UpToDate
  <2> QED
    BY <2>1, <2>2, <2>3, <1>1 DEF PageTyped
<1> QED
  BY <1>4, <1>7, <1>8 DEF AgreeInv, TypeInv

-----------------------------------------------------------------------------
(* The user *)

\* whatever is clicked, the page is a page of the table, with a tab and a rule
LEMMA ClickTyped ==
  ASSUME PageTyped,
         \/ \E t \in Tabs : PickTab(t)
         \/ \E r \in Rules : PickRule(r)
         \/ \E s \in Statuses \cup {NoStatus} : PickStatus(s)
         \/ \E p \in 1..Cardinality(Jobs) : TurnPage(p)
         \/ \E n \in Sizes : PickSize(n)
         \/ \E k \in JobKeys : OpenViewer(k)
         \/ CloseViewer
  PROVE  PageTyped' /\ TurnTo
<1>1. TurnTo /\ UNCHANGED <<jobs, stream, notices, due>>
  BY DEF PickTab, PickRule, PickStatus, TurnPage, PickSize, OpenViewer, CloseViewer, TurnTo,
         streamVars
<1>2. /\ page \in 1..Cardinality(Jobs) /\ size \in Sizes
      /\ status \in Statuses \cup {NoStatus}
  BY DEF PageTyped, TableHere, TableKeys
<1>3. tab' \in Tabs
  BY DEF PageTyped, PickTab, PickRule, PickStatus, TurnPage, PickSize, OpenViewer, CloseViewer,
         tableVars
<1>4. rule' \in Rules' \cup {NoRule}
  <2>1. rule' \in {rule, NoRule} \cup Rules
    BY DEF PageTyped, PickTab, PickRule, PickStatus, TurnPage, PickSize, OpenViewer, CloseViewer
  <2> QED
    BY <2>1 DEF PageTyped, Rules
<1>5. viewer' \in JobKeys \cup {Nothing}
  BY DEF PageTyped, PickTab, PickRule, PickStatus, TurnPage, PickSize, OpenViewer, CloseViewer
<1>6. page' \in 1..Cardinality(Jobs)
  BY <1>2, FirstPage
     DEF PickTab, PickRule, PickStatus, TurnPage, PickSize, OpenViewer, CloseViewer, FreshTable
<1>7. size' \in Sizes
  BY <1>2, JobSizesAssumption
     DEF PickTab, PickRule, PickStatus, TurnPage, PickSize, OpenViewer, CloseViewer, FreshTable
<1>8. status' \in Statuses \cup {NoStatus}
  BY <1>2 DEF PickTab, PickRule, PickStatus, TurnPage, PickSize, OpenViewer, CloseViewer,
              FreshTable
<1>9. TableHere' \in TableKeys
  BY <1>4, <1>6, <1>7, <1>8 DEF TableHere, TableKeys, Rules
<1> QED
  BY <1>1, <1>3, <1>4, <1>5, <1>9 DEF PageTyped, States, JobKeys, TableKeys

LEMMA AgreeInvStep == AgreeInv /\ [RvNext]_rvVars => AgreeInv'
<1> SUFFICES ASSUME AgreeInv, [RvNext]_rvVars PROVE AgreeInv'
  OBVIOUS
<1>1. CASE Background
  BY <1>1, BackgroundKeeps
<1>2. CASE Interrupted
  BY <1>2, InterruptedKeeps
<1>3. CASE \E j \in Jobs : ChangeJob(j)
  BY <1>3, ChangeJobKeeps
<1>4. CASE \/ \E t \in Tabs : PickTab(t)
           \/ \E r \in Rules : PickRule(r)
           \/ \E s \in Statuses \cup {NoStatus} : PickStatus(s)
           \/ \E p \in 1..Cardinality(Jobs) : TurnPage(p)
           \/ \E n \in Sizes : PickSize(n)
           \/ \E k \in JobKeys : OpenViewer(k)
           \/ CloseViewer
  BY <1>4, ClickTyped, TurnKeeps DEF AgreeInv, TypeInv
<1>5. CASE UNCHANGED rvVars
  <2>1. UNCHANGED <<jobs, tab, rule, page, size, status, viewer, cache, missed, stream, notices, due>>
    BY <1>5 DEF rvVars, liveVars, cacheVars, streamVars, tableVars
  <2>2. UNCHANGED <<InView, TableHere>> /\ \A k : Read(k)' = Read(k)
    BY <2>1, SamePage
  <2> QED
    BY <2>1, <2>2 DEF AgreeInv, TypeInv, CacheTyped, Asking, Looked, PageTyped, UpToDate, Behind,
                      Current
<1> QED
  BY <1>1, <1>2, <1>3, <1>4, <1>5 DEF RvNext

LEMMA AgreeInvHolds == RvSpec => []AgreeInv
<1> QED
  BY AgreeInvInit, AgreeInvStep, PTL DEF RvSpec

(* Every variable of the page holds a value of its kind, and only what is  *)
(* in view is asked for.                                                   *)
THEOREM RunViewTypesCorrect == RvSpec => []RvTypeOK
<1>1. AgreeInv => RvTypeOK
  BY DEF AgreeInv, TypeInv, CacheTyped, Asking, PageTyped, RvTypeOK, Keys
<1> QED
  BY <1>1, AgreeInvHolds, PTL

(* Once nothing is on its way, every panel in view, read whenever it was,  *)
(* shows the jobs of this moment, save those that missed a change, or      *)
(* whose last read failed.                                                 *)
THEOREM PanelsComeToAgree == RvSpec => []PanelsAgree
<1>1. AgreeInv => PanelsAgree
  <2> SUFFICES ASSUME AgreeInv, Quiet(InView), NEW k \in InView \cap AllKeys, k \notin missed
               PROVE  Entry(k).data # Missing /\ Entry(k).data = Read(k)
    BY DEF PanelsAgree
  <2>1. ~Behind /\ Entry(k).stage = "idle"
    BY DEF Quiet, Idle, Behind
  <2>2. k \in DOMAIN cache /\ Entry(k) = cache[k] /\ cache[k].fresh
    BY <2>1 DEF AgreeInv, TypeInv, Looked, Entry
  <2>3. Current(k)
    BY <2>1, <2>2 DEF AgreeInv, UpToDate
  <2>4. Read(k) # Missing
    BY MissingAssumption DEF AgreeInv, TypeInv, PageTyped, Read
  <2> QED
    BY <2>2, <2>3, <2>4 DEF Current
<1> QED
  BY <1>1, AgreeInvHolds, PTL
-----------------------------------------------------------------------------
(* The page of the table *)

Total(k) == Cardinality(Matching(jobs, k))

\* an answer counts no more jobs than there are by now
Counts(v, k) == v # Missing => v.total \in 0..Total(k)

CountsInv == \A k \in DOMAIN cache \cap TableKeys : k.status = NoStatus =>
               Counts(cache[k].data, k) /\ Counts(cache[k].copy, k)

TableInv == AgreeInv /\ CountsInv /\ PageExists

LEMMA MatchingFinite ==
  ASSUME NEW d, NEW k
  PROVE  IsFiniteSet(Matching(d, k)) /\ Cardinality(Matching(d, k)) \in Nat
BY JobsAssumption, FS_Subset, FS_CardinalityType DEF Matching

\* jobs start and are finished, and none goes away
LEMMA TotalGrows ==
  ASSUME jobs \in States, NEW j \in Jobs, NEW s \in Statuses, jobs' = [jobs EXCEPT ![j] = s],
         NEW k, k.status = NoStatus
  PROVE  Total(k) \in Nat /\ Total(k)' \in Nat /\ Total(k) <= Total(k)'
<1>1. Matching(jobs, k) \subseteq Matching(jobs', k)
  BY DEF Matching, States, Statuses
<1> QED
  BY <1>1, MatchingFinite, FS_Subset DEF Total

LEMMA LastPageGrows ==
  ASSUME size \in Nat \ {0}, NEW a \in Nat, NEW b \in Nat, a <= b
  PROVE  /\ LastPage(a) \in Nat /\ LastPage(b) \in Nat
         /\ 1 <= LastPage(a) /\ LastPage(a) <= LastPage(b)
BY DEF LastPage

\* where the data of an entry, and what was read for it, come from
HandedOn(k) == /\ cache'[k].data \in {Missing, Entry(k).data, Entry(k).copy}
               /\ cache'[k].copy \in {Missing, Entry(k).copy, Read(k)}

LEMMA ReadsHandOn ==
  ASSUME CacheTyped, PageTyped, NEW k \in DOMAIN cache',
         Reads(InView, Read) \/ \E j \in DOMAIN cache : FailRead(j)
  PROVE  HandedOn(k)
<1>1. PICK j \in DOMAIN cache :
             ServeRead(j, Read(j)) \/ Answer(j) \/ FailRead(j) \/ Expire(j, InView)
  BY DEF Reads
<1>2. \A i \in DOMAIN cache : cache[i] \in Entries /\ Entry(i) = cache[i]
  BY DEF CacheTyped, Entry
<1>3. /\ DOMAIN cache' = DOMAIN cache
      /\ \A i \in DOMAIN cache \ {j} : cache'[i] = cache[i]
      /\ cache'[j] \in {ReadAs(cache[j], Read(j)), Answered(cache[j]), Left(cache[j]), Expired(cache[j])}
  BY <1>1 DEF ServeRead, Answer, FailRead, Expire, CacheTyped
<1>4. Read(j) \in Values
  BY ReadIsValue DEF CacheTyped
<1>5. CASE k = j
  BY <1>2, <1>3, <1>4, <1>5, ReadEntry, AnsweredEntry, LeftEntry, ExpiredEntry DEF HandedOn
<1>6. CASE k # j
  BY <1>2, <1>3, <1>6 DEF HandedOn
<1> QED
  BY <1>5, <1>6

LEMMA InvalidateHandsOn ==
  ASSUME CacheTyped, Invalidate(InView, AllKeys), NEW k \in DOMAIN cache'
  PROVE  HandedOn(k)
<1>1. k \in DOMAIN cache /\ cache[k] \in Entries /\ Entry(k) = cache[k]
  BY DEF Invalidate, CacheTyped, Entry
<1>2. cache'[k] \in {cache[k], Expired(cache[k]), Asked(cache[k])}
  BY <1>1 DEF Invalidate, Invalidated, Expired
<1> QED
  BY <1>1, <1>2, ExpiredEntry, AskedEntry DEF HandedOn

LEMMA TurnHandsOn ==
  ASSUME CacheTyped, Looked, NEW after \in SUBSET Keys, Turn(InView, after), NEW k \in DOMAIN cache'
  PROVE  HandedOn(k)
<1>1. Entry(k) \in Entries
  BY NoEntryTyped DEF Entry, CacheTyped
<1>2. cache'[k] \in {Entry(k), Asked(Entry(k)), Left(Entry(k))}
  BY TurnEntries DEF Entry, Looked
<1> QED
  BY <1>1, <1>2, AskedEntry, LeftEntry DEF HandedOn

\* what is asked for the table is asked for nothing else
LEMMA TableKeysApart ==
  ASSUME NEW k \in TableKeys
  PROVE  k \notin JobKeys /\ \A p : k # Panel(p)
<1>1. DOMAIN k = {"page", "size", "status", "rule"}
  BY DEF TableKeys
<1>2. \A j \in JobKeys : DOMAIN j = {"panel", "job"}
  BY DEF JobKeys
<1>3. \A p : DOMAIN Panel(p) = {"panel"}
  BY DEF Panel
<1> QED
  BY <1>1, <1>2, <1>3

\* so the counts hold on, while the jobs are what they are
LEMMA CountsHandedOn ==
  ASSUME CacheTyped, CountsInv, UNCHANGED jobs, \A k \in DOMAIN cache' : HandedOn(k)
  PROVE  CountsInv'
<1> SUFFICES ASSUME NEW k \in DOMAIN cache' \cap TableKeys, k.status = NoStatus
             PROVE  Counts(cache[k].data, k)' /\ Counts(cache[k].copy, k)'
  BY DEF CountsInv, TableKeys, Rules
<1>1. Total(k)' = Total(k) /\ Total(k) \in Nat
  BY MatchingFinite DEF Total
<1>2. Counts(Entry(k).data, k) /\ Counts(Entry(k).copy, k)
  BY NoEntryTyped DEF CountsInv, Counts, Entry
<1>3. Counts(Read(k), k)
  <2>1. Read(k) = Rows(jobs, k)
    BY TableKeysApart DEF Read, Answers
  <2>2. Read(k).total = Total(k)
    BY <2>1 DEF Rows, Total
  <2> QED
    BY <2>2, <1>1 DEF Counts
<1> QED
  BY <1>1, <1>2, <1>3 DEF HandedOn, Counts

LEMMA TableInvInit == RvInit => TableInv
<1> SUFFICES ASSUME RvInit PROVE TableInv
  OBVIOUS
<1>1. AgreeInv
  BY AgreeInvInit
<1>2. CountsInv
  BY NoEntryTyped, AskedEntry DEF RvInit, CountsInv, Counts
<1>3. PageExists
  <2>1. page = 1 /\ size \in Nat \ {0} /\ Total(TableHere) \in Nat
    BY JobSizesAssumption, MatchingFinite DEF RvInit, Total
  <2> QED
    BY <2>1, LastPageGrows DEF PageExists, Total
<1> QED
  BY <1>1, <1>2, <1>3 DEF TableInv

LEMMA BackgroundKeepsTable ==
  ASSUME TableInv, Background \/ Interrupted
  PROVE  CountsInv' /\ PageExists'
<1>1. /\ AgreeInv /\ CacheTyped /\ PageTyped
      /\ UNCHANGED <<jobs, tab, rule, page, size, status, viewer>>
  BY DEF TableInv, AgreeInv, TypeInv, Background, Interrupted, tableVars
<1>2. PageExists'
  BY <1>1 DEF TableInv, PageExists, TableHere, LastPage
<1>3. CASE Reads(InView, Read) \/ \E j \in DOMAIN cache : FailRead(j)
  <2>1. \A k \in DOMAIN cache' : HandedOn(k)
    BY <1>1, <1>3, ReadsHandOn
  <2> QED
    BY <2>1, <1>1, <1>2, CountsHandedOn DEF TableInv
<1>4. CASE OpenStream(InView, AllKeys) \/ Flush(InView, AllKeys)
  <2>1. Invalidate(InView, AllKeys)
    BY <1>4 DEF OpenStream, Flush
  <2>2. \A k \in DOMAIN cache' : HandedOn(k)
    BY <2>1, <1>1, InvalidateHandsOn
  <2> QED
    BY <2>2, <1>1, <1>2, CountsHandedOn DEF TableInv
<1>5. CASE UNCHANGED cache
  BY <1>1, <1>2, <1>5 DEF TableInv, CountsInv, Counts, Total
<1> QED
  BY <1>2, <1>3, <1>4, <1>5
     DEF Background, Interrupted, Listen, Retry, Notified, DropStream, LoseConnection

LEMMA ChangeJobKeepsTable ==
  ASSUME TableInv, NEW j \in Jobs, ChangeJob(j)
  PROVE  CountsInv' /\ PageExists'
<1>1. PICK s \in Statuses : jobs' = [jobs EXCEPT ![j] = s]
  BY DEF ChangeJob, Statuses
<1>2. /\ jobs \in States /\ UNCHANGED <<cache, tab, rule, page, size, status, viewer>>
      /\ size \in Nat \ {0} /\ page \in Nat
  BY JobSizesAssumption
     DEF TableInv, AgreeInv, TypeInv, PageTyped, ChangeJob, Notice, tableVars, TableHere, TableKeys
<1>3. \A k : k.status = NoStatus =>
                Total(k) \in Nat /\ Total(k)' \in Nat /\ Total(k) <= Total(k)'
  BY <1>1, <1>2, TotalGrows
<1>4. CountsInv'
  <2> SUFFICES ASSUME NEW k \in DOMAIN cache' \cap TableKeys, k.status = NoStatus
               PROVE  Counts(cache[k].data, k)' /\ Counts(cache[k].copy, k)'
    BY DEF CountsInv, TableKeys, Rules
  <2> QED
    BY <1>2, <1>3 DEF TableInv, CountsInv, Counts
<1>5. PageExists'
  <2> SUFFICES ASSUME status = NoStatus PROVE page <= LastPage(Total(TableHere)')
    BY <1>2 DEF PageExists, Total, LastPage, TableHere
  <2>1. page <= LastPage(Total(TableHere))
    BY DEF TableInv, PageExists, Total
  <2>2. UNCHANGED TableHere /\ TableHere.status = NoStatus
    BY <1>2 DEF TableHere
  <2>3. /\ Total(TableHere) \in Nat /\ Total(TableHere)' \in Nat
        /\ Total(TableHere) <= Total(TableHere)'
    BY <2>2, <1>3
  <2>4. ASSUME NEW a \in Nat, NEW b \in Nat, a <= b, page <= LastPage(a)
        PROVE  page <= LastPage(b)
    BY <2>4, <1>2, LastPageGrows
  <2> QED
    BY <2>1, <2>3, <2>4
<1> QED
  BY <1>4, <1>5
\* whoever clicks comes to the first page, or to one that the pager offers
LEMMA ClickKeepsTable ==
  ASSUME TableInv, PageTyped',
         \/ \E t \in Tabs : PickTab(t)
         \/ \E r \in Rules : PickRule(r)
         \/ \E s \in Statuses \cup {NoStatus} : PickStatus(s)
         \/ \E p \in 1..Cardinality(Jobs) : TurnPage(p)
         \/ \E n \in Sizes : PickSize(n)
         \/ \E k \in JobKeys : OpenViewer(k)
         \/ CloseViewer
  PROVE  CountsInv' /\ PageExists'
<1>1. /\ AgreeInv /\ CacheTyped /\ Looked /\ PageTyped /\ TableHere \in TableKeys
      /\ Turn(InView, InView') /\ UNCHANGED jobs
  BY DEF TableInv, AgreeInv, TypeInv, PageTyped, PickTab, PickRule, PickStatus, TurnPage, PickSize,
         OpenViewer, CloseViewer, TurnTo
<1>2. InView' \in SUBSET Keys
  BY DEF PageTyped, InView, OfTab, Keys, AllKeys
<1>3. CountsInv'
  <2>1. \A k \in DOMAIN cache' : HandedOn(k)
    BY <1>1, <1>2, TurnHandsOn
  <2> QED
    BY <2>1, <1>1, CountsHandedOn DEF TableInv
<1>4. size \in Nat \ {0} /\ size' \in Nat \ {0}
  <2>1. size \in Sizes
    BY <1>1 DEF TableHere, TableKeys
  <2>2. TableHere' \in TableKeys'
    BY DEF PageTyped
  <2>3. size' \in Sizes
    BY <2>2 DEF TableHere, TableKeys
  <2> QED
    BY <2>1, <2>3, JobSizesAssumption
<1>5. ASSUME page' = 1 PROVE PageExists'
  <2>1. Total(TableHere)' \in Nat
    BY MatchingFinite DEF Total
  <2>2. \A n \in Nat \ {0}, b \in Nat : 1 <= (IF b = 0 THEN 1 ELSE (b + n - 1) \div n)
    OBVIOUS
  <2>3. 1 <= LastPage(Total(TableHere))'
    BY <2>1, <2>2, <1>4 DEF LastPage
  <2> QED
    BY <2>3, <1>5 DEF PageExists, Total
<1>6. ASSUME UNCHANGED <<rule, page, size, status>> PROVE PageExists'
  BY <1>1, <1>6 DEF TableInv, PageExists, TableHere, LastPage
<1>7. ASSUME NEW p \in 1..Cardinality(Jobs), TurnPage(p)
      PROVE  PageExists'
  <2> SUFFICES ASSUME status = NoStatus PROVE p <= LastPage(Total(TableHere)')
    BY <1>7 DEF PageExists, Total, TurnPage, LastPage
  <2>1. p <= LastPage(Shown.total) /\ UNCHANGED <<rule, size, status>>
    BY <1>7 DEF TurnPage, LastPage
  <2>2. Total(TableHere)' = Total(TableHere) /\ Total(TableHere) \in Nat
    <3>1. Total(TableHere) \in Nat
      BY MatchingFinite DEF Total
    <3> QED
      BY <2>1, <3>1, <1>1 DEF Total, TableHere, Matching
  <2>3. Shown.total \in 0..Total(TableHere)
    <3>1. CASE Entry(TableHere).data = Missing
      BY <3>1, <2>2 DEF Shown
    <3>2. CASE Entry(TableHere).data # Missing
      <4>1. TableHere \in DOMAIN cache \cap TableKeys /\ TableHere.status = NoStatus
        BY <3>2, <1>1, NoEntryTyped DEF Entry, TableHere
      <4> QED
        BY <3>2, <4>1 DEF TableInv, CountsInv, Counts, Shown, Entry
    <3> QED
      BY <3>1, <3>2
  <2>4. ASSUME NEW a \in Nat, NEW b \in Nat, a <= b, p <= LastPage(a)
        PROVE  p <= LastPage(b)
    BY <2>4, <1>4, LastPageGrows
  <2> QED
    BY <2>1, <2>2, <2>3, <2>4
<1> QED
  BY <1>3, <1>5, <1>6, <1>7
     DEF PickTab, PickRule, PickStatus, PickSize, OpenViewer, CloseViewer, FreshTable

LEMMA TableInvStep == TableInv /\ [RvNext]_rvVars => TableInv'
<1> SUFFICES ASSUME TableInv, [RvNext]_rvVars PROVE TableInv'
  OBVIOUS
<1>1. AgreeInv' /\ PageTyped'
  BY AgreeInvStep DEF TableInv, AgreeInv, TypeInv
<1>2. CASE Background \/ Interrupted
  BY <1>1, <1>2, BackgroundKeepsTable DEF TableInv
<1>3. CASE \E j \in Jobs : ChangeJob(j)
  BY <1>1, <1>3, ChangeJobKeepsTable DEF TableInv
<1>4. CASE \/ \E t \in Tabs : PickTab(t)
           \/ \E r \in Rules : PickRule(r)
           \/ \E s \in Statuses \cup {NoStatus} : PickStatus(s)
           \/ \E p \in 1..Cardinality(Jobs) : TurnPage(p)
           \/ \E n \in Sizes : PickSize(n)
           \/ \E k \in JobKeys : OpenViewer(k)
           \/ CloseViewer
  BY <1>1, <1>4, ClickKeepsTable DEF TableInv
<1>5. CASE UNCHANGED rvVars
  <2>1. UNCHANGED <<jobs, rule, page, size, status, cache>>
    BY <1>5 DEF rvVars, liveVars, cacheVars, tableVars
  <2> QED
    BY <2>1, <1>1 DEF TableInv, CountsInv, Counts, Total, PageExists, TableHere, LastPage
<1> QED
  BY <1>2, <1>3, <1>4, <1>5 DEF RvNext

(* Without a filter by status, the table is always on a page that exists:  *)
(* jobs only come, and the pager offers no page beyond those it knows of.  *)
THEOREM TablePagesExist == RvSpec => []PageExists
<1>1. TableInv => PageExists
  BY DEF TableInv
<1> QED
  BY <1>1, TableInvInit, TableInvStep, PTL DEF RvSpec
=============================================================================
