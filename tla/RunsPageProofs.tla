---------------------------- MODULE RunsPageProofs -----------------------------
(***************************************************************************)
(* What is proved of the list of runs: for any number of runs, texts, tags *)
(* and viewers, any sizes of its pages and of the stream's queue.          *)
(***************************************************************************)
EXTENDS RunsPage, FiniteSetTheorems, TLAPS

-----------------------------------------------------------------------------
(* The entries of the cache *)

AnswersTo(k) == {Answers(d, k) : d \in States}

Values == (UNION {AnswersTo(k) : k \in AllKeys}) \ {Missing}

Records == [data : Values \cup {Missing}, fresh : BOOLEAN, stage : Stages,
            copy : Values \cup {Missing}]

\* an entry that is fresh has data, and one that was read has its copy
Filled(e) == (e.fresh => e.data # Missing) /\ (e.stage = "read" => e.copy # Missing)

Entries == {e \in Records : Filled(e)}

LEMMA ValuesAreNotMissing == Missing \notin Values
BY DEF Values

LEMMA NoEntryTyped == /\ NoEntry \in Entries
                      /\ ~NoEntry.fresh /\ NoEntry.stage = "idle"
BY DEF NoEntry, Entries, Records, Filled, Stages

\* every operator on an entry gives an entry; what it leaves of the old one
LEMMA AskedEntry ==
  ASSUME NEW e \in Entries
  PROVE  /\ Asked(e) \in Entries
         /\ ~Asked(e).fresh /\ Asked(e).stage = "sent"
<1>1. Asked(e) \in Records /\ ~Asked(e).fresh /\ Asked(e).stage = "sent"
  BY DEF Asked, Entries, Records, Stages
<1> QED
  BY <1>1 DEF Entries, Filled

LEMMA LeftEntry ==
  ASSUME NEW e \in Entries
  PROVE  /\ Left(e) \in Entries
         /\ Left(e).fresh = e.fresh /\ Left(e).stage = "idle" /\ Left(e).data = e.data
<1>1. /\ Left(e) \in Records
      /\ Left(e).fresh = e.fresh /\ Left(e).stage = "idle" /\ Left(e).data = e.data
  BY DEF Left, Entries, Records, Stages
<1> QED
  BY <1>1 DEF Entries, Filled

LEMMA ExpiredEntry ==
  ASSUME NEW e \in Entries
  PROVE  /\ Expired(e) \in Entries
         /\ ~Expired(e).fresh /\ Expired(e).stage = e.stage /\ Expired(e).copy = e.copy
<1>1. /\ Expired(e) \in Records
      /\ ~Expired(e).fresh /\ Expired(e).stage = e.stage /\ Expired(e).copy = e.copy
  BY DEF Expired, Entries, Records, Stages
<1> QED
  BY <1>1 DEF Entries, Filled

LEMMA AnsweredEntry ==
  ASSUME NEW e \in Entries, e.stage = "read"
  PROVE  /\ Answered(e) \in Entries
         /\ Answered(e).fresh /\ Answered(e).stage = "idle" /\ Answered(e).data = e.copy
<1>1. /\ Answered(e) \in Records
      /\ Answered(e).fresh /\ Answered(e).stage = "idle" /\ Answered(e).data = e.copy
  BY DEF Answered, Entries, Records, Stages
<1>2. e.copy # Missing
  BY DEF Entries, Filled
<1> QED
  BY <1>1, <1>2 DEF Entries, Filled

LEMMA ReadEntry ==
  ASSUME NEW e \in Entries, NEW v \in Values
  PROVE  /\ ReadAs(e, v) \in Entries
         /\ ReadAs(e, v).fresh = e.fresh /\ ReadAs(e, v).stage = "read" /\ ReadAs(e, v).copy = v
<1>1. /\ ReadAs(e, v) \in Records
      /\ ReadAs(e, v).fresh = e.fresh /\ ReadAs(e, v).stage = "read" /\ ReadAs(e, v).copy = v
      /\ ReadAs(e, v).data = e.data
  BY DEF ReadAs, Entries, Records, Stages
<1>2. v # Missing
  BY ValuesAreNotMissing
<1> QED
  BY <1>1, <1>2 DEF Entries, Filled

-----------------------------------------------------------------------------
(* The inductive invariant *)

CacheTyped == /\ cache \in [DOMAIN cache -> Entries] /\ DOMAIN cache \subseteq AllKeys
              /\ missed \subseteq DOMAIN cache

\* what is asked for is in view, and what is in view is asked for or fresh, or its
\* last read failed
Asking == \A k \in DOMAIN cache : cache[k].stage # "idle" => k \in InView /\ ~cache[k].fresh

Looked == \A k \in InView : /\ k \in DOMAIN cache
                            /\ cache[k].fresh \/ cache[k].stage # "idle" \/ k \in missed

ViewTyped ==
  /\ Here \in ListKeys /\ localName \in Texts /\ timer \in BOOLEAN
  /\ viewer \in FileKeys \cup {Nothing}

ServerTyped ==
  /\ db \in States /\ past \subseteq Runs
  /\ deletion \in [Runs -> {"none", "sent", "done", "failed"}]

Notices == [op : {"INSERT", "UPDATE", "DELETE"}, id : Runs]

StreamTyped ==
  /\ stream \in {"connecting", "open", "listening", "retry"}
  /\ notices \in Seq(Notices) /\ due \in BOOLEAN

TypeInv == CacheTyped /\ Asking /\ Looked /\ ViewTyped /\ ServerTyped /\ StreamTyped

\* notices of a kind that are on their way
Coming(ops, w) == \E i \in DOMAIN notices : notices[i].op \in ops /\ notices[i].id = w

\* something that is still to happen makes the page read again
Behind == \/ due \/ stream \in {"connecting", "retry"}
          \/ \E w \in Runs : Coming({"INSERT", "DELETE"}, w)

(* A list without a filter by status holds the right runs; only their      *)
(* status may be one that a notice on its way announces.                   *)
Steady(k) == k \in ListKeys /\ k.status = NoText

Listing(k, s) == [rows  |-> {[id |-> w, status |-> s[w]] : w \in OnPage(db, k)},
                  total |-> Cardinality(Matching(db, k))]

Like(v, k) == \E s \in States :
  v = Listing(k, s) /\ \A w \in OnPage(db, k) : s[w] = db[w] \/ Coming({"UPDATE"}, w)

Right(v, k) == IF Steady(k) THEN Like(v, k) ELSE notices = <<>> => v = Read(k)

\* the answer that is shown, and one that is on its way
Current(k) == /\ cache[k].fresh => Right(cache[k].data, k)
              /\ cache[k].stage = "read" => Right(cache[k].copy, k)

UpToDate == Behind \/ \A k \in DOMAIN cache : k \in missed \/ Current(k)

ListInv == TypeInv /\ UpToDate

LEMMA KeysInView == ViewTyped => InView \subseteq AllKeys
BY DEF ViewTyped, InView, AllKeys

LEMMA ReadIsValue ==
  ASSUME ServerTyped, NEW k \in AllKeys, Read(k) # Missing
  PROVE  Read(k) \in Values
BY DEF ServerTyped, Read, Values, AnswersTo

\* what is read now is right
LEMMA ReadIsRight == ASSUME ServerTyped, NEW k PROVE Right(Read(k), k)
<1>1. CASE Steady(k)
  <2>1. Read(k) = Listing(k, db)
    BY <1>1 DEF Steady, Read, Answers, Rows, Listing
  <2> QED
    BY <1>1, <2>1 DEF Right, Like, ServerTyped
<1>2. CASE ~Steady(k)
  BY <1>2 DEF Right
<1> QED
  BY <1>1, <1>2

\* and what is right is what would be read, once no notice is on its way
LEMMA RightIsRead ==
  ASSUME ServerTyped, notices = <<>>, NEW k, NEW v, Right(v, k)
  PROVE  v = Read(k)
<1>1. CASE Steady(k)
  <2>1. PICK s \in States :
          v = Listing(k, s) /\ \A w \in OnPage(db, k) : s[w] = db[w] \/ Coming({"UPDATE"}, w)
    BY <1>1 DEF Right, Like
  <2>2. \A w \in OnPage(db, k) : s[w] = db[w]
    BY <2>1 DEF Coming
  <2>3. Listing(k, s) = Listing(k, db)
    BY <2>2 DEF Listing
  <2> QED
    BY <1>1, <2>1, <2>3 DEF Steady, Read, Answers, Rows, Listing
<1>2. CASE ~Steady(k)
  BY <1>2 DEF Right
<1> QED
  BY <1>1, <1>2

\* it stays right while neither the runs change nor a notice comes or goes
LEMMA RightStays ==
  ASSUME UNCHANGED <<db, notices>>
  PROVE  \A k, v : Right(v, k) <=> Right(v, k)'
BY DEF Right, Steady, Like, Listing, Coming, Read

LEMMA FirstPage == 1 \in 1..Cardinality(Runs)
<1>1. Cardinality(Runs) \in Nat /\ Cardinality(Runs) # 0
  BY RunsAssumption, FS_CardinalityType, FS_EmptySet
<1> QED
  BY <1>1

LEMMA ListInvInit == RpInit => ListInv
<1> SUFFICES ASSUME RpInit PROVE ListInv
  OBVIOUS
<1>1. ViewTyped
  <2>1. Here \in ListKeys
    BY FirstPage, SizesAssumption, TrimAssumption DEF RpInit, Here, ListKeys
  <2> QED
    BY <2>1, TrimAssumption DEF RpInit, ViewTyped
<1>2. InView = {Here}
  BY DEF RpInit, InView
<1>3. DOMAIN cache = InView /\ \A k \in InView : cache[k] = Asked(NoEntry)
  BY <1>2 DEF RpInit
<1>4. CacheTyped
  <2>1. cache \in [InView -> Entries]
    BY <1>2, <1>3, NoEntryTyped, AskedEntry DEF RpInit
  <2>2. missed = {}
    BY DEF RpInit
  <2> QED
    BY <2>1, <2>2, <1>1, <1>3, KeysInView DEF CacheTyped
<1>5. Asking /\ Looked
  BY <1>3, NoEntryTyped, AskedEntry DEF Asking, Looked
<1>6. ServerTyped
  BY StartAssumption DEF RpInit, ServerTyped
<1>7. StreamTyped
  <2>1. notices \in Seq(Notices)
    BY DEF RpInit
  <2> QED
    BY <2>1 DEF RpInit, StreamTyped
<1>8. UpToDate
  BY DEF RpInit, UpToDate, Behind
<1> QED
  BY <1>1, <1>4, <1>5, <1>6, <1>7, <1>8 DEF ListInv, TypeInv
-----------------------------------------------------------------------------
(* The cache *)

LEMMA TurnEntries ==
  ASSUME CacheTyped, NEW before, NEW after \in SUBSET AllKeys, Turn(before, after), UNCHANGED missed,
         \A k \in before : k \in DOMAIN cache /\ (cache[k].fresh \/ cache[k].stage # "idle" \/ k \in missed)
  PROVE  /\ CacheTyped'
         /\ DOMAIN cache' = DOMAIN cache \cup after
         /\ \A k \in after : \/ /\ k \in DOMAIN cache /\ cache'[k] = cache[k]
                                /\ cache[k].fresh \/ cache[k].stage # "idle" \/ k \in missed
                             \/ cache'[k] = Asked(Entry(k))
         /\ \A k \in DOMAIN cache \ after :
              cache'[k] = IF k \in before THEN Left(cache[k]) ELSE cache[k]
<1>1. /\ DOMAIN cache' = DOMAIN cache \cup after
      /\ cache' = [k \in DOMAIN cache \cup after |-> cache'[k]]
      /\ \A k \in after \ before : cache'[k] = Observed(Entry(k))
      /\ \A k \in after \cap before : cache'[k] = cache[k]
      /\ \A k \in DOMAIN cache \ after :
           cache'[k] = IF k \in before THEN Left(cache[k]) ELSE cache[k]
  BY DEF Turn
<1>2. \A k : Entry(k) \in Entries
  BY NoEntryTyped DEF Entry, CacheTyped
<1>3. ASSUME NEW k \in after
      PROVE  \/ /\ k \in DOMAIN cache /\ cache'[k] = cache[k]
                /\ cache[k].fresh \/ cache[k].stage # "idle" \/ k \in missed
             \/ cache'[k] = Asked(Entry(k))
  BY <1>1, NoEntryTyped DEF Observed, Entry
<1>4. \A k \in DOMAIN cache' : cache'[k] \in Entries
  BY <1>1, <1>2, <1>3, AskedEntry, LeftEntry DEF CacheTyped
<1>5. CacheTyped'
  <2>1. cache' \in [DOMAIN cache' -> Entries]
    BY <1>1, <1>4
  <2> QED
    BY <2>1, <1>1 DEF CacheTyped
<1> QED
  BY <1>1, <1>3, <1>5

LEMMA TurnKeeps ==
  ASSUME ListInv, ViewTyped', TurnTo
  PROVE  ListInv'
<1>1. /\ Turn(InView, InView')
      /\ UNCHANGED <<db, past, deletion, stream, notices, due, missed>>
  BY DEF TurnTo, streamVars
<1>2. InView' \in SUBSET AllKeys
  BY DEF ViewTyped, InView, AllKeys
<1>3. CacheTyped /\ Asking /\ Looked /\ ServerTyped /\ StreamTyped
  BY DEF ListInv, TypeInv
<1>4. /\ CacheTyped'
      /\ DOMAIN cache' = DOMAIN cache \cup InView'
      /\ \A k \in InView' : \/ /\ k \in DOMAIN cache /\ cache'[k] = cache[k]
                               /\ cache[k].fresh \/ cache[k].stage # "idle" \/ k \in missed
                            \/ cache'[k] = Asked(Entry(k))
      /\ \A k \in DOMAIN cache \ InView' :
           cache'[k] = IF k \in InView THEN Left(cache[k]) ELSE cache[k]
  BY <1>1, <1>2, <1>3, TurnEntries DEF Looked
<1>5. \A k : Entry(k) \in Entries
  BY <1>3, NoEntryTyped DEF Entry, CacheTyped
<1>6. Asking'
  <2> SUFFICES ASSUME NEW k \in DOMAIN cache', cache'[k].stage # "idle"
               PROVE  k \in InView' /\ ~cache'[k].fresh
    BY DEF Asking
  <2>1. CASE k \in InView'
    BY <2>1, <1>3, <1>4, <1>5, AskedEntry DEF Asking
  <2>2. CASE k \notin InView'
    BY <2>2, <1>3, <1>4, LeftEntry DEF Asking, CacheTyped
  <2> QED
    BY <2>1, <2>2
<1>7. Looked'
  BY <1>1, <1>4, <1>5, AskedEntry DEF Looked
<1>8. UpToDate'
  <2> SUFFICES ASSUME ~Behind', NEW k \in DOMAIN cache', k \notin missed'
               PROVE  Current(k)'
    BY DEF UpToDate
  <2>1. k \in DOMAIN cache => Current(k)
    BY <1>1 DEF ListInv, UpToDate, Behind, Coming
  <2>2. \A v : Right(v, k) <=> Right(v, k)'
    BY <1>1, RightStays
  <2>3. CASE k \in InView'
    BY <2>1, <2>2, <2>3, <1>4, <1>5, AskedEntry DEF Current
  <2>4. CASE k \notin InView'
    BY <2>1, <2>2, <2>4, <1>3, <1>4, LeftEntry DEF Current, CacheTyped
  <2> QED
    BY <2>3, <2>4
<1>9. ServerTyped' /\ StreamTyped'
  BY <1>1, <1>3 DEF ServerTyped, StreamTyped
<1> QED
  BY <1>4, <1>6, <1>7, <1>8, <1>9 DEF ListInv, TypeInv

\* for a step that leaves what the page shows
LEMMA SameView ==
  ASSUME UNCHANGED <<page, size, status, name, tag, viewer>>
  PROVE  UNCHANGED <<Here, InView>>
BY DEF InView, Here

(* One entry changes, of a page that shows what it did; it is enough that  *)
(* the new entry is as it should be.                                       *)
LEMMA OneEntryKeeps ==
  ASSUME ListInv, NEW k \in DOMAIN cache, NEW e \in Entries,
         cache' = [cache EXCEPT ![k] = e], missed' \in {missed, missed \ {k}, missed \cup {k}},
         UNCHANGED <<pageVars, streamVars>>,
         e.stage # "idle" => k \in InView /\ ~e.fresh,
         k \in InView => e.fresh \/ e.stage # "idle" \/ k \in missed',
         Behind \/ k \in missed' \/ ((e.fresh => Right(e.data, k)) /\ (e.stage = "read" => Right(e.copy, k)))
  PROVE  ListInv'
<1>1. CacheTyped /\ Asking /\ Looked /\ ViewTyped /\ ServerTyped /\ StreamTyped
  BY DEF ListInv, TypeInv
<1>2. /\ UNCHANGED <<db, past, page, size, status, name, tag, localName, timer, viewer, deletion,
                     stream, notices, due>>
      /\ UNCHANGED <<Here, InView>>
  BY SameView DEF pageVars, searchVars, streamVars
<1>3. /\ DOMAIN cache' = DOMAIN cache /\ cache'[k] = e
      /\ \A j \in DOMAIN cache \ {k} : cache'[j] = cache[j]
      /\ cache' = [j \in DOMAIN cache |-> cache'[j]]
  BY <1>1 DEF CacheTyped
<1>4. CacheTyped'
  <2>1. \A j \in DOMAIN cache : cache'[j] \in Entries
    BY <1>1, <1>3 DEF CacheTyped
  <2>2. cache' \in [DOMAIN cache' -> Entries]
    BY <2>1, <1>3
  <2> QED
    BY <2>2, <1>1, <1>3 DEF CacheTyped
<1>5. Asking' /\ Looked'
  BY <1>1, <1>2, <1>3 DEF Asking, Looked
<1>6. ViewTyped' /\ ServerTyped' /\ StreamTyped'
  BY <1>1, <1>2 DEF ViewTyped, ServerTyped, StreamTyped
<1>7. UpToDate'
  <2> SUFFICES ASSUME ~Behind', NEW j \in DOMAIN cache', j \notin missed'
               PROVE  Current(j)'
    BY DEF UpToDate
  <2>1. ~Behind
    BY <1>2 DEF Behind, Coming
  <2>2. \A v : Right(v, j) <=> Right(v, j)'
    BY <1>2, RightStays
  <2>3. CASE j = k
    BY <2>1, <2>2, <2>3, <1>3 DEF Current
  <2>4. CASE j # k
    <3>1. Current(j)
      BY <2>1, <2>4, <1>3 DEF ListInv, UpToDate
    <3> QED
      BY <3>1, <2>2, <2>4, <1>3 DEF Current
  <2> QED
    BY <2>3, <2>4
<1> QED
  BY <1>4, <1>5, <1>6, <1>7 DEF ListInv, TypeInv

\* a read that fails leaves an entry that is known to be outdated
LEMMA FailReadKeeps ==
  ASSUME ListInv, NEW k \in DOMAIN cache, FailRead(k), UNCHANGED <<pageVars, streamVars>>
  PROVE  ListInv'
<1> DEFINE e == Left(cache[k])
<1>1. cache[k] \in Entries
  BY DEF ListInv, TypeInv, CacheTyped
<1>2. e \in Entries /\ e.stage = "idle"
  BY <1>1, LeftEntry
<1>3. cache' = [cache EXCEPT ![k] = e] /\ missed' = missed \cup {k}
  BY DEF FailRead
<1> HIDE DEF e
<1> QED
  BY <1>2, <1>3, OneEntryKeeps

LEMMA ReadsKeep ==
  ASSUME ListInv, Reads(InView, Read), UNCHANGED <<pageVars, streamVars>>
  PROVE  ListInv'
<1>1. CacheTyped /\ Asking /\ Looked /\ ViewTyped /\ ServerTyped
  BY DEF ListInv, TypeInv
<1>2. PICK k \in DOMAIN cache : \/ Read(k) # Missing /\ ServeRead(k, Read(k))
                                \/ FailRead(k) \/ Answer(k) \/ Expire(k, InView)
  BY DEF Reads
<1> DEFINE e == cache[k]
<1>3. e \in Entries /\ (Read(k) # Missing => Read(k) \in Values)
  BY <1>1, ReadIsValue DEF CacheTyped
<1>4. Behind \/ k \in missed \/ Current(k)
  BY DEF ListInv, UpToDate
<1>5. CASE Read(k) # Missing /\ ServeRead(k, Read(k))
  <2>1. /\ e.stage = "sent" /\ missed' = missed \ {k}
        /\ cache' = [cache EXCEPT ![k] = ReadAs(e, Read(k))]
    BY <1>5 DEF ServeRead
  <2>2. k \in InView /\ ~e.fresh
    BY <1>1, <2>1 DEF Asking
  <2>3. Right(Read(k), k)
    BY <1>1, ReadIsRight
  <2> DEFINE r == ReadAs(e, Read(k))
  <2>4. /\ r \in Entries
        /\ ~r.fresh /\ r.stage = "read" /\ Right(r.copy, k)
    BY <1>3, <1>5, <2>2, <2>3, ReadEntry
  <2>5. missed' = missed \ {k} /\ cache' = [cache EXCEPT ![k] = r]
    BY <2>1
  <2> HIDE DEF r
  <2> QED
    BY <2>2, <2>4, <2>5, OneEntryKeeps
<1>6. CASE Answer(k)
  <2>1. /\ e.stage = "read" /\ missed' = missed
        /\ cache' = [cache EXCEPT ![k] = Answered(e)]
    BY <1>6 DEF Answer
  <2> QED
    BY <1>3, <1>4, <2>1, AnsweredEntry, OneEntryKeeps DEF Current
<1>7. CASE Expire(k, InView)
  <2>1. /\ k \notin InView /\ missed' = missed
        /\ cache' = [cache EXCEPT ![k] = Expired(e)]
    BY <1>7 DEF Expire
  <2>2. e.stage = "idle"
    BY <1>1, <2>1 DEF Asking
  <2> QED
    BY <1>3, <1>4, <2>1, <2>2, ExpiredEntry, OneEntryKeeps DEF Current
<1> QED
  BY <1>2, <1>5, <1>6, <1>7, FailReadKeeps

(* An invalidation of the entries in tagged makes up for every change      *)
(* there has been, but in an entry's first request whose answer is on its  *)
(* way; it leaves the others.                                              *)
LEMMA InvalidateEntries ==
  ASSUME TypeInv, NEW tagged, Invalidate(InView, tagged), UNCHANGED InView
  PROVE  /\ CacheTyped' /\ Asking' /\ Looked'
         /\ DOMAIN cache' = DOMAIN cache /\ missed \subseteq missed'
         /\ \A k \in DOMAIN cache \cap tagged :
              k \in missed' \/ (~cache'[k].fresh /\ cache'[k].stage # "read")
         /\ \A k \in DOMAIN cache \ tagged : cache'[k] = cache[k]
<1>1. CacheTyped /\ Asking /\ Looked
  BY DEF TypeInv
<1>2. /\ DOMAIN cache' = DOMAIN cache /\ missed \subseteq missed' /\ missed' \subseteq missed \cup DOMAIN cache
      /\ cache' = [k \in DOMAIN cache |-> cache'[k]]
      /\ \A k \in DOMAIN cache :
           cache'[k] = IF k \in tagged THEN Invalidated(cache[k], k \in InView) ELSE cache[k]
      /\ \A k \in InView \cap tagged \cap DOMAIN cache : Overtaken(cache[k]) => k \in missed'
  BY DEF Invalidate
<1>3. ASSUME NEW k \in DOMAIN cache
      PROVE  /\ cache'[k] \in Entries
             /\ cache'[k].stage # "idle" => k \in InView /\ ~cache'[k].fresh
             /\ k \in InView => cache'[k].fresh \/ cache'[k].stage # "idle" \/ k \in missed'
             /\ k \in tagged => k \in missed' \/ (~cache'[k].fresh /\ cache'[k].stage # "read")
  <2>1. /\ cache[k] \in Entries
        /\ cache[k].stage # "idle" => k \in InView /\ ~cache[k].fresh
        /\ k \in InView => cache[k].fresh \/ cache[k].stage # "idle" \/ k \in missed
    BY <1>1 DEF CacheTyped, Asking, Looked
  <2>2. CASE k \notin tagged
    BY <2>1, <2>2, <1>2
  <2>3. CASE k \in tagged /\ k \notin InView
    <3>1. cache'[k] = Expired(cache[k])
      BY <2>3, <1>2 DEF Invalidated, Expired
    <3> QED
      BY <3>1, <2>1, <2>3, ExpiredEntry
  <2>4. CASE k \in tagged /\ k \in InView /\ cache[k].data = Missing /\ cache[k].stage # "idle"
    <3>1. cache'[k] = cache[k]
      BY <2>4, <1>2 DEF Invalidated
    <3>2. cache[k].stage = "read" => k \in missed'
      BY <2>4, <1>2 DEF Overtaken
    <3> QED
      BY <3>1, <3>2, <2>1, <2>4
  <2>5. CASE k \in tagged /\ k \in InView /\ ~(cache[k].data = Missing /\ cache[k].stage # "idle")
    <3>1. cache'[k] = Asked(cache[k])
      BY <2>5, <1>2 DEF Invalidated
    <3> QED
      BY <3>1, <2>1, <2>5, AskedEntry
  <2> QED
    BY <2>2, <2>3, <2>4, <2>5
<1>4. CacheTyped'
  <2>1. cache' \in [DOMAIN cache' -> Entries]
    BY <1>2, <1>3
  <2> QED
    BY <2>1, <1>1, <1>2 DEF CacheTyped
<1>5. Asking' /\ Looked'
  BY <1>1, <1>2, <1>3 DEF Asking, Looked
<1> QED
  BY <1>2, <1>3, <1>4, <1>5

\* all of them, of runs that stay what they are
LEMMA InvalidateAllKeeps ==
  ASSUME ListInv, Invalidate(InView, AllKeys), UNCHANGED InView, ViewTyped', ServerTyped', StreamTyped'
  PROVE  ListInv'
<1>1. TypeInv /\ DOMAIN cache \subseteq AllKeys
  BY DEF ListInv, TypeInv, CacheTyped
<1>2. /\ CacheTyped' /\ Asking' /\ Looked'
      /\ DOMAIN cache' = DOMAIN cache
      /\ \A k \in DOMAIN cache : k \in missed' \/ (~cache'[k].fresh /\ cache'[k].stage # "read")
  BY <1>1, InvalidateEntries
<1>3. UpToDate'
  BY <1>2 DEF UpToDate, Current
<1> QED
  BY <1>2, <1>3 DEF ListInv, TypeInv
-----------------------------------------------------------------------------
(* The stream of notices *)

LEMMA OpenOrFlushKeeps ==
  ASSUME ListInv, OpenStream(InView, AllKeys) \/ Flush(InView, AllKeys), UNCHANGED pageVars
  PROVE  ListInv'
<1>1. /\ Invalidate(InView, AllKeys)
      /\ UNCHANGED notices /\ due' \in {FALSE, due} /\ stream' \in {"open", stream}
  BY DEF OpenStream, Flush
<1>2. UNCHANGED <<db, past, page, size, status, name, tag, localName, timer, viewer, deletion>>
      /\ UNCHANGED <<Here, InView>>
  BY SameView DEF pageVars, searchVars
<1>3. ViewTyped' /\ ServerTyped' /\ StreamTyped'
  BY <1>1, <1>2 DEF ListInv, TypeInv, ViewTyped, ServerTyped, StreamTyped
<1> QED
  BY <1>1, <1>2, <1>3, InvalidateAllKeeps

\* the stream goes on, or is interrupted
LEMMA StreamKeeps ==
  ASSUME ListInv, Listen \/ Retry \/ DropStream \/ LoseConnection, UNCHANGED pageVars
  PROVE  ListInv'
<1>1. /\ UNCHANGED <<cache, missed, due>>
      /\ \/ stream' \in {"open", "listening"} /\ stream \in {"open", "listening"} /\ UNCHANGED notices
         \/ stream = "retry" /\ stream' = "connecting" /\ UNCHANGED notices
         \/ stream' = "retry" /\ notices' = <<>>
  BY DEF Listen, Retry, DropStream, LoseConnection
<1>2. UNCHANGED <<db, past, page, size, status, name, tag, localName, timer, viewer, deletion>>
      /\ UNCHANGED <<Here, InView>>
  BY SameView DEF pageVars, searchVars
<1>3. ViewTyped' /\ ServerTyped' /\ CacheTyped' /\ Asking' /\ Looked'
  BY <1>1, <1>2 DEF ListInv, TypeInv, ViewTyped, ServerTyped, CacheTyped, Asking, Looked
<1>4. StreamTyped'
  <2>1. notices \in Seq(Notices) /\ <<>> \in Seq(Notices)
    BY DEF ListInv, TypeInv, StreamTyped
  <2>2. notices' \in Seq(Notices)
    BY <1>1, <2>1
  <2> QED
    BY <1>1, <2>2 DEF ListInv, TypeInv, StreamTyped
<1>5. UpToDate'
  <2>1. CASE {stream, stream'} \subseteq {"open", "listening"} /\ UNCHANGED notices
    <3> SUFFICES ASSUME ~Behind', NEW k \in DOMAIN cache', k \notin missed'
                 PROVE  Current(k)'
      BY DEF UpToDate
    <3>1. Current(k)
      BY <2>1, <1>1 DEF ListInv, UpToDate, Behind, Coming
    <3>2. \A v : Right(v, k) <=> Right(v, k)'
      BY <2>1, <1>2, RightStays
    <3> QED
      BY <3>1, <3>2, <1>1 DEF Current
  <2>2. CASE stream' \in {"connecting", "retry"}
    BY <2>2 DEF UpToDate, Behind
  <2> QED
    BY <2>1, <2>2, <1>1
<1> QED
  BY <1>3, <1>4, <1>5 DEF ListInv, TypeInv

(* A notice schedules a refresh, or it announces an update of a run that   *)
(* the list in view, as it was read, does not hold.                        *)
LEMMA NotifiedKeeps ==
  ASSUME ListInv, notices # <<>>, Notified(Concerns(Head(notices)), Outdated), UNCHANGED pageVars
  PROVE  ListInv'
<1>1. CacheTyped /\ Asking /\ Looked /\ ViewTyped /\ ServerTyped /\ StreamTyped
  BY DEF ListInv, TypeInv
<1> DEFINE h == Head(notices)
<1>2. /\ h \in Notices /\ notices[1] = h
      /\ notices' = Tail(notices) /\ notices' \in Seq(Notices)
      /\ \A i \in DOMAIN notices : i # 1 => i - 1 \in DOMAIN notices' /\ notices'[i - 1] = notices[i]
  BY <1>1 DEF StreamTyped, Notified
<1>3. /\ UNCHANGED <<cache, stream>>
      /\ \/ Concerns(h) /\ due' = TRUE /\ UNCHANGED missed
         \/ ~Concerns(h) /\ missed' = missed \cup Outdated /\ UNCHANGED due
  BY DEF Notified
<1>4. UNCHANGED <<db, past, page, size, status, name, tag, localName, timer, viewer, deletion>>
      /\ UNCHANGED <<Here, InView>>
  BY SameView DEF pageVars, searchVars
<1>5. ViewTyped' /\ ServerTyped' /\ Asking' /\ Looked' /\ CacheTyped'
  BY <1>1, <1>3, <1>4 DEF ViewTyped, ServerTyped, Asking, Looked, CacheTyped, Outdated
<1>6. StreamTyped'
  BY <1>1, <1>2, <1>3 DEF StreamTyped
<1>7. CASE Concerns(h)
  BY <1>3, <1>5, <1>6, <1>7 DEF UpToDate, Behind, ListInv, TypeInv
<1>8. CASE ~Concerns(h)
  <2> SUFFICES ASSUME ~Behind', NEW k \in DOMAIN cache', k \notin missed'
               PROVE  Current(k)'
    BY <1>5, <1>6 DEF UpToDate, ListInv, TypeInv
  <2>1. h.op = "UPDATE" /\ h.id \notin ShownIds
    BY <1>2, <1>8 DEF Concerns, Notices
  <2>2. ~Behind
    <3>1. \A w \in Runs : Coming({"INSERT", "DELETE"}, w) => Coming({"INSERT", "DELETE"}, w)'
      BY <1>2, <2>1 DEF Coming
    <3> QED
      BY <3>1, <1>3, <1>8 DEF Behind
  <2>3. /\ k \in InView /\ k \notin FileKeys /\ k.status = NoText
        /\ cache[k].stage # "read" /\ k \notin missed
    BY <1>3, <1>8 DEF Outdated
  <2>4. k = Here /\ Steady(k)
    BY <1>1, <2>3 DEF InView, ViewTyped, Steady
  <2>5. Current(k)
    BY <1>3, <2>2, <2>3 DEF ListInv, UpToDate
  <2>6. SUFFICES ASSUME cache[k].fresh PROVE Right(cache[k].data, k)'
    BY <1>3, <2>3 DEF Current
  <2> DEFINE v == cache[k].data
  <2>7. PICK s \in States :
          v = Listing(k, s) /\ \A w \in OnPage(db, k) : s[w] = db[w] \/ Coming({"UPDATE"}, w)
    BY <2>4, <2>5, <2>6 DEF Current, Right, Like
  <2>8. ShownIds = OnPage(db, k)
    <3>1. Shown = v
      BY <1>1, <1>3, <2>4, <2>6 DEF Shown, Entry, CacheTyped, Entries, Filled
    <3>2. v.rows = {[id |-> w, status |-> s[w]] : w \in OnPage(db, k)}
      BY <2>7 DEF Listing
    <3>3. ShownIds = {r.id : r \in v.rows}
      BY <3>1 DEF ShownIds
    <3> HIDE DEF v
    <3>4. \A w \in OnPage(db, k) : w \in ShownIds
      <4> SUFFICES ASSUME NEW w \in OnPage(db, k) PROVE w \in ShownIds
        OBVIOUS
      <4>1. [id |-> w, status |-> s[w]] \in v.rows
        BY <3>2
      <4> QED
        BY <3>3, <4>1
    <3>5. \A w \in ShownIds : w \in OnPage(db, k)
      BY <3>2, <3>3
    <3> QED
      BY <3>4, <3>5
  <2>9. \A w \in OnPage(db, k) : Coming({"UPDATE"}, w) => Coming({"UPDATE"}, w)'
    BY <1>2, <2>1, <2>8 DEF Coming
  <2>10. Like(v, k)'
    BY <1>3, <1>4, <2>7, <2>9 DEF Like, Listing
  <2> QED
    BY <2>4, <2>10 DEF Right, Steady
<1> QED
  BY <1>7, <1>8

LEMMA BackgroundKeeps ==
  ASSUME ListInv, Background
  PROVE  ListInv'
BY ReadsKeep, OpenOrFlushKeeps, StreamKeeps, NotifiedKeeps DEF Background
-----------------------------------------------------------------------------
(* The runs *)

\* a run whose status alone changes stays where it is in a list without a filter
LEMMA UpdateLeavesLists ==
  ASSUME db \in States, NEW w \in Runs, db[w] # "absent", NEW s \in Statuses,
         db' = [db EXCEPT ![w] = s], NEW k, Steady(k)
  PROVE  Matching(db', k) = Matching(db, k) /\ OnPage(db', k) = OnPage(db, k)
<1>1. Live(db') = Live(db)
  BY DEF Live, States, Statuses
<1>2. Matching(db', k) = Matching(db, k)
  BY <1>1 DEF Matching, Steady
<1> QED
  BY <1>2 DEF OnPage

LEMMA ChangeKeeps ==
  ASSUME ListInv, NEW w \in Runs, NEW s, NEW op, Change(w, s, op),
         \/ op = "INSERT" /\ s = "RUNNING"
         \/ op = "UPDATE" /\ s = "SUCCESS" /\ db[w] = "RUNNING"
         \/ op = "DELETE" /\ s = "absent",
         UNCHANGED <<searchVars, viewer>>,
         deletion' \in [Runs -> {"none", "sent", "done", "failed"}]
  PROVE  ListInv'
<1>1. CacheTyped /\ Asking /\ Looked /\ ViewTyped /\ ServerTyped /\ StreamTyped
  BY DEF ListInv, TypeInv
<1> DEFINE n == [op |-> op, id |-> w]
<1>2. /\ db' = [db EXCEPT ![w] = s] /\ past' \in {past, past \cup {w}}
      /\ UNCHANGED <<cache, stream, due, page, size, status, name, tag, localName, timer, viewer>>
      /\ notices' = IF stream = "listening" /\ Len(notices) < QueueSize
                      THEN Append(notices, n) ELSE notices
      /\ missed' = CASE stream = "open" -> missed \cup DOMAIN cache
                     [] stream = "listening" /\ Len(notices) >= QueueSize -> missed \cup DOMAIN cache
                     [] OTHER -> missed
  BY DEF Change, Notice, searchVars
<1>3. UNCHANGED <<Here, InView>>
  BY <1>2, SameView
<1>4. ViewTyped' /\ Asking' /\ Looked'
  BY <1>1, <1>2, <1>3 DEF ViewTyped, Asking, Looked
<1>5. CacheTyped'
  BY <1>1, <1>2 DEF CacheTyped
<1>6. ServerTyped'
  <2>1. s \in Statuses \cup {"absent"}
    BY DEF Statuses
  <2>2. db' \in States
    BY <2>1, <1>1, <1>2 DEF ServerTyped, States
  <2> QED
    BY <2>2, <1>1, <1>2 DEF ServerTyped
<1>7. n \in Notices
  BY DEF Notices
<1>8. StreamTyped'
  <2>1. notices' \in Seq(Notices)
    BY <1>1, <1>2, <1>7 DEF StreamTyped
  <2> QED
    BY <2>1, <1>1, <1>2 DEF StreamTyped
<1>9. UpToDate'
  <2>1. CASE stream \in {"connecting", "retry"}
    BY <2>1, <1>2 DEF UpToDate, Behind
  <2>2. CASE stream = "open"
    BY <2>2, <1>2 DEF UpToDate
  <2>3. CASE stream = "listening" /\ Len(notices) >= QueueSize
    BY <2>3, <1>2 DEF UpToDate
  <2>4. CASE stream = "listening" /\ ~(Len(notices) >= QueueSize)
    <3>1. Len(notices) < QueueSize
      BY <2>4, <1>1, QueueAssumption DEF StreamTyped
    <3>2. notices' = Append(notices, n) /\ missed' = missed
      BY <2>4, <3>1, <1>2
    <3>3. /\ Len(notices) + 1 \in DOMAIN notices' /\ notices'[Len(notices) + 1] = n
          /\ \A i \in DOMAIN notices : i \in DOMAIN notices' /\ notices'[i] = notices[i]
          /\ notices' # <<>>
      BY <3>2, <1>1, <1>7 DEF StreamTyped
    <3>4. \A ops, v : Coming(ops, v) => Coming(ops, v)'
      BY <3>3 DEF Coming
    <3>5. CASE op \in {"INSERT", "DELETE"}
      <4>1. Coming({"INSERT", "DELETE"}, w)'
        BY <3>3, <3>5 DEF Coming
      <4> QED
        BY <4>1 DEF UpToDate, Behind
    <3>6. CASE op = "UPDATE"
      <4> SUFFICES ASSUME ~Behind', NEW k \in DOMAIN cache', k \notin missed'
                   PROVE  Current(k)'
        BY DEF UpToDate
      <4>1. Current(k)
        BY <1>2, <3>2, <3>4 DEF ListInv, UpToDate, Behind
      <4>2. ASSUME NEW v, Right(v, k) PROVE Right(v, k)'
        <5>1. CASE Steady(k)
          <6>1. PICK t \in States :
                  v = Listing(k, t) /\ \A x \in OnPage(db, k) : t[x] = db[x] \/ Coming({"UPDATE"}, x)
            BY <4>2, <5>1 DEF Right, Like
          <6>2. Matching(db', k) = Matching(db, k) /\ OnPage(db', k) = OnPage(db, k)
            BY <1>1, <1>2, <3>6, <5>1, UpdateLeavesLists DEF ServerTyped, Statuses
          <6>3. v = Listing(k, t)'
            BY <6>1, <6>2 DEF Listing
          <6>4. \A x \in OnPage(db, k) : t[x] = db'[x] \/ Coming({"UPDATE"}, x)'
            <7> SUFFICES ASSUME NEW x \in OnPage(db, k) PROVE t[x] = db'[x] \/ Coming({"UPDATE"}, x)'
              OBVIOUS
            <7>1. x \in Runs
              BY DEF OnPage, Matching, Live
            <7>2. CASE x = w
              BY <7>2, <3>3, <3>6 DEF Coming
            <7>3. CASE x # w
              <8>1. db'[x] = db[x]
                BY <7>1, <7>3, <1>1, <1>2 DEF ServerTyped, States
              <8> QED
                BY <8>1, <6>1, <3>4
            <7> QED
              BY <7>2, <7>3
          <6>5. Like(v, k)'
            BY <6>2, <6>3, <6>4 DEF Like
          <6> QED
            BY <5>1, <6>5 DEF Right, Steady
        <5>2. CASE ~Steady(k)
          BY <5>2, <3>3 DEF Right, Steady
        <5> QED
          BY <5>1, <5>2
      <4> QED
        BY <4>1, <4>2, <1>2 DEF Current
    <3> QED
      BY <3>5, <3>6
  <2> QED
    BY <2>1, <2>2, <2>3, <2>4, <1>1 DEF StreamTyped
<1> QED
  BY <1>4, <1>5, <1>6, <1>8, <1>9 DEF ListInv, TypeInv

LEMMA ChangeRunKeeps ==
  ASSUME ListInv, NEW w \in Runs, ChangeRun(w)
  PROVE  ListInv'
<1>1. deletion' \in [Runs -> {"none", "sent", "done", "failed"}]
  BY DEF ChangeRun, ListInv, TypeInv, ServerTyped
<1>2. UNCHANGED <<searchVars, viewer>>
  BY DEF ChangeRun
<1> QED
  BY <1>1, <1>2, ChangeKeeps DEF ChangeRun

\* what the page keeps of its deletions does not matter to the lists
LEMMA DeletionKeeps ==
  ASSUME ListInv, UNCHANGED <<liveVars, db, past, searchVars, viewer>>,
         deletion' \in [Runs -> {"none", "sent", "done", "failed"}]
  PROVE  ListInv'
<1>1. /\ UNCHANGED <<cache, missed, stream, notices, due, db, past>>
      /\ UNCHANGED <<page, size, status, name, tag, localName, timer, viewer>>
      /\ UNCHANGED <<Here, InView>>
  BY SameView DEF liveVars, cacheVars, streamVars, searchVars
<1>2. TypeInv'
  BY <1>1 DEF ListInv, TypeInv, CacheTyped, Asking, Looked, ViewTyped, ServerTyped, StreamTyped
<1>3. UpToDate'
  <2> SUFFICES ASSUME ~Behind', NEW k \in DOMAIN cache', k \notin missed'
               PROVE  Current(k)'
    BY DEF UpToDate
  <2>1. Current(k)
    BY <1>1 DEF ListInv, UpToDate, Behind, Coming
  <2>2. \A v : Right(v, k) <=> Right(v, k)'
    BY <1>1, RightStays
  <2> QED
    BY <2>1, <2>2, <1>1 DEF Current
<1> QED
  BY <1>2, <1>3 DEF ListInv

LEMMA DeletionTyped ==
  ASSUME ServerTyped, NEW w \in Runs, NEW s \in {"none", "sent", "done", "failed"},
         deletion' = [deletion EXCEPT ![w] = s]
  PROVE  deletion' \in [Runs -> {"none", "sent", "done", "failed"}]
BY DEF ServerTyped

LEMMA DeleteKeeps ==
  ASSUME ListInv, NEW w \in Runs, ServeDelete(w) \/ ConfirmDelete(w) \/ Deleted(w)
  PROVE  ListInv'
<1>1. ServerTyped
  BY DEF ListInv, TypeInv
<1>2. deletion' \in [Runs -> {"none", "sent", "done", "failed"}]
  BY <1>1, DeletionTyped DEF ServeDelete, ConfirmDelete, Deleted
<1>3. CASE ServeDelete(w)
  <2>1. CASE db[w] = "absent"
    BY <2>1, <1>2, <1>3, DeletionKeeps DEF ServeDelete
  <2>2. CASE db[w] # "absent"
    BY <2>2, <1>2, <1>3, ChangeKeeps DEF ServeDelete
  <2> QED
    BY <2>1, <2>2
<1>4. CASE ConfirmDelete(w)
  BY <1>2, <1>4, DeletionKeeps DEF ConfirmDelete
<1>5. CASE Deleted(w)
  <2>1. UNCHANGED <<db, past, searchVars, viewer, streamVars>>
    BY <1>5 DEF Deleted
  <2>2. CASE deletion[w] = "done"
    <3>1. Invalidate(InView, AllKeys)
      BY <2>2, <1>5 DEF Deleted
    <3>2. /\ UNCHANGED <<page, size, status, name, tag, localName, timer, viewer, db, past>>
          /\ UNCHANGED <<Here, InView, stream, notices, due>>
      BY <2>1, SameView DEF searchVars, streamVars
    <3>3. ViewTyped' /\ ServerTyped' /\ StreamTyped'
      BY <1>2, <3>2 DEF ListInv, TypeInv, ViewTyped, ServerTyped, StreamTyped
    <3> QED
      BY <3>1, <3>2, <3>3, InvalidateAllKeeps
  <2>3. CASE deletion[w] # "done"
    <3>1. UNCHANGED liveVars
      BY <2>1, <2>3, <1>5 DEF Deleted, liveVars, cacheVars
    <3> QED
      BY <2>1, <3>1, <1>2, DeletionKeeps
  <2> QED
    BY <2>2, <2>3
<1> QED
  BY <1>3, <1>4, <1>5
-----------------------------------------------------------------------------
(* The user *)

LEMMA RefreshKeeps ==
  ASSUME ListInv, Refresh
  PROVE  ListInv'
<1>1. /\ Invalidate(InView, {Here})
      /\ UNCHANGED <<stream, notices, due>>
      /\ UNCHANGED <<db, past, page, size, status, name, tag, localName, timer, viewer, deletion>>
  BY DEF Refresh, pageVars, searchVars, streamVars
<1>2. UNCHANGED <<Here, InView>>
  BY <1>1, SameView
<1>3. TypeInv /\ CacheTyped /\ ViewTyped /\ ServerTyped /\ StreamTyped
  BY DEF ListInv, TypeInv
<1>4. /\ CacheTyped' /\ Asking' /\ Looked'
      /\ DOMAIN cache' = DOMAIN cache /\ missed \subseteq missed'
      /\ \A k \in DOMAIN cache \cap {Here} :
           k \in missed' \/ (~cache'[k].fresh /\ cache'[k].stage # "read")
      /\ \A k \in DOMAIN cache \ {Here} : cache'[k] = cache[k]
  BY <1>1, <1>2, <1>3, InvalidateEntries
<1>5. ViewTyped' /\ ServerTyped' /\ StreamTyped'
  BY <1>1, <1>2, <1>3 DEF ViewTyped, ServerTyped, StreamTyped
<1>6. UpToDate'
  <2> SUFFICES ASSUME ~Behind', NEW k \in DOMAIN cache', k \notin missed'
               PROVE  Current(k)'
    BY DEF UpToDate
  <2>1. CASE k = Here
    BY <2>1, <1>4 DEF Current
  <2>2. CASE k # Here
    <3>1. Current(k)
      BY <2>2, <1>1, <1>4 DEF ListInv, UpToDate, Behind, Coming
    <3>2. \A v : Right(v, k) <=> Right(v, k)'
      BY <1>1, RightStays
    <3> QED
      BY <3>1, <3>2, <2>2, <1>4 DEF Current
  <2> QED
    BY <2>1, <2>2
<1> QED
  BY <1>4, <1>5, <1>6 DEF ListInv, TypeInv

LEMMA TypeKeeps ==
  ASSUME ListInv, NEW t \in Texts, Type(t)
  PROVE  ListInv'
<1>1. /\ UNCHANGED <<cache, missed, stream, notices, due, db, past, deletion>>
      /\ UNCHANGED <<page, size, status, name, tag, viewer>>
      /\ localName' = t /\ timer' = TRUE
  BY DEF Type, liveVars, cacheVars, streamVars
<1>2. UNCHANGED <<Here, InView>>
  BY <1>1, SameView
<1>3. TypeInv'
  BY <1>1, <1>2 DEF ListInv, TypeInv, CacheTyped, Asking, Looked, ViewTyped, ServerTyped, StreamTyped
<1>4. UpToDate'
  <2> SUFFICES ASSUME ~Behind', NEW k \in DOMAIN cache', k \notin missed'
               PROVE  Current(k)'
    BY DEF UpToDate
  <2>1. Current(k)
    BY <1>1 DEF ListInv, UpToDate, Behind, Coming
  <2>2. \A v : Right(v, k) <=> Right(v, k)'
    BY <1>1, RightStays
  <2> QED
    BY <2>1, <2>2, <1>1 DEF Current
<1> QED
  BY <1>3, <1>4 DEF ListInv

\* whoever turns to another list or viewer turns to one that there is
LEMMA TurnTyped ==
  ASSUME ViewTyped,
         \/ SearchName
         \/ \E t \in {NoText} \cup {TagOf[w] : w \in Runs} : PickTag(t)
         \/ \E s \in StatusOffered : PickStatus(s)
         \/ \E p \in 1..Cardinality(Runs) : TurnPage(p)
         \/ \E n \in Sizes : PickSize(n)
         \/ \E k \in FileKeys : OpenViewer(k)
         \/ CloseViewer
  PROVE  ViewTyped' /\ TurnTo
<1>1. TurnTo
  BY DEF SearchName, PickTag, PickStatus, TurnPage, PickSize, OpenViewer, CloseViewer
<1>2. /\ page \in 1..Cardinality(Runs) /\ size \in Sizes /\ name \in Texts
      /\ status \in Statuses \cup {NoText} /\ tag \in {NoText} \cup {TagOf[w] : w \in Runs}
  BY DEF ViewTyped, Here, ListKeys
<1>3. page' \in 1..Cardinality(Runs)
  BY <1>2, FirstPage
     DEF SearchName, PickTag, PickStatus, TurnPage, PickSize, OpenViewer, CloseViewer, searchVars
<1>4. size' \in Sizes
  BY <1>2
     DEF SearchName, PickTag, PickStatus, TurnPage, PickSize, OpenViewer, CloseViewer, searchVars
<1>5. status' \in Statuses \cup {NoText}
  BY <1>2
     DEF SearchName, PickTag, PickStatus, TurnPage, PickSize, OpenViewer, CloseViewer, searchVars,
         StatusOffered
<1>6. tag' \in {NoText} \cup {TagOf[w] : w \in Runs}
  BY <1>2
     DEF SearchName, PickTag, PickStatus, TurnPage, PickSize, OpenViewer, CloseViewer, searchVars
<1>7. name' \in Texts /\ localName' \in Texts /\ timer' \in BOOLEAN
  <2>1. Trim[localName] \in Texts
    BY TrimAssumption DEF ViewTyped
  <2> QED
    BY <1>2, <2>1
       DEF ViewTyped, SearchName, PickTag, PickStatus, TurnPage, PickSize, OpenViewer, CloseViewer,
           searchVars
<1>8. viewer' \in FileKeys \cup {Nothing}
  BY DEF ViewTyped, SearchName, PickTag, PickStatus, TurnPage, PickSize, OpenViewer, CloseViewer
<1>9. Here' \in ListKeys
  BY <1>3, <1>4, <1>5, <1>6, <1>7 DEF Here, ListKeys
<1> QED
  BY <1>1, <1>7, <1>8, <1>9 DEF ViewTyped

LEMMA ListInvStep == ListInv /\ [RpNext]_rpVars => ListInv'
<1> SUFFICES ASSUME ListInv, [RpNext]_rpVars PROVE ListInv'
  OBVIOUS
<1>1. CASE Background
  BY <1>1, BackgroundKeeps
<1>2. CASE Interrupted
  BY <1>2, StreamKeeps, FailReadKeeps DEF Interrupted, pageVars
<1>3. CASE \E w \in Runs : ChangeRun(w) \/ ServeDelete(w) \/ ConfirmDelete(w) \/ Deleted(w)
  BY <1>3, ChangeRunKeeps, DeleteKeeps
<1>4. CASE \E t \in Texts : Type(t)
  BY <1>4, TypeKeeps
<1>5. CASE Refresh
  BY <1>5, RefreshKeeps
<1>6. CASE \/ SearchName
           \/ \E t \in {NoText} \cup {TagOf[w] : w \in Runs} : PickTag(t)
           \/ \E s \in StatusOffered : PickStatus(s)
           \/ \E p \in 1..Cardinality(Runs) : TurnPage(p)
           \/ \E n \in Sizes : PickSize(n)
           \/ \E k \in FileKeys : OpenViewer(k)
           \/ CloseViewer
  BY <1>6, TurnTyped, TurnKeeps DEF ListInv, TypeInv
<1>7. CASE UNCHANGED rpVars
  <2>1. /\ UNCHANGED <<liveVars, db, past, searchVars, viewer>>
        /\ deletion' \in [Runs -> {"none", "sent", "done", "failed"}]
    BY <1>7 DEF rpVars, pageVars, ListInv, TypeInv, ServerTyped
  <2> QED
    BY <2>1, DeletionKeeps
<1> QED
  BY <1>1, <1>2, <1>3, <1>4, <1>5, <1>6, <1>7 DEF RpNext

LEMMA ListInvHolds == RpSpec => []ListInv
<1> QED
  BY ListInvInit, ListInvStep, PTL DEF RpSpec

(* Every variable of the list's page holds a value of its kind, and only   *)
(* entries in view are being asked for.                                    *)
THEOREM RunsPageTypesCorrect == RpSpec => []RpTypeOK
<1>1. ListInv => RpTypeOK
  <2> SUFFICES ASSUME ListInv PROVE RpTypeOK
    OBVIOUS
  <2>1. \A k \in DOMAIN cache : cache[k].stage \in Stages /\ cache[k].fresh \in BOOLEAN
    BY DEF ListInv, TypeInv, CacheTyped, Entries, Records
  <2> QED
    BY <2>1 DEF ListInv, TypeInv, CacheTyped, Asking, ViewTyped, ServerTyped, StreamTyped, AllKeys,
                RpTypeOK
<1> QED
  BY <1>1, ListInvHolds, PTL

(* A page with nothing on its way shows what the database holds, the right *)
(* runs with their status, whatever was typed, turned, opened, deleted,    *)
(* announced or interrupted before; excepted are only entries that missed  *)
(* a change, or whose last read failed.                                    *)
THEOREM QuietPageIsExact == RpSpec => []QuietIsExact
<1>1. ListInv => QuietIsExact
  <2> SUFFICES ASSUME ListInv, Quiet(InView), NEW k \in InView, k \notin missed
               PROVE  Entry(k).data = Read(k)
    BY DEF QuietIsExact
  <2>1. notices = <<>> /\ ~Behind /\ Entry(k).stage = "idle"
    BY DEF Quiet, Idle, Behind, Coming
  <2>2. k \in DOMAIN cache /\ Entry(k) = cache[k] /\ cache[k].fresh
    BY <2>1 DEF ListInv, TypeInv, Looked, Entry
  <2>3. Right(cache[k].data, k)
    BY <2>1, <2>2 DEF ListInv, UpToDate, Current
  <2> QED
    BY <2>1, <2>2, <2>3, RightIsRead DEF ListInv, TypeInv
<1> QED
  BY <1>1, ListInvHolds, PTL
=============================================================================
