------------------------------- MODULE RunsPage -------------------------------
(***************************************************************************)
(* The list of runs: search fields with a delay, filters, pages, a cache   *)
(* of the lists already read, the stream of notices that keeps the list    *)
(* up to date, the deletion of a run, and the viewers of a run's files.    *)
(*                                                                         *)
(* The list in view is the cache's entry for the current page, size,       *)
(* status, name and tag; an entry that is not in view is not read again    *)
(* before someone turns to it.                                             *)
(***************************************************************************)
EXTENDS LivePage, Naturals, FiniteSets

CONSTANTS
  Runs,        \* Nat: a later run has a greater number
  Found,       \* Found[t]: the runs whose name contains text t
  TagOf,       \* TagOf[w]: its tag
  Texts,       \* what the user may type into the name field
  Trim,        \* Trim[t]: the text without the blanks around it
  NoText,      \* the empty field, and no filter
  Kinds,       \* viewers: log, Snakefile, config files, detail
  Nothing,     \* no viewer is open
  Sizes,       \* page sizes, the first of them at the start
  FirstSize,
  StartDb,     \* StartDb[w]: status of w when the page is opened
  MaxEvents    \* bound: actions of the user, changes that others make in the
               \* database, and what fails

ASSUME RunsAssumption == Runs \subseteq Nat /\ Runs # {} /\ IsFiniteSet(Runs)
ASSUME TrimAssumption == /\ Trim \in [Texts -> Texts] /\ NoText \in Texts
                         /\ \A t \in Texts : Trim[Trim[t]] = Trim[t]
ASSUME FoundAssumption == Found \in [Texts -> SUBSET Runs] /\ Found[NoText] = Runs
ASSUME SizesAssumption == FirstSize \in Sizes /\ Sizes \subseteq Nat \ {0}

VARIABLES
  db,        \* db[w]: status of run w, "absent" before and after its life
  past,      \* runs that were deleted
  page, size, status, name, tag,   \* the state of WorkflowTable
  localName, \* what the name field shows
  timer,     \* the delay of the name field is running
  viewer,    \* the open viewer, [kind, run], or Nothing
  deletion,  \* deletion[w]: its request is "none", "sent", "done" or "failed"
  events

searchVars == <<page, size, status, name, tag, localName, timer>>
pageVars == <<db, past, searchVars, viewer, deletion>>
rpVars == <<liveVars, pageVars, events>>

Statuses == {"RUNNING", "SUCCESS"}
States == [Runs -> Statuses \cup {"absent"}]

ListKeys == [page : 1..Cardinality(Runs), size : Sizes, status : Statuses \cup {NoText},
             name : Texts, tag : {NoText} \cup {TagOf[w] : w \in Runs}]
FileKeys == [kind : Kinds, run : Runs]

\* every list and every file of a run has the tag
AllKeys == ListKeys \cup FileKeys

Event == events < MaxEvents /\ events' = events + 1

-----------------------------------------------------------------------------
(* What the server answers when the runs are as d says *)

Live(d) == {w \in Runs : d[w] # "absent"}

Matching(d, k) == {w \in Live(d) : /\ k.status \in {NoText, d[w]}
                                   /\ w \in Found[k.name]
                                   /\ k.tag \in {NoText, TagOf[w]}}

\* one page of them, newest first; a later run has a greater number
OnPage(d, k) ==
  LET newer(w) == {v \in Matching(d, k) : v > w}
      skip     == (k.page - 1) * k.size
  IN  {w \in Matching(d, k) : Cardinality(newer(w)) \in skip..(skip + k.size - 1)}

Rows(d, k) == [rows  |-> {[id |-> w, status |-> d[w]] : w \in OnPage(d, k)},
               total |-> Cardinality(Matching(d, k))]

\* there is no file of a run that was deleted
Answers(d, k) == IF k \in ListKeys THEN Rows(d, k)
                 ELSE IF d[k.run] = "absent" THEN Missing ELSE d[k.run]

ASSUME MissingAssumption == \A d \in States, k \in ListKeys : Rows(d, k) # Missing
ASSUME StartAssumption == StartDb \in States

Read(k) == Answers(db, k)

-----------------------------------------------------------------------------
(* The page *)

\* queryParams
Here == [page |-> page, size |-> size, status |-> status, name |-> name, tag |-> tag]

\* the entries in view: the list, and the file of an open viewer
InView == {Here} \cup (IF viewer = Nothing THEN {} ELSE {viewer})

Shown == LET d == Entry(Here).data IN IF d = Missing THEN [rows |-> {}, total |-> 0] ELSE d

ShownIds == {r.id : r \in Shown.rows}

\* the pages the pager offers
LastPage == IF Shown.total = 0 THEN 1 ELSE (Shown.total + size - 1) \div size

\* the page it marks as the current one
MarkedPage == IF page > LastPage THEN LastPage ELSE page

TurnTo ==
  /\ Turn(InView, InView')
  /\ UNCHANGED <<db, past, deletion, streamVars, missed>>

-----------------------------------------------------------------------------
(* The database and its server *)

\* a notice that is dropped may have been the only one that concerned the page
Change(w, s, op) ==
  /\ db' = [db EXCEPT ![w] = s]
  /\ past' = IF s = "absent" THEN past \cup {w} ELSE past
  /\ Notice([op |-> op, id |-> w], DOMAIN cache)

\* a run starts, ends, or is deleted by someone else
ChangeRun(w) ==
  /\ Event
  /\ \/ db[w] = "absent" /\ w \notin past /\ Change(w, "RUNNING", "INSERT")
     \/ db[w] = "RUNNING" /\ Change(w, "SUCCESS", "UPDATE")
     \/ db[w] # "absent" /\ Change(w, "absent", "DELETE")
  /\ UNCHANGED <<searchVars, viewer, deletion>>

\* the server handles the deletion that the page asked for
ServeDelete(w) ==
  /\ deletion[w] = "sent"
  /\ IF db[w] = "absent"
       THEN deletion' = [deletion EXCEPT ![w] = "failed"] /\ UNCHANGED <<db, past, liveVars>>
       ELSE deletion' = [deletion EXCEPT ![w] = "done"] /\ Change(w, "absent", "DELETE")
  /\ UNCHANGED <<searchVars, viewer, events>>

\* mutant: only the rows on the page matter
ConcernsShown(n) == n.id \in ShownIds

\* onData: every insertion and deletion, and the updates of the rows shown
Concerns(n) == n.op \in {"INSERT", "DELETE"} \/ n.id \in ShownIds

\* keys whose entry may show a run as it was before an ignored update: an
\* unfiltered list in view that does not hold the run is none of them
Outdated == {k \in DOMAIN cache : \/ k \notin InView \/ k \in FileKeys
                                  \/ k.status # NoText \/ cache[k].stage = "read"}

Background ==
  /\ \/ Reads(InView, Read) /\ UNCHANGED streamVars
     \/ OpenStream(InView, AllKeys) \/ Listen \/ Retry \/ Flush(InView, AllKeys)
     \/ notices # <<>> /\ Notified(Concerns(Head(notices)), Outdated)
  /\ UNCHANGED <<pageVars, events>>

\* what fails on the way to the page
Interrupted ==
  /\ Event /\ UNCHANGED pageVars
  /\ \/ DropStream \/ LoseConnection
     \/ (\E k \in DOMAIN cache : FailRead(k)) /\ UNCHANGED streamVars

-----------------------------------------------------------------------------
(* The user *)

\* handleNameChange of WorkflowSearch
Type(t) ==
  /\ Event /\ t # localName
  /\ localName' = t /\ timer' = TRUE
  /\ UNCHANGED <<liveVars, db, past, page, size, status, name, tag, viewer, deletion>>

\* mutant: the name is searched as it was typed
SearchNameAsTyped ==
  /\ timer /\ timer' = FALSE
  /\ name' = localName /\ page' = 1
  /\ UNCHANGED <<size, status, tag, localName, viewer, events>>
  /\ TurnTo

(* Half a second after the last key, and after the first rendering:        *)
(* onNameChange.  Whoever has turned a page meanwhile is sent back to the  *)
(* first.  A new name is copied into the field, and a field that changes   *)
(* so has its delay again.                                                 *)
SearchName ==
  /\ timer
  /\ LET t == Trim[localName] IN
       /\ name' = t /\ page' = 1
       /\ localName' = IF t # name THEN t ELSE localName
       /\ timer' = (t # name /\ localName # t)
  /\ UNCHANGED <<size, status, tag, viewer, events>>
  /\ TurnTo

\* the tags of the rows, and the cross that clears the field
TagsOffered == {NoText} \cup {TagOf[w] : w \in ShownIds}

\* handleTagsSearch
PickTag(t) ==
  /\ Event /\ t \in TagsOffered \ {tag}
  /\ tag' = t /\ page' = 1
  /\ UNCHANGED <<size, status, name, localName, timer, viewer>>
  /\ TurnTo

\* the filter menu of the Progress column
StatusOffered == {NoText} \cup Statuses

\* onChange of the table
PickStatus(s) ==
  /\ Event /\ s \in StatusOffered \ {status}
  /\ status' = s /\ page' = 1
  /\ UNCHANGED <<size, name, tag, localName, timer, viewer>>
  /\ TurnTo

\* the pager takes no click on the page it marks
TurnPage(p) ==
  /\ Event /\ p \in 1..LastPage /\ p # MarkedPage /\ Shown.total > 0
  /\ page' = p
  /\ UNCHANGED <<size, status, name, tag, localName, timer, viewer>>
  /\ TurnTo

PickSize(n) ==
  /\ Event /\ n # size
  /\ size' = n /\ page' = 1
  /\ UNCHANGED <<status, name, tag, localName, timer, viewer>>
  /\ TurnTo

\* handleRefresh: only the list in view
Refresh ==
  /\ Event
  /\ Invalidate(InView, {Here})
  /\ UNCHANGED <<pageVars, streamVars>>

\* the buttons of a row
Buttons(w) == [kind : Kinds, run : {w}]

\* handleShowSnakefile, handleShowConfig, handleShowLogs
OpenViewer(k) ==
  /\ Event /\ viewer = Nothing
  /\ \E w \in ShownIds : k \in Buttons(w)
  /\ viewer' = k
  /\ UNCHANGED searchVars
  /\ TurnTo

CloseViewer ==
  /\ viewer # Nothing /\ viewer' = Nothing
  /\ UNCHANGED <<searchVars, events>>
  /\ TurnTo

\* the row's button, after the question whether to delete the run
ConfirmDelete(w) ==
  /\ Event /\ viewer = Nothing
  /\ w \in ShownIds /\ deletion[w] = "none"
  /\ deletion' = [deletion EXCEPT ![w] = "sent"]
  /\ UNCHANGED <<liveVars, db, past, searchVars, viewer>>

\* handleDeleteWorkflow: success refreshes what is tagged, failure only says so
Deleted(w) ==
  /\ deletion[w] \in {"done", "failed"}
  /\ deletion' = [deletion EXCEPT ![w] = "none"]
  /\ IF deletion[w] = "done" THEN Invalidate(InView, AllKeys) ELSE UNCHANGED <<cache, missed>>
  /\ UNCHANGED <<db, past, searchVars, viewer, streamVars, events>>

-----------------------------------------------------------------------------
RpInit ==
  /\ db = StartDb /\ past = {}
  /\ page = 1 /\ size = FirstSize /\ status = NoText /\ name = NoText /\ tag = NoText
  /\ localName = NoText /\ timer = TRUE
  /\ viewer = Nothing
  /\ cache = [k \in {Here} |-> Asked(NoEntry)]
  /\ deletion = [w \in Runs |-> "none"]
  /\ stream = "connecting" /\ notices = <<>> /\ due = FALSE
  /\ missed = {}
  /\ events = 0

RpNext ==
  \/ Background \/ Interrupted
  \/ \E w \in Runs : ChangeRun(w) \/ ServeDelete(w) \/ ConfirmDelete(w) \/ Deleted(w)
  \/ \E t \in Texts : Type(t)
  \/ SearchName
  \/ \E t \in {NoText} \cup {TagOf[w] : w \in Runs} : PickTag(t)
  \/ \E s \in StatusOffered : PickStatus(s)
  \/ \E p \in 1..Cardinality(Runs) : TurnPage(p)
  \/ \E n \in Sizes : PickSize(n)
  \/ Refresh
  \/ \E k \in FileKeys : OpenViewer(k)
  \/ CloseViewer

(* Fairness: the browser's timer fires.  Nothing else is needed here.      *)
RpSpec == RpInit /\ [][RpNext]_rpVars /\ WF_rpVars(SearchName)

-----------------------------------------------------------------------------
(* Properties *)

(* Every variable holds a value of its kind; only entries in view are      *)
(* being asked for.                                                        *)
RpTypeOK ==
  /\ db \in States /\ past \subseteq Runs
  /\ DOMAIN cache \subseteq ListKeys \cup FileKeys
  /\ \A k \in DOMAIN cache : /\ cache[k].stage \in Stages /\ cache[k].fresh \in BOOLEAN
                             /\ cache[k].stage # "idle" => k \in InView /\ ~cache[k].fresh
  /\ Here \in ListKeys /\ localName \in Texts /\ timer \in BOOLEAN
  /\ viewer \in FileKeys \cup {Nothing}
  /\ deletion \in [Runs -> {"none", "sent", "done", "failed"}]
  /\ stream \in {"connecting", "open", "listening", "retry"} /\ due \in BOOLEAN
  /\ missed \subseteq DOMAIN cache

(* A quiet page shows what the database holds: the right runs of the right *)
(* page and filter with their status, and the file of the open viewer,     *)
(* through pages turned, filters changed, notices merged and requests      *)
(* overtaken, and interruptions of the stream.  Excepted are only entries  *)
(* outdated by a change that was made while the stream was open but its    *)
(* listener had not, or no more, sent LISTEN, by one whose notice the      *)
(* server dropped because the stream's queue was full, or by an update of  *)
(* a run that was not shown; entries whose last read failed, as that of a  *)
(* deleted run's file does; and an invalidation that met the first request *)
(* of the list in view.                                                    *)
QuietIsExact ==
  Quiet(InView) => \A k \in InView : k \in missed \/ Entry(k).data = Read(k)

(* The name that is searched comes to be what the field shows, but for the *)
(* blanks around it, and stays it once the user has stopped: the two       *)
(* effects that copy one into the other do not chase each other.           *)
SearchSettles == <>[](~timer /\ name = Trim[localName])
===============================================================================
