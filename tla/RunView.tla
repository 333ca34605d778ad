-------------------------------- MODULE RunView --------------------------------
(***************************************************************************)
(* The page of one run: panels that are always there, four tabs, a rule    *)
(* picked in the graph, the table of jobs with its filters and pages, and  *)
(* the viewers of a job.  Notices of the run's jobs make it read again.    *)
(***************************************************************************)
EXTENDS LivePage, Naturals, FiniteSets, SequencesExt

CONSTANTS
  Jobs,        \* Nat: a later job has a greater number
  RuleOf,      \* RuleOf[j]: the rule it runs
  NoRule, NoStatus, Nothing,
  Above,       \* panels that every tab has: detail, progress, total, graph, status
  JobPanels,   \* what can be opened of a job: its log, its detail
  Sizes,       \* page sizes of the table of jobs
  FirstSize,
  StartJobs,   \* StartJobs[j]: its status when the page is opened
  MaxEvents    \* bound: changes of jobs, actions of the user, failures

ASSUME JobsAssumption == Jobs \subseteq Nat /\ Jobs # {} /\ IsFiniteSet(Jobs)
ASSUME JobSizesAssumption == FirstSize \in Sizes /\ Sizes \subseteq Nat \ {0}

VARIABLES
  jobs,      \* jobs[j]: "none" before it starts, then "RUNNING", then its outcome
  tab,       \* activeTab
  rule,      \* selectedRule
  page, size, status,   \* the state of JobTable
  viewer,    \* the job's log or detail that is open, or Nothing
  events

tableVars == <<page, size, status, viewer>>
rvVars == <<liveVars, jobs, tab, rule, tableVars, events>>

Tabs == {"jobs", "timeline", "code", "result"}
Statuses == {"ERROR", "RUNNING", "SUCCESS"}
States == [Jobs -> Statuses \cup {"none"}]
Rules == {RuleOf[j] : j \in Jobs}

Panel(p) == [panel |-> p]
JobKeys == [panel : JobPanels, job : Jobs]
TableKeys == [page : 1..Cardinality(Jobs), size : Sizes, status : Statuses \cup {NoStatus},
              rule : Rules \cup {NoRule}]

\* a job's log and detail, and the files of a run, do not have the tag of runs
AllKeys == {Panel(p) : p \in Above \cup {"timeline", "snakefile", "rules"}} \cup TableKeys

Event == events < MaxEvents /\ events' = events + 1

-----------------------------------------------------------------------------
(* What the server answers when the run's jobs are as d says *)

Matching(d, k) == {j \in Jobs : /\ d[j] # "none" /\ k.status \in {NoStatus, d[j]}
                                /\ k.rule \in {NoRule, RuleOf[j]}}

\* failed jobs first, then those that run; the latest of each first
Before(d, i, j) == LET rank == [ERROR |-> 1, RUNNING |-> 2, SUCCESS |-> 3] IN
  rank[d[i]] < rank[d[j]] \/ (d[i] = d[j] /\ i > j)

Ordered(d, js) == LET First(i, j) == Before(d, i, j) IN SetToSortSeq(js, First)

\* one page of them
Rows(d, k) ==
  LET all  == Ordered(d, Matching(d, k))
      skip == (k.page - 1) * k.size
      ids  == SubSeq(all, skip + 1, IF Len(all) < skip + k.size THEN Len(all) ELSE skip + k.size)
  IN  [rows |-> [i \in DOMAIN ids |-> [id |-> ids[i], status |-> d[ids[i]]]],
       total |-> Cardinality(Matching(d, k))]

\* the panels are made of the run's jobs; the code of a run does not change
Answers(d, k) == CASE k \in TableKeys -> Rows(d, k)
                   [] k \in JobKeys -> d[k.job]
                   [] k \in {Panel("snakefile"), Panel("rules")} -> "code"
                   [] OTHER -> d

ASSUME MissingAssumption == \A d \in States, k \in AllKeys : Answers(d, k) # Missing
ASSUME StartAssumption == StartJobs \in States

Read(k) == Answers(jobs, k)

-----------------------------------------------------------------------------
(* The page *)

TableHere == [page |-> page, size |-> size, status |-> status, rule |-> rule]

\* the tab's part of the page
OfTab ==
  CASE tab = "jobs" -> {TableHere} \cup (IF viewer = Nothing THEN {} ELSE {viewer})
    [] tab = "timeline" -> {Panel("timeline")}
    [] tab = "code" -> {Panel(IF rule = NoRule THEN "snakefile" ELSE "rules")}
    [] OTHER -> {Panel("files")}

InView == {Panel(p) : p \in Above} \cup OfTab

Shown == LET d == Entry(TableHere).data IN IF d = Missing THEN [rows |-> <<>>, total |-> 0] ELSE d

ShownIds == {Shown.rows[i].id : i \in DOMAIN Shown.rows}

LastPage(total) == IF total = 0 THEN 1 ELSE (total + size - 1) \div size

-----------------------------------------------------------------------------
(* What the panels make of the jobs they were sent *)

Count(d, js, s) == Cardinality({j \in js : d[j] = s})

(* WorkflowProgress.  The answer it counts with holds neither the failed   *)
(* jobs nor the total, for which it takes 0 and 1.                         *)
Circle(d) == CASE Count(d, Jobs, "RUNNING") > 0 -> "active"
               [] Count(d, Jobs, "SUCCESS") = 1 -> "success"
               [] OTHER -> "normal"

Progress(d) == [completed |-> Count(d, Jobs, "SUCCESS"), running |-> Count(d, Jobs, "RUNNING"),
                circle |-> Circle(d)]

\* nodeStyling: the colour of a rule's node in the graph
NodeStatus(d, r) ==
  LET js == {j \in Jobs : RuleOf[j] = r} IN
    CASE rule = r -> "selected"
      [] OTHER -> CASE Count(d, js, "ERROR") > 0 -> "ERROR"
                    [] Count(d, js, "SUCCESS") = Cardinality(js) -> "SUCCESS"
                    [] Count(d, js, "RUNNING") = 0 -> "WAITING"
                    [] OTHER -> "RUNNING"

\* processedData of the timeline: a bar for each job that has started
Bars(d) == {<<RuleOf[j], j, d[j]>> : j \in {i \in Jobs : d[i] # "none" /\ rule \in {NoRule, RuleOf[i]}}}

Display(k, d) ==
  CASE k = Panel("progress") -> Progress(d)
    [] k = Panel("status") -> [r \in Rules |-> NodeStatus(d, r)]
    [] k = Panel("timeline") -> Bars(d)
    [] OTHER -> d

-----------------------------------------------------------------------------
TurnTo ==
  /\ Turn(InView, InView')
  /\ UNCHANGED <<jobs, streamVars, missed>>

Background ==
  /\ \/ Reads(InView, Read) /\ UNCHANGED streamVars
     \/ OpenStream(InView, AllKeys) \/ Listen \/ Retry \/ Flush(InView, AllKeys)
     \/ Notified(TRUE, {})
  /\ UNCHANGED <<jobs, tab, rule, tableVars, events>>

\* what fails on the way to the page
Interrupted ==
  /\ Event /\ UNCHANGED <<jobs, tab, rule, tableVars>>
  /\ \/ DropStream \/ LoseConnection
     \/ (\E k \in DOMAIN cache : FailRead(k)) /\ UNCHANGED streamVars

\* the logger reports that a job has started or is finished
ChangeJob(j) ==
  /\ Event /\ jobs[j] \in {"none", "RUNNING"}
  /\ \E s \in IF jobs[j] = "none" THEN {"RUNNING"} ELSE {"SUCCESS", "ERROR"} :
       jobs' = [jobs EXCEPT ![j] = s]
  /\ Notice("job", {})     \* the notices that fill the queue make the page read again
  /\ UNCHANGED <<tab, rule, tableVars>>

-----------------------------------------------------------------------------
(* The user; nothing but the viewer is reached while it is open *)

\* a JobTable that is rendered again starts anew
FreshTable == page' = 1 /\ size' = FirstSize /\ status' = NoStatus

\* setActiveTab: only the tab in front is rendered
PickTab(t) ==
  /\ Event /\ viewer = Nothing /\ t # tab
  /\ tab' = t /\ FreshTable
  /\ UNCHANGED <<rule, viewer>>
  /\ TurnTo

\* mutant: the table stays on the page it shows
PickRuleKeepingPage(r) ==
  /\ Event /\ viewer = Nothing
  /\ rule' = IF rule = r THEN NoRule ELSE r
  /\ UNCHANGED <<tab, tableVars>>
  /\ TurnTo

(* handleNodeClick: a second click on the node gives up the choice.  The   *)
(* table goes back to its first page, of the first size.                   *)
PickRule(r) ==
  /\ Event /\ viewer = Nothing
  /\ rule' = IF rule = r THEN NoRule ELSE r
  /\ page' = 1 /\ size' = FirstSize
  /\ UNCHANGED <<tab, status, viewer>>
  /\ TurnTo

\* the filter menu of the Status column; antd goes to the first page with it
PickStatus(s) ==
  /\ Event /\ tab = "jobs" /\ viewer = Nothing /\ s # status
  /\ status' = s /\ page' = 1
  /\ UNCHANGED <<tab, rule, size, viewer>>
  /\ TurnTo

TurnPage(p) ==
  /\ Event /\ tab = "jobs" /\ viewer = Nothing
  /\ p \in 1..LastPage(Shown.total) /\ p # page
  /\ page' = p
  /\ UNCHANGED <<tab, rule, size, status, viewer>>
  /\ TurnTo

PickSize(n) ==
  /\ Event /\ tab = "jobs" /\ viewer = Nothing /\ n # size
  /\ size' = n /\ page' = 1
  /\ UNCHANGED <<tab, rule, status, viewer>>
  /\ TurnTo

\* the two buttons of a job
OpenViewer(k) ==
  /\ Event /\ tab = "jobs" /\ viewer = Nothing /\ k.job \in ShownIds
  /\ viewer' = k
  /\ UNCHANGED <<tab, rule, page, size, status>>
  /\ TurnTo

CloseViewer ==
  /\ viewer # Nothing /\ viewer' = Nothing
  /\ UNCHANGED <<tab, rule, page, size, status, events>>
  /\ TurnTo

-----------------------------------------------------------------------------
RvInit ==
  /\ jobs = StartJobs
  /\ tab = "jobs" /\ rule = NoRule
  /\ page = 1 /\ size = FirstSize /\ status = NoStatus /\ viewer = Nothing
  /\ cache = [k \in InView |-> Asked(NoEntry)]
  /\ stream = "connecting" /\ notices = <<>> /\ due = FALSE
  /\ missed = {}
  /\ events = 0

RvNext ==
  \/ Background \/ Interrupted \/ CloseViewer
  \/ \E j \in Jobs : ChangeJob(j)
  \/ \E t \in Tabs : PickTab(t)
  \/ \E r \in Rules : PickRule(r)
  \/ \E s \in Statuses \cup {NoStatus} : PickStatus(s)
  \/ \E p \in 1..Cardinality(Jobs) : TurnPage(p)
  \/ \E n \in Sizes : PickSize(n)
  \/ \E k \in JobKeys : OpenViewer(k)

RvSpec == RvInit /\ [][RvNext]_rvVars

-----------------------------------------------------------------------------
(* Properties *)

(* Every variable holds a value of its kind; only what is in view is being *)
(* asked for.                                                              *)
RvTypeOK ==
  /\ jobs \in States
  /\ tab \in Tabs /\ rule \in Rules \cup {NoRule}
  /\ TableHere \in TableKeys /\ viewer \in JobKeys \cup {Nothing}
  /\ DOMAIN cache \subseteq AllKeys \cup JobKeys \cup {Panel("files")}
  /\ \A k \in DOMAIN cache : cache[k].stage # "idle" => k \in InView
  /\ stream \in {"connecting", "open", "listening", "retry"}

(* Panels that were read at different moments agree once nothing is on its *)
(* way: the counts, the colours of the graph, the table and the bars all   *)
(* show the jobs of this moment.  Excepted are panels outdated by a change *)
(* that was made while the stream was open but its listener had not, or no *)
(* more, sent LISTEN, those whose last read failed, and an invalidation    *)
(* that met a panel's first request; a job's own viewer and the files do   *)
(* not follow the run at all.                                              *)
PanelsAgree ==
  Quiet(InView) => \A k \in InView \cap AllKeys :
    \/ k \in missed
    \/ Entry(k).data # Missing /\ Display(k, Entry(k).data) = Display(k, Read(k))

(* Without a filter by status, whose jobs may leave it, the table never    *)
(* stays on a page that does not exist: not when another rule is picked,   *)
(* not when one comes back to the tab.                                     *)
PageExists == status = NoStatus => page <= LastPage(Cardinality(Matching(jobs, TableHere)))
===============================================================================
