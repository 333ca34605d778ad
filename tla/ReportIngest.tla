----------------------------- MODULE ReportIngest -----------------------------
(***************************************************************************)
(* How a Snakemake run becomes rows in PostgreSQL.                         *)
(*                                                                         *)
(* Three parties: Snakemake with the logger plugin in its process, which   *)
(* posts one report at a time and waits at most ten seconds for the        *)
(* answer; the network and the web server's queue, which may lose a report,*)
(* lose its answer, or serve it after the plugin has given up; and the     *)
(* report handlers, which run one after the other in the single event loop *)
(* of the backend, each inside one database transaction.                   *)
(*                                                                         *)
(* The plugin keeps a context, the id of its workflow and the map from     *)
(* Snakemake job ids to database rows, that only the server's answers      *)
(* change: it travels out with every report and back with every answer.    *)
(***************************************************************************)
EXTENDS Naturals, FiniteSets

CONSTANTS
  Runs,        \* Snakemake executions; a run's id is its workflow id
  SnakeJobs,   \* Snakemake's job ids within a run
  JobZero,     \* the job Snakemake numbers 0, in SnakeJobs or not
  RowIds,      \* serial primary keys of the table jobs
  RuleNames,   \* names of rules
  None,        \* "no value": SQL NULL, Python None
  Kinds,       \* the kinds of report the runs of this instance emit
  MaxReports,  \* bound: reports of one run, its close not counted
  MaxLosses,   \* bound: reports and answers that are lost
  MaxLate,     \* bound: reports served after the plugin gave up
  MaxCrashes   \* bound: runs that die without closing

AllKinds == {"workflow_started", "run_info", "rulegraph", "job_started",
             "job_info", "job_finished", "job_error", "group_info",
             "group_error", "error"}

ASSUME KindsAssumption == Kinds \subseteq AllKinds
ASSUME NoneAssumption == None \notin Runs \cup RowIds \cup RuleNames
ASSUME BoundsAssumption ==
  MaxReports \in Nat /\ MaxLosses \in Nat /\ MaxLate \in Nat /\ MaxCrashes \in Nat

VARIABLES
  \* Snakemake and its plugin
  phase,       \* phase[r]: "new", "open", "closed" or "crashed"
  snake,       \* snake[r][j]: what Snakemake itself knows of its job j
  ctx,         \* ctx[r]: the plugin's context
  sent,        \* sent[r]: number of requests posted
  waiting,     \* waiting[r]: the plugin is blocked on its last request
  \* the network and the server's queue
  net,         \* requests posted and not yet served
  answers,     \* answers on their way to a waiting plugin
  losses,      \* requests and answers lost so far
  lates,       \* requests abandoned by the plugin and still to be served
  \* the database
  wf,          \* wf[w]: status of the workflow row, "none" if there is none
  jobs,        \* jobs[i]: the row with primary key i, or None
  used,        \* primary keys drawn from the sequence
  rules,       \* rows <<workflow, rule name>> of the table rules
  errors,      \* rows <<workflow, rule name or None>> of the table errors
  notes,       \* notes[w]: which optional columns of the workflow are filled
  cachedGraph, \* the run whose rule graph the catalog shows, or None
  log,         \* rows of the table workflow_events
  mails        \* mails[w]: kinds of e-mail queued for the workflow's user

pluginVars == <<phase, snake, ctx, sent, waiting>>
netVars    == <<net, answers, losses, lates>>
runTables  == <<wf, jobs, used, rules, errors, notes, cachedGraph>>
vars       == <<pluginVars, netVars, runTables, log, mails>>

-----------------------------------------------------------------------------
(* Values *)

Context   == [wf : Runs \cup {None}, jobs : [SnakeJobs -> RowIds \cup {None}]]
JobStatus == {"RUNNING", "SUCCESS", "ERROR"}
JobRow    == [wf : Runs, sid : SnakeJobs, status : JobStatus,
              rule : RuleNames \cup {None}, files : BOOLEAN]

ASSUME RowAssumption == None \notin JobRow   \* NULL is no row

(* One shape for every report.  jobs: the job ids it names.  rules: the    *)
(* rule names it carries.  full: its optional part is there, the file      *)
(* lists of job_info and the exception text of error.                      *)
Event == [kind : AllKinds \cup {"close"}, jobs : SUBSET SnakeJobs,
          rules : SUBSET RuleNames, full : BOOLEAN]

Report(kind, js, rs, full) ==
  [kind |-> kind, jobs |-> js, rules |-> rs, full |-> full]

Request == [run : Runs, seq : Nat, ev : Event, ctx : Context]
Answer  == [run : Runs, seq : Nat, ok : BOOLEAN, ctx : Context]
Logged  == [run : Runs, seq : Nat, ev : Event, linked : BOOLEAN, ok : BOOLEAN]

EmptyContext == [wf |-> None, jobs |-> [j \in SnakeJobs |-> None]]

Init ==
  /\ phase = [r \in Runs |-> "new"]
  /\ snake = [r \in Runs |-> [j \in SnakeJobs |-> "waiting"]]
  /\ ctx = [r \in Runs |-> EmptyContext]
  /\ sent = [r \in Runs |-> 0]
  /\ waiting = [r \in Runs |-> FALSE]
  /\ net = {} /\ answers = {} /\ losses = 0 /\ lates = 0
  /\ wf = [w \in Runs |-> "none"]
  /\ jobs = [i \in RowIds |-> None] /\ used = {}
  /\ rules = {} /\ errors = {}
  /\ notes = [w \in Runs |-> {}] /\ cachedGraph = None
  /\ log = {}
  /\ mails = [w \in Runs |-> {}]

-----------------------------------------------------------------------------
(* Snakemake logs an event and the plugin posts it.                        *)

Post(r, ev) ==
  /\ ~waiting[r]
  /\ sent' = [sent EXCEPT ![r] = @ + 1]
  /\ waiting' = [waiting EXCEPT ![r] = TRUE]
  /\ net' = net \cup {[run |-> r, seq |-> sent[r] + 1, ev |-> ev, ctx |-> ctx[r]]}
  /\ UNCHANGED <<ctx, answers, losses, lates, runTables, log, mails>>

Emit(r, ev) ==
  /\ phase[r] = "open" /\ ev.kind \in Kinds
  /\ sent[r] < MaxReports
  /\ Post(r, ev)
  /\ UNCHANGED phase

\* bound: every job start still in flight will find a primary key
RoomFor(S) ==
  LET starts == {q \in net : q.ev.kind = "job_started"}
      booked == UNION {{<<q.run, q.seq, j>> : j \in q.ev.jobs} : q \in starts}
  IN  Cardinality(used) + Cardinality(booked) + Cardinality(S) <= Cardinality(RowIds)

StartRun(r) ==
  /\ phase[r] = "new" /\ sent[r] < MaxReports
  /\ phase' = [phase EXCEPT ![r] = "open"]
  /\ \E rs \in SUBSET RuleNames : Post(r, Report("workflow_started", {}, rs, TRUE))
  /\ UNCHANGED snake

\* a batch of jobs starts, for the first time or again after a failure
StartJobs(r) ==
  \E S \in SUBSET SnakeJobs :
    /\ S # {} /\ \A j \in S : snake[r][j] \in {"waiting", "failed"}
    /\ RoomFor(S)
    /\ snake' = [snake EXCEPT ![r] = [j \in SnakeJobs |-> IF j \in S THEN "running" ELSE @[j]]]
    /\ Emit(r, Report("job_started", S, {}, TRUE))

DescribeJob(r) ==
  /\ \E j \in SnakeJobs, n \in RuleNames, full \in BOOLEAN :
       /\ snake[r][j] = "running"
       /\ Emit(r, Report("job_info", {j}, {n}, full))
  /\ UNCHANGED snake

FinishJob(r) ==
  \E j \in SnakeJobs :
    /\ snake[r][j] = "running"
    /\ snake' = [snake EXCEPT ![r][j] = "done"]
    /\ Emit(r, Report("job_finished", {j}, {}, TRUE))

FailJob(r) ==
  \E j \in SnakeJobs, kind \in {"job_error", "group_error"} :
    /\ snake[r][j] = "running"
    /\ snake' = [snake EXCEPT ![r][j] = "failed"]
    /\ Emit(r, Report(kind, {j}, {}, TRUE))

RaiseError(r) ==
  /\ \E rs \in {{}} \cup {{n} : n \in RuleNames}, full \in BOOLEAN :
       Emit(r, Report("error", {}, rs, full))
  /\ UNCHANGED snake

Annotate(r) ==
  /\ \E kind \in {"run_info", "rulegraph", "group_info"} : Emit(r, Report(kind, {}, {}, TRUE))
  /\ UNCHANGED snake

(* The handler's close, at Snakemake's exit: it posts /reports/close when  *)
(* the context names a workflow, and nothing is posted afterwards.         *)
CloseRun(r) ==
  /\ phase[r] \in {"new", "open"} /\ ~waiting[r]
  /\ phase' = [phase EXCEPT ![r] = "closed"]
  /\ IF ctx[r].wf = None
       THEN UNCHANGED <<sent, net>>
       ELSE /\ sent' = [sent EXCEPT ![r] = @ + 1]
            /\ net' = net \cup {[run |-> r, seq |-> sent[r] + 1, ctx |-> ctx[r],
                                 ev |-> Report("close", {}, {}, TRUE)]}
  /\ UNCHANGED <<snake, ctx, waiting, answers, losses, lates, runTables, log, mails>>

(* The process dies (kill -9, node failure): close is never called.        *)
CrashRun(r) ==
  /\ phase[r] = "open"
  /\ Cardinality({x \in Runs : phase[x] = "crashed"}) < MaxCrashes
  /\ phase' = [phase EXCEPT ![r] = "crashed"]
  /\ waiting' = [waiting EXCEPT ![r] = FALSE]
  /\ answers' = {a \in answers : a.run # r}
  /\ UNCHANGED <<snake, ctx, sent, net, losses, lates, runTables, log, mails>>

(* The plugin takes the answer: only a 200 brings a context back.          *)
Receive(a) ==
  /\ answers' = answers \ {a}
  /\ ctx' = IF a.ok THEN [ctx EXCEPT ![a.run] = a.ctx] ELSE ctx
  /\ waiting' = [waiting EXCEPT ![a.run] = FALSE]
  /\ UNCHANGED <<phase, snake, sent, net, losses, lates, runTables, log, mails>>

-----------------------------------------------------------------------------
(* What may go wrong between the plugin and the server.                    *)

Awaited(q) == waiting[q.run] /\ sent[q.run] = q.seq

(* A request never arrives, or the server dies before its commit.          *)
LoseRequest(q) ==
  /\ losses < MaxLosses
  /\ losses' = losses + 1
  /\ net' = net \ {q}
  /\ waiting' = IF Awaited(q) THEN [waiting EXCEPT ![q.run] = FALSE] ELSE waiting
  /\ UNCHANGED <<phase, snake, ctx, sent, answers, lates, runTables, log, mails>>

(* The request was served and committed, but the plugin never learns it.   *)
LoseAnswer(a) ==
  /\ losses < MaxLosses
  /\ losses' = losses + 1
  /\ answers' = answers \ {a}
  /\ waiting' = [waiting EXCEPT ![a.run] = FALSE]
  /\ UNCHANGED <<phase, snake, ctx, sent, net, lates, runTables, log, mails>>

(* The plugin's ten seconds are over while the request is still queued: it *)
(* goes on to its next event, and the server serves the request later.     *)
GiveUp(q) ==
  /\ Awaited(q) /\ lates < MaxLate
  /\ lates' = lates + 1
  /\ waiting' = [waiting EXCEPT ![q.run] = FALSE]
  /\ UNCHANGED <<phase, snake, ctx, sent, net, answers, losses, runTables, log, mails>>

-----------------------------------------------------------------------------
(* The server: POST /reports/.                                             *)

\* the raw event keeps a workflow id only if that workflow's row exists
Linked(q) ==
  \/ q.ctx.wf # None /\ wf[q.ctx.wf] # "none"
  \/ q.ctx.wf = None /\ q.ev.kind = "workflow_started" /\ wf[q.run] # "none"

(* One request is served: the raw event is stored with its outcome, and    *)
(* the answer, 200 with context c or 500, goes to a plugin still waiting.  *)
Serve(q, ok, c) ==
  /\ net' = net \ {q}
  /\ answers' = IF Awaited(q)
                  THEN answers \cup {[run |-> q.run, seq |-> q.seq, ok |-> ok, ctx |-> c]}
                  ELSE answers
  /\ log' = log \cup {[run |-> q.run, seq |-> q.seq, ev |-> q.ev,
                       linked |-> Linked(q), ok |-> ok]}
  /\ UNCHANGED <<pluginVars, losses, lates>>

(* The handler returned early: nothing but the raw event is written.       *)
Ignore(q) == Serve(q, TRUE, q.ctx) /\ UNCHANGED <<runTables, mails>>

(* The handler raised: its savepoint is rolled back, the raw event stays   *)
(* with status failed, and the plugin gets a 500.                          *)
Fail(q) == Serve(q, FALSE, q.ctx) /\ UNCHANGED runTables

Mail(w, kind) == mails' = [mails EXCEPT ![w] = @ \cup {kind}]

HandleWorkflowStarted(q) ==
  /\ q.ev.kind = "workflow_started"
  /\ \/ /\ wf[q.run] = "none"
        /\ wf' = [wf EXCEPT ![q.run] = "RUNNING"]
        /\ rules' = rules \cup {<<q.run, n>> : n \in q.ev.rules}
        /\ Serve(q, TRUE, [q.ctx EXCEPT !.wf = q.run])
        /\ UNCHANGED <<jobs, used, errors, notes, cachedGraph>>
     \/ wf[q.run] # "none" /\ Fail(q)      \* duplicate primary key
  /\ Mail(q.run, "submitted")

(* run_info, rulegraph and group_info fill columns of rows that exist; the *)
(* catalog linked to the run keeps a copy of the last rule graph.          *)
HandleAnnotation(q) ==
  /\ q.ev.kind \in {"run_info", "rulegraph", "group_info"}
  /\ LET w == q.ctx.wf IN
     \/ /\ w = None \/ q.ev.kind = "group_info"
        /\ Ignore(q)
     \/ /\ w # None /\ q.ev.kind # "group_info" /\ wf[w] = "none"
        /\ Ignore(q)
     \/ /\ w # None /\ q.ev.kind # "group_info" /\ wf[w] # "none"
        /\ notes' = [notes EXCEPT ![w] = @ \cup {q.ev.kind}]
        /\ cachedGraph' = IF q.ev.kind = "rulegraph" THEN w ELSE cachedGraph
        /\ Serve(q, TRUE, q.ctx)
        /\ UNCHANGED <<wf, jobs, used, rules, errors, mails>>

RowsOf(w) == {i \in RowIds : jobs[i] # None /\ jobs[i].wf = w}

\* mutant: keys are numbered within each workflow
KeysFreeIn(w) == RowIds \ RowsOf(w)

\* the keys the sequence of the table jobs may still draw, for any workflow
FreshKeys(w) == RowIds \ used

Injections(S, T) == {f \in [S -> T] : \A x, y \in S : f[x] = f[y] => x = y}

\* mutant: the map is replaced, not updated
RemappedOnly(c, key) == [c EXCEPT !.jobs = key]

\* mutant: a job that is mapped already keeps its row
RemappedIfNew(c, key) ==
  [c EXCEPT !.jobs = [j \in SnakeJobs |->
                       IF j \in DOMAIN key /\ @[j] = None THEN key[j] ELSE @[j]]]

\* the context's map after an insertion: new keys for the jobs it names
Remapped(c, key) ==
  [c EXCEPT !.jobs = [j \in SnakeJobs |-> IF j \in DOMAIN key THEN key[j] ELSE @[j]]]

\* the table jobs with a new row for each job that key gives a primary key
Inserted(w, key) ==
  [i \in RowIds |->
    IF \E j \in DOMAIN key : key[j] = i
      THEN [wf |-> w, sid |-> CHOOSE j \in DOMAIN key : key[j] = i,
            status |-> "RUNNING", rule |-> None, files |-> FALSE]
      ELSE jobs[i]]

(* One new row per job id, whatever rows that id had before, and the map   *)
(* in the context now points to the new rows.                              *)
HandleJobStarted(q) ==
  /\ q.ev.kind = "job_started"
  /\ LET w == q.ctx.wf  S == q.ev.jobs IN
     \/ w = None /\ Ignore(q)
     \/ w # None /\ wf[w] = "none" /\ Fail(q) /\ UNCHANGED mails   \* foreign key
     \/ /\ w # None /\ wf[w] # "none"
        /\ \E key \in Injections(S, FreshKeys(w)) :
             /\ jobs' = Inserted(w, key)
             /\ used' = used \cup {key[j] : j \in S}
             /\ Serve(q, TRUE, Remapped(q.ctx, key))
        /\ UNCHANGED <<wf, rules, errors, notes, cachedGraph, mails>>

\* the rows the context's map gives for the jobs the event names
Mapped(q) == {q.ctx.jobs[j] : j \in q.ev.jobs} \ {None}

Described(q, n) ==
  [i \in RowIds |->
    IF i \in Mapped(q) /\ jobs[i] # None
      THEN [jobs[i] EXCEPT !.rule = n, !.files = @ \/ q.ev.full] ELSE jobs[i]]

(* The rule is found or created first; the job's row, if the map has one,  *)
(* then gets its rule and its files.                                       *)
HandleJobInfo(q) ==
  /\ q.ev.kind = "job_info"
  /\ LET w == q.ctx.wf IN
     \/ w = None /\ Ignore(q)
     \/ w # None /\ wf[w] = "none" /\ Fail(q) /\ UNCHANGED mails   \* foreign key
     \/ /\ w # None /\ wf[w] # "none"
        /\ \E n \in q.ev.rules :
             /\ rules' = rules \cup {<<w, n>>}
             /\ jobs' = Described(q, n)
        /\ Serve(q, TRUE, q.ctx)
        /\ UNCHANGED <<wf, used, errors, notes, cachedGraph, mails>>

(* job_finished, job_error and group_error follow the map alone: neither   *)
(* the workflow's status nor the row's own is looked at.                   *)
SettleMapped(q, status) ==
  /\ jobs' = [i \in RowIds |->
               IF i \in Mapped(q) /\ jobs[i] # None
                 THEN [jobs[i] EXCEPT !.status = status] ELSE jobs[i]]
  /\ Serve(q, TRUE, q.ctx)
  /\ UNCHANGED <<wf, used, rules, errors, notes, cachedGraph, mails>>

HandleJobFinished(q) == q.ev.kind = "job_finished" /\ SettleMapped(q, "SUCCESS")

\* mutant: copied from job_finished
HandleJobErrorAsFinished(q) == q.ev.kind = "job_error" /\ SettleMapped(q, "SUCCESS")

HandleJobError(q) == q.ev.kind = "job_error" /\ SettleMapped(q, "ERROR")

\* a job id of 0 counts as no job id
HandleGroupError(q) ==
  /\ q.ev.kind = "group_error"
  /\ \/ JobZero \in q.ev.jobs /\ Ignore(q)
     \/ JobZero \notin q.ev.jobs /\ SettleMapped(q, "ERROR")

\* mutant: a workflow that was closed can still be ended by an error
EndsAny(w) == wf[w] # "ERROR"

\* does a workflow-level error end workflow w?
EndsNow(w) == wf[w] = "RUNNING"

\* mutant: no savepoint, the rule created on the way stays
FailErrorHalfway(q) ==
  /\ Serve(q, FALSE, q.ctx)
  /\ rules' = rules \cup {<<q.ctx.wf, n>> : n \in q.ev.rules}
  /\ UNCHANGED <<wf, jobs, used, errors, notes, cachedGraph>>

\* the insertion of the error fails, and the rule created before it goes too
FailError(q) == Fail(q)

(* A workflow-level error ends a running workflow.  The exception column   *)
(* is NOT NULL: without its text the event fails, after the mail was       *)
(* queued.                                                                 *)
HandleError(q) ==
  /\ q.ev.kind = "error"
  /\ LET w == q.ctx.wf IN
     \/ w = None /\ Ignore(q)
     \/ w # None /\ wf[w] = "none" /\ Fail(q) /\ UNCHANGED mails   \* foreign key
     \/ /\ w # None /\ wf[w] # "none"
        /\ IF EndsNow(w) THEN Mail(w, "failure") ELSE UNCHANGED mails
        /\ \/ ~q.ev.full /\ FailError(q)
           \/ /\ q.ev.full
              /\ rules' = rules \cup {<<w, n>> : n \in q.ev.rules}
              /\ errors' = errors \cup {<<w, n>> : n \in IF q.ev.rules = {} THEN {None}
                                                                             ELSE q.ev.rules}
              /\ wf' = IF EndsNow(w) THEN [wf EXCEPT ![w] = "ERROR"] ELSE wf
              /\ Serve(q, TRUE, q.ctx)
              /\ UNCHANGED <<jobs, used, notes, cachedGraph>>

-----------------------------------------------------------------------------
(* The server: POST /reports/close.                                        *)

HasError(w) == \E i \in RowsOf(w) : jobs[i].status = "ERROR"

\* mutant: a row that did not succeed is an error
VerdictOfUnfinished(w) ==
  IF \E i \in RowsOf(w) : jobs[i].status # "SUCCESS" THEN "ERROR" ELSE "SUCCESS"

\* mutant: the workflow's own status decides
VerdictFromStatus(w) == IF wf[w] = "ERROR" THEN "ERROR" ELSE "SUCCESS"

Verdict(w) == IF HasError(w) THEN "ERROR" ELSE "SUCCESS"

\* mutant: only a failed workflow has its rows swept
SweptIfFailed(w, status) ==
  [i \in RowIds |-> IF i \in RowsOf(w) /\ jobs[i].status = "RUNNING" /\ status = "ERROR"
                      THEN [jobs[i] EXCEPT !.status = status] ELSE jobs[i]]

\* the rows once those still RUNNING took over the workflow's status
Swept(w, status) ==
  [i \in RowIds |-> IF i \in RowsOf(w) /\ jobs[i].status = "RUNNING"
                      THEN [jobs[i] EXCEPT !.status = status] ELSE jobs[i]]

(* The final status comes from the rows alone, whatever the workflow's     *)
(* status was, and the rows still RUNNING take it over.                    *)
HandleClose(q) ==
  /\ q.ev.kind = "close"
  /\ net' = net \ {q}
  /\ LET w      == q.ctx.wf
         status == Verdict(w)
     IN  \/ wf[w] = "none" /\ UNCHANGED <<runTables, mails>>
         \/ /\ wf[w] # "none"
            /\ wf' = [wf EXCEPT ![w] = status]
            /\ jobs' = Swept(w, status)
            /\ Mail(w, IF status = "SUCCESS" THEN "success" ELSE "failure")
            /\ UNCHANGED <<used, rules, errors, notes, cachedGraph>>
  /\ UNCHANGED <<pluginVars, answers, losses, lates, log>>

-----------------------------------------------------------------------------
RunStep(r) == \/ StartRun(r) \/ StartJobs(r) \/ DescribeJob(r) \/ FinishJob(r)
              \/ FailJob(r) \/ RaiseError(r) \/ Annotate(r)
              \/ CloseRun(r) \/ CrashRun(r)

Handle(q) == \/ HandleWorkflowStarted(q) \/ HandleAnnotation(q)
             \/ HandleJobStarted(q) \/ HandleJobInfo(q) \/ HandleJobFinished(q)
             \/ HandleJobError(q) \/ HandleGroupError(q) \/ HandleError(q)
             \/ HandleClose(q)

Fault == \/ \E q \in net : LoseRequest(q) \/ GiveUp(q)
         \/ \E a \in answers : LoseAnswer(a)

Next == \/ \E r \in Runs : RunStep(r)
        \/ \E q \in net : Handle(q)
        \/ \E a \in answers : Receive(a)
        \/ Fault

Spec == Init /\ [][Next]_vars

(***************************************************************************)
(* Fairness: the event loop keeps serving queued requests, and the plugin, *)
(* blocked in its HTTP client, takes the answer that arrived.  Nothing     *)
(* obliges Snakemake to log another event or to end.                       *)
(***************************************************************************)
Fairness == /\ WF_vars(\E q \in net : Handle(q))
            /\ WF_vars(\E a \in answers : Receive(a))

FairSpec == Spec /\ Fairness

-----------------------------------------------------------------------------
(* Properties *)

PluginTypes ==
  /\ phase \in [Runs -> {"new", "open", "closed", "crashed"}]
  /\ snake \in [Runs -> [SnakeJobs -> {"waiting", "running", "done", "failed"}]]
  /\ ctx \in [Runs -> Context]
  /\ sent \in [Runs -> Nat]
  /\ waiting \in [Runs -> BOOLEAN]

NetTypes ==
  /\ net \subseteq Request
  /\ answers \subseteq Answer
  /\ losses \in Nat /\ lates \in Nat

TableTypes ==
  /\ wf \in [Runs -> {"none"} \cup JobStatus]
  /\ jobs \in [RowIds -> JobRow \cup {None}]
  /\ used \subseteq RowIds
  /\ rules \subseteq Runs \X RuleNames
  /\ errors \subseteq Runs \X (RuleNames \cup {None})
  /\ notes \in [Runs -> SUBSET AllKinds]
  /\ cachedGraph \in Runs \cup {None}

RecordTypes ==
  /\ log \subseteq Logged
  /\ mails \in [Runs -> SUBSET {"submitted", "success", "failure"}]

(* Every variable holds a value of its kind; in particular the job map of  *)
(* every context, wherever it travels, stays a total map into row keys.    *)
TypeOK == PluginTypes /\ NetTypes /\ TableTypes /\ RecordTypes

\* context c can only lead run r to its own workflow and its own jobs' rows
Home(r, c) ==
  /\ c.wf \in {None, r}
  /\ \A j \in SnakeJobs : c.jobs[j] # None =>
       /\ c.jobs[j] \in used
       /\ jobs[c.jobs[j]] # None => /\ jobs[c.jobs[j]].wf = r
                                    /\ jobs[c.jobs[j]].sid = j

(* job_finished, job_error and job_info trust the map in the request: no   *)
(* handler checks that the row it gives belongs to the caller's workflow   *)
(* or to that job.  So every context, at the plugin, in a queued request   *)
(* or in an answer, must map a job to a row of that very job of that run.  *)
ContextPointsHome ==
  /\ \A r \in Runs : Home(r, ctx[r])
  /\ \A q \in net : Home(q.run, q.ctx)
  /\ \A a \in answers : Home(a.run, a.ctx)

(* Until its run is closed, a job shown as SUCCESS is one that Snakemake   *)
(* has finished, whatever was lost, served late or retried on the way.     *)
NoEarlySuccess ==
  \A i \in RowIds :
    jobs[i] # None /\ jobs[i].status = "SUCCESS" /\ phase[jobs[i].wf] # "closed"
      => snake[jobs[i].wf][jobs[i].sid] = "done"

\* an event of kind k of run w was processed
Processed(w, k) == {e \in log : e.run = w /\ e.ev.kind = k /\ e.ok}

(* The raw event log explains the tables: each job row, rule row and error *)
(* row goes back to an event that was processed, and linked to its         *)
(* workflow.  An event that failed leaves no row behind.                   *)
TablesExplained ==
  /\ \A i \in RowIds : jobs[i] # None =>
       \E e \in Processed(jobs[i].wf, "job_started") : e.linked /\ jobs[i].sid \in e.ev.jobs
  /\ \A x \in rules : \E k \in {"workflow_started", "job_info", "error"} :
       \E e \in Processed(x[1], k) : x[2] \in e.ev.rules
  /\ \A x \in errors : \E e \in Processed(x[1], "error") :
       e.linked /\ e.ev.rules = {x[2]} \ {None}

(* A workflow or a job is shown as failed only if some event that reports  *)
(* a failure of this run was processed: the close of a run that was cut    *)
(* short, or a lost report, never makes a failure up.                      *)
NoFalseFailure ==
  \A w \in Runs :
    wf[w] = "ERROR" \/ HasError(w) =>
      \E k \in {"error", "job_error", "group_error"} : Processed(w, k) # {}

(* SUCCESS is the last word on a workflow: an error report that is served  *)
(* after the close, and its mail, cannot turn it into a failure.           *)
SuccessIsFinal ==
  [][\A w \in Runs : wf[w] = "SUCCESS" => wf'[w] = "SUCCESS" /\ mails'[w] = mails[w]]_vars

\* what the dashboard shows for job j of run r, through the plugin's map
Shown(r, j) == LET i == ctx[r].jobs[j]
               IN  IF i = None THEN "none" ELSE jobs[i].status

ShownFor == [waiting |-> "none", running |-> "RUNNING", done |-> "SUCCESS", failed |-> "ERROR"]

(* On a network that loses nothing, whenever the plugin is between two     *)
(* reports the rows its map leads to show what Snakemake knows, a job that *)
(* failed and was started again included.                                  *)
RowsMirrorSnakemake ==
  \A r \in Runs : phase[r] = "open" /\ ~waiting[r] =>
    \A j \in SnakeJobs : Shown(r, j) = ShownFor[snake[r][j]]

(* On a network that loses nothing, a closed run ends as ERROR exactly     *)
(* when a job of it was reported as failed.                                *)
VerdictFollowsJobErrors ==
  \A r \in Runs : phase[r] = "closed" /\ wf[r] # "none" /\ (\A q \in net : q.run # r) =>
    (wf[r] = "ERROR" <=> Processed(r, "job_error") \cup Processed(r, "group_error") # {})

(* A run that was closed does not stay RUNNING, and neither does any of    *)
(* its jobs, if nothing is lost on the way.                                *)
ClosedRunSettles ==
  \A r \in Runs :
    phase[r] = "closed" ~> wf[r] # "RUNNING" /\ \A i \in RowsOf(r) : jobs[i].status # "RUNNING"

-----------------------------------------------------------------------------
(* What the documentation says, and the code does not do *)

(* The success mail says that all jobs completed without errors: its run   *)
(* has no error on record.                                                 *)
SuccessMailMeansNoError ==
  \A w \in Runs : "success" \in mails[w] => ~\E x \in errors : x[1] = w
=============================================================================
