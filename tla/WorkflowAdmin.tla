---------------------------- MODULE WorkflowAdmin ----------------------------
(***************************************************************************)
(* Deleting a workflow and pruning the database while runs report.         *)
(*                                                                         *)
(* Both requests run on an asynchronous session: the coroutine awaits each *)
(* SQL statement, and report handlers run in between.  A statement sees    *)
(* what is committed when it starts, and what its transaction did before;  *)
(* the transaction's own changes wait in tx for its COMMIT, and the rows   *)
(* it touched stay locked until then.                                      *)
(*                                                                         *)
(* A report handler is synchronous code in the same event loop.  When its  *)
(* statement needs a row that tx has locked it blocks the loop, and with   *)
(* it the coroutine that would release the lock: PostgreSQL, of which no   *)
(* lock or statement timeout is asked, waits for ever.                     *)
(***************************************************************************)
EXTENDS ReportIngest

CONSTANT MaxAdmin   \* bound: deletions and prunings requested

ASSUME MaxAdminAssumption == MaxAdmin \in Nat

VARIABLES
  tx,       \* the request that is being served, or Idle
  asked,    \* requests so far
  hung,     \* a report handler waits for a row that tx has locked
  deleted   \* history: workflows whose deletion was committed

adminVars == <<tx, asked, hung, deleted>>
allVars   == <<vars, adminVars>>

Idle == [kind |-> "none", step |-> "none",
         todo  |-> {},   \* workflows still to delete
         ids   |-> {},   \* primary keys a SELECT returned
         files |-> {},   \* rows of jobs all of whose files are deleted
         rows  |-> {}, rules |-> {}, errs |-> {}, wfs |-> {},  \* rows deleted
         set   |-> [i \in RowIds |-> None]]                    \* statuses set

AdminInit ==
  /\ Init
  /\ tx = Idle /\ asked = 0
  /\ hung = FALSE /\ deleted = {}

-----------------------------------------------------------------------------
(* A statement violates a foreign key: ROLLBACK and status 500.            *)
Rollback == tx' = Idle /\ UNCHANGED <<runTables, asked, deleted>>

Then(t) == tx' = t /\ UNCHANGED <<runTables, asked, deleted>>

-----------------------------------------------------------------------------
(* DELETE /workflows/{id}: JobService.delete_jobs, with a COMMIT of its    *)
(* own, then WorkflowService.delete_workflow.                              *)

BeginDelete(w) ==
  /\ tx = Idle /\ asked < MaxAdmin /\ asked' = asked + 1
  /\ wf[w] # "none"
  /\ tx' = [Idle EXCEPT !.kind = "delete", !.step = "files", !.todo = {w}, !.ids = RowsOf(w)]
  /\ UNCHANGED <<runTables, deleted>>

DeleteFiles ==
  /\ tx.step = "files"
  /\ Then([tx EXCEPT !.step = "jobs", !.files = tx.ids])

\* rows that started since the SELECT are deleted too, if they have no files
DeleteJobs ==
  /\ tx.step = "jobs"
  /\ LET S == UNION {RowsOf(w) : w \in tx.todo} IN
       IF \E i \in S : jobs[i].files /\ i \notin tx.files
         THEN Rollback
         ELSE Then([tx EXCEPT !.step = "rules", !.rows = S])

RuleUsed(x) == \/ \E i \in RowsOf(x[1]) \ tx.rows : jobs[i].rule = x[2]
               \/ x \in errors \ tx.errs

DeleteRules ==
  /\ tx.step = "rules"
  /\ LET S == {x \in rules : x[1] \in tx.todo} IN
       IF \E x \in S : RuleUsed(x)
         THEN Rollback
         ELSE Then([tx EXCEPT !.step = "commit jobs", !.rules = S])

\* mutant: the second transaction begins with what the first one held
CommitJobsHolding ==
  /\ tx.step = "commit jobs"
  /\ jobs' = [i \in RowIds |-> IF i \in tx.rows THEN None ELSE jobs[i]]
  /\ rules' = rules \ tx.rules
  /\ tx' = [tx EXCEPT !.step = "errors"]
  /\ UNCHANGED <<wf, used, errors, notes, cachedGraph, asked, deleted>>

CommitJobs ==
  /\ tx.step = "commit jobs"
  /\ jobs' = [i \in RowIds |-> IF i \in tx.rows THEN None ELSE jobs[i]]
  /\ rules' = rules \ tx.rules
  /\ tx' = [Idle EXCEPT !.kind = "delete", !.step = "errors", !.todo = tx.todo]
  /\ UNCHANGED <<wf, used, errors, notes, cachedGraph, asked, deleted>>

-----------------------------------------------------------------------------
(* Both: the errors of a workflow go, then the workflow itself.            *)

DeleteErrors ==
  /\ tx.step = "errors"
  /\ \E w \in tx.todo :
       Then([tx EXCEPT !.step = "workflow", !.ids = {w},
                       !.errs = @ \cup {x \in errors : x[1] = w}])

\* mutant: only jobs keep a workflow
ReferencedByJobs(w) == RowsOf(w) # {}

\* mutant: jobs do not keep a workflow
ReferencedByRules(w) == \E x \in rules : x[1] = w

\* rows that refer to workflow w, besides those tx has deleted
Referenced(w) == \/ RowsOf(w) # {}
                 \/ \E x \in rules : x[1] = w
                 \/ \E x \in errors \ tx.errs : x[1] = w

AfterFlow(w) ==
  IF tx.kind = "delete" THEN "commit" ELSE IF tx.todo = {w} THEN "select ERROR" ELSE "errors"

DeleteFlow ==
  /\ tx.step = "workflow"
  /\ \E w \in tx.ids :
       IF Referenced(w)
         THEN Rollback
         ELSE Then([tx EXCEPT !.step = AfterFlow(w), !.todo = @ \ {w}, !.ids = {},
                              !.wfs = @ \cup {w}])

-----------------------------------------------------------------------------
(* POST /summary/pruning                                                   *)

(* Workflows without a job that started more than ten minutes ago: old is  *)
(* the set of those, of any jobless ones, that are that old.               *)
BeginPrune ==
  /\ tx = Idle /\ asked < MaxAdmin /\ asked' = asked + 1
  /\ \E old \in SUBSET {w \in Runs : wf[w] # "none" /\ RowsOf(w) = {}} :
       tx' = [Idle EXCEPT !.kind = "prune", !.todo = old,
                          !.step = IF old = {} THEN "select ERROR" ELSE "errors"]
  /\ UNCHANGED <<runTables, deleted>>

\* jobs still RUNNING in a workflow that ended with this status
Stale(status) == {i \in RowIds : jobs[i] # None /\ jobs[i].status = "RUNNING"
                                 /\ wf[jobs[i].wf] = status}

SelectStale ==
  \/ /\ tx.step = "select ERROR"
     /\ Then([tx EXCEPT !.step = "update ERROR", !.ids = Stale("ERROR")])
  \/ /\ tx.step = "select SUCCESS"
     /\ Then([tx EXCEPT !.step = "update SUCCESS", !.ids = Stale("SUCCESS")])

(* One UPDATE by primary key for each, then the next SELECT or COMMIT.     *)
UpdateStale ==
  /\ tx.step \in {"update ERROR", "update SUCCESS"}
  /\ \/ \E i \in tx.ids :
          Then([tx EXCEPT !.ids = @ \ {i},
                          !.set[i] = IF tx.step = "update ERROR" THEN "ERROR" ELSE "SUCCESS"])
     \/ /\ tx.ids = {}
        /\ Then([tx EXCEPT !.step = IF @ = "update ERROR" THEN "select SUCCESS" ELSE "commit"])

\* the last COMMIT of either request
Commit ==
  /\ tx.step = "commit"
  /\ errors' = errors \ tx.errs
  /\ wf' = [w \in Runs |-> IF w \in tx.wfs THEN "none" ELSE wf[w]]
  /\ notes' = [w \in Runs |-> IF w \in tx.wfs THEN {} ELSE notes[w]]
  /\ jobs' = [i \in RowIds |-> IF tx.set[i] = None THEN jobs[i]
                                                   ELSE [jobs[i] EXCEPT !.status = tx.set[i]]]
  /\ deleted' = deleted \cup tx.wfs
  /\ tx' = Idle
  /\ UNCHANGED <<used, rules, cachedGraph, asked>>

AdminStep ==
  /\ ~hung
  /\ \/ \E w \in Runs : BeginDelete(w)
     \/ DeleteFiles \/ DeleteJobs \/ DeleteRules \/ CommitJobs
     \/ DeleteErrors \/ DeleteFlow
     \/ BeginPrune \/ SelectStale \/ UpdateStale \/ Commit
  /\ UNCHANGED <<pluginVars, netVars, log, mails, hung>>

-----------------------------------------------------------------------------
(* A report meets the request                                              *)

LockedRows == tx.rows \cup {i \in RowIds : tx.set[i] # None}

\* the rows of jobs that the handler of q updates
RowsWritten(q) ==
  CASE q.ev.kind \in {"job_finished", "job_error", "job_info"} -> {i \in Mapped(q) : jobs[i] # None}
    [] q.ev.kind = "group_error" /\ JobZero \notin q.ev.jobs -> {i \in Mapped(q) : jobs[i] # None}
    [] q.ev.kind = "close" -> {i \in RowsOf(q.ctx.wf) : jobs[i].status = "RUNNING"}
    [] OTHER -> {}

(* It updates the row of the workflow, or inserts a row that refers to it. *)
WritesFlow(q) ==
  CASE q.ev.kind = "job_info" -> \E n \in q.ev.rules : <<q.ctx.wf, n>> \notin rules
    [] q.ev.kind = "error" -> q.ev.full \/ \E n \in q.ev.rules : <<q.ctx.wf, n>> \notin rules
    [] q.ev.kind \in {"job_started", "run_info", "rulegraph", "close"} -> TRUE
    [] OTHER -> FALSE

\* the rules a row it writes refers to
RulesUsed(q) ==
  CASE q.ev.kind = "job_info" /\ RowsWritten(q) # {} -> {q.ctx.wf} \X q.ev.rules
    [] q.ev.kind = "error" /\ q.ev.full -> {q.ctx.wf} \X q.ev.rules
    [] OTHER -> {}

Awaits(q) ==
  \/ q.ev.kind = "workflow_started" /\ q.run \in tx.wfs
  \/ /\ q.ctx.wf # None
     /\ \/ RowsWritten(q) \cap LockedRows # {}
        \/ WritesFlow(q) /\ q.ctx.wf \in tx.wfs
        \/ RulesUsed(q) \cap tx.rules # {}

Hang(q) ==
  /\ ~hung /\ Awaits(q)
  /\ hung' = TRUE
  /\ UNCHANGED <<vars, tx, asked, deleted>>

\* what the report adds is not among the rows tx has deleted already
Disturbed(q) ==
  IF tx = Idle THEN tx
  ELSE [tx EXCEPT !.files = IF q.ev.kind = "job_info" /\ q.ev.full THEN @ \ Mapped(q) ELSE @,
                  !.errs = IF q.ev.kind = "error" /\ q.ev.full
                             THEN {x \in @ : ~(/\ x[1] = q.ctx.wf
                                               /\ q.ev.rules = {x[2]} \ {None})} ELSE @]

ServeReport(q) ==
  /\ ~hung /\ ~Awaits(q)
  /\ Handle(q)
  /\ tx' = Disturbed(q)
  /\ UNCHANGED <<asked, hung, deleted>>

-----------------------------------------------------------------------------
AdminNext ==
  \/ AdminStep
  \/ \E q \in net : ServeReport(q) \/ Hang(q)
  \/ /\ \/ \E r \in Runs : RunStep(r)
        \/ \E a \in answers : Receive(a)
        \/ Fault
     /\ UNCHANGED adminVars

AdminSpec == AdminInit /\ [][AdminNext]_allVars

(* Fairness: the event loop, unless it is blocked, serves the reports and  *)
(* resumes the coroutine of a request that has begun.                      *)
AdminFairness ==
  /\ WF_allVars(\E q \in net : ServeReport(q))
  /\ WF_allVars(AdminStep /\ tx # Idle)
  /\ WF_allVars((\E a \in answers : Receive(a)) /\ UNCHANGED adminVars)

FairAdminSpec == AdminSpec /\ AdminFairness

-----------------------------------------------------------------------------
(* Properties *)

(* Every variable holds a value of its kind; in particular no transaction  *)
(* ever holds a row it does not know.                                      *)
AdminTypeOK ==
  /\ TypeOK
  /\ tx.todo \cup tx.wfs \cup deleted \subseteq Runs
  /\ tx.files \cup tx.rows \subseteq RowIds
  /\ tx.rules \subseteq rules
  /\ tx.set \in [RowIds -> JobStatus \cup {None}]
  /\ asked \in Nat /\ hung \in BOOLEAN

(* A workflow that was deleted stays deleted, and nothing of it is left:   *)
(* whatever its run reports afterwards, or reported while the request was  *)
(* at work, no row of it comes back.                                       *)
DeletedIsGone ==
  \A w \in deleted : /\ wf[w] = "none" /\ RowsOf(w) = {}
                     /\ \A x \in rules \cup errors : x[1] # w

(* Pruning never takes a run that has begun its work: a workflow whose     *)
(* first job starts after it was selected is spared.                       *)
PruneSparesRuns ==
  tx.kind = "prune" => \A w \in tx.wfs : RowsOf(w) = {}

-----------------------------------------------------------------------------
(* What the documentation says, and the code does not do *)

(* docs/architecture/data-flow.md: the layer validates each report and     *)
(* writes it to the tables.  On a network that loses nothing, every report *)
(* that is posted is served.                                               *)
EveryReportServed ==
  \A r \in Runs : \A n \in 1..(MaxReports + 1) :
    (\E q \in net : q.run = r /\ q.seq = n) ~> ~(\E q \in net : q.run = r /\ q.seq = n)
=============================================================================
