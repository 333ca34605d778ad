-------------------------- MODULE WorkflowAdminProofs --------------------------
(***************************************************************************)
(* What is proved of deletion and pruning between the reports of runs that *)
(* go on: for any number of runs, jobs, requests and faults.               *)
(***************************************************************************)
EXTENDS WorkflowAdmin, ReportIngestProofs

-----------------------------------------------------------------------------
(* The inductive invariant *)

Steps == {"none", "files", "jobs", "rules", "commit jobs", "errors", "workflow", "select ERROR",
          "update ERROR", "select SUCCESS", "update SUCCESS", "commit"}

Transaction ==
  [kind : {"none", "delete", "prune"}, step : Steps, todo : SUBSET Runs,
   ids : SUBSET (Runs \cup RowIds), files : SUBSET RowIds, rows : SUBSET RowIds,
   rules : SUBSET (Runs \X RuleNames), errs : SUBSET (Runs \X (RuleNames \cup {None})),
   wfs : SUBSET Runs, set : [RowIds -> JobStatus \cup {None}]]

AdminTypes == tx \in Transaction /\ deleted \subseteq Runs /\ asked \in Nat /\ hung \in BOOLEAN

\* every row refers to a workflow that is there
ForeignKeys ==
  /\ \A i \in RowIds : jobs[i] # None => wf[jobs[i].wf] # "none"
  /\ \A x \in rules \cup errors : wf[x[1]] # "none"

Starting(r) == {q \in net : q.run = r /\ q.ev.kind = "workflow_started"}

(* A run makes its workflow once: it asks for it when it begins, and while *)
(* it asks the workflow is not there, nor was it deleted.                  *)
BegunOnce ==
  \A r \in Runs : /\ phase[r] = "new" \/ Starting(r) # {} => wf[r] = "none" /\ r \notin deleted
                  /\ phase[r] = "new" => Starting(r) = {}
                  /\ \A p, q \in Starting(r) : p = q

\* the workflows the request is still to delete are there
ToDelete(t) == t.todo \cup IF t.step = "workflow" THEN t.ids ELSE {}

(* Nothing of a workflow the transaction has deleted is left, or is added  *)
(* before its COMMIT.                                                      *)
Held(t, w) == /\ wf[w] # "none" /\ RowsOf(w) = {}
              /\ \A x \in rules : x[1] # w
              /\ \A x \in errors : x[1] = w => x \in t.errs

\* the rows an UPDATE is for
ToUpdate(t) == {i \in RowIds : \/ t.set[i] # None
                               \/ t.step \in {"update ERROR", "update SUCCESS"} /\ i \in t.ids}

\* transaction t fits the tables
Fits(t) == /\ \A w \in ToDelete(t) : w \in Runs /\ wf[w] # "none"
           /\ \A w \in t.wfs : Held(t, w)
           /\ \A i \in ToUpdate(t) : jobs[i] # None
           /\ t.rules \subseteq rules
           /\ t.step = "files" => t.ids \subseteq RowIds

AdminInv == /\ TypeOK /\ AdminTypes /\ ForeignKeys /\ BegunOnce /\ Fits(tx)
            /\ \A w \in deleted : wf[w] = "none"

LEMMA IdleTyped == Idle \in Transaction
BY DEF Idle, Transaction, Steps, JobStatus

LEMMA AdminInvInit == AdminInit => AdminInv
<1> SUFFICES ASSUME AdminInit PROVE AdminInv
  OBVIOUS
<1>1. TypeOK
  BY InitTypes DEF AdminInit
<1>2. AdminTypes
  BY IdleTyped DEF AdminInit, AdminTypes
<1>3. ForeignKeys /\ BegunOnce
  BY DEF AdminInit, Init, ForeignKeys, BegunOnce, Starting
<1>4. Fits(tx)
  BY DEF AdminInit, Idle, Fits, ToDelete, ToUpdate
<1> QED
  BY <1>1, <1>2, <1>3, <1>4 DEF AdminInv, AdminInit

-----------------------------------------------------------------------------
(* Reports that are served *)

\* the handler of q may add rows of workflow w
Adds(q, w) ==
  \/ q.ev.kind = "workflow_started" /\ w = q.run
  \/ w = q.ctx.wf /\ w # None /\ wf[w] # "none" /\ WritesFlow(q)

Grown(q) ==
  /\ net' = net \ {q} /\ UNCHANGED phase
  /\ \A w \in Runs :
       /\ wf[w] # "none" \/ Adds(q, w) => wf'[w] # "none"
       /\ wf[w] = "none" /\ wf'[w] # "none" => q.run = w /\ q.ev.kind = "workflow_started"
  /\ \A i \in RowIds :
       /\ jobs[i] # None => jobs'[i] # None
       /\ jobs'[i] # None => \/ jobs[i] # None /\ jobs'[i].wf = jobs[i].wf
                             \/ Adds(q, jobs'[i].wf)
  /\ rules \subseteq rules'
  /\ \A x \in (rules' \ rules) \cup (errors' \ errors) : Adds(q, x[1])

\* the statuses of workflows change, and they do not go
LEMMA GrownByStatus ==
  ASSUME TypeOK, NEW q \in net, net' = net \ {q}, UNCHANGED <<phase, rules, errors>>,
         wf' = wf \/ \E w \in Runs, s \in JobStatus : wf[w] # "none" /\ wf' = [wf EXCEPT ![w] = s],
         q.ev.kind # "workflow_started",
         \A i \in RowIds : /\ jobs[i] # None => jobs'[i] # None
                           /\ jobs'[i] # None => jobs[i] # None /\ jobs'[i].wf = jobs[i].wf
  PROVE  Grown(q)
<1>1. \A w \in Runs : wf[w] # "none" <=> wf'[w] # "none"
  BY DEF TypeOK, TableTypes, JobStatus
<1> QED
  BY <1>1 DEF Grown, Adds

\* a row keeps its workflow when its other columns change
LEMMA RowUpdated ==
  ASSUME TypeOK, NEW i \in RowIds, jobs[i] # None,
         NEW status \in JobStatus, NEW n \in RuleNames, NEW full \in BOOLEAN
  PROVE  /\ [jobs[i] EXCEPT !.status = status] \in JobRow
         /\ [jobs[i] EXCEPT !.status = status].wf = jobs[i].wf
         /\ [jobs[i] EXCEPT !.rule = n, !.files = @ \/ full] \in JobRow
         /\ [jobs[i] EXCEPT !.rule = n, !.files = @ \/ full].wf = jobs[i].wf
<1>1. jobs[i] \in JobRow
  BY DEF TypeOK, TableTypes
<1>2. jobs[i].files \in BOOLEAN
  BY <1>1 DEF JobRow
<1>3. (jobs[i].files \/ full) \in BOOLEAN
  BY <1>2
<1> QED
  BY <1>1, <1>3 DEF JobRow

LEMMA HandlerGrows ==
  ASSUME TypeOK, NEW q \in net, Handle(q)
  PROVE  Grown(q)
<1>0. /\ q.run \in Runs /\ q.ctx.wf \in Runs \cup {None} /\ q.ev.jobs \subseteq SnakeJobs
      /\ q.ev.rules \subseteq RuleNames /\ q.ev.full \in BOOLEAN
  BY RequestParts DEF Event
<1>i. ASSUME NEW ok, NEW c, Serve(q, ok, c), UNCHANGED <<wf, jobs, rules, errors>>,
             q.ev.kind = "workflow_started" => wf[q.run] # "none"
      PROVE  Grown(q)
  BY <1>i DEF Serve, pluginVars, Grown, Adds
<1>s. ASSUME NEW status \in JobStatus, SettleMapped(q, status), q.ev.kind # "workflow_started"
      PROVE  Grown(q)
  <2>1. ASSUME NEW i \in RowIds
        PROVE  /\ jobs[i] # None => jobs'[i] # None
               /\ jobs'[i] # None => jobs[i] # None /\ jobs'[i].wf = jobs[i].wf
    <3>1. jobs[i] # None => /\ [jobs[i] EXCEPT !.status = status] \in JobRow
                            /\ [jobs[i] EXCEPT !.status = status].wf = jobs[i].wf
      BY DEF TypeOK, TableTypes, JobRow
    <3> QED
      BY <1>s, <3>1, RowAssumption DEF SettleMapped
  <2> QED
    BY <1>s, <2>1, GrownByStatus DEF SettleMapped, Serve, pluginVars
<1>1. CASE HandleWorkflowStarted(q)
  <2>1. CASE wf[q.run] # "none" /\ Fail(q)
    BY <1>i, <2>1 DEF Fail, runTables
  <2>2. CASE /\ wf[q.run] = "none"
             /\ wf' = [wf EXCEPT ![q.run] = "RUNNING"]
             /\ rules' = rules \cup {<<q.run, n>> : n \in q.ev.rules}
             /\ Serve(q, TRUE, [q.ctx EXCEPT !.wf = q.run])
             /\ UNCHANGED <<jobs, used, errors, notes, cachedGraph>>
    <3>1. /\ q.ev.kind = "workflow_started" /\ Adds(q, q.run)
          /\ \A w : Adds(q, w) <=> \/ w = q.run
                                   \/ w = q.ctx.wf /\ w # None /\ wf[w] # "none" /\ WritesFlow(q)
      BY <1>1 DEF HandleWorkflowStarted, Adds
    <3>2. \A w \in Runs : /\ wf'[w] = IF w = q.run THEN "RUNNING" ELSE wf[w]
      BY <2>2 DEF TypeOK, TableTypes
    <3>3. \A x \in rules' \ rules : x[1] = q.run
      BY <2>2
    <3> QED
      BY <1>0, <2>2, <3>1, <3>2, <3>3 DEF Grown, Serve, pluginVars
  <2> QED
    BY <1>1, <2>1, <2>2 DEF HandleWorkflowStarted
<1>2. CASE HandleAnnotation(q)
  BY <1>2, <1>i DEF HandleAnnotation, Ignore, runTables
<1>3. CASE HandleJobStarted(q)
  <2>0. q.ev.kind = "job_started" /\ WritesFlow(q)
    BY <1>3 DEF HandleJobStarted, WritesFlow
  <2>1. CASE Ignore(q) \/ Fail(q)
    BY <1>i, <2>0, <2>1 DEF Ignore, Fail, runTables
  <2>2. CASE /\ q.ctx.wf # None /\ wf[q.ctx.wf] # "none"
             /\ \E key \in Injections(q.ev.jobs, FreshKeys(q.ctx.wf)) :
                  /\ jobs' = Inserted(q.ctx.wf, key)
                  /\ used' = used \cup {key[j] : j \in q.ev.jobs}
                  /\ Serve(q, TRUE, Remapped(q.ctx, key))
             /\ UNCHANGED <<wf, rules, errors, notes, cachedGraph, mails>>
    <3>1. PICK key \in [q.ev.jobs -> RowIds] :
                  /\ jobs' = Inserted(q.ctx.wf, key) /\ Serve(q, TRUE, Remapped(q.ctx, key))
      BY <2>2 DEF Injections, FreshKeys
    <3>2. Adds(q, q.ctx.wf) /\ q.ctx.wf \in Runs
      BY <1>0, <2>0, <2>2 DEF Adds
    <3>3. ASSUME NEW i \in RowIds
          PROVE  jobs'[i] = jobs[i] \/ (jobs'[i] \in JobRow /\ jobs'[i].wf = q.ctx.wf)
      <4>1. CASE \E j \in q.ev.jobs : key[j] = i
        <5>1. PICK j \in SnakeJobs :
                jobs'[i] = [wf |-> q.ctx.wf, sid |-> j, status |-> "RUNNING",
                            rule |-> None, files |-> FALSE]
          <6>1. (CHOOSE j \in q.ev.jobs : key[j] = i) \in SnakeJobs
            BY <1>0, <4>1
          <6> QED
            BY <3>1, <4>1, <6>1 DEF Inserted
        <5> QED
          BY <3>2, <5>1 DEF JobRow, JobStatus
      <4>2. CASE ~\E j \in q.ev.jobs : key[j] = i
        BY <3>1, <4>2 DEF Inserted
      <4> QED
        BY <4>1, <4>2
    <3>4. \A i \in RowIds :
            /\ jobs[i] # None => jobs'[i] # None
            /\ jobs'[i] # None => \/ jobs[i] # None /\ jobs'[i].wf = jobs[i].wf
                                  \/ Adds(q, jobs'[i].wf)
      BY <3>2, <3>3, RowAssumption
    <3>5. net' = net \ {q} /\ UNCHANGED <<phase, wf, rules, errors>>
      BY <2>2, <3>1 DEF Serve, pluginVars
    <3>6. \A w \in Runs : Adds(q, w) => wf[w] # "none"
      BY <2>0 DEF Adds
    <3> QED
      BY <3>4, <3>5, <3>6 DEF Grown
  <2> QED
    BY <1>3, <2>1, <2>2 DEF HandleJobStarted
<1>4. CASE HandleJobInfo(q)
  <2>0. q.ev.kind = "job_info"
    BY <1>4 DEF HandleJobInfo
  <2>1. CASE Ignore(q) \/ Fail(q)
    BY <1>i, <2>0, <2>1 DEF Ignore, Fail, runTables
  <2>2. CASE /\ q.ctx.wf # None /\ wf[q.ctx.wf] # "none"
             /\ \E n \in q.ev.rules :
                  /\ rules' = rules \cup {<<q.ctx.wf, n>>}
                  /\ jobs' = Described(q, n)
             /\ Serve(q, TRUE, q.ctx)
             /\ UNCHANGED <<wf, used, errors, notes, cachedGraph, mails>>
    <3>1. PICK n \in q.ev.rules : rules' = rules \cup {<<q.ctx.wf, n>>} /\ jobs' = Described(q, n)
      BY <2>2
    <3>2. n \in RuleNames
      BY <1>0
    <3>3. \A i \in RowIds : /\ jobs[i] # None => jobs'[i] # None
                            /\ jobs'[i] # None => jobs[i] # None /\ jobs'[i].wf = jobs[i].wf
      <4> SUFFICES ASSUME NEW i \in RowIds
                   PROVE  /\ jobs[i] # None => jobs'[i] # None
                          /\ jobs'[i] # None => jobs[i] # None /\ jobs'[i].wf = jobs[i].wf
        OBVIOUS
      <4>1. CASE jobs[i] # None
        <5>1. "RUNNING" \in JobStatus
          BY DEF JobStatus
        <5>2. PICK row : row = [jobs[i] EXCEPT !.rule = n, !.files = @ \/ q.ev.full]
          OBVIOUS
        <5>3. row \in JobRow /\ row.wf = jobs[i].wf
          BY <1>0, <3>2, <4>1, <5>1, <5>2, RowUpdated
        <5>4. jobs'[i] = row \/ jobs'[i] = jobs[i]
          BY <3>1, <5>2 DEF Described
        <5> QED
          BY <4>1, <5>3, <5>4, RowAssumption
      <4>2. CASE jobs[i] = None
        BY <3>1, <4>2 DEF Described
      <4> QED
        BY <4>1, <4>2
    <3>4. ASSUME NEW x \in rules' \ rules PROVE Adds(q, x[1])
      <4>1. x = <<q.ctx.wf, n>> /\ <<q.ctx.wf, n>> \notin rules
        BY <3>1, <3>4
      <4>2. WritesFlow(q)
        BY <2>0, <4>1 DEF WritesFlow
      <4> QED
        BY <2>2, <4>1, <4>2 DEF Adds
    <3>5. net' = net \ {q} /\ UNCHANGED <<phase, wf, errors>> /\ rules \subseteq rules'
      BY <2>2, <3>1 DEF Serve, pluginVars
    <3>6. \A w \in Runs : Adds(q, w) => wf[w] # "none"
      BY <2>0 DEF Adds
    <3> QED
      BY <3>3, <3>4, <3>5, <3>6 DEF Grown
  <2> QED
    BY <1>4, <2>1, <2>2 DEF HandleJobInfo
<1>5. CASE HandleJobFinished(q)
  BY <1>5, <1>s DEF HandleJobFinished, JobStatus
<1>6. CASE HandleJobError(q)
  BY <1>6, <1>s DEF HandleJobError, JobStatus
<1>7. CASE HandleGroupError(q)
  <2>1. CASE Ignore(q)
    BY <1>7, <1>i, <2>1 DEF HandleGroupError, Ignore, runTables
  <2>2. CASE SettleMapped(q, "ERROR")
    BY <1>7, <1>s, <2>2 DEF HandleGroupError, JobStatus
  <2> QED
    BY <1>7, <2>1, <2>2 DEF HandleGroupError
<1>8. CASE HandleError(q)
  <2>0. q.ev.kind = "error"
    BY <1>8 DEF HandleError
  <2>1. CASE Ignore(q) \/ Fail(q)
    BY <1>i, <2>0, <2>1 DEF Ignore, Fail, runTables
  <2>2. CASE /\ q.ctx.wf # None /\ wf[q.ctx.wf] # "none" /\ q.ev.full
             /\ rules' = rules \cup {<<q.ctx.wf, n>> : n \in q.ev.rules}
             /\ errors' = errors \cup {<<q.ctx.wf, n>> : n \in IF q.ev.rules = {} THEN {None}
                                                                            ELSE q.ev.rules}
             /\ wf' = IF EndsNow(q.ctx.wf) THEN [wf EXCEPT ![q.ctx.wf] = "ERROR"] ELSE wf
             /\ Serve(q, TRUE, q.ctx)
             /\ UNCHANGED <<jobs, used, notes, cachedGraph>>
    <3>1. Adds(q, q.ctx.wf)
      BY <2>0, <2>2 DEF Adds, WritesFlow
    <3>2. \A x \in (rules' \ rules) \cup (errors' \ errors) : x[1] = q.ctx.wf
      BY <2>2
    <3>3. \A w \in Runs : (wf[w] # "none" <=> wf'[w] # "none")
      BY <2>2 DEF TypeOK, TableTypes
    <3>4. \A w \in Runs : Adds(q, w) => wf[w] # "none"
      BY <2>0 DEF Adds
    <3>5. net' = net \ {q} /\ UNCHANGED <<phase, jobs>> /\ rules \subseteq rules'
      BY <2>2 DEF Serve, pluginVars
    <3> QED
      BY <3>1, <3>2, <3>3, <3>4, <3>5 DEF Grown
  <2> QED
    BY <1>8, <2>1, <2>2 DEF HandleError, FailError
<1>9. CASE HandleClose(q)
  <2>0. q.ev.kind = "close" /\ net' = net \ {q} /\ UNCHANGED phase
    BY <1>9 DEF HandleClose, pluginVars
  <2>1. CASE UNCHANGED runTables
    BY <2>0, <2>1, GrownByStatus DEF runTables
  <2>2. CASE /\ wf[q.ctx.wf] # "none"
             /\ wf' = [wf EXCEPT ![q.ctx.wf] = Verdict(q.ctx.wf)]
             /\ jobs' = Swept(q.ctx.wf, Verdict(q.ctx.wf))
             /\ UNCHANGED <<used, rules, errors, notes, cachedGraph>>
    <3>1. PICK status \in JobStatus : status = Verdict(q.ctx.wf)
      BY DEF Verdict, JobStatus
    <3>2. ASSUME NEW i \in RowIds
          PROVE  /\ jobs[i] # None => jobs'[i] # None
                 /\ jobs'[i] # None => jobs[i] # None /\ jobs'[i].wf = jobs[i].wf
      <4>1. jobs[i] # None => /\ [jobs[i] EXCEPT !.status = status] \in JobRow
                              /\ [jobs[i] EXCEPT !.status = status].wf = jobs[i].wf
        BY DEF TypeOK, TableTypes, JobRow
      <4> QED
        BY <2>2, <3>1, <4>1, RowAssumption DEF Swept, RowsOf
    <3>3. wf' = wf \/ \E w \in Runs, s \in JobStatus : wf[w] # "none" /\ wf' = [wf EXCEPT ![w] = s]
      BY <1>0, <2>2, <3>1 DEF TypeOK, TableTypes
    <3> QED
      BY <2>0, <2>2, <3>2, <3>3, GrownByStatus
  <2> QED
    BY <1>9, <2>1, <2>2 DEF HandleClose
<1> QED
  BY <1>1, <1>2, <1>3, <1>4, <1>5, <1>6, <1>7, <1>8, <1>9 DEF Handle

(* A handler that need not wait for the transaction adds nothing to the    *)
(* workflows it has deleted.                                               *)
LEMMA WaitsForDeleted ==
  ASSUME NEW q, ~Awaits(q), NEW w \in tx.wfs
  PROVE  ~Adds(q, w)
BY DEF Awaits, Adds

\* the handler of q may add an error of workflow w
AddsError(q, w) == q.ev.kind = "error" /\ q.ev.full /\ w = q.ctx.wf

\* the errors it has deleted are forgotten only where it adds one
LEMMA DisturbedTx ==
  ASSUME AdminTypes, NEW q
  PROVE  /\ Disturbed(q) \in Transaction
         /\ \A w \in tx.wfs, x \in tx.errs :
              x[1] = w => x \in Disturbed(q).errs \/ AddsError(q, w)
         /\ Disturbed(q).todo = tx.todo /\ Disturbed(q).ids = tx.ids
         /\ Disturbed(q).step = tx.step /\ Disturbed(q).wfs = tx.wfs
         /\ Disturbed(q).set = tx.set /\ Disturbed(q).rules = tx.rules
<1>1. CASE Disturbed(q) = tx
  BY <1>1 DEF AdminTypes
<1>2. ASSUME NEW F, NEW E, Disturbed(q) = [tx EXCEPT !.files = F, !.errs = E],
             F \in SUBSET RowIds, E \in SUBSET tx.errs,
             \A x \in tx.errs : x \in E \/ AddsError(q, x[1])
      PROVE  /\ Disturbed(q) \in Transaction
             /\ \A w \in tx.wfs, x \in tx.errs :
                  x[1] = w => x \in Disturbed(q).errs \/ AddsError(q, w)
             /\ Disturbed(q).todo = tx.todo /\ Disturbed(q).ids = tx.ids
             /\ Disturbed(q).step = tx.step /\ Disturbed(q).wfs = tx.wfs
             /\ Disturbed(q).set = tx.set /\ Disturbed(q).rules = tx.rules
  <2>1. tx \in Transaction
    BY DEF AdminTypes
  <2>2. E \in SUBSET (Runs \X (RuleNames \cup {None}))
    BY <1>2, <2>1 DEF Transaction
  <2>3. [tx EXCEPT !.files = F, !.errs = E] \in Transaction
    BY <1>2, <2>1, <2>2 DEF Transaction
  <2>4. /\ Disturbed(q).errs = E
        /\ Disturbed(q).todo = tx.todo /\ Disturbed(q).ids = tx.ids
        /\ Disturbed(q).step = tx.step /\ Disturbed(q).wfs = tx.wfs
        /\ Disturbed(q).set = tx.set /\ Disturbed(q).rules = tx.rules
    BY <1>2, <2>1 DEF Transaction
  <2> QED
    BY <1>2, <2>3, <2>4
<1>3. CASE tx # Idle
  <2> DEFINE described == q.ev.kind = "job_info" /\ q.ev.full
             failed    == q.ev.kind = "error" /\ q.ev.full
             F == IF described THEN tx.files \ Mapped(q) ELSE tx.files
             E == IF failed THEN {x \in tx.errs : ~(/\ x[1] = q.ctx.wf
                                                   /\ q.ev.rules = {x[2]} \ {None})} ELSE tx.errs
  <2>1. Disturbed(q) = [tx EXCEPT !.files = F, !.errs = E]
    BY <1>3 DEF Disturbed
  <2>2. tx.files \in SUBSET RowIds
    BY DEF AdminTypes, Transaction
  <2>3. F \in SUBSET RowIds
    BY <2>2
  <2>4. E \in SUBSET tx.errs
    OBVIOUS
  <2>5. \A x \in tx.errs : x \in E \/ AddsError(q, x[1])
    BY DEF AddsError
  <2> QED
    BY <1>2, <2>1, <2>3, <2>4, <2>5
<1> QED
  BY <1>1, <1>3 DEF Disturbed

LEMMA ServeReportInv ==
  ASSUME AdminInv, NEW q \in net, ServeReport(q)
  PROVE  AdminInv'
<1>1. /\ TypeOK /\ AdminTypes /\ ForeignKeys /\ BegunOnce /\ Fits(tx)
      /\ \A w \in deleted : wf[w] = "none"
  BY DEF AdminInv
<1>2. Grown(q) /\ TypeOK'
  BY <1>1, HandlerGrows, HandleTypes DEF ServeReport
<1>3. q.run \in Runs
  BY <1>1, RequestParts
<1>4. /\ tx' = Disturbed(q) /\ ~Awaits(q) /\ UNCHANGED <<asked, hung, deleted>>
  BY DEF ServeReport
<1>5. AdminTypes'
  BY <1>1, <1>4, DisturbedTx DEF AdminTypes
<1>6. ForeignKeys'
  <2>1. \A i \in RowIds : jobs'[i] # None => jobs'[i].wf \in Runs
    BY <1>2 DEF TypeOK, TableTypes, JobRow
  <2>2. \A x \in rules' \cup errors' : x[1] \in Runs
    BY <1>2 DEF TypeOK, TableTypes
  <2> QED
    BY <1>1, <1>2, <2>1, <2>2 DEF ForeignKeys, Grown
<1>7. BegunOnce'
  <2>1. \A r \in Runs : Starting(r)' = Starting(r) \ {q}
    BY <1>2 DEF Grown, Starting
  <2> SUFFICES ASSUME NEW r \in Runs
               PROVE  /\ phase'[r] = "new" \/ Starting(r)' # {} =>
                           wf'[r] = "none" /\ r \notin deleted'
                      /\ phase'[r] = "new" => Starting(r)' = {}
                      /\ \A p, o \in Starting(r)' : p = o
    BY DEF BegunOnce
  <2>2. q \in Starting(r) => Starting(r)' = {}
    BY <1>1, <2>1 DEF BegunOnce
  <2>3. wf[r] = "none" /\ wf'[r] # "none" => q \in Starting(r)
    BY <1>2 DEF Grown, Starting
  <2> QED
    BY <1>1, <1>2, <1>4, <2>1, <2>2, <2>3 DEF BegunOnce, Grown
<1>8. Fits(tx)'
  <2>0. tx \in Transaction
    BY <1>1 DEF AdminTypes
  <2>1. /\ tx'.todo = tx.todo /\ tx'.ids = tx.ids /\ tx'.step = tx.step /\ tx'.wfs = tx.wfs
        /\ tx'.set = tx.set /\ tx'.rules = tx.rules
        /\ \A w \in tx.wfs, x \in tx.errs :
              x[1] = w => x \in tx'.errs \/ AddsError(q, w)
    BY <1>1, <1>4, DisturbedTx
  <2>2. ASSUME NEW w \in tx.wfs PROVE Held(tx, w)'
    <3>1. w \in Runs /\ Held(tx, w) /\ ~Adds(q, w)
      BY <1>1, <1>4, <2>0, WaitsForDeleted DEF Transaction, Fits
    <3>2. wf'[w] # "none"
      BY <1>2, <3>1 DEF Held, Grown
    <3>3. RowsOf(w)' = {}
      BY <1>2, <3>1 DEF Held, Grown, RowsOf
    <3>4. \A x \in rules' : x[1] # w
      BY <1>2, <3>1 DEF Held, Grown
    <3>5. w # None
      BY <3>1, NoneAssumption
    <3>6. ~AddsError(q, w)
      BY <3>1, <3>5 DEF Adds, AddsError, Held, WritesFlow
    <3>7. \A x \in errors' : x[1] = w => x \in tx'.errs
      BY <1>2, <2>1, <3>1, <3>6 DEF Held, Grown
    <3> QED
      BY <3>2, <3>3, <3>4, <3>7 DEF Held
  <2>3. \A w \in ToDelete(tx)' : w \in Runs /\ wf'[w] # "none"
    BY <1>1, <1>2, <2>1 DEF Fits, ToDelete, Grown
  <2>4. \A i \in ToUpdate(tx)' : jobs'[i] # None
    BY <1>1, <1>2, <2>1 DEF Fits, ToUpdate, Grown
  <2>5. tx'.rules \subseteq rules'
    BY <1>1, <1>2, <2>1 DEF Fits, Grown
  <2> QED
    BY <1>1, <2>1, <2>2, <2>3, <2>4, <2>5 DEF Fits, ToDelete, ToUpdate
<1>9. \A w \in deleted' : wf'[w] = "none"
  <2> SUFFICES ASSUME NEW w \in deleted, wf'[w] # "none" PROVE FALSE
    BY <1>4
  <2>1. w \in Runs /\ wf[w] = "none"
    BY <1>1 DEF AdminTypes
  <2>2. q \in Starting(w)
    BY <1>2, <2>1 DEF Grown, Starting
  <2> QED
    BY <1>1, <2>1, <2>2 DEF BegunOnce
<1> QED
  BY <1>2, <1>5, <1>6, <1>7, <1>8, <1>9 DEF AdminInv

-----------------------------------------------------------------------------
(* The runs *)

\* a run asks for its workflow when it begins, and not again
LEMMA StartsOnce ==
  ASSUME NEW r \in Runs, RunStep(r), TypeOK
  PROVE  /\ \A s \in Runs : phase'[s] = "new" => phase[s] = "new"
         /\ \/ \A s \in Runs : Starting(s)' = Starting(s)
            \/ /\ phase[r] = "new" /\ phase'[r] # "new"
               /\ \A s \in Runs \ {r} : Starting(s)' = Starting(s)
               /\ \E q : Starting(r)' = Starting(r) \cup {q}
<1>1. ASSUME NEW kind, NEW js, NEW rs, NEW full, kind # "workflow_started",
             Emit(r, Report(kind, js, rs, full))
      PROVE  UNCHANGED phase /\ \A s \in Runs : Starting(s)' = Starting(s)
  BY <1>1 DEF Emit, Post, Report, Starting
<1>2. CASE StartRun(r)
  <2>1. PICK rs : Post(r, Report("workflow_started", {}, rs, TRUE))
    BY <1>2 DEF StartRun
  <2>2. PICK q : q = [run |-> r, seq |-> sent[r] + 1,
                       ev |-> Report("workflow_started", {}, rs, TRUE), ctx |-> ctx[r]]
    OBVIOUS
  <2>3. net' = net \cup {q} /\ q.run = r /\ q.ev.kind = "workflow_started"
    BY <2>1, <2>2 DEF Post, Report
  <2>4. phase' = [phase EXCEPT ![r] = "open"] /\ phase[r] = "new"
    BY <1>2 DEF StartRun
  <2>5. phase'[r] = "open" /\ \A s \in Runs \ {r} : phase'[s] = phase[s]
    BY <2>4 DEF TypeOK, PluginTypes
  <2>6. Starting(r)' = Starting(r) \cup {q} /\ \A s \in Runs \ {r} : Starting(s)' = Starting(s)
    BY <2>3 DEF Starting
  <2> QED
    BY <2>4, <2>5, <2>6
<1>3. CASE StartJobs(r)
  BY <1>1, <1>3 DEF StartJobs
<1>4. CASE DescribeJob(r)
  BY <1>1, <1>4 DEF DescribeJob
<1>5. CASE FinishJob(r)
  BY <1>1, <1>5 DEF FinishJob
<1>6. CASE FailJob(r)
  <2>1. PICK j \in SnakeJobs, kind \in {"job_error", "group_error"} :
          Emit(r, Report(kind, {j}, {}, TRUE))
    BY <1>6 DEF FailJob
  <2> QED
    BY <1>1, <2>1
<1>7. CASE RaiseError(r)
  BY <1>1, <1>7 DEF RaiseError
<1>8. CASE Annotate(r)
  <2>1. PICK kind \in {"run_info", "rulegraph", "group_info"} : Emit(r, Report(kind, {}, {}, TRUE))
    BY <1>8 DEF Annotate
  <2> QED
    BY <1>1, <2>1
<1>9. CASE CloseRun(r)
  <2>1. phase' = [phase EXCEPT ![r] = "closed"]
    BY <1>9 DEF CloseRun
  <2>2. \A s \in Runs : Starting(s)' = Starting(s)
    BY <1>9 DEF CloseRun, Report, Starting
  <2> QED
    BY <2>1, <2>2 DEF TypeOK, PluginTypes
<1>10. CASE CrashRun(r)
  <2>1. phase' = [phase EXCEPT ![r] = "crashed"]
    BY <1>10 DEF CrashRun
  <2>2. \A s \in Runs : Starting(s)' = Starting(s)
    BY <1>10 DEF CrashRun, Starting
  <2> QED
    BY <2>1, <2>2 DEF TypeOK, PluginTypes
<1> QED
  BY <1>2, <1>3, <1>4, <1>5, <1>6, <1>7, <1>8, <1>9, <1>10 DEF RunStep

\* what holds of the tables and of the request holds while both rest
LEMMA TablesRest ==
  ASSUME AdminInv, TypeOK', BegunOnce', UNCHANGED <<runTables, tx, deleted>>,
         asked' \in Nat, hung' \in BOOLEAN
  PROVE  AdminInv'
<1>1. AdminTypes' /\ ForeignKeys'
  BY DEF AdminInv, AdminTypes, ForeignKeys, runTables
<1>2. Fits(tx)'
  BY DEF AdminInv, Fits, ToDelete, ToUpdate, Held, RowsOf, runTables
<1> QED
  BY <1>1, <1>2 DEF AdminInv, runTables

LEMMA RunsGoOn ==
  ASSUME AdminInv, UNCHANGED deleted,
         (\E r \in Runs : RunStep(r)) \/ (\E a \in answers : Receive(a)) \/ Fault
  PROVE  BegunOnce'
<1>0. TypeOK /\ BegunOnce
  BY DEF AdminInv
<1>1. CASE \E r \in Runs : RunStep(r)
  <2>1. PICK r \in Runs : RunStep(r)
    BY <1>1
  <2>2. UNCHANGED wf
    BY <1>0, <2>1, RunStepKeepsTables DEF runTables
  <2>3. \A s \in Runs : phase'[s] = "new" => phase[s] = "new"
    BY <1>0, <2>1, StartsOnce
  <2>4. CASE \A s \in Runs : Starting(s)' = Starting(s)
    BY <1>0, <2>2, <2>3, <2>4 DEF BegunOnce
  <2>5. CASE /\ phase[r] = "new" /\ phase'[r] # "new"
             /\ \A s \in Runs \ {r} : Starting(s)' = Starting(s)
             /\ \E q : Starting(r)' = Starting(r) \cup {q}
    BY <1>0, <2>2, <2>3, <2>5 DEF BegunOnce
  <2> QED
    BY <1>0, <2>1, <2>4, <2>5, StartsOnce
<1>2. CASE (\E a \in answers : Receive(a)) \/ Fault
  <2>1. UNCHANGED <<phase, wf>> /\ net' \subseteq net
    BY <1>2 DEF Receive, Fault, LoseRequest, LoseAnswer, GiveUp, runTables
  <2>2. \A s \in Runs : Starting(s)' \subseteq Starting(s)
    BY <2>1 DEF Starting
  <2> QED
    BY <1>0, <2>1, <2>2 DEF BegunOnce
<1> QED
  BY <1>1, <1>2

-----------------------------------------------------------------------------
(* The statements of a request *)

\* a statement that changes the transaction only
LEMMA StatementInv ==
  ASSUME AdminInv, UNCHANGED <<pluginVars, netVars, runTables, log, mails, deleted, hung>>,
         asked' \in Nat, NEW t \in Transaction, tx' = t, Fits(t)
  PROVE  AdminInv'
<1>1. TypeOK'
  <2>1. UNCHANGED vars
    BY DEF vars
  <2> QED
    BY <2>1, NextTypes DEF AdminInv
<1>2. AdminTypes' /\ ForeignKeys'
  BY DEF AdminInv, AdminTypes, ForeignKeys, runTables
<1>3. BegunOnce'
  BY DEF AdminInv, BegunOnce, Starting, runTables, pluginVars, netVars
<1>4. Fits(tx)'
  BY DEF Fits, ToDelete, ToUpdate, Held, RowsOf, runTables
<1> QED
  BY <1>1, <1>2, <1>3, <1>4 DEF AdminInv, runTables

LEMMA IdleFits == Fits(Idle)
BY DEF Fits, Idle, ToDelete, ToUpdate

LEMMA BeginInv ==
  ASSUME AdminInv, UNCHANGED <<pluginVars, netVars, log, mails, hung>>,
         (\E w \in Runs : BeginDelete(w)) \/ BeginPrune
  PROVE  AdminInv'
<1>0. asked' = asked + 1 /\ UNCHANGED <<runTables, deleted>>
  BY DEF BeginDelete, BeginPrune
<1>a. asked' \in Nat
  BY <1>0 DEF AdminInv, AdminTypes
<1>1. ASSUME NEW w \in Runs, BeginDelete(w) PROVE AdminInv'
  <2>0. wf[w] # "none"
    BY <1>1 DEF BeginDelete
  <2>1. PICK t : t = tx'
    OBVIOUS
  <2>2. t = [Idle EXCEPT !.kind = "delete", !.step = "files", !.todo = {w}, !.ids = RowsOf(w)]
    BY <1>1, <2>1, Zenon DEF BeginDelete
  <2>3. RowsOf(w) \subseteq RowIds
    BY DEF RowsOf
  <2>4. t \in Transaction
    BY <2>2, <2>3, IdleTyped DEF Transaction, Steps
  <2>5. Fits(t)
    BY <2>0, <2>2, <2>3 DEF Fits, Idle, ToDelete, ToUpdate
  <2> QED
    BY <1>0, <1>a, <2>1, <2>4, <2>5, StatementInv
<1>2. ASSUME BeginPrune PROVE AdminInv'
  <2>1. PICK old \in SUBSET {w \in Runs : wf[w] # "none" /\ RowsOf(w) = {}} :
          tx' = [Idle EXCEPT !.kind = "prune", !.todo = old,
                             !.step = IF old = {} THEN "select ERROR" ELSE "errors"]
    BY <1>2 DEF BeginPrune
  <2>2. PICK step \in {"select ERROR", "errors"} :
          step = IF old = {} THEN "select ERROR" ELSE "errors"
    OBVIOUS
  <2>3. PICK t : t = [Idle EXCEPT !.kind = "prune", !.todo = old, !.step = step]
    OBVIOUS
  <2>4. old \subseteq Runs /\ \A w \in old : wf[w] # "none"
    BY <2>1
  <2>5. t \in Transaction
    BY <2>3, <2>4, IdleTyped DEF Transaction, Steps
  <2>6. Fits(t)
    BY <2>3, <2>4 DEF Fits, Idle, ToDelete, ToUpdate
  <2> QED
    BY <1>0, <1>a, <2>1, <2>2, <2>3, <2>5, <2>6, StatementInv
<1> QED
  BY <1>1, <1>2

\* ROLLBACK, or a statement of the transaction
LEMMA ThenInv ==
  ASSUME AdminInv, UNCHANGED <<pluginVars, netVars, log, mails, hung>>,
         Rollback \/ \E t \in Transaction : Fits(t) /\ Then(t)
  PROVE  AdminInv'
<1>1. asked \in Nat
  BY DEF AdminInv, AdminTypes
<1>2. CASE Rollback
  BY <1>1, <1>2, IdleTyped, IdleFits, StatementInv DEF Rollback
<1>3. CASE \E t \in Transaction : Fits(t) /\ Then(t)
  BY <1>1, <1>3, StatementInv DEF Then
<1> QED
  BY <1>2, <1>3

LEMMA DeleteRowsFit ==
  ASSUME AdminInv, DeleteFiles \/ DeleteJobs \/ DeleteRules
  PROVE  Rollback \/ \E t \in Transaction : Fits(t) /\ Then(t)
<1>0. tx \in Transaction /\ Fits(tx)
  BY DEF AdminInv, AdminTypes
<1>1. CASE DeleteFiles
  <2>1. PICK t : t = [tx EXCEPT !.step = "jobs", !.files = tx.ids]
    OBVIOUS
  <2>2. tx.step = "files" /\ Then(t)
    BY <1>1, <2>1 DEF DeleteFiles
  <2>3. t \in Transaction
    BY <1>0, <2>1, <2>2 DEF Fits, Transaction, Steps
  <2>4. Fits(t)
    BY <1>0, <2>1, <2>2 DEF Fits, Transaction, ToDelete, ToUpdate, Held
  <2> QED
    BY <2>2, <2>3, <2>4
<1>2. CASE DeleteJobs
  <2>1. PICK S : S = UNION {RowsOf(w) : w \in tx.todo}
    OBVIOUS
  <2>2. PICK t : t = [tx EXCEPT !.step = "rules", !.rows = S]
    OBVIOUS
  <2>3. tx.step = "jobs" /\ (Rollback \/ Then(t))
    BY <1>2, <2>1, <2>2 DEF DeleteJobs
  <2>4. S \subseteq RowIds
    BY <2>1 DEF RowsOf
  <2>5. t \in Transaction
    BY <1>0, <2>2, <2>4 DEF Transaction, Steps
  <2>6. Fits(t)
    BY <1>0, <2>2, <2>3 DEF Fits, Transaction, ToDelete, ToUpdate, Held
  <2> QED
    BY <2>3, <2>5, <2>6
<1>3. CASE DeleteRules
  <2>1. PICK S : S = {x \in rules : x[1] \in tx.todo}
    OBVIOUS
  <2>2. PICK t : t = [tx EXCEPT !.step = "commit jobs", !.rules = S]
    OBVIOUS
  <2>3. tx.step = "rules" /\ (Rollback \/ Then(t))
    BY <1>3, <2>1, <2>2 DEF DeleteRules
  <2>4. S \subseteq rules /\ rules \subseteq Runs \X RuleNames
    BY <2>1 DEF AdminInv, TypeOK, TableTypes
  <2>5. t \in Transaction
    BY <1>0, <2>2, <2>4 DEF Transaction, Steps
  <2>6. Fits(t)
    BY <1>0, <2>2, <2>3, <2>4 DEF Fits, Transaction, ToDelete, ToUpdate, Held
  <2> QED
    BY <2>3, <2>5, <2>6
<1> QED
  BY <1>1, <1>2, <1>3

LEMMA DeleteFlowFits ==
  ASSUME AdminInv, DeleteErrors \/ DeleteFlow
  PROVE  Rollback \/ \E t \in Transaction : Fits(t) /\ Then(t)
<1>0. tx \in Transaction /\ Fits(tx)
  BY DEF AdminInv, AdminTypes
<1>1. CASE DeleteErrors
  <2>1. PICK w \in tx.todo :
          Then([tx EXCEPT !.step = "workflow", !.ids = {w},
                          !.errs = @ \cup {x \in errors : x[1] = w}])
    BY <1>1 DEF DeleteErrors
  <2>2. PICK E : E = tx.errs \cup {x \in errors : x[1] = w}
    OBVIOUS
  <2>3. PICK t : t = [tx EXCEPT !.step = "workflow", !.ids = {w}, !.errs = E]
    OBVIOUS
  <2>4. tx.step = "errors" /\ w \in Runs /\ wf[w] # "none"
    BY <1>0, <1>1 DEF DeleteErrors, Fits, ToDelete
  <2>5. tx.errs \subseteq E /\ E \subseteq Runs \X (RuleNames \cup {None})
    BY <1>0, <2>2 DEF Transaction, AdminInv, TypeOK, TableTypes
  <2>6. t \in Transaction
    BY <1>0, <2>3, <2>4, <2>5 DEF Transaction, Steps
  <2>7. Fits(t)
    BY <1>0, <2>3, <2>4, <2>5 DEF Fits, Transaction, ToDelete, ToUpdate, Held
  <2> QED
    BY <2>1, <2>2, <2>3, <2>6, <2>7
<1>2. CASE DeleteFlow
  <2>1. PICK w \in tx.ids :
          \/ Rollback
          \/ /\ ~Referenced(w)
             /\ Then([tx EXCEPT !.step = AfterFlow(w), !.todo = @ \ {w}, !.ids = {},
                                !.wfs = @ \cup {w}])
    BY <1>2 DEF DeleteFlow
  <2>2. CASE /\ ~Referenced(w)
             /\ Then([tx EXCEPT !.step = AfterFlow(w), !.todo = @ \ {w}, !.ids = {},
                                !.wfs = @ \cup {w}])
    <3>1. PICK step \in {"commit", "select ERROR", "errors"} : step = AfterFlow(w)
      BY DEF AfterFlow
    <3>2. PICK t : t = [tx EXCEPT !.step = step, !.todo = @ \ {w}, !.ids = {}, !.wfs = @ \cup {w}]
      OBVIOUS
    <3>3. tx.step = "workflow" /\ w \in Runs /\ wf[w] # "none"
      BY <1>0, <1>2 DEF DeleteFlow, Fits, ToDelete
    <3>4. t \in Transaction
      BY <1>0, <3>2, <3>3 DEF Transaction, Steps
    <3>5. Held(t, w)
      BY <1>0, <2>2, <3>2, <3>3 DEF Transaction, Referenced, Held
    <3>6. Fits(t)
      BY <1>0, <3>2, <3>3, <3>5 DEF Fits, Transaction, ToDelete, ToUpdate, Held
    <3> QED
      BY <2>2, <3>1, <3>2, <3>4, <3>6
  <2> QED
    BY <2>1, <2>2
<1> QED
  BY <1>1, <1>2

LEMMA StaleFits ==
  ASSUME AdminInv, SelectStale \/ UpdateStale
  PROVE  \E t \in Transaction : Fits(t) /\ Then(t)
<1>0. tx \in Transaction /\ Fits(tx)
  BY DEF AdminInv, AdminTypes
<1>1. CASE SelectStale
  <2>1. PICK step \in {"update ERROR", "update SUCCESS"}, status \in {"ERROR", "SUCCESS"} :
          /\ Then([tx EXCEPT !.step = step, !.ids = Stale(status)])
          /\ tx.step \in {"select ERROR", "select SUCCESS"}
    BY <1>1 DEF SelectStale
  <2>2. PICK t : t = [tx EXCEPT !.step = step, !.ids = Stale(status)]
    OBVIOUS
  <2>3. Stale(status) \subseteq RowIds /\ \A i \in Stale(status) : jobs[i] # None
    BY DEF Stale
  <2>4. t \in Transaction
    BY <1>0, <2>2, <2>3 DEF Transaction, Steps
  <2>5. Fits(t)
    BY <1>0, <2>1, <2>2, <2>3 DEF Fits, Transaction, ToDelete, ToUpdate, Held
  <2> QED
    BY <2>1, <2>2, <2>4, <2>5
<1>2. CASE UpdateStale
  <2>0. tx.step \in {"update ERROR", "update SUCCESS"}
    BY <1>2 DEF UpdateStale
  <2>1. CASE \E i \in tx.ids :
               Then([tx EXCEPT !.ids = @ \ {i},
                               !.set[i] = IF tx.step = "update ERROR" THEN "ERROR" ELSE "SUCCESS"])
    <3>1. PICK i \in tx.ids :
            Then([tx EXCEPT !.ids = @ \ {i},
                            !.set[i] = IF tx.step = "update ERROR" THEN "ERROR" ELSE "SUCCESS"])
      BY <2>1
    <3>2. PICK status \in JobStatus :
            status = IF tx.step = "update ERROR" THEN "ERROR" ELSE "SUCCESS"
      BY DEF JobStatus
    <3>3. PICK S : S = [tx.set EXCEPT ![i] = status]
      OBVIOUS
    <3>4. PICK t : t = [tx EXCEPT !.ids = @ \ {i}, !.set = S]
      OBVIOUS
    <3>5. S \in [RowIds -> JobStatus \cup {None}] /\ \A k \in RowIds \ {i} : S[k] = tx.set[k]
      BY <1>0, <3>3 DEF Transaction
    <3>6. t \in Transaction
      BY <1>0, <3>4, <3>5 DEF Transaction
    <3>7. i \in RowIds => jobs[i] # None
      BY <1>0, <2>0, <3>1 DEF Fits, ToUpdate
    <3>8. Fits(t)
      BY <1>0, <2>0, <3>4, <3>5, <3>7 DEF Fits, Transaction, ToDelete, ToUpdate, Held
    <3>9. Then(t)
      BY <1>0, <3>1, <3>2, <3>3, <3>4 DEF Transaction
    <3> QED
      BY <3>6, <3>8, <3>9
  <2>2. CASE Then([tx EXCEPT !.step = IF @ = "update ERROR" THEN "select SUCCESS" ELSE "commit"])
    <3>1. PICK step \in {"select SUCCESS", "commit"} :
            step = IF tx.step = "update ERROR" THEN "select SUCCESS" ELSE "commit"
      OBVIOUS
    <3>2. PICK t : t = [tx EXCEPT !.step = step]
      OBVIOUS
    <3>3. t \in Transaction
      BY <1>0, <3>2 DEF Transaction, Steps
    <3>4. Fits(t)
      BY <1>0, <2>0, <3>2 DEF Fits, Transaction, ToDelete, ToUpdate, Held
    <3> QED
      BY <2>2, <3>1, <3>2, <3>3, <3>4
  <2> QED
    BY <1>2, <2>1, <2>2 DEF UpdateStale
<1> QED
  BY <1>1, <1>2

\* the first COMMIT of a deletion: jobs and rules go
LEMMA CommitJobsInv ==
  ASSUME AdminInv, UNCHANGED <<pluginVars, netVars, log, mails, hung>>, CommitJobs
  PROVE  AdminInv'
<1>0. TypeOK /\ AdminTypes /\ ForeignKeys /\ BegunOnce /\ Fits(tx) /\ tx \in Transaction
  BY DEF AdminInv, AdminTypes
<1>1. /\ jobs' = [i \in RowIds |-> IF i \in tx.rows THEN None ELSE jobs[i]]
      /\ rules' = rules \ tx.rules
      /\ UNCHANGED <<wf, used, errors, notes, cachedGraph, asked, deleted>>
  BY DEF CommitJobs
<1>2. TypeOK'
  BY <1>0, <1>1 DEF TypeOK, PluginTypes, NetTypes, TableTypes, RecordTypes, pluginVars, netVars
<1>3. PICK t : t = [Idle EXCEPT !.kind = "delete", !.step = "errors", !.todo = tx.todo]
  OBVIOUS
<1>4. tx' = t
  BY <1>3 DEF CommitJobs
<1>5. t \in Transaction
  BY <1>0, <1>3, IdleTyped DEF Transaction, Steps
<1>6. \A w \in tx.todo : w \in Runs /\ wf[w] # "none"
  BY <1>0 DEF Fits, ToDelete
<1>7. Fits(tx)'
  <2>1. /\ t.todo = tx.todo /\ t.step = "errors" /\ t.wfs = {} /\ t.rules = {}
        /\ ToUpdate(t) = {}
    BY <1>3 DEF Idle, ToUpdate
  <2> QED
    BY <1>1, <1>4, <1>6, <2>1 DEF Fits, ToDelete, ToUpdate
<1>8. AdminTypes' /\ ForeignKeys' /\ BegunOnce'
  BY <1>0, <1>1, <1>4, <1>5 DEF AdminTypes, ForeignKeys, BegunOnce, Starting, pluginVars, netVars
<1> QED
  BY <1>1, <1>2, <1>7, <1>8 DEF AdminInv

\* the last one: workflows and errors go, and statuses are set
LEMMA CommitInv ==
  ASSUME AdminInv, UNCHANGED <<pluginVars, netVars, log, mails, hung>>, Commit
  PROVE  AdminInv'
<1>0. TypeOK /\ AdminTypes /\ ForeignKeys /\ BegunOnce /\ Fits(tx) /\ tx \in Transaction
  BY DEF AdminInv, AdminTypes
<1>1. /\ errors' = errors \ tx.errs
      /\ wf' = [w \in Runs |-> IF w \in tx.wfs THEN "none" ELSE wf[w]]
      /\ notes' = [w \in Runs |-> IF w \in tx.wfs THEN {} ELSE notes[w]]
      /\ jobs' = [i \in RowIds |-> IF tx.set[i] = None THEN jobs[i]
                                                        ELSE [jobs[i] EXCEPT !.status = tx.set[i]]]
      /\ deleted' = deleted \cup tx.wfs
      /\ tx' = Idle
      /\ UNCHANGED <<used, rules, cachedGraph, asked>>
  BY DEF Commit
<1>2. tx.wfs \subseteq Runs /\ \A w \in tx.wfs : Held(tx, w)
  BY <1>0 DEF Transaction, Fits
<1>3. ASSUME NEW i \in RowIds
      PROVE  /\ jobs'[i] \in JobRow \cup {None}
             /\ jobs'[i] # None => jobs[i] # None /\ jobs'[i].wf = jobs[i].wf
  <2>1. jobs[i] \in JobRow \cup {None}
    BY <1>0 DEF TypeOK, TableTypes
  <2>2. CASE tx.set[i] = None
    BY <1>1, <2>1, <2>2
  <2>3. CASE tx.set[i] # None
    <3>1. jobs[i] # None
      BY <1>0, <2>3 DEF Fits, ToUpdate
    <3>2. tx.set[i] \in JobStatus
      BY <1>0, <2>3 DEF Transaction
    <3>3. jobs'[i] = [jobs[i] EXCEPT !.status = tx.set[i]]
      BY <1>1, <2>3
    <3> QED
      BY <2>1, <3>1, <3>2, <3>3 DEF JobRow
  <2> QED
    BY <2>2, <2>3
<1>4. TypeOK'
  <2>1. jobs' \in [RowIds -> JobRow \cup {None}]
    BY <1>1, <1>3
  <2>2. wf' \in [Runs -> {"none"} \cup JobStatus] /\ notes' \in [Runs -> SUBSET AllKinds]
    BY <1>0, <1>1 DEF TypeOK, TableTypes
  <2>3. TableTypes'
    BY <1>0, <1>1, <2>1, <2>2 DEF TypeOK, TableTypes
  <2> QED
    BY <1>0, <2>3 DEF TypeOK, PluginTypes, NetTypes, RecordTypes, pluginVars, netVars
<1>5. AdminTypes' /\ Fits(tx)'
  <2>1. Fits(Idle)'
    BY DEF Fits, Idle, ToDelete, ToUpdate
  <2> QED
    BY <1>0, <1>1, <1>2, <2>1, IdleTyped DEF AdminTypes, Fits, ToDelete, ToUpdate, Held
<1>6. ForeignKeys'
  <2>1. ASSUME NEW i \in RowIds, jobs'[i] # None PROVE wf'[jobs'[i].wf] # "none"
    <3>1. jobs[i] # None /\ jobs'[i].wf = jobs[i].wf /\ jobs[i].wf \in Runs
      BY <1>0, <1>3, <2>1 DEF TypeOK, TableTypes, JobRow
    <3>2. jobs[i].wf \notin tx.wfs
      BY <1>2, <3>1 DEF Held, RowsOf
    <3> QED
      BY <1>0, <1>1, <3>1, <3>2 DEF ForeignKeys
  <2>2. ASSUME NEW x \in rules' \cup errors' PROVE wf'[x[1]] # "none"
    <3>1. x \in rules \cup (errors \ tx.errs) /\ x[1] \in Runs
      BY <1>0, <1>1 DEF TypeOK, TableTypes
    <3>2. x[1] \notin tx.wfs
      BY <1>2, <3>1 DEF Held
    <3> QED
      BY <1>0, <1>1, <3>1, <3>2 DEF ForeignKeys
  <2> QED
    BY <2>1, <2>2 DEF ForeignKeys
<1>7. BegunOnce'
  <2>1. \A r \in Runs : Starting(r)' = Starting(r) /\ phase'[r] = phase[r]
    BY DEF Starting, pluginVars, netVars
  <2>2. \A w \in tx.wfs : wf[w] # "none"
    BY <1>2 DEF Held
  <2> QED
    BY <1>0, <1>1, <2>1, <2>2 DEF BegunOnce
<1>8. \A w \in deleted' : wf'[w] = "none"
  BY <1>1, <1>2 DEF AdminInv, AdminTypes
<1> QED
  BY <1>4, <1>5, <1>6, <1>7, <1>8 DEF AdminInv

-----------------------------------------------------------------------------
LEMMA AdminStepInv ==
  ASSUME AdminInv, AdminStep
  PROVE  AdminInv'
<1>0. UNCHANGED <<pluginVars, netVars, log, mails, hung>>
  BY DEF AdminStep
<1>1. CASE (\E w \in Runs : BeginDelete(w)) \/ BeginPrune
  BY <1>0, <1>1, BeginInv
<1>2. CASE DeleteFiles \/ DeleteJobs \/ DeleteRules
  BY <1>0, <1>2, DeleteRowsFit, ThenInv
<1>3. CASE DeleteErrors \/ DeleteFlow
  BY <1>0, <1>3, DeleteFlowFits, ThenInv
<1>4. CASE SelectStale \/ UpdateStale
  BY <1>0, <1>4, StaleFits, ThenInv
<1>5. CASE CommitJobs
  BY <1>0, <1>5, CommitJobsInv
<1>6. CASE Commit
  BY <1>0, <1>6, CommitInv
<1> QED
  BY <1>1, <1>2, <1>3, <1>4, <1>5, <1>6 DEF AdminStep

LEMMA AdminNextInv == AdminInv /\ [AdminNext]_allVars => AdminInv'
<1> SUFFICES ASSUME AdminInv, [AdminNext]_allVars PROVE AdminInv'
  OBVIOUS
<1>0. TypeOK /\ BegunOnce /\ asked \in Nat /\ hung \in BOOLEAN
  BY DEF AdminInv, AdminTypes
<1>1. CASE AdminStep
  BY <1>1, AdminStepInv
<1>2. CASE \E q \in net : ServeReport(q)
  BY <1>2, ServeReportInv
<1>3. CASE (\E q \in net : Hang(q)) \/ UNCHANGED allVars
  <2>1. /\ UNCHANGED <<vars, tx, asked, deleted>> /\ hung' \in BOOLEAN
    BY <1>0, <1>3 DEF Hang, allVars, adminVars
  <2>2. TypeOK'
    BY <1>0, <2>1, NextTypes
  <2>3. BegunOnce'
    BY <1>0, <2>1 DEF BegunOnce, Starting, vars, pluginVars, netVars, runTables
  <2> QED
    BY <1>0, <2>1, <2>2, <2>3, TablesRest DEF vars
<1>4. CASE /\ (\E r \in Runs : RunStep(r)) \/ (\E a \in answers : Receive(a)) \/ Fault
           /\ UNCHANGED adminVars
  <2>1. TypeOK'
    BY <1>0, <1>4, NextTypes DEF Next
  <2>2. UNCHANGED runTables
    BY <1>4, RunStepKeepsTables DEF Receive, Fault, LoseRequest, LoseAnswer, GiveUp
  <2>3. UNCHANGED <<tx, asked, hung, deleted>>
    BY <1>4 DEF adminVars
  <2>4. BegunOnce'
    BY <1>4, <2>3, RunsGoOn
  <2> QED
    BY <1>0, <2>1, <2>2, <2>3, <2>4, TablesRest
<1> QED
  BY <1>1, <1>2, <1>3, <1>4 DEF AdminNext

(* Types, for any number of requests and reports; and a transaction never  *)
(* holds a rule that is not there (WorkflowService.delete_workflow,        *)
(* prune_database).                                                        *)
THEOREM AdminTypesCorrect == AdminSpec => []AdminTypeOK
<1>1. AdminInv => AdminTypeOK
  BY DEF AdminInv, AdminTypes, Fits, Transaction, AdminTypeOK
<1> QED
  BY <1>1, AdminInvInit, AdminNextInv, PTL DEF AdminSpec

(* Nothing of a workflow that was deleted comes back, whatever its run     *)
(* reports between the statements of its deletion or afterwards.           *)
THEOREM DeletedStaysGone == AdminSpec => []DeletedIsGone
<1>1. AdminInv => DeletedIsGone
  <2> SUFFICES ASSUME AdminInv, NEW w \in deleted
               PROVE  /\ wf[w] = "none" /\ RowsOf(w) = {}
                      /\ \A x \in rules \cup errors : x[1] # w
    BY DEF DeletedIsGone
  <2>1. wf[w] = "none" /\ ForeignKeys
    BY DEF AdminInv
  <2> QED
    BY <2>1 DEF ForeignKeys, RowsOf
<1> QED
  BY <1>1, AdminInvInit, AdminNextInv, PTL DEF AdminSpec

(* Pruning takes no workflow a job of which has started, before or after   *)
(* it was selected (prune_database).                                       *)
THEOREM PruningSparesRuns == AdminSpec => []PruneSparesRuns
<1>1. AdminInv => PruneSparesRuns
  BY DEF AdminInv, Fits, Held, PruneSparesRuns
<1> QED
  BY <1>1, AdminInvInit, AdminNextInv, PTL DEF AdminSpec
==============================================================================
