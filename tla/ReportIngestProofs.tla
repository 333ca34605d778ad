-------------------------- MODULE ReportIngestProofs --------------------------
(* Theorems about ReportIngest, for every value of its constants.          *)
EXTENDS ReportIngest, TLAPS

USE NoneAssumption DEF AllKinds

-----------------------------------------------------------------------------
(* Types *)

LEMMA EventTypes ==
  ASSUME NEW kind \in AllKinds \cup {"close"}, NEW js \in SUBSET SnakeJobs,
         NEW rs \in SUBSET RuleNames, NEW full \in BOOLEAN
  PROVE  /\ Report(kind, js, rs, full) \in Event
         /\ Report(kind, js, rs, full).kind = kind
         /\ Report(kind, js, rs, full).jobs = js
         /\ Report(kind, js, rs, full).rules = rs
BY DEF Report, Event

\* posting a request keeps the types of the plugin and of the network
LEMMA PostTypes ==
  ASSUME TypeOK, NEW r \in Runs, NEW ev \in Event, Post(r, ev),
         phase' \in [Runs -> {"new", "open", "closed", "crashed"}],
         snake' \in [Runs -> [SnakeJobs -> {"waiting", "running", "done", "failed"}]]
  PROVE  TypeOK'
<1>1. [run |-> r, seq |-> sent[r] + 1, ev |-> ev, ctx |-> ctx[r]] \in Request
  BY DEF TypeOK, PluginTypes, Request
<1>2. PluginTypes'
  <2>1. ctx' \in [Runs -> Context]
    BY DEF TypeOK, PluginTypes, Post
  <2>2. sent' \in [Runs -> Nat]
    BY DEF TypeOK, PluginTypes, Post
  <2>3. waiting' \in [Runs -> BOOLEAN]
    BY DEF TypeOK, PluginTypes, Post
  <2> QED
    BY <2>1, <2>2, <2>3 DEF PluginTypes
<1>3. NetTypes'
  BY <1>1 DEF TypeOK, NetTypes, Post
<1>4. TableTypes' /\ RecordTypes'
  BY DEF TypeOK, TableTypes, RecordTypes, Post, runTables
<1> QED
  BY <1>2, <1>3, <1>4 DEF TypeOK

LEMMA RunStepTypes ==
  ASSUME TypeOK, NEW r \in Runs, RunStep(r)
  PROVE  TypeOK'
<1>1. CASE StartRun(r)
  <2>1. PICK rs \in SUBSET RuleNames : Post(r, Report("workflow_started", {}, rs, TRUE))
    BY <1>1 DEF StartRun
  <2>2. Report("workflow_started", {}, rs, TRUE) \in Event
    BY EventTypes
  <2> QED
    BY <1>1, <2>1, <2>2, PostTypes DEF StartRun, TypeOK, PluginTypes
<1>2. CASE StartJobs(r)
  <2>1. PICK S \in SUBSET SnakeJobs :
          /\ snake' = [snake EXCEPT ![r] = [j \in SnakeJobs |-> IF j \in S THEN "running" ELSE @[j]]]
          /\ Emit(r, Report("job_started", S, {}, TRUE))
    BY <1>2 DEF StartJobs
  <2>2. Report("job_started", S, {}, TRUE) \in Event
    BY EventTypes
  <2>3. snake' \in [Runs -> [SnakeJobs -> {"waiting", "running", "done", "failed"}]]
    BY <2>1 DEF TypeOK, PluginTypes
  <2>4. phase' \in [Runs -> {"new", "open", "closed", "crashed"}]
    BY <2>1 DEF Emit, TypeOK, PluginTypes
  <2> QED
    BY <2>1, <2>2, <2>3, <2>4, PostTypes DEF Emit
<1>3. CASE DescribeJob(r)
  <2>1. PICK j \in SnakeJobs, n \in RuleNames, full \in BOOLEAN :
          Emit(r, Report("job_info", {j}, {n}, full))
    BY <1>3 DEF DescribeJob
  <2>2. Report("job_info", {j}, {n}, full) \in Event
    BY EventTypes
  <2> QED
    BY <1>3, <2>1, <2>2, PostTypes DEF DescribeJob, Emit, TypeOK, PluginTypes
<1>4. CASE FinishJob(r)
  <2>1. PICK j \in SnakeJobs :
          /\ snake' = [snake EXCEPT ![r][j] = "done"]
          /\ Emit(r, Report("job_finished", {j}, {}, TRUE))
    BY <1>4 DEF FinishJob
  <2>2. Report("job_finished", {j}, {}, TRUE) \in Event
    BY EventTypes
  <2>3. snake' \in [Runs -> [SnakeJobs -> {"waiting", "running", "done", "failed"}]]
    BY <2>1 DEF TypeOK, PluginTypes
  <2>4. phase' \in [Runs -> {"new", "open", "closed", "crashed"}]
    BY <2>1 DEF Emit, TypeOK, PluginTypes
  <2> QED
    BY <2>1, <2>2, <2>3, <2>4, PostTypes DEF Emit
<1>5. CASE FailJob(r)
  <2>1. PICK j \in SnakeJobs, kind \in {"job_error", "group_error"} :
          /\ snake' = [snake EXCEPT ![r][j] = "failed"]
          /\ Emit(r, Report(kind, {j}, {}, TRUE))
    BY <1>5 DEF FailJob
  <2>9. kind \in AllKinds \cup {"close"} /\ {j} \in SUBSET SnakeJobs
    OBVIOUS
  <2>2. Report(kind, {j}, {}, TRUE) \in Event
    BY <2>9, EventTypes
  <2>3. snake' \in [Runs -> [SnakeJobs -> {"waiting", "running", "done", "failed"}]]
    BY <2>1 DEF TypeOK, PluginTypes
  <2>4. phase' \in [Runs -> {"new", "open", "closed", "crashed"}]
    BY <2>1 DEF Emit, TypeOK, PluginTypes
  <2> QED
    BY <2>1, <2>2, <2>3, <2>4, PostTypes DEF Emit
<1>6. CASE RaiseError(r)
  <2>1. PICK rs \in {{}} \cup {{n} : n \in RuleNames}, full \in BOOLEAN :
          Emit(r, Report("error", {}, rs, full))
    BY <1>6 DEF RaiseError
  <2>2. Report("error", {}, rs, full) \in Event
    BY EventTypes
  <2> QED
    BY <1>6, <2>1, <2>2, PostTypes DEF RaiseError, Emit, TypeOK, PluginTypes
<1>7. CASE Annotate(r)
  <2>1. PICK kind \in {"run_info", "rulegraph", "group_info"} : Emit(r, Report(kind, {}, {}, TRUE))
    BY <1>7 DEF Annotate
  <2>9. kind \in AllKinds \cup {"close"}
    OBVIOUS
  <2>2. Report(kind, {}, {}, TRUE) \in Event
    BY <2>9, EventTypes
  <2> QED
    BY <1>7, <2>1, <2>2, PostTypes DEF Annotate, Emit, TypeOK, PluginTypes
<1>8. CASE CloseRun(r)
  <2>1. Report("close", {}, {}, TRUE) \in Event
    BY EventTypes
  <2>2. [run |-> r, seq |-> sent[r] + 1, ctx |-> ctx[r],
         ev |-> Report("close", {}, {}, TRUE)] \in Request
    <3>1. sent[r] + 1 \in Nat /\ ctx[r] \in Context
      BY DEF TypeOK, PluginTypes
    <3> QED
      BY <2>1, <3>1 DEF Request
  <2>9. phase' = [phase EXCEPT ![r] = "closed"]
    BY <1>8 DEF CloseRun
  <2>3. phase' \in [Runs -> {"new", "open", "closed", "crashed"}]
    BY <2>9 DEF TypeOK, PluginTypes
  <2>4. sent' \in [Runs -> Nat]
    <3>1. sent' = sent \/ sent' = [sent EXCEPT ![r] = @ + 1]
      BY <1>8 DEF CloseRun
    <3> QED
      BY <3>1 DEF TypeOK, PluginTypes
  <2>5. PluginTypes'
    BY <1>8, <2>3, <2>4 DEF TypeOK, PluginTypes, CloseRun
  <2>6. NetTypes'
    <3>1. net' \subseteq Request
      BY <1>8, <2>2 DEF TypeOK, NetTypes, CloseRun
    <3> QED
      BY <1>8, <3>1 DEF TypeOK, NetTypes, CloseRun
  <2>7. TableTypes'
    BY <1>8 DEF TypeOK, TableTypes, CloseRun, runTables
  <2>8. RecordTypes'
    BY <1>8 DEF TypeOK, RecordTypes, CloseRun
  <2> QED
    BY <2>5, <2>6, <2>7, <2>8 DEF TypeOK
<1>9. CASE CrashRun(r)
  <2>7. /\ phase' = [phase EXCEPT ![r] = "crashed"]
        /\ waiting' = [waiting EXCEPT ![r] = FALSE]
    BY <1>9 DEF CrashRun
  <2>1. phase' \in [Runs -> {"new", "open", "closed", "crashed"}]
    BY <2>7 DEF TypeOK, PluginTypes
  <2>2. waiting' \in [Runs -> BOOLEAN]
    BY <2>7 DEF TypeOK, PluginTypes
  <2>3. PluginTypes'
    BY <1>9, <2>1, <2>2 DEF TypeOK, PluginTypes, CrashRun
  <2>4. NetTypes'
    BY <1>9 DEF TypeOK, NetTypes, CrashRun
  <2>5. TableTypes'
    BY <1>9 DEF TypeOK, TableTypes, CrashRun, runTables
  <2>6. RecordTypes'
    BY <1>9 DEF TypeOK, RecordTypes, CrashRun
  <2> QED
    BY <2>3, <2>4, <2>5, <2>6 DEF TypeOK
<1> QED
  BY <1>1, <1>2, <1>3, <1>4, <1>5, <1>6, <1>7, <1>8, <1>9 DEF RunStep

\* what is known of a queued request
LEMMA RequestParts ==
  ASSUME TypeOK, NEW q \in net
  PROVE  /\ q.run \in Runs /\ q.seq \in Nat /\ q.ev \in Event /\ q.ctx \in Context
         /\ q.ev.jobs \subseteq SnakeJobs /\ q.ev.rules \subseteq RuleNames
         /\ q.ctx.wf \in Runs \cup {None}
         /\ q.ctx.jobs \in [SnakeJobs -> RowIds \cup {None}]
<1>1. q \in Request
  BY DEF TypeOK, NetTypes
<1>2. q.run \in Runs /\ q.seq \in Nat /\ q.ev \in Event /\ q.ctx \in Context
  BY <1>1 DEF Request
<1> QED
  BY <1>2 DEF Event, Context

LEMMA ServeTypes ==
  ASSUME TypeOK, NEW q \in net, NEW ok \in BOOLEAN, NEW c \in Context, Serve(q, ok, c)
  PROVE  PluginTypes' /\ NetTypes' /\ log' \subseteq Logged
<1>1. /\ q.run \in Runs /\ q.seq \in Nat /\ q.ev \in Event
  BY RequestParts
<1>2. PluginTypes'
  BY DEF Serve, pluginVars, TypeOK, PluginTypes
<1>3. [run |-> q.run, seq |-> q.seq, ok |-> ok, ctx |-> c] \in Answer
  BY <1>1 DEF Answer
<1>4. NetTypes'
  BY <1>3 DEF Serve, TypeOK, NetTypes
<1>5. Linked(q) \in BOOLEAN
  BY DEF Linked
<1>6. [run |-> q.run, seq |-> q.seq, ev |-> q.ev, linked |-> Linked(q), ok |-> ok] \in Logged
  BY <1>1, <1>5 DEF Logged
<1>7. log' \subseteq Logged
  BY <1>6 DEF Serve, TypeOK, RecordTypes
<1> QED
  BY <1>2, <1>4, <1>7

LEMMA MailTypes ==
  ASSUME TypeOK, NEW w, NEW kind \in {"submitted", "success", "failure"}, Mail(w, kind)
  PROVE  mails' \in [Runs -> SUBSET {"submitted", "success", "failure"}]
BY DEF Mail, TypeOK, RecordTypes

LEMMA SettleTypes ==
  ASSUME TypeOK, NEW q \in net, NEW status \in JobStatus, SettleMapped(q, status)
  PROVE  TypeOK'
<1>1. PluginTypes' /\ NetTypes' /\ log' \subseteq Logged
  BY RequestParts, ServeTypes DEF SettleMapped
<1>2. jobs' \in [RowIds -> JobRow \cup {None}]
  <2>1. \A i \in RowIds : jobs[i] # None => [jobs[i] EXCEPT !.status = status] \in JobRow
    BY DEF TypeOK, TableTypes, JobRow
  <2> QED
    BY <2>1 DEF SettleMapped, TypeOK, TableTypes
<1>3. TableTypes'
  BY <1>2 DEF SettleMapped, TypeOK, TableTypes
<1>4. RecordTypes'
  BY <1>1 DEF SettleMapped, TypeOK, RecordTypes
<1> QED
  BY <1>1, <1>3, <1>4 DEF TypeOK

\* serving a request that changes no table and sends no mail
LEMMA IdleTypes ==
  ASSUME TypeOK, NEW q \in net, NEW ok \in BOOLEAN, Serve(q, ok, q.ctx),
         UNCHANGED runTables,
         mails' \in [Runs -> SUBSET {"submitted", "success", "failure"}]
  PROVE  TypeOK'
<1>1. PluginTypes' /\ NetTypes' /\ log' \subseteq Logged
  BY RequestParts, ServeTypes
<1>2. TableTypes'
  BY DEF runTables, TypeOK, TableTypes
<1> QED
  BY <1>1, <1>2 DEF TypeOK, RecordTypes

LEMMA HandleTypes ==
  ASSUME TypeOK, NEW q \in net, Handle(q)
  PROVE  TypeOK'
<1> DEFINE w == q.ctx.wf
<1>0. /\ q.run \in Runs /\ q.ev \in Event /\ q.ctx \in Context
      /\ q.ev.jobs \subseteq SnakeJobs /\ q.ev.rules \subseteq RuleNames
      /\ w \in Runs \cup {None}
      /\ q.ctx.jobs \in [SnakeJobs -> RowIds \cup {None}]
  BY RequestParts
<1>m. mails \in [Runs -> SUBSET {"submitted", "success", "failure"}]
  BY DEF TypeOK, RecordTypes
<1>1. CASE HandleWorkflowStarted(q)
  <2>1. mails' \in [Runs -> SUBSET {"submitted", "success", "failure"}]
    BY <1>1, MailTypes DEF HandleWorkflowStarted
  <2>2. CASE Fail(q)
    BY <1>0, <2>1, <2>2, IdleTypes DEF Fail
  <2>3. CASE /\ wf' = [wf EXCEPT ![q.run] = "RUNNING"]
             /\ rules' = rules \cup {<<q.run, n>> : n \in q.ev.rules}
             /\ Serve(q, TRUE, [q.ctx EXCEPT !.wf = q.run])
             /\ UNCHANGED <<jobs, used, errors, notes, cachedGraph>>
    <3>1. [q.ctx EXCEPT !.wf = q.run] \in Context
      BY <1>0 DEF Context
    <3>2. PluginTypes' /\ NetTypes' /\ log' \subseteq Logged
      BY <3>1, <2>3, ServeTypes
    <3>3. TableTypes'
      BY <1>0, <2>3 DEF TypeOK, TableTypes, JobStatus
    <3> QED
      BY <2>1, <3>2, <3>3 DEF TypeOK, RecordTypes
  <2> QED
    BY <1>1, <2>2, <2>3 DEF HandleWorkflowStarted
<1>2. CASE HandleAnnotation(q)
  <2>1. CASE Ignore(q)
    BY <1>m, <2>1, IdleTypes DEF Ignore
  <2>2. CASE /\ w # None
             /\ q.ev.kind \in {"run_info", "rulegraph", "group_info"}
             /\ notes' = [notes EXCEPT ![w] = @ \cup {q.ev.kind}]
             /\ cachedGraph' = IF q.ev.kind = "rulegraph" THEN w ELSE cachedGraph
             /\ Serve(q, TRUE, q.ctx)
             /\ UNCHANGED <<wf, jobs, used, rules, errors, mails>>
    <3>1. PluginTypes' /\ NetTypes' /\ log' \subseteq Logged
      BY <1>0, <2>2, ServeTypes
    <3>2. notes' \in [Runs -> SUBSET AllKinds]
      BY <2>2 DEF TypeOK, TableTypes
    <3>3. TableTypes'
      BY <1>0, <2>2, <3>2 DEF TypeOK, TableTypes
    <3> QED
      BY <1>m, <2>2, <3>1, <3>3 DEF TypeOK, RecordTypes
  <2> QED
    BY <1>2, <2>1, <2>2 DEF HandleAnnotation
<1>3. CASE HandleJobStarted(q)
  <2>1. CASE Ignore(q) \/ (Fail(q) /\ UNCHANGED mails)
    BY <1>m, <2>1, IdleTypes DEF Ignore, Fail
  <2>2. CASE /\ w # None
             /\ \E key \in Injections(q.ev.jobs, FreshKeys(w)) :
                  /\ jobs' = Inserted(w, key)
                  /\ used' = used \cup {key[j] : j \in q.ev.jobs}
                  /\ Serve(q, TRUE, Remapped(q.ctx, key))
             /\ UNCHANGED <<wf, rules, errors, notes, cachedGraph, mails>>
    <3>1. PICK key \in [q.ev.jobs -> RowIds] :
             /\ jobs' = Inserted(w, key)
             /\ used' = used \cup {key[j] : j \in q.ev.jobs}
             /\ Serve(q, TRUE, Remapped(q.ctx, key))
      BY <2>2 DEF Injections, FreshKeys
    <3>2. Remapped(q.ctx, key) \in Context
      BY <1>0, <3>1 DEF Remapped, Context
    <3>3. PluginTypes' /\ NetTypes' /\ log' \subseteq Logged
      BY <3>1, <3>2, ServeTypes
    <3>4. jobs' \in [RowIds -> JobRow \cup {None}]
      <4>1. \A j \in q.ev.jobs :
              [wf |-> w, sid |-> j, status |-> "RUNNING", rule |-> None, files |-> FALSE] \in JobRow
        BY <1>0, <2>2 DEF JobRow, JobStatus
      <4>2. \A i \in RowIds : Inserted(w, key)[i] \in JobRow \cup {None}
        BY <4>1, <3>1 DEF Inserted, TypeOK, TableTypes
      <4> QED
        BY <4>2, <3>1 DEF Inserted
    <3>5. used' \subseteq RowIds
      BY <3>1 DEF TypeOK, TableTypes
    <3>6. TableTypes'
      BY <2>2, <3>4, <3>5 DEF TypeOK, TableTypes
    <3> QED
      BY <1>m, <2>2, <3>3, <3>6 DEF TypeOK, RecordTypes
  <2> QED
    BY <1>3, <2>1, <2>2 DEF HandleJobStarted
<1>4. CASE HandleJobInfo(q)
  <2>1. CASE Ignore(q) \/ (Fail(q) /\ UNCHANGED mails)
    BY <1>m, <2>1, IdleTypes DEF Ignore, Fail
  <2>2. CASE /\ w # None
             /\ \E n \in q.ev.rules :
                  /\ rules' = rules \cup {<<w, n>>}
                  /\ jobs' = Described(q, n)
             /\ Serve(q, TRUE, q.ctx)
             /\ UNCHANGED <<wf, used, errors, notes, cachedGraph, mails>>
    <3>1. PICK n \in q.ev.rules : rules' = rules \cup {<<w, n>>} /\ jobs' = Described(q, n)
      BY <2>2
    <3>2. PluginTypes' /\ NetTypes' /\ log' \subseteq Logged
      BY <1>0, <2>2, ServeTypes
    <3>3. q.ev.full \in BOOLEAN
      BY <1>0 DEF Event
    <3>4. \A i \in RowIds : jobs[i] # None =>
            [jobs[i] EXCEPT !.rule = n, !.files = @ \/ q.ev.full] \in JobRow
      <4> SUFFICES ASSUME NEW i \in RowIds, jobs[i] \in JobRow
                   PROVE  [jobs[i] EXCEPT !.rule = n, !.files = @ \/ q.ev.full] \in JobRow
        BY DEF TypeOK, TableTypes
      <4>1. n \in RuleNames
        BY <1>0
      <4>2. jobs[i].files \in BOOLEAN
        BY DEF JobRow
      <4>3. (jobs[i].files \/ q.ev.full) \in BOOLEAN
        BY <4>2, <3>3
      <4> QED
        BY <4>1, <4>3 DEF JobRow
    <3>5. jobs' \in [RowIds -> JobRow \cup {None}]
      BY <3>1, <3>4 DEF Described, TypeOK, TableTypes
    <3>6. rules' \subseteq Runs \X RuleNames
      BY <1>0, <2>2, <3>1 DEF TypeOK, TableTypes
    <3>7. TableTypes'
      BY <2>2, <3>5, <3>6 DEF TypeOK, TableTypes
    <3> QED
      BY <1>m, <2>2, <3>2, <3>7 DEF TypeOK, RecordTypes
  <2> QED
    BY <1>4, <2>1, <2>2 DEF HandleJobInfo
<1>5. CASE HandleJobFinished(q)
  BY <1>5, SettleTypes DEF HandleJobFinished, JobStatus
<1>6. CASE HandleJobError(q)
  BY <1>6, SettleTypes DEF HandleJobError, JobStatus
<1>7. CASE HandleGroupError(q)
  <2>1. CASE Ignore(q)
    BY <1>m, <2>1, IdleTypes DEF Ignore
  <2>2. CASE SettleMapped(q, "ERROR")
    BY <2>2, SettleTypes DEF JobStatus
  <2> QED
    BY <1>7, <2>1, <2>2 DEF HandleGroupError
<1>8. CASE HandleError(q)
  <2>1. CASE Ignore(q) \/ (Fail(q) /\ UNCHANGED mails)
    BY <1>m, <2>1, IdleTypes DEF Ignore, Fail
  <2>2. CASE w # None /\ ~(Ignore(q) \/ (Fail(q) /\ UNCHANGED mails))
    <3>1. mails' \in [Runs -> SUBSET {"submitted", "success", "failure"}]
      BY <1>8, <1>m, <2>2, MailTypes DEF HandleError
    <3>2. CASE FailError(q)
      BY <1>0, <3>1, <3>2, IdleTypes DEF FailError, Fail
    <3>3. CASE /\ rules' = rules \cup {<<w, n>> : n \in q.ev.rules}
               /\ errors' = errors \cup {<<w, n>> : n \in IF q.ev.rules = {} THEN {None}
                                                                              ELSE q.ev.rules}
               /\ wf' = IF EndsNow(w) THEN [wf EXCEPT ![w] = "ERROR"] ELSE wf
               /\ Serve(q, TRUE, q.ctx)
               /\ UNCHANGED <<jobs, used, notes, cachedGraph>>
      <4>1. PluginTypes' /\ NetTypes' /\ log' \subseteq Logged
        BY <1>0, <3>3, ServeTypes
      <4>2. wf' \in [Runs -> {"none"} \cup JobStatus]
        BY <3>3 DEF TypeOK, TableTypes, JobStatus
      <4>3. rules' \subseteq Runs \X RuleNames
        BY <1>0, <2>2, <3>3 DEF TypeOK, TableTypes
      <4>4. errors' \subseteq Runs \X (RuleNames \cup {None})
        BY <1>0, <2>2, <3>3 DEF TypeOK, TableTypes
      <4>5. TableTypes'
        BY <3>3, <4>2, <4>3, <4>4 DEF TypeOK, TableTypes
      <4> QED
        BY <3>1, <4>1, <4>5 DEF TypeOK, RecordTypes
    <3> QED
      BY <1>8, <2>2, <3>2, <3>3 DEF HandleError
  <2> QED
    BY <1>8, <2>1, <2>2 DEF HandleError, Ignore
<1>9. CASE HandleClose(q)
  <2>1. PluginTypes'
    BY <1>9 DEF HandleClose, pluginVars, TypeOK, PluginTypes
  <2>2. NetTypes' /\ log' \subseteq Logged
    BY <1>9 DEF HandleClose, TypeOK, NetTypes, RecordTypes
  <2>3. CASE UNCHANGED <<runTables, mails>>
    BY <2>1, <2>2, <2>3 DEF runTables, TypeOK, TableTypes, RecordTypes
  <2>4. CASE \E status \in {"SUCCESS", "ERROR"} :
                /\ wf' = [wf EXCEPT ![w] = status]
                /\ jobs' = Swept(w, status)
                /\ Mail(w, IF status = "SUCCESS" THEN "success" ELSE "failure")
                /\ UNCHANGED <<used, rules, errors, notes, cachedGraph>>
    <3>1. PICK status \in {"SUCCESS", "ERROR"} :
                /\ wf' = [wf EXCEPT ![w] = status]
                /\ jobs' = Swept(w, status)
                /\ Mail(w, IF status = "SUCCESS" THEN "success" ELSE "failure")
      BY <2>4
    <3>2. wf' \in [Runs -> {"none"} \cup JobStatus]
      BY <3>1 DEF TypeOK, TableTypes, JobStatus
    <3>3. \A i \in RowIds : jobs[i] # None => [jobs[i] EXCEPT !.status = status] \in JobRow
      BY DEF TypeOK, TableTypes, JobRow, JobStatus
    <3>4. jobs' \in [RowIds -> JobRow \cup {None}]
      BY <3>1, <3>3 DEF Swept, RowsOf, TypeOK, TableTypes
    <3>5. mails' \in [Runs -> SUBSET {"submitted", "success", "failure"}]
      BY <3>1, MailTypes
    <3>6. TableTypes'
      BY <2>4, <3>2, <3>4 DEF TypeOK, TableTypes
    <3> QED
      BY <2>1, <2>2, <3>5, <3>6 DEF TypeOK, RecordTypes
  <2>5. Verdict(w) \in {"SUCCESS", "ERROR"}
    BY DEF Verdict
  <2> QED
    BY <1>9, <2>3, <2>4, <2>5 DEF HandleClose
<1> QED
  BY <1>1, <1>2, <1>3, <1>4, <1>5, <1>6, <1>7, <1>8, <1>9 DEF Handle

LEMMA ReceiveTypes ==
  ASSUME TypeOK, NEW a \in answers, Receive(a)
  PROVE  TypeOK'
<1>1. a.run \in Runs /\ a.ctx \in Context
  BY DEF TypeOK, NetTypes, Answer
<1>2. PluginTypes'
  BY <1>1 DEF Receive, TypeOK, PluginTypes
<1>3. NetTypes'
  BY DEF Receive, TypeOK, NetTypes
<1>4. TableTypes' /\ RecordTypes'
  BY DEF Receive, runTables, TypeOK, TableTypes, RecordTypes
<1> QED
  BY <1>2, <1>3, <1>4 DEF TypeOK

LEMMA FaultTypes ==
  ASSUME TypeOK, Fault
  PROVE  TypeOK'
<1>1. waiting' \in [Runs -> BOOLEAN]
  BY DEF Fault, LoseRequest, GiveUp, LoseAnswer, TypeOK, PluginTypes
<1>2. PluginTypes'
  BY <1>1 DEF Fault, LoseRequest, GiveUp, LoseAnswer, TypeOK, PluginTypes
<1>3. NetTypes'
  BY DEF Fault, LoseRequest, GiveUp, LoseAnswer, TypeOK, NetTypes
<1>4. TableTypes' /\ RecordTypes'
  BY DEF Fault, LoseRequest, GiveUp, LoseAnswer, runTables, TypeOK, TableTypes, RecordTypes
<1> QED
  BY <1>2, <1>3, <1>4 DEF TypeOK

LEMMA InitTypes == Init => TypeOK
<1> SUFFICES ASSUME Init PROVE TypeOK
  OBVIOUS
<1>1. EmptyContext \in Context
  BY DEF EmptyContext, Context
<1> QED
  BY <1>1 DEF Init, TypeOK, PluginTypes, NetTypes, TableTypes, RecordTypes

LEMMA NextTypes == TypeOK /\ [Next]_vars => TypeOK'
<1>1. ASSUME TypeOK, UNCHANGED vars PROVE TypeOK'
  BY <1>1 DEF vars, pluginVars, netVars, runTables,
              TypeOK, PluginTypes, NetTypes, TableTypes, RecordTypes
<1> QED
  BY <1>1, RunStepTypes, HandleTypes, ReceiveTypes, FaultTypes DEF Next

(* In every reachable state each table, each message and each context is   *)
(* of its type.                                                            *)
THEOREM TypeCorrect == Spec => []TypeOK
  BY InitTypes, NextTypes, PTL DEF Spec

-----------------------------------------------------------------------------
(* Contexts lead home, and nothing succeeds early.                         *)
(*                                                                         *)
(* The invariant needs two facts the properties do not state: a row's key  *)
(* was drawn, so a key that is drawn now is nobody's; and a report that    *)
(* waits in the queue is still true of the Snakemake that sent it.         *)

RowsDrawn == \A i \in RowIds : jobs[i] # None => i \in used

TrueReport(q) ==
  /\ q.ev.kind = "job_finished" => \A j \in q.ev.jobs : snake[q.run][j] = "done"
  /\ q.ev.kind = "close" => phase[q.run] = "closed" /\ q.ctx.wf # None

ReportsTrue == \A q \in net : TrueReport(q)

IngestInv == TypeOK /\ RowsDrawn /\ ContextPointsHome /\ ReportsTrue /\ NoEarlySuccess

\* rows keep their workflow and job, and new rows get new keys
RowsKept ==
  /\ used \subseteq used'
  /\ \A i \in RowIds : jobs'[i] # None =>
       \/ jobs[i] # None /\ jobs'[i].wf = jobs[i].wf /\ jobs'[i].sid = jobs[i].sid
       \/ jobs[i] = None /\ i \in used' \ used

LEMMA HomeKept ==
  ASSUME TypeOK, RowsKept, NEW r, NEW c, Home(r, c)
  PROVE  Home(r, c)'
BY DEF RowsKept, Home, TypeOK, TableTypes

\* what Snakemake finished stays finished, and a closed run stays closed
LEMMA RunStepGrows ==
  ASSUME TypeOK, NEW r \in Runs, RunStep(r), NEW w \in Runs
  PROVE  /\ \A j \in SnakeJobs : snake[w][j] = "done" => snake'[w][j] = "done"
         /\ phase[w] = "closed" => phase'[w] = "closed"
<1>1. ASSUME NEW j \in SnakeJobs, snake[w][j] = "done" PROVE snake'[w][j] = "done"
  <2>1. CASE UNCHANGED snake
    BY <1>1, <2>1
  <2>2. CASE \E S \in SUBSET SnakeJobs :
               /\ \A k \in S : snake[r][k] \in {"waiting", "failed"}
               /\ snake' = [snake EXCEPT ![r] = [k \in SnakeJobs |-> IF k \in S THEN "running"
                                                                              ELSE @[k]]]
    BY <1>1, <2>2 DEF TypeOK, PluginTypes
  <2>3. CASE \E k \in SnakeJobs, v \in {"done", "failed"} :
               /\ snake[r][k] = "running"
               /\ snake' = [snake EXCEPT ![r][k] = v]
    BY <1>1, <2>3 DEF TypeOK, PluginTypes
  <2>4. StartJobs(r) \/ FinishJob(r) \/ FailJob(r) \/ UNCHANGED snake
    BY DEF RunStep, StartRun, DescribeJob, RaiseError, Annotate, CloseRun, CrashRun
  <2>5. StartJobs(r) => \E S \in SUBSET SnakeJobs :
               /\ \A k \in S : snake[r][k] \in {"waiting", "failed"}
               /\ snake' = [snake EXCEPT ![r] = [k \in SnakeJobs |-> IF k \in S THEN "running"
                                                                              ELSE @[k]]]
    BY DEF StartJobs
  <2>6. FinishJob(r) \/ FailJob(r) => \E k \in SnakeJobs, v \in {"done", "failed"} :
               /\ snake[r][k] = "running"
               /\ snake' = [snake EXCEPT ![r][k] = v]
    BY DEF FinishJob, FailJob
  <2> QED
    BY <2>1, <2>2, <2>3, <2>4, <2>5, <2>6
<1>2. phase[w] = "closed" => phase'[w] = "closed"
  BY DEF RunStep, StartRun, StartJobs, DescribeJob, FinishJob, FailJob, RaiseError, Annotate,
         CloseRun, CrashRun, Emit, TypeOK, PluginTypes
<1> QED
  BY <1>1, <1>2

\* a step of the plugin posts at most one request, with its own context
LEMMA RunStepPosts ==
  ASSUME TypeOK, NEW r \in Runs, RunStep(r)
  PROVE  /\ UNCHANGED <<ctx, runTables>>
         /\ answers' \subseteq answers
         /\ \A q \in net' \ net : q.run = r /\ q.ctx = ctx[r] /\ TrueReport(q)'
<1> DEFINE Posted(q) == q.run = r /\ q.ctx = ctx[r] /\ TrueReport(q)'
<1>1. ASSUME NEW kind \in AllKinds \ {"job_finished"}, NEW js, NEW rs, NEW full,
             Post(r, Report(kind, js, rs, full))
      PROVE  \A q \in net' \ net : Posted(q)
  BY <1>1 DEF Post, Report, TrueReport
<1>2. CASE FinishJob(r)
  <2>1. PICK j \in SnakeJobs :
          /\ snake' = [snake EXCEPT ![r][j] = "done"]
          /\ Post(r, Report("job_finished", {j}, {}, TRUE))
    BY <1>2 DEF FinishJob, Emit
  <2>2. snake'[r][j] = "done"
    BY <2>1 DEF TypeOK, PluginTypes
  <2>3. \A q \in net' \ net : Posted(q)
    BY <2>1, <2>2 DEF Post, Report, TrueReport
  <2> QED
    BY <2>1, <2>3 DEF Post
<1>3. CASE CloseRun(r)
  <2>1. phase'[r] = "closed"
    BY <1>3 DEF CloseRun, TypeOK, PluginTypes
  <2>2. \A q \in net' \ net : Posted(q)
    BY <1>3, <2>1 DEF CloseRun, Report, TrueReport
  <2> QED
    BY <1>3, <2>2 DEF CloseRun
<1>4. CASE CrashRun(r)
  BY <1>4 DEF CrashRun
<1>5. CASE StartRun(r) \/ StartJobs(r) \/ DescribeJob(r) \/ FailJob(r) \/ RaiseError(r) \/ Annotate(r)
  <2>1. PICK kind \in AllKinds \ {"job_finished"}, js \in SUBSET SnakeJobs,
             rs \in SUBSET RuleNames, full \in BOOLEAN : Post(r, Report(kind, js, rs, full))
    <3>1. CASE StartRun(r)
      BY <3>1 DEF StartRun
    <3>2. CASE StartJobs(r)
      BY <3>2 DEF StartJobs, Emit
    <3>3. CASE DescribeJob(r)
      BY <3>3 DEF DescribeJob, Emit
    <3>4. CASE FailJob(r)
      <4>1. PICK j \in SnakeJobs, kind \in {"job_error", "group_error"} :
              Post(r, Report(kind, {j}, {}, TRUE))
        BY <3>4 DEF FailJob, Emit
      <4>2. kind \in AllKinds \ {"job_finished"}
        OBVIOUS
      <4> QED
        BY <4>1, <4>2
    <3>5. CASE RaiseError(r)
      BY <3>5 DEF RaiseError, Emit
    <3>6. CASE Annotate(r)
      <4>1. PICK kind \in {"run_info", "rulegraph", "group_info"} :
              Post(r, Report(kind, {}, {}, TRUE))
        BY <3>6 DEF Annotate, Emit
      <4>2. kind \in AllKinds \ {"job_finished"}
        OBVIOUS
      <4> QED
        BY <4>1, <4>2
    <3> QED
      BY <1>5, <3>1, <3>2, <3>3, <3>4, <3>5, <3>6
  <2> QED
    BY <1>1, <2>1 DEF Post
<1> QED
  BY <1>2, <1>3, <1>4, <1>5 DEF RunStep

LEMMA RunStepInv ==
  ASSUME IngestInv, NEW r \in Runs, RunStep(r)
  PROVE  IngestInv'
<1> USE DEF IngestInv
<1>1. TypeOK'
  BY RunStepTypes
<1>2. /\ UNCHANGED <<ctx, runTables>>
      /\ answers' \subseteq answers
      /\ \A q \in net' \ net : q.run = r /\ q.ctx = ctx[r] /\ TrueReport(q)'
  BY RunStepPosts
<1>3. RowsKept
  BY <1>2 DEF RowsKept, runTables
<1>4. ContextPointsHome'
  <2>1. ASSUME NEW s \in Runs PROVE Home(s, ctx[s])'
    <3>1. PICK c : c = ctx[s]
      OBVIOUS
    <3>2. Home(s, c)'
      BY <1>3, <3>1, HomeKept DEF ContextPointsHome
    <3> QED
      BY <1>2, <3>1, <3>2 DEF Home
  <2>2. \A q \in net' : Home(q.run, q.ctx)'
    <3> SUFFICES ASSUME NEW q \in net' PROVE Home(q.run, q.ctx)'
      OBVIOUS
    <3>1. Home(q.run, q.ctx)
      BY <1>2 DEF ContextPointsHome
    <3> QED
      BY <1>3, <3>1, HomeKept
  <2>3. \A a \in answers' : Home(a.run, a.ctx)'
    BY <1>2, <1>3, HomeKept DEF ContextPointsHome
  <2> QED
    BY <2>1, <2>2, <2>3 DEF ContextPointsHome
<1>5. ReportsTrue'
  <2> SUFFICES ASSUME NEW q \in net, TrueReport(q) PROVE TrueReport(q)'
    BY <1>2 DEF ReportsTrue
  <2>1. q.run \in Runs /\ q.ev.jobs \subseteq SnakeJobs
    BY RequestParts
  <2>2. ASSUME NEW j \in q.ev.jobs, snake[q.run][j] = "done"
        PROVE  snake'[q.run][j] = "done"
    BY <2>1, <2>2, RunStepGrows
  <2>3. phase[q.run] = "closed" => phase'[q.run] = "closed"
    BY <2>1, RunStepGrows
  <2> QED
    BY <2>2, <2>3 DEF TrueReport
<1>6. NoEarlySuccess'
  <2> SUFFICES ASSUME NEW i \in RowIds, jobs[i] # None, jobs[i].status = "SUCCESS",
                      phase'[jobs[i].wf] # "closed"
               PROVE  snake'[jobs[i].wf][jobs[i].sid] = "done"
    BY <1>2 DEF NoEarlySuccess, runTables
  <2>1. jobs[i].wf \in Runs /\ jobs[i].sid \in SnakeJobs
    BY DEF TypeOK, TableTypes, JobRow
  <2> QED
    BY <2>1, RunStepGrows DEF NoEarlySuccess
<1>7. RowsDrawn'
  BY <1>2 DEF RowsDrawn, runTables
<1> QED
  BY <1>1, <1>4, <1>5, <1>6, <1>7

\* a handler answers with a context that leads home, if it gets one
LEMMA ServedHome ==
  ASSUME IngestInv, RowsKept, NEW q \in net, NEW ok, NEW c, Serve(q, ok, c),
         Home(q.run, c)'
  PROVE  ContextPointsHome' /\ ReportsTrue'
<1>1. UNCHANGED pluginVars /\ net' \subseteq net
  BY DEF Serve
<1>2. TypeOK /\ ContextPointsHome /\ ReportsTrue
  BY DEF IngestInv
<1>3. ASSUME NEW s \in Runs PROVE Home(s, ctx[s])'
  <2>1. PICK d : d = ctx[s]
    OBVIOUS
  <2>2. Home(s, d)'
    BY <1>2, <2>1, HomeKept DEF ContextPointsHome
  <2> QED
    BY <1>1, <2>1, <2>2 DEF Home, pluginVars
<1>4. ASSUME NEW p \in net' PROVE Home(p.run, p.ctx)'
  BY <1>1, <1>2, HomeKept DEF ContextPointsHome
<1>5. ASSUME NEW a \in answers' PROVE Home(a.run, a.ctx)'
  <2>1. CASE a \in answers
    BY <1>2, <2>1, HomeKept DEF ContextPointsHome
  <2>2. CASE a.run = q.run /\ a.ctx = c
    BY <2>2
  <2> QED
    BY <2>1, <2>2 DEF Serve
<1>6. ReportsTrue'
  BY <1>1, <1>2 DEF ReportsTrue, TrueReport, pluginVars
<1> QED
  BY <1>3, <1>4, <1>5, <1>6 DEF ContextPointsHome

\* a handler that draws no key and lets no row succeed keeps the invariant
LEMMA ServedInv ==
  ASSUME IngestInv, TypeOK', NEW q \in net, NEW ok, Serve(q, ok, q.ctx), UNCHANGED used,
         \A i \in RowIds : jobs'[i] # None =>
           /\ jobs[i] # None /\ jobs'[i].wf = jobs[i].wf /\ jobs'[i].sid = jobs[i].sid
           /\ jobs'[i].status = "SUCCESS" =>
                \/ jobs[i].status = "SUCCESS"
                \/ snake[jobs[i].wf][jobs[i].sid] = "done"
  PROVE  IngestInv'
<1>1. RowsKept
  BY DEF RowsKept
<1>2. Home(q.run, q.ctx)'
  BY <1>1, HomeKept DEF IngestInv, ContextPointsHome
<1>3. ContextPointsHome' /\ ReportsTrue'
  BY <1>1, <1>2, ServedHome
<1>4. RowsDrawn'
  BY DEF IngestInv, RowsDrawn
<1>5. NoEarlySuccess'
  BY DEF IngestInv, NoEarlySuccess, Serve, pluginVars
<1> QED
  BY <1>3, <1>4, <1>5 DEF IngestInv

LEMMA JobStartedInv ==
  ASSUME IngestInv, TypeOK', NEW q \in net, HandleJobStarted(q)
  PROVE  IngestInv'
<1> DEFINE w == q.ctx.wf
<1>1. CASE Ignore(q) \/ Fail(q)
  BY <1>1, ServedInv DEF Ignore, Fail, runTables, NoEarlySuccess
<1>2. CASE /\ w # None
           /\ \E key \in Injections(q.ev.jobs, FreshKeys(w)) :
                /\ jobs' = Inserted(w, key)
                /\ used' = used \cup {key[j] : j \in q.ev.jobs}
                /\ Serve(q, TRUE, Remapped(q.ctx, key))
  <2>1. PICK key \in Injections(q.ev.jobs, FreshKeys(w)) :
          /\ jobs' = Inserted(w, key)
          /\ used' = used \cup {key[j] : j \in q.ev.jobs}
          /\ Serve(q, TRUE, Remapped(q.ctx, key))
    BY <1>2
  <2>2. /\ key \in [q.ev.jobs -> RowIds \ used]
        /\ \A x, y \in q.ev.jobs : key[x] = key[y] => x = y
    BY DEF Injections, FreshKeys
  <2>3. /\ TypeOK /\ RowsDrawn /\ Home(q.run, q.ctx) /\ q.ev.jobs \subseteq SnakeJobs
        /\ q.ctx.jobs \in [SnakeJobs -> RowIds \cup {None}] /\ q.ctx \in Context
    BY RequestParts DEF IngestInv, ContextPointsHome
  <2>4. w = q.run
    BY <1>2, <2>3 DEF Home
  <2>5. \A j \in q.ev.jobs : jobs'[key[j]].wf = q.run /\ jobs'[key[j]].sid = j
                             /\ jobs'[key[j]].status = "RUNNING"
    BY <2>1, <2>2, <2>4 DEF Inserted
  <2>6. \A i \in RowIds : (\A j \in q.ev.jobs : key[j] # i) => jobs'[i] = jobs[i]
    BY <2>1, <2>2 DEF Inserted
  <2>7. RowsKept /\ RowsDrawn'
    <3>1. \A j \in q.ev.jobs : jobs[key[j]] = None /\ key[j] \in used' \ used
      BY <2>1, <2>2, <2>3 DEF RowsDrawn
    <3>2. used \subseteq used'
      BY <2>1
    <3> QED
      BY <2>3, <2>6, <3>1, <3>2 DEF RowsKept, RowsDrawn
  <2>8. Home(q.run, Remapped(q.ctx, key))'
    <3>1. PICK c : c = Remapped(q.ctx, key)
      OBVIOUS
    <3>2. /\ c.wf = q.ctx.wf
          /\ \A j \in SnakeJobs : c.jobs[j] = IF j \in q.ev.jobs THEN key[j] ELSE q.ctx.jobs[j]
      BY <2>2, <2>3, <3>1 DEF Remapped, Context
    <3>3. Home(q.run, q.ctx)'
      BY <2>3, <2>7, HomeKept
    <3>4. ASSUME NEW j \in SnakeJobs, c.jobs[j] # None
          PROVE  /\ c.jobs[j] \in used'
                 /\ jobs'[c.jobs[j]] # None => /\ jobs'[c.jobs[j]].wf = q.run
                                               /\ jobs'[c.jobs[j]].sid = j
      <4>1. CASE j \in q.ev.jobs
        BY <2>1, <2>2, <2>5, <3>2, <4>1
      <4>2. CASE j \notin q.ev.jobs
        BY <3>2, <3>3, <3>4, <4>2 DEF Home
      <4> QED
        BY <4>1, <4>2
    <3> QED
      BY <2>4, <3>1, <3>2, <3>4 DEF Home, Remapped
  <2>9. ContextPointsHome' /\ ReportsTrue'
    BY <2>1, <2>7, <2>8, ServedHome
  <2>10. NoEarlySuccess'
    <3> SUFFICES ASSUME NEW i \in RowIds, jobs'[i] # None, jobs'[i].status = "SUCCESS",
                        phase'[jobs'[i].wf] # "closed"
                 PROVE  snake'[jobs'[i].wf][jobs'[i].sid] = "done"
      BY DEF NoEarlySuccess
    <3>1. jobs'[i] = jobs[i]
      BY <2>5, <2>6
    <3> QED
      BY <2>1, <3>1 DEF IngestInv, NoEarlySuccess, Serve, pluginVars
  <2> QED
    BY <2>7, <2>9, <2>10 DEF IngestInv
<1> QED
  BY <1>1, <1>2 DEF HandleJobStarted

LEMMA SettleInv ==
  ASSUME IngestInv, TypeOK', NEW q \in net, NEW status, SettleMapped(q, status),
         status = "SUCCESS" => q.ev.kind = "job_finished"
  PROVE  IngestInv'
<1>1. /\ Home(q.run, q.ctx) /\ TrueReport(q) /\ q.ev.jobs \subseteq SnakeJobs
      /\ TypeOK
  BY RequestParts DEF IngestInv, ContextPointsHome, ReportsTrue
<1>2. \A i \in Mapped(q) : jobs[i] # None =>
        \E j \in q.ev.jobs : jobs[i].wf = q.run /\ jobs[i].sid = j
  BY <1>1 DEF Mapped, Home
<1>3. ASSUME NEW i \in RowIds, jobs'[i] # None
      PROVE  /\ jobs[i] # None /\ jobs'[i].wf = jobs[i].wf /\ jobs'[i].sid = jobs[i].sid
             /\ jobs'[i].status = "SUCCESS" =>
                  \/ jobs[i].status = "SUCCESS"
                  \/ snake[jobs[i].wf][jobs[i].sid] = "done"
  <2>1. jobs[i] # None /\ jobs[i] \in JobRow
    BY <1>1, <1>3 DEF SettleMapped, TypeOK, TableTypes
  <2>2. CASE i \in Mapped(q)
    <3>1. jobs'[i] = [jobs[i] EXCEPT !.status = status]
      BY <2>1, <2>2 DEF SettleMapped
    <3>2. jobs'[i].status = status /\ jobs'[i].wf = jobs[i].wf /\ jobs'[i].sid = jobs[i].sid
      BY <2>1, <3>1 DEF JobRow
    <3>3. status = "SUCCESS" => snake[jobs[i].wf][jobs[i].sid] = "done"
      BY <1>1, <1>2, <2>1, <2>2 DEF TrueReport
    <3> QED
      BY <2>1, <3>2, <3>3
  <2>3. CASE i \notin Mapped(q)
    BY <2>1, <2>3 DEF SettleMapped
  <2> QED
    BY <2>2, <2>3
<1> QED
  BY <1>3, ServedInv DEF SettleMapped

LEMMA CloseInv ==
  ASSUME IngestInv, TypeOK', NEW q \in net, HandleClose(q)
  PROVE  IngestInv'
<1> DEFINE w == q.ctx.wf
<1>1. /\ TypeOK /\ RowsDrawn /\ ContextPointsHome /\ NoEarlySuccess
      /\ Home(q.run, q.ctx) /\ TrueReport(q) /\ ReportsTrue
  BY DEF IngestInv, ContextPointsHome, ReportsTrue
<1>2. phase[w] = "closed"
  BY <1>1 DEF HandleClose, TrueReport, Home
<1>3. UNCHANGED <<pluginVars, used, answers>> /\ net' \subseteq net
  BY DEF HandleClose, runTables
<1>4. ASSUME NEW i \in RowIds
      PROVE  \/ jobs'[i] = jobs[i]
             \/ /\ jobs[i] # None /\ jobs[i].wf = w
                /\ jobs'[i].wf = w /\ jobs'[i].sid = jobs[i].sid
  <2>1. CASE UNCHANGED jobs
    BY <2>1
  <2>2. CASE jobs' = Swept(w, Verdict(w))
    <3>1. CASE i \in RowsOf(w) /\ jobs[i].status = "RUNNING"
      <4>1. jobs[i] \in JobRow /\ jobs[i] # None /\ jobs[i].wf = w
        BY <1>1, <3>1 DEF RowsOf, TypeOK, TableTypes
      <4>2. jobs'[i] = [jobs[i] EXCEPT !.status = Verdict(w)]
        BY <2>2, <3>1 DEF Swept
      <4>3. jobs'[i].wf = w /\ jobs'[i].sid = jobs[i].sid
        BY <4>1, <4>2 DEF JobRow
      <4> QED
        BY <4>1, <4>3
    <3>2. CASE ~(i \in RowsOf(w) /\ jobs[i].status = "RUNNING")
      BY <2>2, <3>2 DEF Swept
    <3> QED
      BY <3>1, <3>2
  <2> QED
    BY <2>1, <2>2 DEF HandleClose, runTables
<1>5. RowsKept
  BY <1>3, <1>4 DEF RowsKept
<1>6. RowsDrawn'
  BY <1>1, <1>3, <1>4 DEF RowsDrawn
<1>7. ContextPointsHome'
  <2>1. ASSUME NEW s \in Runs PROVE Home(s, ctx[s])'
    <3>1. PICK d : d = ctx[s]
      OBVIOUS
    <3>2. Home(s, d)'
      BY <1>1, <1>5, <3>1, HomeKept DEF ContextPointsHome
    <3> QED
      BY <1>3, <3>1, <3>2 DEF Home, pluginVars
  <2>2. ASSUME NEW p \in net' PROVE Home(p.run, p.ctx)'
    BY <1>1, <1>3, <1>5, HomeKept DEF ContextPointsHome
  <2>3. ASSUME NEW a \in answers' PROVE Home(a.run, a.ctx)'
    BY <1>1, <1>3, <1>5, HomeKept DEF ContextPointsHome
  <2> QED
    BY <2>1, <2>2, <2>3 DEF ContextPointsHome
<1>8. ReportsTrue'
  BY <1>1, <1>3 DEF ReportsTrue, TrueReport, pluginVars
<1>9. NoEarlySuccess'
  BY <1>1, <1>2, <1>3, <1>4 DEF NoEarlySuccess, pluginVars
<1> QED
  BY <1>6, <1>7, <1>8, <1>9 DEF IngestInv

LEMMA HandleInv ==
  ASSUME IngestInv, NEW q \in net, Handle(q)
  PROVE  IngestInv'
<1>0. TypeOK /\ TypeOK' /\ NoEarlySuccess /\ Home(q.run, q.ctx)
  BY HandleTypes DEF IngestInv, ContextPointsHome
<1>e. \A ok : Serve(q, ok, q.ctx) /\ UNCHANGED <<jobs, used>> => IngestInv'
  BY <1>0, ServedInv
<1>1. CASE HandleWorkflowStarted(q)
  <2>1. CASE Fail(q)
    BY <1>e, <2>1 DEF Fail, runTables
  <2>2. CASE /\ Serve(q, TRUE, [q.ctx EXCEPT !.wf = q.run])
             /\ UNCHANGED <<jobs, used>>
    <3>1. RowsKept
      BY <2>2 DEF RowsKept
    <3>2. PICK c : c = [q.ctx EXCEPT !.wf = q.run]
      OBVIOUS
    <3>3. c.wf = q.run /\ c.jobs = q.ctx.jobs
      BY <3>2, RequestParts, <1>0 DEF Context
    <3>4. Home(q.run, c)'
      BY <1>0, <2>2, <3>3 DEF Home
    <3>5. ContextPointsHome' /\ ReportsTrue'
      BY <2>2, <3>1, <3>2, <3>4, ServedHome
    <3>6. RowsDrawn' /\ NoEarlySuccess'
      BY <2>2 DEF IngestInv, RowsDrawn, NoEarlySuccess, Serve, pluginVars
    <3> QED
      BY <1>0, <3>5, <3>6 DEF IngestInv
  <2> QED
    BY <1>1, <2>1, <2>2 DEF HandleWorkflowStarted
<1>2. CASE HandleAnnotation(q)
  BY <1>2, <1>e DEF HandleAnnotation, Ignore, runTables
<1>3. CASE HandleJobStarted(q)
  BY <1>0, <1>3, JobStartedInv
<1>4. CASE HandleJobInfo(q)
  <2>1. CASE Ignore(q) \/ Fail(q)
    BY <1>e, <2>1 DEF Ignore, Fail, runTables
  <2>2. CASE \E n : jobs' = Described(q, n) /\ Serve(q, TRUE, q.ctx) /\ UNCHANGED used
    <3>1. PICK n : jobs' = Described(q, n)
      BY <2>2
    <3>2. ASSUME NEW i \in RowIds, jobs'[i] # None
          PROVE  /\ jobs[i] # None /\ jobs'[i].wf = jobs[i].wf /\ jobs'[i].sid = jobs[i].sid
                 /\ jobs'[i].status = jobs[i].status
      <4>1. jobs[i] # None /\ jobs[i] \in JobRow
        BY <1>0, <3>1, <3>2 DEF Described, TypeOK, TableTypes
      <4> QED
        BY <3>1, <4>1 DEF Described, JobRow
    <3> QED
      BY <1>0, <2>2, <3>2, ServedInv
  <2> QED
    BY <1>4, <2>1, <2>2 DEF HandleJobInfo
<1>5. CASE HandleJobFinished(q)
  BY <1>0, <1>5, SettleInv DEF HandleJobFinished
<1>6. CASE HandleJobError(q)
  BY <1>0, <1>6, SettleInv DEF HandleJobError
<1>7. CASE HandleGroupError(q)
  <2>1. CASE Ignore(q)
    BY <1>e, <2>1 DEF Ignore, runTables
  <2>2. CASE SettleMapped(q, "ERROR")
    BY <1>0, <2>2, SettleInv
  <2> QED
    BY <1>7, <2>1, <2>2 DEF HandleGroupError
<1>8. CASE HandleError(q)
  BY <1>8, <1>e DEF HandleError, Ignore, FailError, Fail, runTables
<1>9. CASE HandleClose(q)
  BY <1>0, <1>9, CloseInv
<1> QED
  BY <1>1, <1>2, <1>3, <1>4, <1>5, <1>6, <1>7, <1>8, <1>9 DEF Handle

\* neither an answer that is taken nor a fault touches a table
LEMMA QuietInv ==
  ASSUME IngestInv, TypeOK', UNCHANGED <<phase, snake, runTables>>,
         net' \subseteq net, answers' \subseteq answers,
         \A r \in Runs : \/ ctx'[r] = ctx[r]
                         \/ \E a \in answers : a.run = r /\ ctx'[r] = a.ctx
  PROVE  IngestInv'
<1>1. RowsKept /\ TypeOK /\ ContextPointsHome
  BY DEF RowsKept, runTables, IngestInv
<1>2. ASSUME NEW r \in Runs PROVE Home(r, ctx[r])'
  <2>1. PICK d : d = ctx'[r]
    OBVIOUS
  <2>2. Home(r, d)
    BY <1>1, <2>1 DEF ContextPointsHome
  <2>3. Home(r, d)'
    BY <1>1, <2>2, HomeKept
  <2> QED
    BY <2>1, <2>3 DEF Home
<1>3. ASSUME NEW p \in net' PROVE Home(p.run, p.ctx)'
  BY <1>1, HomeKept DEF ContextPointsHome
<1>4. ASSUME NEW a \in answers' PROVE Home(a.run, a.ctx)'
  BY <1>1, HomeKept DEF ContextPointsHome
<1>5. RowsDrawn' /\ ReportsTrue' /\ NoEarlySuccess'
  BY DEF IngestInv, RowsDrawn, ReportsTrue, TrueReport, NoEarlySuccess, runTables
<1> QED
  BY <1>2, <1>3, <1>4, <1>5 DEF IngestInv, ContextPointsHome

LEMMA InitInv == Init => IngestInv
<1> SUFFICES ASSUME Init PROVE IngestInv
  OBVIOUS
<1>1. TypeOK
  BY InitTypes
<1>2. RowsDrawn /\ NoEarlySuccess /\ ReportsTrue
  BY DEF Init, RowsDrawn, NoEarlySuccess, ReportsTrue
<1>3. ContextPointsHome
  BY DEF Init, EmptyContext, ContextPointsHome, Home
<1> QED
  BY <1>1, <1>2, <1>3 DEF IngestInv

LEMMA NextInv == IngestInv /\ [Next]_vars => IngestInv'
<1> SUFFICES ASSUME IngestInv, [Next]_vars PROVE IngestInv'
  OBVIOUS
<1>1. TypeOK /\ TypeOK'
  BY NextTypes DEF IngestInv
<1>2. CASE \E r \in Runs : RunStep(r)
  BY <1>2, RunStepInv
<1>3. CASE \E q \in net : Handle(q)
  BY <1>3, HandleInv
<1>4. CASE \E a \in answers : Receive(a)
  <2>1. PICK a \in answers : Receive(a)
    BY <1>4
  <2>2. \A r \in Runs : ctx'[r] = ctx[r] \/ (a.run = r /\ ctx'[r] = a.ctx)
    BY <1>1, <2>1 DEF Receive, TypeOK, PluginTypes
  <2> QED
    BY <1>1, <2>1, <2>2, QuietInv DEF Receive
<1>5. CASE Fault
  BY <1>1, <1>5, QuietInv DEF Fault, LoseRequest, LoseAnswer, GiveUp
<1>6. CASE UNCHANGED vars
  BY <1>1, <1>6, QuietInv DEF vars, pluginVars, netVars
<1> QED
  BY <1>2, <1>3, <1>4, <1>5, <1>6 DEF Next

(* No context, wherever it is, leads a run to a row of another run or of   *)
(* another job: for any number of runs, jobs, losses and late reports.     *)
THEOREM ContextsLeadHome == Spec => []ContextPointsHome
<1>1. IngestInv => ContextPointsHome
  BY DEF IngestInv
<1> QED
  BY <1>1, InitInv, NextInv, PTL DEF Spec

(* Until its run is closed, no job is shown as SUCCESS before Snakemake    *)
(* has finished it, however reports are lost, repeated or served late.     *)
THEOREM NothingSucceedsEarly == Spec => []NoEarlySuccess
<1>1. IngestInv => NoEarlySuccess
  BY DEF IngestInv
<1> QED
  BY <1>1, InitInv, NextInv, PTL DEF Spec

-----------------------------------------------------------------------------
(* SUCCESS is final                                                        *)
(*                                                                         *)
(* Only a close makes a workflow SUCCESS, and only the run's own close or  *)
(* its workflow_started could touch it then: each is posted once.          *)

Requested(r, kind) == {q \in net : q.run = r /\ q.ev.kind = kind}

\* at most one, of run r
AtMostOne(S) == \A p, q \in S : p = q

(* A run makes its workflow once, when it begins, and closes it once.      *)
PostedOnce ==
  \A r \in Runs :
    /\ AtMostOne(Requested(r, "workflow_started")) /\ AtMostOne(Requested(r, "close"))
    /\ phase[r] = "new" => Requested(r, "workflow_started") = {}
    /\ Requested(r, "close") # {} => phase[r] = "closed"

\* its workflow is not there before it is made, nor a success before it is closed
MadeAndClosed ==
  \A r \in Runs :
    /\ phase[r] = "new" \/ Requested(r, "workflow_started") # {} => wf[r] = "none"
    /\ wf[r] = "SUCCESS" => phase[r] = "closed" /\ Requested(r, "close") = {}

FinalInv == IngestInv /\ PostedOnce /\ MadeAndClosed

LEMMA RunStepKeepsTables ==
  ASSUME NEW r \in Runs, RunStep(r)
  PROVE  UNCHANGED <<runTables, mails>>
BY DEF RunStep, StartRun, StartJobs, DescribeJob, FinishJob, FailJob, RaiseError, Annotate,
       CloseRun, CrashRun, Emit, Post

\* what a run posts when it begins, while it goes on, when it ends or dies
LEMMA RunStepAsks ==
  ASSUME TypeOK, NEW r \in Runs, RunStep(r)
  PROVE  /\ \A s \in Runs \ {r}, kind \in {"workflow_started", "close"} :
              phase'[s] = phase[s] /\ Requested(s, kind)' = Requested(s, kind)
         /\ \/ /\ phase'[r] = phase[r]
               /\ Requested(r, "workflow_started")' = Requested(r, "workflow_started")
               /\ Requested(r, "close")' = Requested(r, "close")
            \/ /\ phase[r] = "new" /\ phase'[r] = "open"
               /\ \E q : Requested(r, "workflow_started")' = Requested(r, "workflow_started") \cup {q}
               /\ Requested(r, "close")' = Requested(r, "close")
            \/ /\ phase[r] \in {"new", "open"} /\ phase'[r] = "closed"
               /\ Requested(r, "workflow_started")' = Requested(r, "workflow_started")
               /\ \/ Requested(r, "close")' = Requested(r, "close")
                  \/ \E q : Requested(r, "close")' = Requested(r, "close") \cup {q}
            \/ /\ phase[r] = "open" /\ phase'[r] = "crashed"
               /\ Requested(r, "workflow_started")' = Requested(r, "workflow_started")
               /\ Requested(r, "close")' = Requested(r, "close")
<1> DEFINE Rest(s) == /\ phase'[s] = phase[s]
                      /\ Requested(s, "workflow_started")' = Requested(s, "workflow_started")
                      /\ Requested(s, "close")' = Requested(s, "close")
<1>1. ASSUME NEW kind, NEW js, NEW rs, NEW full, kind \notin {"workflow_started", "close"},
             Emit(r, Report(kind, js, rs, full))
      PROVE  \A s \in Runs : Rest(s)
  <2>1. PICK q : q = [run |-> r, seq |-> sent[r] + 1, ev |-> Report(kind, js, rs, full), ctx |-> ctx[r]]
    OBVIOUS
  <2>2. net' = net \cup {q} /\ UNCHANGED phase /\ q.ev.kind = kind
    BY <1>1, <2>1 DEF Emit, Post, Report
  <2> QED
    BY <1>1, <2>2 DEF Requested
<1>2. CASE StartRun(r)
  <2>1. PICK rs : Post(r, Report("workflow_started", {}, rs, TRUE))
    BY <1>2 DEF StartRun
  <2>2. PICK q : q = [run |-> r, seq |-> sent[r] + 1,
                      ev |-> Report("workflow_started", {}, rs, TRUE), ctx |-> ctx[r]]
    OBVIOUS
  <2>3. net' = net \cup {q} /\ q.run = r /\ q.ev.kind = "workflow_started"
    BY <2>1, <2>2 DEF Post, Report
  <2>4. phase' = [phase EXCEPT ![r] = "open"] /\ phase[r] = "new"
    BY <1>2 DEF StartRun
  <2>5. phase'[r] = "open" /\ \A s \in Runs \ {r} : phase'[s] = phase[s]
    BY <2>4 DEF TypeOK, PluginTypes
  <2>6. /\ Requested(r, "workflow_started")' = Requested(r, "workflow_started") \cup {q}
        /\ Requested(r, "close")' = Requested(r, "close")
        /\ \A kind : \A s \in Runs \ {r} : Requested(s, kind)' = Requested(s, kind)
    BY <2>3 DEF Requested
  <2> QED
    BY <2>4, <2>5, <2>6
<1>3. CASE StartJobs(r)
  <2>1. PICK S : Emit(r, Report("job_started", S, {}, TRUE))
    BY <1>3 DEF StartJobs
  <2>2. "job_started" \notin {"workflow_started", "close"}
    OBVIOUS
  <2>3. \A s \in Runs : Rest(s)
    BY <1>1, <2>1, <2>2, Zenon
  <2> QED
    BY <2>3
<1>4. CASE DescribeJob(r)
  <2>1. PICK j, n, full : Emit(r, Report("job_info", {j}, {n}, full))
    BY <1>4 DEF DescribeJob
  <2>2. \A s \in Runs : Rest(s)
    BY <1>1, <2>1
  <2> QED
    BY <2>2
<1>5. CASE FinishJob(r)
  <2>1. PICK j : Emit(r, Report("job_finished", {j}, {}, TRUE))
    BY <1>5 DEF FinishJob
  <2>2. "job_finished" \notin {"workflow_started", "close"}
    OBVIOUS
  <2>3. \A s \in Runs : Rest(s)
    BY <1>1, <2>1, <2>2, Zenon
  <2> QED
    BY <2>3
<1>6. CASE FailJob(r)
  <2>1. PICK j \in SnakeJobs, kind \in {"job_error", "group_error"} :
          Emit(r, Report(kind, {j}, {}, TRUE))
    BY <1>6 DEF FailJob
  <2>2. \A s \in Runs : Rest(s)
    BY <1>1, <2>1
  <2> QED
    BY <2>2
<1>7. CASE RaiseError(r)
  <2>1. PICK rs, full : Emit(r, Report("error", {}, rs, full))
    BY <1>7 DEF RaiseError
  <2>2. \A s \in Runs : Rest(s)
    BY <1>1, <2>1
  <2> QED
    BY <2>2
<1>8. CASE Annotate(r)
  <2>1. PICK kind \in {"run_info", "rulegraph", "group_info"} : Emit(r, Report(kind, {}, {}, TRUE))
    BY <1>8 DEF Annotate
  <2>2. \A s \in Runs : Rest(s)
    BY <1>1, <2>1
  <2> QED
    BY <2>2
<1>9. CASE CloseRun(r)
  <2>1. phase' = [phase EXCEPT ![r] = "closed"] /\ phase[r] \in {"new", "open"}
    BY <1>9 DEF CloseRun
  <2>2. phase'[r] = "closed" /\ \A s \in Runs \ {r} : phase'[s] = phase[s]
    BY <2>1 DEF TypeOK, PluginTypes
  <2>3. CASE UNCHANGED net
    BY <2>1, <2>2, <2>3 DEF Requested
  <2>4. CASE ~UNCHANGED net
    <3>1. PICK q : q = [run |-> r, seq |-> sent[r] + 1, ctx |-> ctx[r],
                        ev |-> Report("close", {}, {}, TRUE)]
      OBVIOUS
    <3>2. net' = net \cup {q} /\ q.run = r /\ q.ev.kind = "close"
      BY <1>9, <2>4, <3>1 DEF CloseRun, Report
    <3>3. /\ Requested(r, "close")' = Requested(r, "close") \cup {q}
          /\ Requested(r, "workflow_started")' = Requested(r, "workflow_started")
          /\ \A kind : \A s \in Runs \ {r} : Requested(s, kind)' = Requested(s, kind)
      BY <3>2 DEF Requested
    <3> QED
      BY <2>1, <2>2, <3>3
  <2> QED
    BY <2>3, <2>4
<1>10. CASE CrashRun(r)
  <2>1. phase' = [phase EXCEPT ![r] = "crashed"] /\ phase[r] = "open" /\ UNCHANGED net
    BY <1>10 DEF CrashRun
  <2>2. phase'[r] = "crashed" /\ \A s \in Runs \ {r} : phase'[s] = phase[s]
    BY <2>1 DEF TypeOK, PluginTypes
  <2> QED
    BY <2>1, <2>2 DEF Requested
<1> QED
  BY <1>2, <1>3, <1>4, <1>5, <1>6, <1>7, <1>8, <1>9, <1>10 DEF RunStep

LEMMA RunStepIsFinal ==
  ASSUME FinalInv, NEW r \in Runs, RunStep(r)
  PROVE  (PostedOnce /\ MadeAndClosed)'
<1>1. TypeOK /\ PostedOnce /\ MadeAndClosed
  BY DEF FinalInv, IngestInv
<1>2. wf' = wf
  BY RunStepKeepsTables DEF runTables
<1>3. \A s \in Runs \ {r} :
        /\ phase'[s] = phase[s]
        /\ Requested(s, "workflow_started")' = Requested(s, "workflow_started")
        /\ Requested(s, "close")' = Requested(s, "close")
  BY <1>1, RunStepAsks
<1>4. CASE /\ phase'[r] = phase[r]
           /\ Requested(r, "workflow_started")' = Requested(r, "workflow_started")
           /\ Requested(r, "close")' = Requested(r, "close")
  BY <1>1, <1>2, <1>3, <1>4 DEF PostedOnce, MadeAndClosed, AtMostOne
<1>5. CASE /\ phase[r] = "new" /\ phase'[r] = "open"
           /\ \E q : Requested(r, "workflow_started")' = Requested(r, "workflow_started") \cup {q}
           /\ Requested(r, "close")' = Requested(r, "close")
  BY <1>1, <1>2, <1>3, <1>5 DEF PostedOnce, MadeAndClosed, AtMostOne
<1>6. CASE /\ phase[r] \in {"new", "open"} /\ phase'[r] = "closed"
           /\ Requested(r, "workflow_started")' = Requested(r, "workflow_started")
           /\ \/ Requested(r, "close")' = Requested(r, "close")
              \/ \E q : Requested(r, "close")' = Requested(r, "close") \cup {q}
  BY <1>1, <1>2, <1>3, <1>6 DEF PostedOnce, MadeAndClosed, AtMostOne
<1>7. CASE /\ phase[r] = "open" /\ phase'[r] = "crashed"
           /\ Requested(r, "workflow_started")' = Requested(r, "workflow_started")
           /\ Requested(r, "close")' = Requested(r, "close")
  BY <1>1, <1>2, <1>3, <1>7 DEF PostedOnce, MadeAndClosed, AtMostOne
<1> QED
  BY <1>1, <1>4, <1>5, <1>6, <1>7, RunStepAsks

\* which handler may change what workflow, and what it says of its status
LEMMA HandleTouches ==
  ASSUME IngestInv, NEW q \in net, Handle(q)
  PROVE  /\ net' = net \ {q} /\ UNCHANGED phase
         /\ \A w \in Runs :
              \/ wf'[w] = wf[w] /\ mails'[w] = mails[w]
              \/ /\ q.ev.kind = "workflow_started" /\ w = q.run
                 /\ wf'[w] = "RUNNING" \/ wf'[w] = wf[w]
              \/ q.ev.kind = "error" /\ wf[w] = "RUNNING" /\ wf'[w] \in {"RUNNING", "ERROR"}
              \/ q.ev.kind = "close" /\ w = q.run /\ wf[w] # "none"
<1>1. /\ wf \in [Runs -> {"none"} \cup JobStatus]
      /\ mails \in [Runs -> SUBSET {"submitted", "success", "failure"}]
      /\ q.run \in Runs
  BY RequestParts DEF IngestInv, TypeOK, NetTypes, TableTypes, RecordTypes
<1>2. q.ctx.wf \in {None, q.run}
  BY DEF IngestInv, ContextPointsHome, Home
<1>3. net' = net \ {q} /\ UNCHANGED phase
  BY DEF Handle, HandleWorkflowStarted, HandleAnnotation, HandleJobStarted, HandleJobInfo,
         HandleJobFinished, HandleJobError, HandleGroupError, HandleError, HandleClose,
         SettleMapped, FailError, Fail, Ignore, Serve, pluginVars
<1> DEFINE Untouched == wf' = wf /\ mails' = mails
<1>4. CASE HandleWorkflowStarted(q)
  BY <1>1, <1>3, <1>4 DEF HandleWorkflowStarted, Fail, Mail, runTables
<1>5. CASE HandleAnnotation(q)
  <2>1. Untouched
    BY <1>5 DEF HandleAnnotation, Ignore, runTables
  <2> QED
    BY <1>3, <2>1
<1>6. CASE HandleJobStarted(q)
  <2>1. Untouched
    BY <1>6 DEF HandleJobStarted, Ignore, Fail, runTables
  <2> QED
    BY <1>3, <2>1
<1>7. CASE HandleJobInfo(q)
  <2>1. Untouched
    BY <1>7 DEF HandleJobInfo, Ignore, Fail, runTables
  <2> QED
    BY <1>3, <2>1
<1>8. CASE HandleJobFinished(q) \/ HandleJobError(q) \/ HandleGroupError(q)
  <2>1. Untouched
    BY <1>8 DEF HandleJobFinished, HandleJobError, HandleGroupError, SettleMapped, Ignore,
                runTables
  <2> QED
    BY <1>3, <2>1
<1>9. CASE HandleError(q)
  <2>1. \/ Untouched
        \/ /\ q.ctx.wf # None
           /\ wf[q.ctx.wf] = "RUNNING"
           /\ mails' = [mails EXCEPT ![q.ctx.wf] = @ \cup {"failure"}]
           /\ wf' = wf \/ wf' = [wf EXCEPT ![q.ctx.wf] = "ERROR"]
    BY <1>9 DEF HandleError, EndsNow, Ignore, FailError, Fail, Mail, runTables
  <2> QED
    BY <1>1, <1>2, <1>3, <1>9, <2>1 DEF HandleError
<1>10. CASE HandleClose(q)
  <2>1. \/ Untouched
        \/ /\ wf[q.ctx.wf] # "none"
           /\ \E status : wf' = [wf EXCEPT ![q.ctx.wf] = status]
           /\ \E kind : mails' = [mails EXCEPT ![q.ctx.wf] = @ \cup {kind}]
    BY <1>10 DEF HandleClose, Mail, runTables
  <2>2. CASE Untouched
    BY <1>3, <2>2
  <2>3. CASE /\ wf[q.ctx.wf] # "none"
             /\ \E status : wf' = [wf EXCEPT ![q.ctx.wf] = status]
             /\ \E kind : mails' = [mails EXCEPT ![q.ctx.wf] = @ \cup {kind}]
    <3>1. \A w \in Runs \ {q.ctx.wf} : wf'[w] = wf[w] /\ mails'[w] = mails[w]
      BY <1>1, <2>3
    <3> QED
      BY <1>2, <1>3, <1>10, <2>3, <3>1, NoneAssumption DEF HandleClose
  <2> QED
    BY <2>1, <2>2, <2>3
<1> QED
  BY <1>4, <1>5, <1>6, <1>7, <1>8, <1>9, <1>10 DEF Handle

LEMMA HandleIsFinal ==
  ASSUME FinalInv, NEW q \in net, Handle(q)
  PROVE  /\ (PostedOnce /\ MadeAndClosed)'
         /\ \A w \in Runs : wf[w] = "SUCCESS" => wf'[w] = "SUCCESS" /\ mails'[w] = mails[w]
<1>1. IngestInv /\ PostedOnce /\ MadeAndClosed
  BY DEF FinalInv
<1>2. q \in Requested(q.run, q.ev.kind) /\ q.run \in Runs
  BY <1>1, RequestParts DEF Requested, IngestInv, TypeOK, NetTypes
<1>3. \A r \in Runs, kind \in {"workflow_started", "close"} :
        /\ Requested(r, kind)' \subseteq Requested(r, kind)
        /\ phase'[r] = phase[r]
        /\ q \in Requested(r, kind) => Requested(r, kind)' = {}
  BY <1>1, HandleTouches DEF Requested, PostedOnce, AtMostOne
<1>4. PostedOnce'
  BY <1>1, <1>3 DEF PostedOnce, AtMostOne
<1>5. ASSUME NEW w \in Runs
      PROVE  /\ phase'[w] = "new" \/ Requested(w, "workflow_started")' # {} => wf'[w] = "none"
             /\ wf'[w] = "SUCCESS" => phase'[w] = "closed" /\ Requested(w, "close")' = {}
             /\ wf[w] = "SUCCESS" => wf'[w] = "SUCCESS" /\ mails'[w] = mails[w]
  <2>1. /\ phase[w] = "new" \/ Requested(w, "workflow_started") # {} => wf[w] = "none"
        /\ wf[w] = "SUCCESS" => phase[w] = "closed" /\ Requested(w, "close") = {}
        /\ phase[w] = "new" => Requested(w, "workflow_started") = {}
        /\ Requested(w, "close") # {} => phase[w] = "closed"
    BY <1>1 DEF MadeAndClosed, PostedOnce
  <2>2. CASE wf'[w] = wf[w] /\ mails'[w] = mails[w]
    BY <1>3, <2>1, <2>2
  <2>3. CASE /\ q.ev.kind = "workflow_started" /\ w = q.run
             /\ wf'[w] = "RUNNING" \/ wf'[w] = wf[w]
    BY <1>2, <1>3, <2>1, <2>3
  <2>4. CASE q.ev.kind = "error" /\ wf[w] = "RUNNING" /\ wf'[w] \in {"RUNNING", "ERROR"}
    BY <1>3, <2>1, <2>4
  <2>5. CASE q.ev.kind = "close" /\ w = q.run /\ wf[w] # "none"
    BY <1>2, <1>3, <2>1, <2>5
  <2> QED
    BY <1>1, <2>2, <2>3, <2>4, <2>5, HandleTouches
<1> QED
  BY <1>4, <1>5 DEF MadeAndClosed

LEMMA InitFinal == Init => FinalInv
<1> SUFFICES ASSUME Init PROVE FinalInv
  OBVIOUS
<1>1. PostedOnce /\ MadeAndClosed
  BY DEF Init, PostedOnce, MadeAndClosed, AtMostOne, Requested
<1> QED
  BY <1>1, InitInv DEF FinalInv

LEMMA NextFinal ==
  FinalInv /\ [Next]_vars =>
    /\ FinalInv'
    /\ \A w \in Runs : wf[w] = "SUCCESS" => wf'[w] = "SUCCESS" /\ mails'[w] = mails[w]
<1> DEFINE Last == \A w \in Runs : wf[w] = "SUCCESS" => wf'[w] = "SUCCESS" /\ mails'[w] = mails[w]
<1> SUFFICES ASSUME FinalInv, [Next]_vars PROVE FinalInv' /\ Last
  OBVIOUS
<1>1. IngestInv' /\ PostedOnce /\ MadeAndClosed
  BY NextInv DEF FinalInv
<1>2. CASE \E r \in Runs : RunStep(r)
  BY <1>1, <1>2, RunStepIsFinal, RunStepKeepsTables DEF FinalInv, runTables
<1>3. CASE \E q \in net : Handle(q)
  BY <1>1, <1>3, HandleIsFinal DEF FinalInv
<1>4. CASE (\E a \in answers : Receive(a)) \/ Fault \/ UNCHANGED vars
  <2>1. net' \subseteq net /\ UNCHANGED <<phase, wf, mails>>
    BY <1>4 DEF Receive, Fault, LoseRequest, LoseAnswer, GiveUp, vars, pluginVars, netVars, runTables
  <2>2. \A r \in Runs, kind \in {"workflow_started", "close"} :
          Requested(r, kind)' \subseteq Requested(r, kind)
    BY <2>1 DEF Requested
  <2>3. (PostedOnce /\ MadeAndClosed)'
    BY <1>1, <2>1, <2>2 DEF PostedOnce, MadeAndClosed, AtMostOne
  <2> QED
    BY <1>1, <2>1, <2>3 DEF FinalInv
<1> QED
  BY <1>2, <1>3, <1>4 DEF Next

(* SUCCESS is the last word on a workflow, its mails included: no report   *)
(* served after the close, however late, can turn it into anything else.   *)
THEOREM SuccessStaysFinal == Spec => SuccessIsFinal
<1>1. FinalInv /\ [Next]_vars =>
        [\A w \in Runs : wf[w] = "SUCCESS" => wf'[w] = "SUCCESS" /\ mails'[w] = mails[w]]_vars
  BY NextFinal
<1> QED
  BY <1>1, InitFinal, NextFinal, PTL DEF Spec, SuccessIsFinal

-----------------------------------------------------------------------------
(* What one handler does to the rows of the table jobs                     *)

\* the raw event of q, stored as processed
Entry(q) == [run |-> q.run, seq |-> q.seq, ev |-> q.ev, linked |-> Linked(q), ok |-> TRUE]

\* the status a report gives to the rows it is about
Reported == [job_finished |-> "SUCCESS", job_error |-> "ERROR", group_error |-> "ERROR"]

Settles(q) == /\ q.ev.kind \in DOMAIN Reported
              /\ ~(q.ev.kind = "group_error" /\ JobZero \in q.ev.jobs)

\* what the handler of q does to row i
RowOutcome(q, i) ==
  IF jobs[i] = None
    THEN jobs'[i] # None =>
           /\ q.ev.kind = "job_started" /\ Linked(q) /\ Entry(q) \in log'
           /\ jobs'[i].wf = q.run /\ jobs'[i].sid \in q.ev.jobs /\ jobs'[i].status = "RUNNING"
    ELSE /\ jobs'[i] # None /\ jobs'[i].wf = jobs[i].wf /\ jobs'[i].sid = jobs[i].sid
         /\ \/ jobs'[i].status = jobs[i].status /\ ~(Settles(q) /\ i \in Mapped(q))
            \/ /\ Settles(q) /\ i \in Mapped(q) /\ Entry(q) \in log'
               /\ jobs'[i].status = Reported[q.ev.kind]
            \/ /\ q.ev.kind = "close" /\ jobs[i].wf = q.run
               /\ jobs[i].status = "RUNNING" /\ jobs'[i].status = Verdict(q.run)

LEMMA SettledRows ==
  ASSUME TypeOK, NEW q \in net, NEW status \in JobStatus, SettleMapped(q, status),
         Settles(q), status = Reported[q.ev.kind], NEW i \in RowIds
  PROVE  RowOutcome(q, i)
<1>1. Entry(q) \in log'
  BY DEF SettleMapped, Serve, Entry
<1>2. CASE jobs[i] = None
  BY <1>2 DEF SettleMapped, RowOutcome
<1>3. CASE jobs[i] # None
  <2>1. jobs[i] \in JobRow
    BY <1>3 DEF TypeOK, TableTypes
  <2>2. PICK row : row = [jobs[i] EXCEPT !.status = status]
    OBVIOUS
  <2>3. row \in JobRow /\ row.wf = jobs[i].wf /\ row.sid = jobs[i].sid /\ row.status = status
    BY <2>1, <2>2 DEF JobRow
  <2>4. jobs'[i] = IF i \in Mapped(q) THEN row ELSE jobs[i]
    BY <1>3, <2>2 DEF SettleMapped
  <2> QED
    BY <1>1, <1>3, <2>3, <2>4, RowAssumption DEF RowOutcome
<1> QED
  BY <1>2, <1>3

LEMMA InsertedRows ==
  ASSUME TypeOK, NEW q \in net, Home(q.run, q.ctx), q.ev.kind = "job_started",
         q.ctx.wf # None, wf[q.ctx.wf] # "none", RowsDrawn,
         NEW key \in Injections(q.ev.jobs, FreshKeys(q.ctx.wf)),
         jobs' = Inserted(q.ctx.wf, key), Serve(q, TRUE, Remapped(q.ctx, key))
  PROVE  /\ \A i \in RowIds : RowOutcome(q, i)
         /\ \A j \in q.ev.jobs : /\ key[j] \in RowIds /\ jobs'[key[j]] # None
                                 /\ jobs'[key[j]].wf = q.run /\ jobs'[key[j]].sid = j
                                 /\ jobs'[key[j]].status = "RUNNING"
<1>1. /\ key \in [q.ev.jobs -> RowIds \ used]
      /\ \A x, y \in q.ev.jobs : key[x] = key[y] => x = y
  BY DEF Injections, FreshKeys
<1>2. q.ctx.wf = q.run /\ q.run \in Runs /\ q.ev.jobs \subseteq SnakeJobs
  BY RequestParts DEF Home
<1>3. Entry(q) \in log' /\ Linked(q) /\ ~Settles(q)
  BY DEF Serve, Entry, Linked, Settles, Reported
<1>4. ASSUME NEW i \in RowIds, NEW j \in q.ev.jobs, key[j] = i
      PROVE  jobs[i] = None /\ jobs'[i] # None /\ jobs'[i].wf = q.run /\ jobs'[i].sid = j
             /\ jobs'[i].status = "RUNNING"
  <2>0. PICK row : row = [wf |-> q.run, sid |-> j, status |-> "RUNNING", rule |-> None,
                          files |-> FALSE]
    OBVIOUS
  <2>1. jobs'[i] = row
    <3>1. (CHOOSE k \in q.ev.jobs : key[k] = i) = j
      BY <1>1, <1>4
    <3> QED
      BY <1>1, <1>2, <1>4, <2>0, <3>1 DEF Inserted
  <2>2. row \in JobRow /\ row.wf = q.run /\ row.sid = j /\ row.status = "RUNNING"
    BY <1>2, <2>0 DEF JobRow, JobStatus
  <2>3. jobs[i] = None
    BY <1>1, <1>4 DEF RowsDrawn
  <2> QED
    BY <2>1, <2>2, <2>3, RowAssumption
<1>5. ASSUME NEW i \in RowIds, ~\E j \in q.ev.jobs : key[j] = i
      PROVE  jobs'[i] = jobs[i]
  BY <1>1, <1>5 DEF Inserted
<1>6. ASSUME NEW i \in RowIds PROVE RowOutcome(q, i)
  <2>1. CASE \E j \in q.ev.jobs : key[j] = i
    BY <1>3, <1>4, <2>1 DEF RowOutcome
  <2>2. CASE ~\E j \in q.ev.jobs : key[j] = i
    BY <1>3, <1>5, <2>2 DEF RowOutcome
  <2> QED
    BY <2>1, <2>2
<1> QED
  BY <1>1, <1>4, <1>6

\* every handler does to every row what RowOutcome says, and nothing else
LEMMA HandleRows ==
  ASSUME IngestInv, NEW q \in net, Handle(q), NEW i \in RowIds
  PROVE  RowOutcome(q, i)
<1>0. /\ TypeOK /\ RowsDrawn /\ Home(q.run, q.ctx)
      /\ q.run \in Runs /\ q.ctx.wf \in Runs \cup {None}
  BY RequestParts DEF IngestInv, ContextPointsHome
<1>i. ASSUME UNCHANGED jobs, ~Settles(q) PROVE RowOutcome(q, i)
  BY <1>i DEF RowOutcome
<1>1. CASE HandleWorkflowStarted(q)
  BY <1>1, <1>i DEF HandleWorkflowStarted, Fail, runTables, Settles, Reported
<1>2. CASE HandleAnnotation(q)
  BY <1>2, <1>i DEF HandleAnnotation, Ignore, runTables, Settles, Reported
<1>3. CASE HandleJobStarted(q)
  <2>1. CASE Ignore(q) \/ Fail(q)
    BY <1>3, <1>i, <2>1 DEF HandleJobStarted, Ignore, Fail, runTables, Settles, Reported
  <2>2. CASE /\ q.ctx.wf # None /\ wf[q.ctx.wf] # "none"
             /\ \E key \in Injections(q.ev.jobs, FreshKeys(q.ctx.wf)) :
                  jobs' = Inserted(q.ctx.wf, key) /\ Serve(q, TRUE, Remapped(q.ctx, key))
    <3>1. q.ev.kind = "job_started"
      BY <1>3 DEF HandleJobStarted
    <3> QED
      BY <1>0, <2>2, <3>1, InsertedRows
  <2> QED
    BY <1>3, <2>1, <2>2 DEF HandleJobStarted
<1>4. CASE HandleJobInfo(q)
  <2>0. q.ev.kind = "job_info" /\ ~Settles(q)
    BY <1>4 DEF HandleJobInfo, Settles, Reported
  <2>1. CASE UNCHANGED jobs
    BY <1>i, <2>0, <2>1
  <2>2. CASE \E n \in q.ev.rules : jobs' = Described(q, n)
    <3>1. PICK n \in RuleNames : jobs' = Described(q, n)
      BY <1>0, <2>2, RequestParts
    <3>2. CASE jobs[i] = None
      <4>1. jobs'[i] = jobs[i]
        BY <3>1, <3>2, Zenon DEF Described
      <4> QED
        BY <3>2, <4>1 DEF RowOutcome
    <3>3. CASE jobs[i] # None
      <4>1. jobs[i] \in JobRow /\ q.ev.full \in BOOLEAN
        BY <1>0, <3>3, RequestParts DEF TypeOK, TableTypes, Event
      <4>2. PICK row : row = [jobs[i] EXCEPT !.rule = n, !.files = @ \/ q.ev.full]
        OBVIOUS
      <4>3. (jobs[i].files \/ q.ev.full) \in BOOLEAN
        OBVIOUS
      <4>4. row \in JobRow /\ row.wf = jobs[i].wf /\ row.sid = jobs[i].sid
            /\ row.status = jobs[i].status
        BY <4>1, <4>2, <4>3 DEF JobRow
      <4>5. jobs'[i] = row \/ jobs'[i] = jobs[i]
        BY <3>1, <4>2, Zenon DEF Described
      <4> QED
        BY <2>0, <3>3, <4>4, <4>5, RowAssumption DEF RowOutcome
    <3> QED
      BY <3>2, <3>3
  <2> QED
    BY <1>4, <2>1, <2>2 DEF HandleJobInfo, Ignore, Fail, runTables
<1>5. CASE HandleJobFinished(q) \/ HandleJobError(q)
  <2>1. Settles(q) /\ Reported[q.ev.kind] \in JobStatus /\ SettleMapped(q, Reported[q.ev.kind])
    BY <1>5 DEF HandleJobFinished, HandleJobError, Settles, Reported, JobStatus
  <2> QED
    BY <1>0, <2>1, SettledRows
<1>6. CASE HandleGroupError(q)
  <2>1. CASE JobZero \in q.ev.jobs
    BY <1>6, <1>i, <2>1 DEF HandleGroupError, Ignore, runTables, Settles
  <2>2. CASE JobZero \notin q.ev.jobs
    <3>1. Settles(q) /\ Reported[q.ev.kind] \in JobStatus /\ SettleMapped(q, Reported[q.ev.kind])
      BY <1>6, <2>2 DEF HandleGroupError, Settles, Reported, JobStatus
    <3> QED
      BY <1>0, <3>1, SettledRows
  <2> QED
    BY <2>1, <2>2
<1>7. CASE HandleError(q)
  BY <1>7, <1>i DEF HandleError, Ignore, FailError, Fail, runTables, Settles, Reported
<1>8. CASE HandleClose(q)
  <2>0. q.ev.kind = "close" /\ ~Settles(q) /\ q.ctx.wf = q.run
    BY <1>8, <1>0 DEF HandleClose, Settles, Reported, IngestInv, ReportsTrue, TrueReport, Home
  <2>1. CASE UNCHANGED jobs
    BY <1>i, <2>0, <2>1
  <2>2. CASE jobs' = Swept(q.run, Verdict(q.run))
    <3>1. CASE i \in RowsOf(q.run) /\ jobs[i].status = "RUNNING"
      <4>1. jobs[i] \in JobRow /\ jobs[i] # None /\ jobs[i].wf = q.run
        BY <1>0, <3>1 DEF RowsOf, TypeOK, TableTypes
      <4>2. PICK row : row = [jobs[i] EXCEPT !.status = Verdict(q.run)]
        OBVIOUS
      <4>3. Verdict(q.run) \in JobStatus
        BY DEF Verdict, JobStatus
      <4>4. row \in JobRow /\ row.wf = q.run /\ row.sid = jobs[i].sid
            /\ row.status = Verdict(q.run)
        BY <4>1, <4>2, <4>3 DEF JobRow
      <4>5. jobs'[i] = row
        BY <2>2, <3>1, <4>2 DEF Swept
      <4> QED
        BY <2>0, <3>1, <4>1, <4>4, <4>5, RowAssumption DEF RowOutcome
    <3>2. CASE ~(i \in RowsOf(q.run) /\ jobs[i].status = "RUNNING")
      <4>1. jobs'[i] = jobs[i]
        BY <2>2, <3>2 DEF Swept
      <4> QED
        BY <2>0, <4>1 DEF RowOutcome
    <3> QED
      BY <3>1, <3>2
  <2> QED
    BY <1>8, <2>0, <2>1, <2>2 DEF HandleClose, runTables
<1> QED
  BY <1>1, <1>2, <1>3, <1>4, <1>5, <1>6, <1>7, <1>8 DEF Handle

-----------------------------------------------------------------------------
(* What one step of a run does                                             *)

\* what Snakemake knows of the jobs it names in a report of each kind
Knows == [job_started |-> "running", job_finished |-> "done",
          job_error |-> "failed", group_error |-> "failed"]

\* run r posts a report of kind about jobs js, having moved those jobs on
Moves(r, kind, js) ==
  /\ \A s \in Runs \ {r} : snake'[s] = snake[s]
  /\ \A j \in SnakeJobs :
       IF kind \in DOMAIN Knows /\ j \in js
         THEN /\ snake'[r][j] = Knows[kind]
              /\ kind # "job_started" => snake[r][j] = "running"
         ELSE snake'[r][j] = snake[r][j]

\* an error names at most one rule
NamesOne(rs) == \E n \in RuleNames \cup {None} : rs = {n} \ {None}

\* run r reports something
Reports(r) ==
  \E kind \in AllKinds, js \in SUBSET SnakeJobs, rs \in SUBSET RuleNames, full \in BOOLEAN :
    /\ Post(r, Report(kind, js, rs, full))
    /\ IF kind = "workflow_started" THEN phase[r] = "new" /\ phase' = [phase EXCEPT ![r] = "open"]
                                    ELSE phase[r] = "open" /\ kind \in Kinds /\ UNCHANGED phase
    /\ kind = "error" => NamesOne(rs)
    /\ kind \in {"job_error", "group_error"} => js # {}
    /\ Moves(r, kind, js)

LEMMA RunStepReports ==
  ASSUME TypeOK, NEW r \in Runs, RunStep(r)
  PROVE  Reports(r) \/ CloseRun(r) \/ CrashRun(r)
<1>0. snake \in [Runs -> [SnakeJobs -> {"waiting", "running", "done", "failed"}]]
  BY DEF TypeOK, PluginTypes
<1>1. ASSUME NEW kind \in AllKinds, NEW js \in SUBSET SnakeJobs, NEW rs \in SUBSET RuleNames,
             NEW full \in BOOLEAN, Emit(r, Report(kind, js, rs, full)),
             kind # "workflow_started", kind = "error" => NamesOne(rs), Moves(r, kind, js),
             kind \in {"job_error", "group_error"} => js # {}
      PROVE  Reports(r)
  <2>1. phase[r] = "open" /\ kind \in Kinds /\ UNCHANGED phase /\ Post(r, Report(kind, js, rs, full))
    BY <1>1 DEF Emit, Report
  <2> QED
    BY <1>1, <2>1 DEF Reports
<1>2. ASSUME NEW kind, kind \notin DOMAIN Knows, UNCHANGED snake
      PROVE  \A js : Moves(r, kind, js)
  BY <1>2 DEF Moves
<1>3. CASE StartRun(r)
  <2>1. PICK rs \in SUBSET RuleNames : Post(r, Report("workflow_started", {}, rs, TRUE))
    BY <1>3 DEF StartRun
  <2>2. Moves(r, "workflow_started", {})
    BY <1>2, <1>3 DEF StartRun, Knows
  <2>3. "workflow_started" \in AllKinds /\ {} \in SUBSET SnakeJobs /\ TRUE \in BOOLEAN
    BY DEF AllKinds
  <2> QED
    BY <1>3, <2>1, <2>2, <2>3 DEF StartRun, Reports
<1>4. CASE StartJobs(r)
  <2>1. PICK S \in SUBSET SnakeJobs :
          /\ snake' = [snake EXCEPT ![r] = [j \in SnakeJobs |-> IF j \in S THEN "running" ELSE @[j]]]
          /\ Emit(r, Report("job_started", S, {}, TRUE))
    BY <1>4 DEF StartJobs
  <2>2. Moves(r, "job_started", S)
    BY <1>0, <2>1 DEF Moves, Knows
  <2>3. "job_started" \in AllKinds /\ {} \in SUBSET RuleNames /\ TRUE \in BOOLEAN
    BY DEF AllKinds
  <2> QED
    BY <1>1, <2>1, <2>2, <2>3
<1>5. CASE DescribeJob(r)
  <2>1. PICK j \in SnakeJobs, n \in RuleNames, full \in BOOLEAN :
          Emit(r, Report("job_info", {j}, {n}, full))
    BY <1>5 DEF DescribeJob
  <2>2. Moves(r, "job_info", {j})
    BY <1>2, <1>5 DEF DescribeJob, Knows
  <2>3. "job_info" \in AllKinds /\ {j} \in SUBSET SnakeJobs /\ {n} \in SUBSET RuleNames
    BY DEF AllKinds
  <2> QED
    BY <1>1, <2>1, <2>2, <2>3
<1>6. CASE FinishJob(r)
  <2>1. PICK j \in SnakeJobs :
          /\ snake[r][j] = "running" /\ snake' = [snake EXCEPT ![r][j] = "done"]
          /\ Emit(r, Report("job_finished", {j}, {}, TRUE))
    BY <1>6 DEF FinishJob
  <2>2. Moves(r, "job_finished", {j})
    BY <1>0, <2>1 DEF Moves, Knows
  <2>3. /\ "job_finished" \in AllKinds /\ {j} \in SUBSET SnakeJobs
        /\ {} \in SUBSET RuleNames /\ TRUE \in BOOLEAN
    BY DEF AllKinds
  <2> QED
    BY <1>1, <2>1, <2>2, <2>3
<1>7. CASE FailJob(r)
  <2>1. PICK j \in SnakeJobs, kind \in {"job_error", "group_error"} :
          /\ snake[r][j] = "running" /\ snake' = [snake EXCEPT ![r][j] = "failed"]
          /\ Emit(r, Report(kind, {j}, {}, TRUE))
    BY <1>7 DEF FailJob
  <2>2. Moves(r, kind, {j})
    BY <1>0, <2>1 DEF Moves, Knows
  <2>3. /\ kind \in AllKinds \ {"workflow_started", "error"} /\ {j} \in SUBSET SnakeJobs
        /\ {} \in SUBSET RuleNames /\ TRUE \in BOOLEAN
    BY DEF AllKinds
  <2> QED
    BY <1>1, <2>1, <2>2, <2>3
<1>8. CASE RaiseError(r)
  <2>1. PICK rs \in {{}} \cup {{n} : n \in RuleNames}, full \in BOOLEAN :
          Emit(r, Report("error", {}, rs, full))
    BY <1>8 DEF RaiseError
  <2>2. Moves(r, "error", {})
    BY <1>2, <1>8 DEF RaiseError, Knows
  <2>3. NamesOne(rs)
    <3>1. CASE rs = {}
      BY <3>1 DEF NamesOne
    <3>2. CASE rs # {}
      <4>1. PICK n \in RuleNames : rs = {n}
        BY <3>2
      <4>2. rs = {n} \ {None}
        BY <4>1, NoneAssumption
      <4> QED
        BY <4>2 DEF NamesOne
    <3> QED
      BY <3>1, <3>2
  <2>4. "error" \in AllKinds /\ {} \in SUBSET SnakeJobs /\ rs \in SUBSET RuleNames
    BY DEF AllKinds
  <2> QED
    BY <1>1, <2>1, <2>2, <2>3, <2>4
<1>9. CASE Annotate(r)
  <2>1. PICK kind \in {"run_info", "rulegraph", "group_info"} : Emit(r, Report(kind, {}, {}, TRUE))
    BY <1>9 DEF Annotate
  <2>2. Moves(r, kind, {})
    BY <1>2, <1>9 DEF Annotate, Knows
  <2>3. /\ kind \in AllKinds \ {"workflow_started", "error"} /\ {} \in SUBSET SnakeJobs
        /\ {} \in SUBSET RuleNames /\ TRUE \in BOOLEAN
    BY DEF AllKinds
  <2> QED
    BY <1>1, <2>1, <2>2, <2>3
<1> QED
  BY <1>3, <1>4, <1>5, <1>6, <1>7, <1>8, <1>9 DEF RunStep

-----------------------------------------------------------------------------
(* The raw events explain the tables, and every failure in them.           *)
(*                                                                         *)
(* A row is written where its event is stored as processed, and events     *)
(* are never taken back: what has to be known besides is that contexts     *)
(* lead home, and that a queued error names no second rule.                *)

ErrorsNameOne == \A q \in net : q.ev.kind = "error" => NamesOne(q.ev.rules)

ExplainedInv == IngestInv /\ ErrorsNameOne /\ TablesExplained /\ NoFalseFailure

LEMMA StillExplained ==
  ASSUME log \subseteq log', UNCHANGED <<wf, jobs, rules, errors>>
  PROVE  /\ TablesExplained => TablesExplained'
         /\ NoFalseFailure => NoFalseFailure'
<1>1. \A w, k : Processed(w, k) \subseteq Processed(w, k)'
  BY DEF Processed
<1> QED
  BY <1>1 DEF TablesExplained, NoFalseFailure, HasError, RowsOf

LEMMA RunStepExplained ==
  ASSUME ExplainedInv, NEW r \in Runs, RunStep(r)
  PROVE  (ErrorsNameOne /\ TablesExplained /\ NoFalseFailure)'
<1>1. TypeOK /\ TablesExplained /\ NoFalseFailure /\ ErrorsNameOne
  BY DEF ExplainedInv, IngestInv
<1>2. CASE Reports(r)
  <2>1. PICK kind \in AllKinds, js \in SUBSET SnakeJobs, rs \in SUBSET RuleNames, full \in BOOLEAN :
               Post(r, Report(kind, js, rs, full)) /\ (kind = "error" => NamesOne(rs))
    BY <1>2 DEF Reports
  <2>2. log' = log /\ UNCHANGED runTables
    BY <2>1 DEF Post
  <2>3. \A q \in net' \ net : q.ev = Report(kind, js, rs, full)
    BY <2>1 DEF Post
  <2>4. ErrorsNameOne'
    BY <1>1, <2>1, <2>3 DEF ErrorsNameOne, NamesOne, Report
  <2> QED
    BY <1>1, <2>2, <2>4, StillExplained DEF runTables
<1>3. CASE CloseRun(r) \/ CrashRun(r)
  <2>1. log' = log /\ UNCHANGED runTables
    BY <1>3 DEF CloseRun, CrashRun
  <2>2. \A q \in net' \ net : q.ev.kind = "close"
    <3>1. CASE CloseRun(r)
      BY <3>1 DEF CloseRun, Report
    <3>2. CASE CrashRun(r)
      BY <3>2 DEF CrashRun
    <3> QED
      BY <1>3, <3>1, <3>2
  <2>3. ErrorsNameOne'
    BY <1>1, <2>2 DEF ErrorsNameOne, NamesOne
  <2> QED
    BY <1>1, <2>1, <2>3, StillExplained DEF runTables
<1> QED
  BY <1>1, <1>2, <1>3, RunStepReports

\* what the handler of q adds to the other tables, and how it fails a workflow
LEMMA HandleWrites ==
  ASSUME IngestInv, ErrorsNameOne, NEW q \in net, Handle(q)
  PROVE  /\ log \subseteq log' /\ net' = net \ {q}
         /\ \A x \in rules' \ rules :
              /\ x[1] = q.run /\ x[2] \in q.ev.rules /\ Entry(q) \in log'
              /\ q.ev.kind \in {"workflow_started", "job_info", "error"}
         /\ \A x \in errors' \ errors :
              /\ x[1] = q.run /\ q.ev.rules = {x[2]} \ {None} /\ Linked(q)
              /\ q.ev.kind = "error" /\ Entry(q) \in log'
         /\ \A w \in Runs : wf'[w] = "ERROR" =>
              \/ wf[w] = "ERROR"
              \/ w = q.run /\ q.ev.kind = "error" /\ Entry(q) \in log'
              \/ w = q.run /\ HasError(w)
<1>0. /\ TypeOK /\ Home(q.run, q.ctx) /\ q.run \in Runs /\ q.ctx.wf \in {None, q.run}
      /\ q.ev.kind = "error" => NamesOne(q.ev.rules)
  BY RequestParts DEF IngestInv, ContextPointsHome, ErrorsNameOne, Home
<1> DEFINE Rest == UNCHANGED <<wf, rules, errors>>
<1>1. log \subseteq log' /\ net' = net \ {q}
  BY DEF Handle, HandleWorkflowStarted, HandleAnnotation, HandleJobStarted, HandleJobInfo,
         HandleJobFinished, HandleJobError, HandleGroupError, HandleError, HandleClose,
         SettleMapped, FailError, Fail, Ignore, Serve
<1>2. CASE Rest
  BY <1>1, <1>2
<1>3. CASE HandleWorkflowStarted(q)
  <2>1. CASE Fail(q)
    BY <1>2, <2>1 DEF Fail, runTables
  <2>2. CASE /\ wf' = [wf EXCEPT ![q.run] = "RUNNING"]
             /\ rules' = rules \cup {<<q.run, n>> : n \in q.ev.rules}
             /\ Serve(q, TRUE, [q.ctx EXCEPT !.wf = q.run]) /\ UNCHANGED errors
    <3>1. Entry(q) \in log' /\ q.ev.kind = "workflow_started"
      BY <1>3, <2>2 DEF HandleWorkflowStarted, Serve, Entry
    <3>2. \A w \in Runs : wf'[w] = "ERROR" => wf[w] = "ERROR"
      BY <1>0, <2>2 DEF TypeOK, TableTypes
    <3> QED
      BY <1>1, <2>2, <3>1, <3>2
  <2> QED
    BY <1>3, <2>1, <2>2 DEF HandleWorkflowStarted
<1>4. CASE HandleAnnotation(q)
  BY <1>2, <1>4 DEF HandleAnnotation, Ignore, runTables
<1>5. CASE HandleJobStarted(q)
  BY <1>2, <1>5 DEF HandleJobStarted, Ignore, Fail, runTables
<1>6. CASE HandleJobInfo(q)
  <2>1. CASE Ignore(q) \/ Fail(q)
    BY <1>2, <2>1 DEF Ignore, Fail, runTables
  <2>2. CASE /\ q.ctx.wf # None /\ \E n \in q.ev.rules : rules' = rules \cup {<<q.ctx.wf, n>>}
             /\ Serve(q, TRUE, q.ctx) /\ UNCHANGED <<wf, errors>>
    <3>1. Entry(q) \in log' /\ q.ev.kind = "job_info"
      BY <1>6, <2>2 DEF HandleJobInfo, Serve, Entry
    <3> QED
      BY <1>0, <1>1, <2>2, <3>1
  <2> QED
    BY <1>6, <2>1, <2>2, Zenon DEF HandleJobInfo
<1>7. CASE HandleJobFinished(q) \/ HandleJobError(q) \/ HandleGroupError(q)
  BY <1>2, <1>7 DEF HandleJobFinished, HandleJobError, HandleGroupError, SettleMapped, Ignore,
                    runTables
<1>8. CASE HandleError(q)
  <2>1. CASE Ignore(q) \/ Fail(q)
    BY <1>2, <2>1 DEF Ignore, Fail, runTables
  <2>2. CASE /\ q.ctx.wf # None /\ wf[q.ctx.wf] # "none"
             /\ rules' = rules \cup {<<q.ctx.wf, n>> : n \in q.ev.rules}
             /\ errors' = errors \cup {<<q.ctx.wf, n>> : n \in IF q.ev.rules = {} THEN {None}
                                                                            ELSE q.ev.rules}
             /\ wf' = IF EndsNow(q.ctx.wf) THEN [wf EXCEPT ![q.ctx.wf] = "ERROR"] ELSE wf
             /\ Serve(q, TRUE, q.ctx)
    <3>1. Entry(q) \in log' /\ q.ev.kind = "error" /\ Linked(q) /\ q.ctx.wf = q.run
      BY <1>0, <1>8, <2>2 DEF HandleError, Serve, Entry, Linked
    <3>2. \A w \in Runs \ {q.run} : wf'[w] = wf[w]
      BY <1>0, <2>2, <3>1 DEF TypeOK, TableTypes
    <3>3. PICK n \in RuleNames \cup {None} : q.ev.rules = {n} \ {None}
      BY <1>0, <3>1 DEF NamesOne
    <3>4. ASSUME NEW x \in errors' \ errors PROVE x[1] = q.run /\ x[2] = n
      BY <2>2, <3>1, <3>3
    <3> QED
      BY <1>1, <2>2, <3>1, <3>2, <3>3, <3>4
  <2> QED
    BY <1>8, <2>1, <2>2 DEF HandleError, FailError
<1>9. CASE HandleClose(q)
  <2>1. CASE UNCHANGED runTables
    BY <1>2, <2>1 DEF runTables
  <2>2. CASE wf' = [wf EXCEPT ![q.ctx.wf] = Verdict(q.ctx.wf)] /\ UNCHANGED <<rules, errors>>
    <3>1. q.ctx.wf = q.run
      BY <1>0, <1>9 DEF HandleClose, IngestInv, ReportsTrue, TrueReport
    <3>2. \A w \in Runs : wf'[w] = IF w = q.run THEN Verdict(w) ELSE wf[w]
      BY <1>0, <2>2, <3>1 DEF TypeOK, TableTypes
    <3>3. \A w \in Runs : Verdict(w) = "ERROR" => HasError(w)
      BY DEF Verdict
    <3> QED
      BY <1>1, <2>2, <3>2, <3>3
  <2> QED
    BY <1>9, <2>1, <2>2 DEF HandleClose
<1> QED
  BY <1>3, <1>4, <1>5, <1>6, <1>7, <1>8, <1>9 DEF Handle

LEMMA HandleExplained ==
  ASSUME ExplainedInv, NEW q \in net, Handle(q)
  PROVE  (ErrorsNameOne /\ TablesExplained /\ NoFalseFailure)'
<1>0. IngestInv /\ TypeOK /\ TablesExplained /\ NoFalseFailure /\ ErrorsNameOne
  BY DEF ExplainedInv, IngestInv
<1>1. \A i \in RowIds : RowOutcome(q, i)
  BY <1>0, HandleRows
<1>2. \A w, k : Processed(w, k) \subseteq Processed(w, k)'
  BY <1>0, HandleWrites DEF Processed
<1>3. Entry(q) \in log' => Entry(q) \in Processed(q.run, q.ev.kind)'
  BY DEF Entry, Processed
<1>4. Entry(q).linked = Linked(q) /\ Entry(q).ev = q.ev
  BY DEF Entry
<1>5. ErrorsNameOne'
  BY <1>0, HandleWrites DEF ErrorsNameOne
<1>6. ASSUME NEW i \in RowIds, jobs'[i] # None
      PROVE  \E e \in Processed(jobs[i].wf, "job_started")' : e.linked /\ jobs'[i].sid \in e.ev.jobs
  <2>1. CASE jobs[i] = None
    BY <1>1, <1>3, <1>4, <1>6, <2>1 DEF RowOutcome
  <2>2. CASE jobs[i] # None
    <3>1. jobs'[i].wf = jobs[i].wf /\ jobs'[i].sid = jobs[i].sid
      BY <1>1, <2>2 DEF RowOutcome
    <3> QED
      BY <1>0, <1>2, <2>2, <3>1 DEF TablesExplained
  <2> QED
    BY <2>1, <2>2
<1>7. TablesExplained'
  <2>1. ASSUME NEW x \in rules'
        PROVE  \E k \in {"workflow_started", "job_info", "error"} :
                 \E e \in Processed(x[1], k)' : x[2] \in e.ev.rules
    <3>1. CASE x \in rules
      BY <1>0, <1>2, <3>1 DEF TablesExplained
    <3>2. CASE x \notin rules
      BY <1>0, <1>3, <1>4, <3>2, HandleWrites
    <3> QED
      BY <3>1, <3>2
  <2>2. ASSUME NEW x \in errors'
        PROVE  \E e \in Processed(x[1], "error")' : e.linked /\ e.ev.rules = {x[2]} \ {None}
    <3>1. CASE x \in errors
      BY <1>0, <1>2, <3>1 DEF TablesExplained
    <3>2. CASE x \notin errors
      BY <1>0, <1>3, <1>4, <3>2, HandleWrites
    <3> QED
      BY <3>1, <3>2
  <2> QED
    BY <1>6, <2>1, <2>2 DEF TablesExplained
<1>8. ASSUME NEW w \in Runs, HasError(w)'
      PROVE  HasError(w) \/ \E k \in {"job_error", "group_error"} : Processed(w, k)' # {}
  <2>1. PICK i \in RowIds : jobs'[i] # None /\ jobs'[i].wf = w /\ jobs'[i].status = "ERROR"
    BY <1>8 DEF HasError, RowsOf
  <2>2. CASE jobs'[i].status = jobs[i].status /\ jobs[i] # None
    BY <1>1, <2>1, <2>2 DEF RowOutcome, HasError, RowsOf
  <2>3. CASE Settles(q) /\ i \in Mapped(q) /\ jobs[i] # None /\ jobs'[i].status = Reported[q.ev.kind]
             /\ Entry(q) \in log'
    <3>1. jobs[i].wf = q.run
      BY <1>0, <2>3, RequestParts DEF Mapped, IngestInv, ContextPointsHome, Home
    <3>2. q.ev.kind \in {"job_error", "group_error"}
      BY <2>1, <2>3 DEF Settles, Reported
    <3> QED
      BY <1>1, <1>3, <2>1, <2>3, <3>1, <3>2 DEF RowOutcome
  <2>4. CASE jobs[i] # None /\ jobs[i].wf = q.run /\ jobs'[i].status = Verdict(q.run)
    BY <1>1, <2>1, <2>4 DEF RowOutcome, Verdict
  <2> QED
    BY <1>1, <2>1, <2>2, <2>3, <2>4 DEF RowOutcome
<1>9. ASSUME NEW w \in Runs, wf'[w] = "ERROR" \/ HasError(w)'
      PROVE  \E k \in {"error", "job_error", "group_error"} : Processed(w, k)' # {}
  <2>1. \/ wf[w] = "ERROR" \/ HasError(w)
        \/ \E k \in {"error", "job_error", "group_error"} : Processed(w, k)' # {}
    BY <1>0, <1>3, <1>8, <1>9, HandleWrites
  <2> QED
    BY <1>0, <1>2, <2>1 DEF NoFalseFailure
<1> QED
  BY <1>5, <1>7, <1>9 DEF NoFalseFailure

LEMMA InitExplained == Init => ExplainedInv
<1> SUFFICES ASSUME Init PROVE ExplainedInv
  OBVIOUS
<1>1. ErrorsNameOne /\ TablesExplained /\ NoFalseFailure
  BY DEF Init, ErrorsNameOne, TablesExplained, NoFalseFailure, HasError, RowsOf
<1> QED
  BY <1>1, InitInv DEF ExplainedInv

LEMMA NextExplained == ExplainedInv /\ [Next]_vars => ExplainedInv'
<1> SUFFICES ASSUME ExplainedInv, [Next]_vars PROVE ExplainedInv'
  OBVIOUS
<1>1. IngestInv'
  BY NextInv DEF ExplainedInv
<1>2. CASE \E r \in Runs : RunStep(r)
  BY <1>1, <1>2, RunStepExplained DEF ExplainedInv
<1>3. CASE \E q \in net : Handle(q)
  BY <1>1, <1>3, HandleExplained DEF ExplainedInv
<1>4. CASE (\E a \in answers : Receive(a)) \/ Fault \/ UNCHANGED vars
  <2>1. net' \subseteq net /\ UNCHANGED <<log, wf, jobs, rules, errors>>
    BY <1>4 DEF Receive, Fault, LoseRequest, LoseAnswer, GiveUp, vars, netVars, runTables
  <2>2. ErrorsNameOne'
    BY <2>1 DEF ExplainedInv, ErrorsNameOne
  <2> QED
    BY <1>1, <2>1, <2>2, StillExplained DEF ExplainedInv
<1> QED
  BY <1>2, <1>3, <1>4 DEF Next

(* Every row of jobs, rules and errors goes back to an event of its own    *)
(* workflow that was processed: a handler that raised left nothing behind, *)
(* and no report was written to the tables of another run.                 *)
THEOREM TablesStayExplained == Spec => []TablesExplained
<1>1. ExplainedInv => TablesExplained
  BY DEF ExplainedInv
<1> QED
  BY <1>1, InitExplained, NextExplained, PTL DEF Spec

(* No workflow and no job is shown as failed unless a failure of its run   *)
(* was reported: neither losses nor closing early make one up.             *)
THEOREM FailuresAreReported == Spec => []NoFalseFailure
<1>1. ExplainedInv => NoFalseFailure
  BY DEF ExplainedInv
<1> QED
  BY <1>1, InitExplained, NextExplained, PTL DEF Spec

-----------------------------------------------------------------------------
(* A network that loses nothing: the rows mirror Snakemake                 *)
(*                                                                         *)
(* A run has at most one report or answer under way, so what its rows miss *)
(* is what that report says: MirrorInv follows it from the post to the     *)
(* answer.  The assumption is on the bounds that permit faults, and on the *)
(* job numbered 0, whose group errors the handler ignores.                 *)

Reliable == /\ MaxLosses = 0 /\ MaxLate = 0
            /\ "group_error" \in Kinds => JobZero \notin SnakeJobs

Of(r, S) == {x \in S : x.run = r}

\* the row context c gives for job j of run r shows what Snakemake knows
Agrees(r, c, j) ==
  IF c.jobs[j] = None THEN snake[r][j] = "waiting"
  ELSE jobs[c.jobs[j]] # None /\ jobs[c.jobs[j]].status = ShownFor[snake[r][j]]

\* it will once a report of kind about j is served
Behind(r, c, j, kind) ==
  /\ snake[r][j] = Knows[kind]
  /\ c.jobs[j] # None => jobs[c.jobs[j]] # None
  /\ kind # "job_started" => c.jobs[j] # None /\ jobs[c.jobs[j]].status = "RUNNING"

UpToDate(r, c) == \A j \in SnakeJobs : Agrees(r, c, j)

UpToReport(r, c, ev) ==
  \A j \in SnakeJobs : IF ev.kind \in DOMAIN Knows /\ j \in ev.jobs THEN Behind(r, c, j, ev.kind)
                                                                   ELSE Agrees(r, c, j)

Begun(r, c) == c.wf = r /\ wf[r] # "none"

Resting(r) ==
  /\ ~waiting[r] /\ Of(r, net) = {} /\ Of(r, answers) = {}
  /\ Begun(r, ctx[r]) /\ UpToDate(r, ctx[r])

Reporting(r) ==
  /\ waiting[r] /\ Of(r, answers) = {}
  /\ \E q \in net :
       /\ Of(r, net) = {q} /\ q.seq = sent[r] /\ q.ctx = ctx[r]
       /\ q.ev.kind # "close"
       /\ q.ev.kind \in {"job_error", "group_error"} => q.ev.jobs # {}
       /\ q.ev.kind = "group_error" => JobZero \notin q.ev.jobs
       /\ IF q.ev.kind = "workflow_started" THEN wf[r] = "none" ELSE Begun(r, q.ctx)
       /\ UpToReport(r, q.ctx, q.ev)

\* the context run r will have once it has answer a
Taken(r, a) == IF a.ok THEN a.ctx ELSE ctx[r]

Answering(r) ==
  /\ waiting[r] /\ Of(r, net) = {}
  /\ \E a \in answers :
       Of(r, answers) = {a} /\ Begun(r, Taken(r, a)) /\ UpToDate(r, Taken(r, a))

\* a report of a failed job of run r was processed
JobErrors(r) == Processed(r, "job_error") \cup Processed(r, "group_error")

InStep(r) ==
  \/ phase[r] = "crashed"
  \/ /\ HasError(r) <=> JobErrors(r) # {}
     /\ \/ /\ phase[r] = "new" /\ Of(r, net) = {} /\ Of(r, answers) = {}
           /\ ctx[r].wf = None /\ wf[r] = "none" /\ UpToDate(r, ctx[r])
        \/ phase[r] = "open" /\ (Resting(r) \/ Reporting(r) \/ Answering(r))
        \/ /\ phase[r] = "closed" /\ Of(r, answers) = {}
           /\ \A q \in Of(r, net) : q.ev.kind = "close"
           /\ Of(r, net) = {} /\ wf[r] # "none" => wf[r] = Verdict(r)

MirrorInv == IngestInv /\ \A r \in Runs : InStep(r)

\* nothing of run r has changed, its rows included
Alone(r) ==
  /\ phase'[r] = phase[r] /\ snake'[r] = snake[r] /\ ctx'[r] = ctx[r]
  /\ sent'[r] = sent[r] /\ waiting'[r] = waiting[r] /\ wf'[r] = wf[r]
  /\ Of(r, net)' = Of(r, net) /\ Of(r, answers)' = Of(r, answers)
  /\ JobErrors(r)' = JobErrors(r)
  /\ \A i \in RowIds :
       /\ jobs[i] # None /\ jobs[i].wf = r =>
            jobs'[i] # None /\ jobs'[i].wf = r /\ jobs'[i].status = jobs[i].status
       /\ jobs'[i] # None /\ jobs'[i].wf = r => jobs[i] # None /\ jobs[i].wf = r

\* a context that leads home sees no more than its own run's rows
LEMMA AgreesAlone ==
  ASSUME NEW r \in Runs, NEW c, Home(r, c), NEW j \in SnakeJobs, c.jobs[j] \in RowIds \cup {None},
         Alone(r)
  PROVE  /\ Agrees(r, c, j) => Agrees(r, c, j)'
         /\ \A kind : Behind(r, c, j, kind) => Behind(r, c, j, kind)'
BY DEF Alone, Home, Agrees, Behind

LEMMA AloneInStep ==
  ASSUME IngestInv, NEW r \in Runs, InStep(r), Alone(r)
  PROVE  InStep(r)'
<1>0. TypeOK /\ ContextPointsHome
  BY DEF IngestInv
<1>1. HasError(r)' = HasError(r)
  BY DEF Alone, HasError, RowsOf
<1>2. Verdict(r)' = Verdict(r)
  BY <1>1 DEF Verdict
<1>3. ASSUME NEW c, Home(r, c), \A j \in SnakeJobs : c.jobs[j] \in RowIds \cup {None}
      PROVE  /\ Begun(r, c) => Begun(r, c)'
             /\ UpToDate(r, c) => UpToDate(r, c)'
             /\ \A ev : UpToReport(r, c, ev) => UpToReport(r, c, ev)'
  BY <1>3, AgreesAlone DEF UpToDate, UpToReport, Begun, Alone
<1>4. Home(r, ctx[r]) /\ \A j \in SnakeJobs : ctx[r].jobs[j] \in RowIds \cup {None}
  BY <1>0 DEF ContextPointsHome, TypeOK, PluginTypes, Context
<1>5. /\ Begun(r, ctx[r]) => Begun(r, ctx[r])'
      /\ UpToDate(r, ctx[r]) => UpToDate(r, ctx[r])'
  <2>1. PICK c : c = ctx[r] /\ c = ctx'[r]
    BY DEF Alone
  <2>2. /\ Begun(r, c) => Begun(r, c)'
        /\ UpToDate(r, c) => UpToDate(r, c)'
    BY <1>3, <1>4, <2>1
  <2> QED
    BY <2>1, <2>2 DEF Begun, UpToDate, Agrees
<1>6. ASSUME Resting(r) PROVE Resting(r)'
  BY <1>5, <1>6 DEF Resting, Alone
<1>7. ASSUME Reporting(r) PROVE Reporting(r)'
  <2>1. PICK q \in net :
          /\ Of(r, net) = {q} /\ q.seq = sent[r] /\ q.ctx = ctx[r]
          /\ q.ev.kind # "close"
          /\ q.ev.kind \in {"job_error", "group_error"} => q.ev.jobs # {}
          /\ q.ev.kind = "group_error" => JobZero \notin q.ev.jobs
          /\ IF q.ev.kind = "workflow_started" THEN wf[r] = "none" ELSE Begun(r, q.ctx)
          /\ UpToReport(r, q.ctx, q.ev)
    BY <1>7 DEF Reporting
  <2>2. Home(r, q.ctx) /\ \A j \in SnakeJobs : q.ctx.jobs[j] \in RowIds \cup {None}
    BY <1>4, <2>1
  <2>3. /\ Begun(r, q.ctx) => Begun(r, q.ctx)'
        /\ UpToReport(r, q.ctx, q.ev)'
    BY <1>3, <2>1, <2>2
  <2>4. q \in net' /\ Of(r, net)' = {q}
    BY <2>1 DEF Alone, Of
  <2> QED
    BY <1>7, <2>1, <2>3, <2>4 DEF Reporting, Alone
<1>8. ASSUME Answering(r) PROVE Answering(r)'
  <2>1. PICK a \in answers :
          Of(r, answers) = {a} /\ Begun(r, Taken(r, a)) /\ UpToDate(r, Taken(r, a))
    BY <1>8 DEF Answering
  <2>2. a \in answers' /\ Of(r, answers)' = {a} /\ a.run = r /\ a \in Answer
    BY <1>0, <2>1 DEF Alone, Of, TypeOK, NetTypes
  <2>3. PICK c : c = Taken(r, a) /\ c = Taken(r, a)'
    BY DEF Alone, Taken
  <2>4. Home(r, c) /\ \A j \in SnakeJobs : c.jobs[j] \in RowIds \cup {None}
    BY <1>0, <1>4, <2>2, <2>3 DEF Taken, ContextPointsHome, Answer, Context
  <2>5. Begun(r, c)' /\ UpToDate(r, c)'
    BY <1>3, <2>1, <2>3, <2>4
  <2>6. Begun(r, Taken(r, a))' /\ UpToDate(r, Taken(r, a))'
    BY <2>3, <2>5 DEF Begun, UpToDate, Agrees
  <2> QED
    BY <1>8, <2>2, <2>6 DEF Answering, Alone
<1>9. ctx'[r] = ctx[r] /\ phase'[r] = phase[r] /\ wf'[r] = wf[r] /\ Of(r, net)' = Of(r, net)
      /\ Of(r, answers)' = Of(r, answers) /\ JobErrors(r)' = JobErrors(r)
  BY DEF Alone
<1> QED
  BY <1>1, <1>2, <1>5, <1>6, <1>7, <1>8, <1>9 DEF InStep
\* what a close posts
LEMMA CloseAsks ==
  ASSUME NEW r \in Runs, CloseRun(r)
  PROVE  IF ctx[r].wf = None THEN UNCHANGED net
         ELSE \E q : net' = net \cup {q} /\ q.run = r /\ q.ev.kind = "close"
<1>1. CASE ctx[r].wf = None
  BY <1>1 DEF CloseRun
<1>2. CASE ctx[r].wf # None
  <2>1. PICK q : q = [run |-> r, seq |-> sent[r] + 1, ctx |-> ctx[r],
                      ev |-> Report("close", {}, {}, TRUE)]
    OBVIOUS
  <2>2. net' = net \cup {q}
    BY <1>2, <2>1 DEF CloseRun
  <2>3. q.run = r /\ q.ev.kind = "close"
    BY <2>1 DEF Report
  <2> QED
    BY <1>2, <2>2, <2>3
<1> QED
  BY <1>1, <1>2

\* nobody but run r itself, and the server for it, disturbs run s
LEMMA StepLeavesAlone ==
  ASSUME IngestInv, NEW r \in Runs, NEW s \in Runs \ {r}, RunStep(r)
  PROVE  Alone(s)
<1>0. TypeOK
  BY DEF IngestInv
<1>1. UNCHANGED <<wf, jobs, log>>
  BY DEF RunStep, StartRun, StartJobs, DescribeJob, FinishJob, FailJob, RaiseError, Annotate,
         CloseRun, CrashRun, Emit, Post, runTables
<1>2. CASE Reports(r)
  <2>1. PICK kind, js, rs, full :
          /\ Post(r, Report(kind, js, rs, full)) /\ Moves(r, kind, js)
          /\ phase' = [phase EXCEPT ![r] = "open"] \/ UNCHANGED phase
    BY <1>2 DEF Reports
  <2>2. /\ sent'[s] = sent[s] /\ waiting'[s] = waiting[s] /\ phase'[s] = phase[s]
        /\ UNCHANGED <<ctx, answers>> /\ snake'[s] = snake[s]
    BY <1>0, <2>1 DEF Post, Moves, TypeOK, PluginTypes
  <2>3. Of(s, net)' = Of(s, net)
    BY <2>1 DEF Post, Of
  <2> QED
    BY <1>1, <2>2, <2>3 DEF Alone, JobErrors, Processed, Of
<1>3. CASE CloseRun(r)
  <2>1. /\ sent'[s] = sent[s] /\ phase'[s] = phase[s] /\ UNCHANGED <<ctx, answers, waiting, snake>>
    BY <1>0, <1>3 DEF CloseRun, TypeOK, PluginTypes
  <2>2. Of(s, net)' = Of(s, net)
    <3>1. UNCHANGED net \/ \E q : net' = net \cup {q} /\ q.run = r
      BY <1>3, CloseAsks
    <3> QED
      BY <3>1 DEF Of
  <2> QED
    BY <1>1, <2>1, <2>2 DEF Alone, JobErrors, Processed, Of
<1>4. CASE CrashRun(r)
  <2>1. /\ waiting'[s] = waiting[s] /\ phase'[s] = phase[s] /\ UNCHANGED <<ctx, net, sent, snake>>
    BY <1>0, <1>4 DEF CrashRun, TypeOK, PluginTypes
  <2>2. Of(s, answers)' = Of(s, answers)
    BY <1>4 DEF CrashRun, Of
  <2> QED
    BY <1>1, <2>1, <2>2 DEF Alone, JobErrors, Processed, Of
<1> QED
  BY <1>0, <1>2, <1>3, <1>4, RunStepReports

\* a row that the map of a request gives is one of the jobs it is about
LEMMA MappedHome ==
  ASSUME IngestInv, NEW q \in net, NEW i \in Mapped(q), jobs[i] # None
  PROVE  i \in RowIds /\ jobs[i].wf = q.run /\ jobs[i].sid \in q.ev.jobs
BY RequestParts DEF Mapped, IngestInv, ContextPointsHome, Home

LEMMA HandleLeavesAlone ==
  ASSUME IngestInv, NEW q \in net, Handle(q), NEW s \in Runs \ {q.run}
  PROVE  Alone(s)
<1>0. TypeOK /\ q.ctx.wf \in {None, q.run} /\ q.run \in Runs
  BY RequestParts DEF IngestInv, ContextPointsHome, Home
<1>1. UNCHANGED <<phase, snake, ctx, sent, waiting>> /\ net' = net \ {q}
  BY DEF Handle, HandleWorkflowStarted, HandleAnnotation, HandleJobStarted, HandleJobInfo,
         HandleJobFinished, HandleJobError, HandleGroupError, HandleError, HandleClose,
         SettleMapped, FailError, Fail, Ignore, Serve, pluginVars
<1>2. \/ answers' = answers /\ log' = log
      \/ \E ok, c : Serve(q, ok, c)
  BY DEF Handle, HandleWorkflowStarted, HandleAnnotation, HandleJobStarted, HandleJobInfo,
         HandleJobFinished, HandleJobError, HandleGroupError, HandleError, HandleClose,
         SettleMapped, FailError, Fail, Ignore
<1>3. Of(s, answers)' = Of(s, answers) /\ Of(s, net)' = Of(s, net) /\ JobErrors(s)' = JobErrors(s)
  <2>1. CASE answers' = answers /\ log' = log
    BY <1>1, <2>1 DEF Of, JobErrors, Processed
  <2>2. CASE \E ok, c : Serve(q, ok, c)
    <3>1. PICK ok, c : Serve(q, ok, c)
      BY <2>2
    <3>2. Of(s, answers)' = Of(s, answers)
      BY <3>1 DEF Serve, Of
    <3>3. \A k : Processed(s, k)' = Processed(s, k)
      BY <3>1 DEF Serve, Processed
    <3> QED
      BY <1>1, <3>2, <3>3 DEF Of, JobErrors
  <2> QED
    BY <1>2, <2>1, <2>2
<1>4. wf'[s] = wf[s]
  <2>1. \/ wf' = wf \/ \E status : wf' = [wf EXCEPT ![q.run] = status]
        \/ \E status : wf' = [wf EXCEPT ![q.ctx.wf] = status]
    BY DEF Handle, HandleWorkflowStarted, HandleAnnotation, HandleJobStarted, HandleJobInfo,
           HandleJobFinished, HandleJobError, HandleGroupError, HandleError, HandleClose,
           SettleMapped, FailError, Fail, Ignore, runTables
  <2> QED
    BY <1>0, <2>1, NoneAssumption DEF TypeOK, TableTypes
<1>5. ASSUME NEW i \in RowIds
      PROVE  /\ jobs[i] # None /\ jobs[i].wf = s =>
                  jobs'[i] # None /\ jobs'[i].wf = s /\ jobs'[i].status = jobs[i].status
             /\ jobs'[i] # None /\ jobs'[i].wf = s => jobs[i] # None /\ jobs[i].wf = s
  <2>1. RowOutcome(q, i)
    BY HandleRows
  <2>2. i \in Mapped(q) /\ jobs[i] # None => jobs[i].wf = q.run
    BY MappedHome
  <2> QED
    BY <2>1, <2>2 DEF RowOutcome
<1> QED
  BY <1>1, <1>3, <1>4, <1>5 DEF Alone

LEMMA ReceiveLeavesAlone ==
  ASSUME IngestInv, NEW a \in answers, Receive(a), NEW s \in Runs \ {a.run}
  PROVE  Alone(s)
<1>1. TypeOK
  BY DEF IngestInv
<1>2. ctx'[s] = ctx[s] /\ waiting'[s] = waiting[s]
  BY <1>1 DEF Receive, TypeOK, PluginTypes
<1>3. Of(s, answers)' = Of(s, answers)
  BY DEF Receive, Of
<1> QED
  BY <1>2, <1>3 DEF Receive, Alone, Of, JobErrors, Processed, runTables

-----------------------------------------------------------------------------
(* The run's own steps *)

LEMMA OwnReport ==
  ASSUME Reliable, IngestInv, NEW r \in Runs, InStep(r), Reports(r)
  PROVE  InStep(r)'
<1>0. TypeOK
  BY DEF IngestInv
<1>1. PICK kind \in AllKinds, js \in SUBSET SnakeJobs, rs \in SUBSET RuleNames, full \in BOOLEAN :
        /\ Post(r, Report(kind, js, rs, full))
        /\ IF kind = "workflow_started" THEN phase[r] = "new" /\ phase' = [phase EXCEPT ![r] = "open"]
                                        ELSE phase[r] = "open" /\ kind \in Kinds /\ UNCHANGED phase
        /\ kind \in {"job_error", "group_error"} => js # {}
        /\ Moves(r, kind, js)
  BY DEF Reports
<1>2. PICK q : q = [run |-> r, seq |-> sent[r] + 1, ev |-> Report(kind, js, rs, full), ctx |-> ctx[r]]
  OBVIOUS
<1>3. /\ net' = net \cup {q} /\ q.run = r /\ q.seq = sent'[r] /\ q.ctx = ctx'[r] /\ q.ctx = ctx[r]
      /\ q.ev.kind = kind /\ q.ev.jobs = js /\ waiting'[r] /\ phase'[r] = "open"
      /\ UNCHANGED <<answers, wf, jobs, log>>
  BY <1>0, <1>1, <1>2 DEF Post, Report, TypeOK, PluginTypes, runTables
<1>4. /\ HasError(r) <=> JobErrors(r) # {}
      /\ Of(r, net) = {} /\ Of(r, answers) = {} /\ UpToDate(r, q.ctx)
      /\ IF kind = "workflow_started" THEN wf[r] = "none" ELSE Begun(r, q.ctx)
  BY <1>1, <1>3 DEF Post, InStep, Resting, Reporting, Answering
<1>5. Of(r, net)' = {q} /\ Of(r, answers)' = {}
  BY <1>3, <1>4 DEF Of
<1>6. UpToReport(r, q.ctx, q.ev)'
  <2> SUFFICES ASSUME NEW j \in SnakeJobs
               PROVE  (IF q.ev.kind \in DOMAIN Knows /\ j \in q.ev.jobs
                         THEN Behind(r, q.ctx, j, q.ev.kind) ELSE Agrees(r, q.ctx, j))'
    BY DEF UpToReport
  <2>1. Agrees(r, q.ctx, j)
    BY <1>4 DEF UpToDate
  <2>2. CASE kind \in DOMAIN Knows /\ j \in js
    <3>1. snake'[r][j] = Knows[kind] /\ (kind # "job_started" => snake[r][j] = "running")
      BY <1>1, <2>2 DEF Moves
    <3>2. Behind(r, q.ctx, j, kind)'
      BY <1>3, <2>1, <3>1 DEF Behind, Agrees, ShownFor
    <3> QED
      BY <1>3, <2>2, <3>2
  <2>3. CASE ~(kind \in DOMAIN Knows /\ j \in js)
    <3>1. snake'[r][j] = snake[r][j]
      BY <1>1, <2>3 DEF Moves
    <3>2. Agrees(r, q.ctx, j)'
      BY <1>3, <2>1, <3>1 DEF Agrees
    <3> QED
      BY <1>3, <2>3, <3>2
  <2> QED
    BY <2>2, <2>3
<1>7. kind = "group_error" => JobZero \notin js
  BY <1>1 DEF Reliable
<1>8. kind # "close"
  BY DEF AllKinds
<1>9. Reporting(r)'
  BY <1>1, <1>3, <1>4, <1>5, <1>6, <1>7, <1>8 DEF Reporting, Begun
<1>10. (HasError(r) <=> JobErrors(r) # {})'
  BY <1>3, <1>4 DEF HasError, RowsOf, JobErrors, Processed
<1> QED
  BY <1>3, <1>9, <1>10 DEF InStep

LEMMA OwnEnd ==
  ASSUME IngestInv, NEW r \in Runs, InStep(r), CloseRun(r) \/ CrashRun(r)
  PROVE  InStep(r)'
<1>0. TypeOK
  BY DEF IngestInv
<1>1. CASE CloseRun(r)
  <2>1. /\ phase'[r] = "closed" /\ phase[r] \in {"new", "open"} /\ ~waiting[r]
        /\ UNCHANGED <<answers, wf, jobs, log>>
    BY <1>0, <1>1 DEF CloseRun, TypeOK, PluginTypes, runTables
  <2>2. (HasError(r) <=> JobErrors(r) # {})'
    BY <2>1 DEF InStep, HasError, RowsOf, JobErrors, Processed
  <2>3. Of(r, net) = {} /\ Of(r, answers)' = {}
    BY <2>1 DEF InStep, Resting, Reporting, Answering, Of
  <2>4. CASE ctx[r].wf = None
    <3>1. wf[r] = "none" /\ net' = net
      BY <1>1, <2>1, <2>4, NoneAssumption DEF InStep, Resting, Reporting, Answering, Begun, CloseRun
    <3> QED
      BY <2>1, <2>2, <2>3, <3>1 DEF InStep, Of
  <2>5. CASE ctx[r].wf # None
    <3>1. PICK q : net' = net \cup {q} /\ q.run = r /\ q.ev.kind = "close"
      BY <1>1, <2>5, CloseAsks
    <3>2. Of(r, net)' = {q}
      BY <2>3, <3>1 DEF Of
    <3> QED
      BY <2>1, <2>2, <2>3, <3>1, <3>2 DEF InStep
  <2> QED
    BY <2>4, <2>5
<1>2. CASE CrashRun(r)
  BY <1>0, <1>2 DEF CrashRun, InStep, TypeOK, PluginTypes
<1> QED
  BY <1>1, <1>2

LEMMA OwnAnswer ==
  ASSUME IngestInv, NEW a \in answers, Receive(a), InStep(a.run)
  PROVE  InStep(a.run)'
<1> DEFINE r == a.run
<1>0. TypeOK /\ r \in Runs
  BY DEF IngestInv, TypeOK, NetTypes, Answer
<1>1. UNCHANGED <<phase, snake, net, wf, jobs, log>> /\ ~waiting'[r] /\ ctx'[r] = Taken(r, a)
  BY <1>0 DEF Receive, Taken, TypeOK, PluginTypes, runTables
<1>2. a \in Of(r, answers)
  BY DEF Of
<1>3. CASE phase[r] = "crashed"
  BY <1>1, <1>3 DEF InStep
<1>4. CASE phase[r] # "crashed"
  <2>1. /\ phase[r] = "open" /\ Answering(r) /\ (HasError(r) <=> JobErrors(r) # {})
    BY <1>2, <1>4 DEF InStep, Resting, Reporting
  <2>2. /\ Of(r, net) = {} /\ Of(r, answers) = {a}
        /\ Begun(r, Taken(r, a)) /\ UpToDate(r, Taken(r, a))
    BY <1>2, <2>1 DEF Answering
  <2>3. Of(r, answers)' = {} /\ Of(r, net)' = {}
    BY <1>1, <2>2 DEF Receive, Of
  <2>4. Begun(r, ctx[r])' /\ UpToDate(r, ctx[r])'
    BY <1>1, <2>2 DEF Begun, UpToDate, Agrees
  <2>5. (HasError(r) <=> JobErrors(r) # {})'
    BY <1>1, <2>1 DEF HasError, RowsOf, JobErrors, Processed
  <2> QED
    BY <1>1, <2>1, <2>3, <2>4, <2>5 DEF InStep, Resting
<1> QED
  BY <1>3, <1>4

\* the answer to q, with status ok and context c, leaves the plugin the context d: the run is
\* in the table and d names the RUNNING rows of the jobs a job_started report is about
AnsweredWith(q, ok, c, d) ==
  /\ ok \in BOOLEAN /\ Serve(q, ok, c) /\ d = (IF ok THEN c ELSE q.ctx)
  /\ wf'[q.run] # "none" /\ d.wf = q.run
  /\ \A j \in SnakeJobs :
       IF q.ev.kind = "job_started" /\ j \in q.ev.jobs
         THEN /\ d.jobs[j] \in RowIds /\ jobs'[d.jobs[j]] # None
              /\ jobs'[d.jobs[j]].status = "RUNNING"
         ELSE d.jobs[j] = q.ctx.jobs[j]

\* the answer to a report brings the context the next report needs
LEMMA OwnServed ==
  ASSUME IngestInv, NEW q \in net, Handle(q), q.ev.kind # "close",
         IF q.ev.kind = "workflow_started" THEN wf[q.run] = "none" ELSE Begun(q.run, q.ctx)
  PROVE  \E ok, c, d : AnsweredWith(q, ok, c, d)
<1>0. /\ TypeOK /\ RowsDrawn /\ Home(q.run, q.ctx) /\ q.run \in Runs /\ q.ctx \in Context
      /\ q.ctx.jobs \in [SnakeJobs -> RowIds \cup {None}] /\ q.ev.jobs \subseteq SnakeJobs
  BY RequestParts DEF IngestInv, ContextPointsHome
<1>1. ASSUME NEW ok \in BOOLEAN, Serve(q, ok, q.ctx), wf'[q.run] # "none", q.ctx.wf = q.run,
             q.ev.kind # "job_started"
      PROVE  AnsweredWith(q, ok, q.ctx, q.ctx)
  BY <1>1 DEF AnsweredWith
<1>2. CASE HandleWorkflowStarted(q)
  <2>1. /\ wf' = [wf EXCEPT ![q.run] = "RUNNING"] /\ q.ev.kind = "workflow_started"
        /\ Serve(q, TRUE, [q.ctx EXCEPT !.wf = q.run])
    BY <1>2 DEF HandleWorkflowStarted
  <2>2. wf'[q.run] = "RUNNING"
    BY <1>0, <2>1 DEF TypeOK, TableTypes
  <2>3. PICK c : c = [q.ctx EXCEPT !.wf = q.run]
    OBVIOUS
  <2>4. c.wf = q.run /\ c.jobs = q.ctx.jobs
    BY <1>0, <2>3 DEF Context
  <2>5. Serve(q, TRUE, c)
    BY <2>1, <2>3
  <2>6. AnsweredWith(q, TRUE, c, c)
    BY <2>1, <2>2, <2>4, <2>5 DEF AnsweredWith
  <2> QED
    BY <2>6
<1>3. CASE HandleJobStarted(q)
  <2>1. q.ev.kind = "job_started" /\ q.ctx.wf = q.run /\ wf[q.run] # "none"
    BY <1>3 DEF HandleJobStarted, Begun
  <2>2. PICK key \in Injections(q.ev.jobs, FreshKeys(q.ctx.wf)) :
          /\ jobs' = Inserted(q.ctx.wf, key) /\ Serve(q, TRUE, Remapped(q.ctx, key))
          /\ UNCHANGED wf
    BY <1>0, <1>3, <2>1, NoneAssumption DEF HandleJobStarted
  <2>i. q.ctx.wf # None /\ wf[q.ctx.wf] # "none"
    BY <1>0, <2>1, NoneAssumption
  <2>3. \A j \in q.ev.jobs : /\ key[j] \in RowIds /\ jobs'[key[j]] # None
                             /\ jobs'[key[j]].status = "RUNNING"
    <3>1. /\ \A i \in RowIds : RowOutcome(q, i)
          /\ \A j \in q.ev.jobs : /\ key[j] \in RowIds /\ jobs'[key[j]] # None
                                  /\ jobs'[key[j]].wf = q.run /\ jobs'[key[j]].sid = j
                                  /\ jobs'[key[j]].status = "RUNNING"
      BY <1>0, <2>1, <2>2, <2>i, InsertedRows, ZenonT(30)
    <3> QED
      BY <3>1
  <2>4. PICK c : c = Remapped(q.ctx, key)
    OBVIOUS
  <2>5. DOMAIN key = q.ev.jobs
    BY DEF Injections
  <2>6. /\ c.wf = q.ctx.wf
        /\ \A j \in SnakeJobs : c.jobs[j] = IF j \in q.ev.jobs THEN key[j] ELSE q.ctx.jobs[j]
    BY <1>0, <2>4, <2>5 DEF Remapped, Context
  <2>7. Serve(q, TRUE, c) /\ wf'[q.run] # "none"
    BY <1>0, <2>1, <2>2, <2>4, <2>i DEF Home
  <2>8. c.wf = q.run
    BY <1>0, <2>6, <2>i DEF Home
  <2>9. \A j \in SnakeJobs :
          IF j \in q.ev.jobs
            THEN /\ c.jobs[j] \in RowIds /\ jobs'[c.jobs[j]] # None
                 /\ jobs'[c.jobs[j]].status = "RUNNING"
            ELSE c.jobs[j] = q.ctx.jobs[j]
    BY <2>3, <2>6
  <2>10. AnsweredWith(q, TRUE, c, c)
    BY <2>1, <2>7, <2>8, <2>9 DEF AnsweredWith
  <2> QED
    BY <2>10
<1>4. CASE HandleAnnotation(q)
  <2>1. /\ \E ok \in BOOLEAN : Serve(q, ok, q.ctx)
        /\ UNCHANGED wf /\ q.ev.kind \notin {"job_started", "workflow_started"}
    BY <1>4 DEF HandleAnnotation, Ignore, runTables
  <2> QED
    BY <1>1, <2>1 DEF Begun
<1>5. CASE HandleJobInfo(q)
  <2>1. /\ \E ok \in BOOLEAN : Serve(q, ok, q.ctx)
        /\ UNCHANGED wf /\ q.ev.kind \notin {"job_started", "workflow_started"}
    BY <1>5, Zenon DEF HandleJobInfo, Ignore, Fail, runTables
  <2> QED
    BY <1>1, <2>1 DEF Begun
<1>6. CASE HandleJobFinished(q) \/ HandleJobError(q) \/ HandleGroupError(q)
  <2>1. /\ \E ok \in BOOLEAN : Serve(q, ok, q.ctx)
        /\ UNCHANGED wf /\ q.ev.kind \notin {"job_started", "workflow_started"}
    BY <1>6 DEF HandleJobFinished, HandleJobError, HandleGroupError, SettleMapped, Ignore, runTables
  <2> QED
    BY <1>1, <2>1 DEF Begun
<1>7. CASE HandleError(q)
  <2>1. /\ \E ok \in BOOLEAN : Serve(q, ok, q.ctx)
        /\ UNCHANGED wf \/ wf' = [wf EXCEPT ![q.ctx.wf] = "ERROR"]
        /\ q.ev.kind \notin {"job_started", "workflow_started"}
    BY <1>7 DEF HandleError, Ignore, FailError, Fail, runTables
  <2>2. wf'[q.run] # "none"
    BY <1>0, <2>1 DEF Begun, TypeOK, TableTypes
  <2> QED
    BY <1>1, <2>1, <2>2 DEF Begun
<1>8. ~HandleClose(q)
  BY DEF HandleClose
<1> QED
  BY <1>2, <1>3, <1>4, <1>5, <1>6, <1>7, <1>8 DEF Handle

\* a row the map gives for a job the report is not about is not touched
LEMMA OthersKept ==
  ASSUME IngestInv, NEW q \in net, Handle(q), q.ev.kind # "close",
         NEW j \in SnakeJobs, ~(q.ev.kind \in DOMAIN Knows /\ j \in q.ev.jobs),
         NEW i \in RowIds, i = q.ctx.jobs[j], jobs[i] # None
  PROVE  jobs'[i] # None /\ jobs'[i].status = jobs[i].status
<1>1. jobs[i].sid = j /\ i # None
  BY NoneAssumption DEF IngestInv, ContextPointsHome, Home
<1>2. Settles(q) => q.ev.kind \in DOMAIN Knows
  BY DEF Settles, Reported, Knows
<1>3. ~(Settles(q) /\ i \in Mapped(q))
  BY <1>1, <1>2, MappedHome
<1> QED
  BY <1>3, HandleRows DEF RowOutcome

LEMMA OwnErrors ==
  ASSUME IngestInv, NEW q \in net, Handle(q), NEW ok, NEW c, Serve(q, ok, c),
         q.ev.kind # "close", UpToReport(q.run, q.ctx, q.ev),
         q.ev.kind \in {"job_error", "group_error"} => q.ev.jobs # {},
         q.ev.kind = "group_error" => JobZero \notin q.ev.jobs,
         HasError(q.run) <=> JobErrors(q.run) # {}
  PROVE  (HasError(q.run) <=> JobErrors(q.run) # {})'
<1>0. /\ TypeOK /\ q.run \in Runs /\ q.ev.jobs \subseteq SnakeJobs
      /\ \A j \in SnakeJobs : q.ctx.jobs[j] \in RowIds \cup {None}
      /\ Home(q.run, q.ctx)
  BY RequestParts DEF IngestInv, ContextPointsHome
<1>1. ASSUME NEW j \in q.ev.jobs, q.ev.kind \in {"job_finished", "job_error", "group_error"}
      PROVE  LET i == q.ctx.jobs[j] IN
             /\ i \in RowIds /\ jobs[i] # None /\ jobs[i].status = "RUNNING"
             /\ jobs'[i] # None /\ jobs'[i].wf = q.run /\ Entry(q) \in log'
             /\ jobs'[i].status = Reported[q.ev.kind]
  <2>1. PICK i : i = q.ctx.jobs[j]
    OBVIOUS
  <2>2. i \in RowIds /\ i # None /\ jobs[i] # None /\ jobs[i].status = "RUNNING"
    BY <1>0, <1>1, <2>1 DEF UpToReport, Behind, Knows
  <2>3. i \in Mapped(q) /\ Settles(q) /\ jobs[i].wf = q.run
    BY <1>0, <1>1, <2>1, <2>2 DEF Mapped, Settles, Reported, Home
  <2>4. /\ jobs'[i] # None /\ jobs'[i].wf = q.run /\ Entry(q) \in log'
        /\ jobs'[i].status = Reported[q.ev.kind]
    BY <1>1, <2>2, <2>3, HandleRows DEF RowOutcome
  <2> QED
    BY <2>1, <2>2, <2>4
<1>2. CASE q.ev.kind \in {"job_error", "group_error"}
  <2>1. PICK j : j \in q.ev.jobs
    BY <1>2
  <2>2. HasError(q.run)'
    BY <1>1, <1>2, <2>1 DEF HasError, RowsOf, Reported
  <2>3. Entry(q) \in log'
    BY <1>1, <1>2, <2>1
  <2>4. Entry(q) \in JobErrors(q.run)'
    BY <1>2, <2>3 DEF JobErrors, Processed, Entry
  <2> QED
    BY <2>2, <2>4
<1>3. CASE q.ev.kind \notin {"job_error", "group_error"}
  <2>1. JobErrors(q.run)' = JobErrors(q.run)
    BY <1>3 DEF Serve, JobErrors, Processed
  <2>2. ASSUME NEW i \in RowIds
        PROVE  /\ jobs[i] # None /\ jobs[i].wf = q.run /\ jobs[i].status = "ERROR" =>
                    jobs'[i] # None /\ jobs'[i].wf = q.run /\ jobs'[i].status = "ERROR"
               /\ jobs'[i] # None /\ jobs'[i].wf = q.run /\ jobs'[i].status = "ERROR" =>
                    jobs[i] # None /\ jobs[i].wf = q.run /\ jobs[i].status = "ERROR"
    <3>1. RowOutcome(q, i)
      BY HandleRows
    <3>2. CASE ~(Settles(q) /\ i \in Mapped(q))
      BY <3>1, <3>2 DEF RowOutcome
    <3>3. CASE Settles(q) /\ i \in Mapped(q)
      <4>1. q.ev.kind = "job_finished"
        BY <1>3, <3>3 DEF Settles, Reported
      <4>2. PICK j \in q.ev.jobs : i = q.ctx.jobs[j]
        BY <3>3 DEF Mapped
      <4>3. jobs[i].status = "RUNNING" /\ jobs'[i].status = "SUCCESS"
        BY <1>1, <4>1, <4>2 DEF Reported
      <4> QED
        BY <4>3
    <3> QED
      BY <3>2, <3>3
  <2>3. HasError(q.run)' <=> HasError(q.run)
    BY <2>2 DEF HasError, RowsOf
  <2> QED
    BY <2>1, <2>3
<1> QED
  BY <1>2, <1>3

LEMMA OwnHandleOpen ==
  ASSUME IngestInv, NEW q \in net, Handle(q), InStep(q.run), phase[q.run] = "open"
  PROVE  InStep(q.run)'
<1> DEFINE r == q.run
<1>0. /\ TypeOK /\ r \in Runs /\ q \in Of(r, net)
      /\ \A j \in SnakeJobs : q.ctx.jobs[j] \in RowIds \cup {None}
  BY RequestParts DEF IngestInv, Of
<1>1. /\ waiting[r] /\ Of(r, answers) = {} /\ Of(r, net) = {q} /\ q.seq = sent[r] /\ q.ctx = ctx[r]
      /\ q.ev.kind # "close"
      /\ q.ev.kind \in {"job_error", "group_error"} => q.ev.jobs # {}
      /\ q.ev.kind = "group_error" => JobZero \notin q.ev.jobs
      /\ IF q.ev.kind = "workflow_started" THEN wf[r] = "none" ELSE Begun(r, q.ctx)
      /\ UpToReport(r, q.ctx, q.ev)
      /\ HasError(r) <=> JobErrors(r) # {}
  BY <1>0 DEF InStep, Resting, Reporting, Answering
<1>o. PICK ok, c, d : AnsweredWith(q, ok, c, d)
  BY <1>1, OwnServed
<1>2. /\ ok \in BOOLEAN /\ Serve(q, ok, c) /\ d = (IF ok THEN c ELSE q.ctx)
      /\ wf'[r] # "none" /\ d.wf = r
      /\ \A j \in SnakeJobs :
           IF q.ev.kind = "job_started" /\ j \in q.ev.jobs
             THEN /\ d.jobs[j] \in RowIds /\ jobs'[d.jobs[j]] # None
                  /\ jobs'[d.jobs[j]].status = "RUNNING"
             ELSE d.jobs[j] = q.ctx.jobs[j]
  BY <1>o DEF AnsweredWith
<1>3. UNCHANGED <<phase, snake, ctx, waiting>>
  BY <1>2 DEF Serve, pluginVars
<1>4. PICK a : a = [run |-> r, seq |-> q.seq, ok |-> ok, ctx |-> c]
  OBVIOUS
<1>5. Of(r, net)' = {} /\ Of(r, answers)' = {a} /\ a \in answers' /\ Taken(r, a)' = d
  BY <1>1, <1>2, <1>3, <1>4 DEF Serve, Awaited, Of, Taken
<1>6. ASSUME NEW j \in SnakeJobs PROVE Agrees(r, d, j)'
  <2>0. IF q.ev.kind \in DOMAIN Knows /\ j \in q.ev.jobs THEN Behind(r, q.ctx, j, q.ev.kind)
                                                         ELSE Agrees(r, q.ctx, j)
    BY <1>1 DEF UpToReport
  <2>1. CASE q.ev.kind = "job_started" /\ j \in q.ev.jobs
    BY <1>2, <1>3, <2>0, <2>1, NoneAssumption DEF Behind, Agrees, Knows, ShownFor
  <2>2. CASE q.ev.kind \in DOMAIN Knows \ {"job_started"} /\ j \in q.ev.jobs
    <3>1. PICK i : i = q.ctx.jobs[j] /\ i = d.jobs[j]
      BY <1>2, <2>2
    <3>2. i \in RowIds /\ i # None /\ jobs[i] # None /\ snake[r][j] = Knows[q.ev.kind]
      BY <1>0, <2>0, <2>2, <3>1 DEF Behind
    <3>3. i \in Mapped(q) /\ Settles(q)
      BY <1>1, <2>2, <3>1, <3>2 DEF Mapped, Settles, Reported, Knows
    <3>4. jobs'[i] # None /\ jobs'[i].status = Reported[q.ev.kind]
      BY <1>1, <3>2, <3>3, HandleRows DEF RowOutcome
    <3>5. Reported[q.ev.kind] = ShownFor[Knows[q.ev.kind]]
      BY <2>2 DEF Reported, Knows, ShownFor
    <3> QED
      BY <1>3, <3>1, <3>2, <3>4, <3>5 DEF Agrees
  <2>3. CASE ~(q.ev.kind \in DOMAIN Knows /\ j \in q.ev.jobs)
    <3>1. PICK i : i = q.ctx.jobs[j] /\ i = d.jobs[j]
      BY <1>2, <2>3 DEF Knows
    <3>2. CASE i = None
      BY <1>3, <2>0, <2>3, <3>1, <3>2 DEF Agrees
    <3>3. CASE i # None
      <4>1. i \in RowIds /\ jobs[i] # None /\ jobs[i].status = ShownFor[snake[r][j]]
        BY <1>0, <2>0, <2>3, <3>1, <3>3 DEF Agrees
      <4>2. jobs'[i] # None /\ jobs'[i].status = jobs[i].status
        BY <1>1, <2>3, <3>1, <4>1, OthersKept
      <4> QED
        BY <1>3, <3>1, <3>3, <4>1, <4>2 DEF Agrees
    <3> QED
      BY <3>2, <3>3
  <2> QED
    BY <2>1, <2>2, <2>3
<1>7. Begun(r, d)' /\ UpToDate(r, d)'
  BY <1>2, <1>6 DEF Begun, UpToDate
<1>8. Answering(r)'
  BY <1>1, <1>3, <1>5, <1>7 DEF Answering, Begun, UpToDate, Agrees
<1>9. (HasError(r) <=> JobErrors(r) # {})'
  BY <1>1, <1>2, OwnErrors
<1> QED
  BY <1>3, <1>8, <1>9 DEF InStep

LEMMA OwnHandleClosed ==
  ASSUME IngestInv, NEW q \in net, Handle(q), InStep(q.run), phase[q.run] = "closed"
  PROVE  InStep(q.run)'
<1> DEFINE r == q.run
<1>0. TypeOK /\ r \in Runs /\ q \in Of(r, net)
  BY RequestParts DEF IngestInv, Of
<1>1. /\ q.ev.kind = "close" /\ Of(r, answers) = {} /\ \A p \in Of(r, net) : p.ev.kind = "close"
      /\ HasError(r) <=> JobErrors(r) # {}
  BY <1>0 DEF InStep
<1>2. HandleClose(q)
  BY <1>1 DEF Handle, HandleWorkflowStarted, HandleAnnotation, HandleJobStarted, HandleJobInfo,
              HandleJobFinished, HandleJobError, HandleGroupError, HandleError
<1>3. q.ctx.wf = r
  BY <1>0, <1>2 DEF HandleClose, IngestInv, ReportsTrue, TrueReport, ContextPointsHome, Home
<1>4. net' = net \ {q} /\ UNCHANGED <<phase, answers, log>>
  BY <1>2 DEF HandleClose, pluginVars
<1>5. ~Settles(q) /\ q.ev.kind # "job_started"
  BY <1>1 DEF Settles, Reported
<1>6. \A i \in RowIds :
        /\ jobs[i] # None /\ jobs[i].wf = r /\ jobs[i].status = "ERROR" =>
             jobs'[i] # None /\ jobs'[i].wf = r /\ jobs'[i].status = "ERROR"
        /\ jobs'[i] # None /\ jobs'[i].wf = r /\ jobs'[i].status = "ERROR" =>
             \/ jobs[i] # None /\ jobs[i].wf = r /\ jobs[i].status = "ERROR"
             \/ Verdict(r) = "ERROR"
  BY <1>5, HandleRows DEF RowOutcome
<1>7. HasError(r)' <=> HasError(r)
  BY <1>6 DEF HasError, RowsOf, Verdict
<1>8. wf'[r] = "none" \/ wf'[r] = Verdict(r)
  BY <1>0, <1>2, <1>3 DEF HandleClose, runTables, TypeOK, TableTypes
<1> QED
  BY <1>1, <1>4, <1>7, <1>8 DEF InStep, Of, JobErrors, Processed, Verdict

LEMMA InitMirror == Init => MirrorInv
<1> SUFFICES ASSUME Init PROVE MirrorInv
  OBVIOUS
<1>1. ASSUME NEW r \in Runs PROVE InStep(r)
  <2>1. /\ phase[r] = "new" /\ Of(r, net) = {} /\ Of(r, answers) = {} /\ wf[r] = "none"
        /\ ctx[r].wf = None
    BY DEF Init, EmptyContext, Of
  <2>2. UpToDate(r, ctx[r])
    BY DEF Init, EmptyContext, UpToDate, Agrees
  <2>3. ~HasError(r) /\ JobErrors(r) = {}
    BY DEF Init, HasError, RowsOf, JobErrors, Processed
  <2> QED
    BY <2>1, <2>2, <2>3 DEF InStep
<1> QED
  BY <1>1, InitInv DEF MirrorInv

LEMMA NextMirror ==
  ASSUME Reliable
  PROVE  MirrorInv /\ [Next]_vars => MirrorInv'
<1> SUFFICES ASSUME MirrorInv, [Next]_vars PROVE MirrorInv'
  OBVIOUS
<1>0. IngestInv /\ IngestInv' /\ TypeOK /\ \A r \in Runs : InStep(r)
  BY NextInv DEF MirrorInv, IngestInv
<1>1. CASE \E r \in Runs : RunStep(r)
  <2>1. PICK r \in Runs : RunStep(r)
    BY <1>1
  <2>2. \A s \in Runs \ {r} : InStep(s)'
    BY <1>0, <2>1, StepLeavesAlone, AloneInStep
  <2>3. InStep(r)'
    BY <1>0, <2>1, RunStepReports, OwnReport, OwnEnd
  <2> QED
    BY <1>0, <2>2, <2>3 DEF MirrorInv
<1>2. CASE \E q \in net : Handle(q)
  <2>1. PICK q \in net : Handle(q)
    BY <1>2
  <2>2. \A s \in Runs \ {q.run} : InStep(s)'
    BY <1>0, <2>1, HandleLeavesAlone, AloneInStep
  <2>3. q.run \in Runs /\ q \in Of(q.run, net) /\ UNCHANGED phase
    BY <1>0, <2>1, RequestParts, HandleTouches DEF Of
  <2>4. InStep(q.run)'
    <3>1. CASE phase[q.run] = "crashed"
      BY <2>3, <3>1 DEF InStep
    <3>2. CASE phase[q.run] # "crashed"
      <4>1. phase[q.run] \in {"open", "closed"}
        BY <1>0, <2>3, <3>2 DEF InStep
      <4> QED
        BY <1>0, <2>1, <2>3, <4>1, OwnHandleOpen, OwnHandleClosed
    <3> QED
      BY <3>1, <3>2
  <2> QED
    BY <1>0, <2>2, <2>4 DEF MirrorInv
<1>3. CASE \E a \in answers : Receive(a)
  <2>1. PICK a \in answers : Receive(a)
    BY <1>3
  <2>2. a.run \in Runs
    BY <1>0, <2>1 DEF TypeOK, NetTypes, Answer
  <2>3. \A s \in Runs \ {a.run} : InStep(s)'
    BY <1>0, <2>1, ReceiveLeavesAlone, AloneInStep
  <2>4. InStep(a.run)'
    BY <1>0, <2>1, <2>2, OwnAnswer
  <2> QED
    BY <1>0, <2>3, <2>4 DEF MirrorInv
<1>4. ~Fault
  BY <1>0 DEF Reliable, Fault, LoseRequest, LoseAnswer, GiveUp, TypeOK, NetTypes
<1>5. CASE UNCHANGED vars
  <2>1. ASSUME NEW s \in Runs PROVE InStep(s)'
    <3>1. Alone(s)
      BY <1>5 DEF vars, pluginVars, netVars, runTables, Alone, Of, JobErrors, Processed
    <3> QED
      BY <1>0, <3>1, AloneInStep
  <2> QED
    BY <1>0, <2>1 DEF MirrorInv
<1> QED
  BY <1>1, <1>2, <1>3, <1>4, <1>5 DEF Next

(* On a network that loses nothing, for any number of runs and jobs: when  *)
(* the plugin is between two reports, the rows its map leads to show what  *)
(* Snakemake knows of each job, a job that failed and started again too.   *)
THEOREM RowsFollowSnakemake ==
  ASSUME Reliable
  PROVE  Spec => []RowsMirrorSnakemake
<1>1. MirrorInv => RowsMirrorSnakemake
  BY DEF MirrorInv, InStep, Resting, Reporting, Answering, UpToDate, Agrees,
         RowsMirrorSnakemake, Shown, ShownFor
<1> QED
  BY <1>1, InitMirror, NextMirror, PTL DEF Spec

(* On a network that loses nothing, a run that is closed and served ends   *)
(* as ERROR exactly when a failure of one of its jobs was reported.        *)
THEOREM VerdictIsRight ==
  ASSUME Reliable
  PROVE  Spec => []VerdictFollowsJobErrors
<1>1. MirrorInv => VerdictFollowsJobErrors
  <2> SUFFICES ASSUME MirrorInv, NEW r \in Runs, phase[r] = "closed", wf[r] # "none",
                      \A q \in net : q.run # r
               PROVE  wf[r] = "ERROR" <=> JobErrors(r) # {}
    BY DEF VerdictFollowsJobErrors, JobErrors
  <2>1. Of(r, net) = {} /\ InStep(r)
    BY DEF Of, MirrorInv
  <2>2. wf[r] = Verdict(r) /\ (HasError(r) <=> JobErrors(r) # {})
    BY <2>1 DEF InStep
  <2> QED
    BY <2>2 DEF Verdict
<1> QED
  BY <1>1, InitMirror, NextMirror, PTL DEF Spec
=============================================================================
