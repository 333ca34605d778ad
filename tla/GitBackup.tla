------------------------------ MODULE GitBackup -------------------------------
(***************************************************************************)
(* "Sync to Git": a click of the catalog list starts a background run that *)
(* exports the user's catalogs and pushes them, records what becomes of it *)
(* in the user's settings, and is followed by the page with a few polls.   *)
(* One catalog stands for all; deleting a catalog, or another tab, starts  *)
(* runs of the same user, and other requests export the same workspace.    *)
(***************************************************************************)
EXTENDS Naturals, FiniteSets

CONSTANTS
  MaxRuns,     \* bound: background runs
  MaxPolls,    \* polls of one click, 30 in the code
  MaxEvents    \* bound: clicks, edits, other exports, faults

\* what WebPages assumes of them
BackupAssumption == MaxRuns \in Nat \ {0} /\ MaxPolls \in Nat \ {0} /\ MaxEvents \in Nat

Runs == 1..MaxRuns

VARIABLES
  edits,     \* version of the catalog's files in the database
  work,      \* version in the workspace; 0: removed
  status,    \* settings.extra.git_backup: [run, is]
  runs,      \* runs[r]: its stage, whose it is, the version it read, and pushed
  export,    \* another request that exports: its stage and the version it read
  clicks,    \* clicks[r]: the handler whose click started run r, or will
  mounted,   \* the handler of the page as mounted now, or 0
  seen,      \* status in the settings that the page has read last
  result,    \* backupResult: [run, is]
  toast,     \* the one message of the handlers
  overlapped,\* history: two exports were in progress at once, or a disk failed
  strayed,   \* history: a handler's last poll found another run's status
  events

serverVars == <<edits, work, status, runs, export, overlapped>>
pageVars == <<clicks, mounted, seen, result, toast, strayed>>
gbVars == <<serverVars, pageVars, events>>

Event == events < MaxEvents /\ events' = events + 1

Unknown == [run |-> 0, is |-> "none"]

NoRun == [stage |-> "none", read |-> 0, pushed |-> 0]
NoClick == [at |-> "none", polls |-> 0, edits |-> 0, read |-> Unknown]

Exporting == {r \in Runs : runs[r].stage \in {"cleared", "read", "written"}}

-----------------------------------------------------------------------------
(* The server *)

Edit ==
  /\ Event /\ edits' = edits + 1
  /\ UNCHANGED <<work, status, runs, export, overlapped, pageVars>>

(* Another request removes the workspace, awaits the rows and writes them. *)
Export ==
  /\ \/ /\ Event /\ export.stage = "none"
        /\ export' = [stage |-> "cleared", read |-> 0] /\ work' = 0
        /\ overlapped' = (overlapped \/ Exporting # {})
     \/ /\ export.stage = "cleared" /\ export' = [stage |-> "read", read |-> edits]
        /\ UNCHANGED <<work, overlapped, events>>
     \/ /\ export.stage = "read" /\ export' = [stage |-> "none", read |-> 0] /\ work' = export.read
        /\ UNCHANGED <<overlapped, events>>
  /\ UNCHANGED <<edits, status, runs, pageVars>>

\* runs are numbered as they are asked for
Numbered(r) == \A q \in Runs : q < r => runs[q].stage # "none" \/ clicks[q].at # "none"

\* another tab, or delete_catalog
StartOther(r) ==
  /\ Event /\ runs[r].stage = "none" /\ clicks[r].at = "none" /\ Numbered(r)
  /\ runs' = [runs EXCEPT ![r].stage = "queued"]
  /\ UNCHANGED <<edits, work, status, export, overlapped, pageVars>>

At(r, stage) == [runs EXCEPT ![r].stage = stage]

\* what a run has read or pushed matters only to its success
Ended(r, stage) == [runs EXCEPT ![r] = [NoRun EXCEPT !.stage = stage]]

Is(r, st) == [run |-> r, is |-> st]

(* sync_catalog_with_git, as far as each of its awaits.                    *)
Begin(r) ==
  /\ runs[r].stage = "queued"
  /\ runs' = At(r, "begun") /\ status' = Is(r, "running")
  /\ UNCHANGED <<edits, work, export, overlapped>>

Clear(r) ==
  /\ runs[r].stage = "begun"
  /\ runs' = At(r, "cleared") /\ work' = 0
  /\ overlapped' = (overlapped \/ Exporting # {} \/ export.stage # "none")
  /\ UNCHANGED <<edits, status, export>>

ReadRows(r) ==
  /\ runs[r].stage = "cleared"
  /\ runs' = [runs EXCEPT ![r] = [stage |-> "read", read |-> edits, pushed |-> 0]]
  /\ UNCHANGED <<edits, work, status, export, overlapped>>

Write(r) ==
  /\ runs[r].stage = "read"
  /\ runs' = At(r, "written") /\ work' = runs[r].read
  /\ UNCHANGED <<edits, status, export, overlapped>>

\* an OSError of the export is noted in the catalog, and the push goes on
WriteFails(r) ==
  /\ Event /\ runs[r].stage \in {"cleared", "read"}
  /\ runs' = At(r, "written") /\ overlapped' = TRUE
  /\ UNCHANGED <<edits, work, status, export, pageVars>>

\* git add, commit and push, without an await
Push(r) ==
  /\ runs[r].stage = "written"
  /\ runs' = [runs EXCEPT ![r].stage = "pushed", ![r].pushed = work]
  /\ UNCHANGED <<edits, work, status, export, overlapped>>

(* Whatever the run waits for may fail: a query, a COMMIT, that of its     *)
(* success, too, or Git.                                                   *)
RunFails(r) ==
  /\ Event /\ runs[r].stage \in {"queued", "begun", "cleared", "read", "written", "pushed"}
  /\ runs' = Ended(r, "failing")
  /\ UNCHANGED <<edits, work, status, export, overlapped, pageVars>>

\* mutant: only success is recorded
FinishSilently(r) ==
  /\ runs[r].stage \in {"pushed", "failing"}
  /\ runs' = At(r, IF runs[r].stage = "pushed" THEN "success" ELSE "error")
  /\ status' = IF runs[r].stage = "pushed" THEN Is(r, "success") ELSE status
  /\ UNCHANGED <<edits, work, export, overlapped>>

Finish(r) ==
  /\ runs[r].stage \in {"pushed", "failing"}
  /\ runs' = [runs EXCEPT ![r].stage = IF @ = "pushed" THEN "success" ELSE "error", ![r].read = 0]
  /\ status' = Is(r, runs'[r].stage)
  /\ UNCHANGED <<edits, work, export, overlapped>>

(* A run that ends and says nothing: it finds no remote any more, or one   *)
(* for all users; or it has failed, and so does recording it.              *)
Drop(r) ==
  /\ Event /\ runs[r].stage \in {"queued", "failing"}
  /\ runs' = At(r, "dropped")
  /\ UNCHANGED <<edits, work, status, export, overlapped, pageVars>>

\* the tasks are gone, and nothing resets the status
Crash ==
  /\ Event
  /\ runs' = [r \in Runs |-> IF runs[r].stage \in {"none", "success", "error", "dropped"}
                               THEN runs[r] ELSE [NoRun EXCEPT !.stage = "lost"]]
  /\ export' = [stage |-> "none", read |-> 0]
  /\ clicks' = [r \in Runs |-> IF clicks[r].at \in {"posting", "accepted", "waiting"}
                                 THEN [clicks[r] EXCEPT !.at = "failed"] ELSE clicks[r]]
  /\ UNCHANGED <<edits, work, status, overlapped, mounted, seen, result, toast, strayed>>

Task(r) ==
  /\ Begin(r) \/ Clear(r) \/ ReadRows(r) \/ Write(r) \/ Push(r) \/ Finish(r)
  /\ UNCHANGED <<pageVars, events>>

-----------------------------------------------------------------------------
(* The page *)

Asking(r) == clicks[r].at \in {"posting", "accepted", "waiting", "answered", "failed"}

(* The button: neither this page's handler nor the status it has read say  *)
(* that a run is on its way.                                               *)
Click(r) ==
  /\ Event /\ clicks[r].at = "none" /\ runs[r].stage = "none" /\ Numbered(r)
  /\ mounted = 0 /\ seen.is # "running"
  /\ clicks' = [clicks EXCEPT ![r] = [NoClick EXCEPT !.at = "posting", !.edits = edits]]
  /\ mounted' = r /\ result' = Unknown /\ toast' = "loading"
  /\ UNCHANGED <<serverVars, seen, strayed>>

(* POST /git/push: the remote is tried, the run is queued for after the    *)
(* answer, and "running" is recorded, if that does not fail.               *)
Accept(r) ==
  /\ clicks[r].at = "posting"
  /\ clicks' = [clicks EXCEPT ![r].at = "accepted"]
  /\ runs' = At(r, "queued")
  /\ (status' = Is(r, "running") /\ UNCHANGED events) \/ (Event /\ UNCHANGED status)
  /\ UNCHANGED <<edits, work, export, overlapped, mounted, seen, result, toast, strayed>>

Refuse(r) ==
  /\ Event /\ clicks[r].at \in {"posting", "accepted", "waiting"}
  /\ clicks' = [clicks EXCEPT ![r].at = "failed"]
  /\ UNCHANGED <<serverVars, mounted, seen, result, toast, strayed>>

\* the page's handler r is over
Unmount(r) == mounted' = IF mounted = r THEN 0 ELSE mounted

\* a handler that began before the page was left sets nothing of this one
Result(r, res) == result' = IF mounted = r THEN res ELSE result

\* the catch clause
HearFailure(r) ==
  /\ clicks[r].at = "failed"
  /\ clicks' = [clicks EXCEPT ![r] = [NoClick EXCEPT !.at = "over"]]
  /\ toast' = "error" /\ Unmount(r) /\ Result(r, Is(0, "error"))
  /\ UNCHANGED <<serverVars, seen, strayed, events>>

\* the answer is there, or two seconds are over: getSettings, and its answer
Poll(r) ==
  /\ clicks[r].at \in {"accepted", "waiting"}
  /\ clicks' = [clicks EXCEPT ![r].at = "answered", ![r].polls = @ + 1, ![r].read = status]
  /\ UNCHANGED <<serverVars, mounted, seen, result, toast, strayed, events>>

Over(r) ==
  /\ clicks' = [clicks EXCEPT ![r] = [NoClick EXCEPT !.at = "over", !.edits = clicks[r].edits]]
  /\ Unmount(r)

\* mutant: whatever run it is
HearPollOfAny(r) ==
  LET read == clicks[r].read IN
  /\ clicks[r].at = "answered"
  /\ IF read.is \in {"success", "error"}
       THEN Over(r) /\ toast' = read.is /\ Result(r, read) /\ UNCHANGED strayed
     ELSE IF clicks[r].polls < MaxPolls
       THEN clicks' = [clicks EXCEPT ![r].at = "waiting", ![r].read = Unknown] /\ UNCHANGED <<mounted, result, toast, strayed>>
       ELSE Over(r) /\ toast' = "warning" /\ Result(r, Is(r, "running")) /\ UNCHANGED strayed
  /\ UNCHANGED <<serverVars, seen, events>>

\* mutant: the last poll says nothing
HearPollQuietly(r) ==
  LET read == clicks[r].read
      own == read.run = r IN
  /\ clicks[r].at = "answered"
  /\ IF own /\ read.is \in {"success", "error"}
       THEN Over(r) /\ toast' = read.is /\ Result(r, read) /\ UNCHANGED strayed
     ELSE IF clicks[r].polls < MaxPolls
       THEN clicks' = [clicks EXCEPT ![r].at = "waiting", ![r].read = Unknown] /\ UNCHANGED <<mounted, result, toast, strayed>>
       ELSE Over(r) /\ strayed' = (strayed \/ ~own) /\ UNCHANGED <<toast, result>>
  /\ UNCHANGED <<serverVars, seen, events>>

(* The body of the loop.  A status of another run is passed over, and so   *)
(* is, then, the warning that follows the last poll.                       *)
HearPoll(r) ==
  LET read == clicks[r].read
      own == read.run = r IN
  /\ clicks[r].at = "answered"
  /\ IF own /\ read.is \in {"success", "error"}
       THEN Over(r) /\ toast' = read.is /\ Result(r, read) /\ UNCHANGED strayed
     ELSE IF clicks[r].polls < MaxPolls
       THEN clicks' = [clicks EXCEPT ![r].at = "waiting", ![r].read = Unknown] /\ UNCHANGED <<mounted, result, toast, strayed>>
     ELSE /\ Over(r)
          /\ IF own THEN toast' = "warning" /\ Result(r, Is(r, "running")) ELSE UNCHANGED <<toast, result>>
          /\ strayed' = (strayed \/ ~own)
  /\ UNCHANGED <<serverVars, seen, events>>

\* the page is left and opened again; its handler goes on
Reopen ==
  /\ Event /\ mounted' = 0 /\ result' = Unknown /\ seen' = status
  /\ UNCHANGED <<serverVars, clicks, toast, strayed>>

\* the settings are read: every two seconds while the run they tell of is running
Refetch ==
  /\ seen # status /\ seen' = status
  /\ UNCHANGED <<serverVars, clicks, mounted, result, toast, strayed, events>>

Handler(r) == HearFailure(r) \/ Poll(r) \/ HearPoll(r)

-----------------------------------------------------------------------------
GbInit ==
  /\ edits = 1 /\ work = 0
  /\ status = Unknown /\ seen = Unknown /\ result = Unknown
  /\ runs = [r \in Runs |-> NoRun] /\ clicks = [r \in Runs |-> NoClick]
  /\ export = [stage |-> "none", read |-> 0]
  /\ mounted = 0 /\ toast = "none"
  /\ overlapped = FALSE /\ strayed = FALSE
  /\ events = 0

GbNext ==
  \/ Edit \/ Export \/ Crash \/ Reopen \/ Refetch
  \/ \E r \in Runs : StartOther(r) \/ Task(r) \/ WriteFails(r) \/ RunFails(r) \/ Drop(r)
                     \/ Click(r) \/ Accept(r) \/ Refuse(r) \/ Handler(r)

(* Fairness: the event loop runs its tasks, a request that is on its way   *)
(* is answered, and a handler that has its answer, or has slept, goes on.  *)
GbFairness == \A r \in Runs :
  WF_gbVars(Task(r)) /\ WF_gbVars(Accept(r)) /\ WF_gbVars(Handler(r))

GbSpec == GbInit /\ [][GbNext]_gbVars /\ GbFairness

-----------------------------------------------------------------------------
(* Properties *)

(* Every variable holds a value of its kind; the handler of the page is on *)
(* its way, and its run has been queued once its request was answered.     *)
GbTypeOK ==
  /\ edits \in Nat /\ work \in 0..edits
  /\ \A s \in {status, seen, result} : s.run \in 0..MaxRuns /\ s.is \in {"none", "running", "success", "error"}
  /\ mounted # 0 => Asking(mounted)
  /\ \A r \in Runs : /\ runs[r].read <= edits /\ clicks[r].polls <= MaxPolls
                     /\ clicks[r].at \in {"accepted", "waiting", "answered"} => runs[r].stage # "none"
  /\ toast \in {"none", "loading", "success", "error", "warning"}

(* "Synced to Git" is not said before it is true: what the page reports as *)
(* its success holds everything the catalogs held when the user clicked.   *)
(* Only exports that overlap, or a disk that fails, can make it wrong.     *)
SyncedIsPushed ==
  (result.is = "success" /\ ~overlapped) => runs[result.run].pushed >= clicks[result.run].edits /\ clicks[result.run].at = "over"

(* The message "Syncing catalogs to Git" does not stay for ever, although  *)
(* handlers of a page that was left share it with those of the new one;    *)
(* unless a handler's last poll met another run's status.                  *)
ToastEnds == <>[](toast # "loading" \/ strayed)

(* Whatever runs come one after the other or at once, and fail, the status *)
(* that disables the button is not left at "running", except by a run that *)
(* died with the server, or that ended without recording anything.         *)
BackupSettles ==
  <>[](status.is = "running" => runs[status.run].stage \in {"lost", "dropped"})
===============================================================================
