---------------------------- MODULE CatalogStore ----------------------------
(***************************************************************************)
(* The files of one catalog: text in catalog_files, binaries as a row of   *)
(* catalog_blobs with their bytes in a sidecar directory, and a workspace  *)
(* on disk that is exported from both for Snakemake.                       *)
(*                                                                         *)
(* Requests run as coroutines, each with a session of its own, and         *)
(* interleave at the statements they await.  A transaction's rows become   *)
(* visible at its COMMIT; what it does to the disk is visible at once and  *)
(* is never undone.  The status of the catalog is kept by the ORM, which   *)
(* writes the column only if its value differs from the one it loaded.     *)
(***************************************************************************)
EXTENDS Naturals

CONSTANTS
  Paths,       \* relative paths
  Snakefile,   \* the one that makes a catalog usable, in Paths
  Contents,    \* bodies of files; a hash stands for its body
  None, Keep,  \* no file; a row the transaction has not touched
  Writers,     \* clients that import files
  Readers,     \* clients that export the workspace
  Failing,     \* clients whose requests may fail half-way
  MaxRequests  \* bound: requests

ASSUME SnakefileAssumption == Snakefile \in Paths
ASSUME FileAssumption == None # Keep /\ {None, Keep} \cap Contents = {}
ASSUME RequestsAssumption == MaxRequests \in Nat

Clients == Writers \cup Readers

VARIABLES
  row,      \* the catalog's row: "there", "deleted", "removed" from disk too
  text,     \* catalog_files, committed
  blob,     \* catalog_blobs, committed: the hash in the row
  status,   \* catalogs.workspace_status, committed
  side,     \* the sidecar directory
  work,     \* the workspace directory
  req,      \* req[c]: the request client c waits for
  asked,
  overlapped, \* history: two requests were in progress at once
  torn        \* history: an export that has changed some of the workspace ended,
              \* or failed, and no status that says so is committed

store == <<row, text, blob, status>>
vars  == <<store, side, work, req, asked, overlapped, torn>>

exists == row = "there"

Files   == [Paths -> Contents \cup {None}]
Empty   == [p \in Paths |-> None]
Writes  == [Paths -> Contents \cup {None, Keep}]
NoWrite == [p \in Paths |-> Keep]
Status  == {"stale", "fresh", "error"}

Present(f) == {p \in Paths : f[p] # None}

NoRequest == [at |-> "idle", sync |-> FALSE, replace |-> FALSE,
              files |-> Empty,     \* text to import, or the rows an export read
              bins  |-> Empty,     \* binaries to import
              del   |-> {},        \* delete_paths
              dtext |-> NoWrite, dblob |-> NoWrite,  \* the transaction's rows
              seen  |-> "stale",   \* the status this session has loaded
              new   |-> "stale"]   \* the status it is to write

Init ==
  /\ row = "there" /\ text = Empty /\ blob = Empty /\ status = "stale"
  /\ side = Empty /\ work = Empty
  /\ req = [c \in Clients |-> NoRequest]
  /\ asked = 0 /\ overlapped = FALSE /\ torn = FALSE

-----------------------------------------------------------------------------
\* rows base with the transaction's writes
Applied(over, base) == [p \in Paths |-> IF over[p] = Keep THEN base[p] ELSE over[p]]

TextOf(c) == Applied(req[c].dtext, text)
BlobOf(c) == Applied(req[c].dblob, blob)

\* row p of a table is locked by the transaction of another client
LockedText(c, p) == \E d \in Clients \ {c} : req[d].dtext[p] # Keep
LockedBlob(c, p) == \E d \in Clients \ {c} : req[d].dblob[p] # Keep

\* DELETE of the visible rows at paths S
Without(over, base, S) ==
  [p \in Paths |-> IF p \in S /\ Applied(over, base)[p] # None THEN None ELSE over[p]]

\* INSERT ... ON CONFLICT DO UPDATE of files f, those that are equal skipped
With(over, base, f) ==
  [p \in Paths |-> IF f[p] # None /\ f[p] # Applied(over, base)[p] THEN f[p] ELSE over[p]]

Unlinked(S) == [p \in Paths |-> IF p \in S THEN None ELSE side[p]]

Begin(c, r) ==
  /\ req[c].at = "idle" /\ asked < MaxRequests /\ exists
  /\ asked' = asked + 1
  /\ overlapped' = (overlapped \/ \E d \in Clients : req[d].at # "idle")
  /\ req' = [req EXCEPT ![c] = r]
  /\ UNCHANGED <<store, side, work, torn>>

Step(c, r) == req' = [req EXCEPT ![c] = r] /\ UNCHANGED <<asked, overlapped>>

(* The request is answered with an error, and its transaction rolled back. *)
Fail(c) == Step(c, NoRequest) /\ UNCHANGED <<store, side, work, torn>>

-----------------------------------------------------------------------------
(* batch_import_files                                                      *)

(* The editor's import: text only, in either mode, with paths to delete.   *)
SaveFiles(c) ==
  \E f \in Files, del \in SUBSET Paths, replace \in BOOLEAN :
    Begin(c, [NoRequest EXCEPT !.at = "clear_text", !.replace = replace, !.files = f,
                               !.del = del, !.seen = status])

(* An archive, a directory from the CLI (replace) or a git pull (merge): a *)
(* scan splits it into text and binaries, and an export follows.           *)
SyncTree(c) ==
  \E f, b \in Files, replace \in BOOLEAN :
    /\ Present(f) \cap Present(b) = {} /\ Present(f) \cup Present(b) # {}
    /\ Begin(c, [NoRequest EXCEPT !.at = "clear_text", !.sync = TRUE, !.replace = replace,
                                  !.files = f, !.bins = b, !.seen = status])

\* text rows that go: all but the incoming ones, if any came, and those named
TextToDelete(r) ==
  r.del \cup IF r.replace /\ Present(r.files) # {} THEN Paths \ Present(r.files) ELSE {}

(* upsert_catalog_files, up to its deletions: a binary gives way to a text *)
(* file at its path, sidecar first.                                        *)
ClearText(c) ==
  LET r == req[c]  F == Present(r.files) IN
  /\ r.at = "clear_text"
  /\ \A p \in F : blob[p] # None => ~LockedBlob(c, p)
  /\ \A p \in TextToDelete(r) : text[p] # None => ~LockedText(c, p)
  /\ side' = Unlinked(F)
  /\ Step(c, [r EXCEPT !.at = "insert_text",
                       !.dblob = Without(@, blob, F),
                       !.dtext = Without(@, text, TextToDelete(r))])
  /\ UNCHANGED <<store, work, torn>>

InsertText(c) ==
  LET r == req[c]  d == With(r.dtext, text, r.files) IN
  /\ r.at = "insert_text"
  /\ \A p \in Present(r.files) : ~LockedText(c, p)
  /\ IF d # r.dtext /\ ~exists
       THEN Fail(c)
       ELSE /\ Step(c, [r EXCEPT !.dtext = d,
                                 !.at = IF r.bins = Empty THEN "commit_import" ELSE "clear_blobs"])
            /\ UNCHANGED <<store, side, work, torn>>

BlobsToDelete(r, rows) ==
  r.del \cup IF r.replace THEN Present(rows) \ Present(r.bins) ELSE {}

\* mutant: a text file does not give way to a binary
GiveWayNot(r) == r.dtext

\* the text rows at the paths of the binaries go
GiveWay(r) == Without(r.dtext, text, Present(r.bins))

(* upsert_catalog_blobs, which is only called with binaries.               *)
ClearBlobs(c) ==
  LET r == req[c]  S == BlobsToDelete(r, BlobOf(c)) IN
  /\ r.at = "clear_blobs"
  /\ \A p \in S : blob[p] # None => ~LockedBlob(c, p)
  /\ \A p \in Present(r.bins) : text[p] # None => ~LockedText(c, p)
  /\ side' = Unlinked(S)
  /\ Step(c, [r EXCEPT !.at = "insert_blobs", !.dblob = Without(@, blob, S),
                       !.dtext = GiveWay(r)])
  /\ UNCHANGED <<store, work, torn>>

\* mutant: only a path without a sidecar is written
WrittenIfNew(c, b) == [p \in Paths |-> IF side[p] = None THEN b[p] ELSE side[p]]

\* the sidecar with the binaries b whose hash is not the one in the row
Written(c, b) == [p \in Paths |-> IF b[p] # None /\ b[p] # BlobOf(c)[p] THEN b[p] ELSE side[p]]

InsertBlobs(c) ==
  LET r == req[c]  d == With(r.dblob, blob, r.bins) IN
  /\ r.at = "insert_blobs"
  /\ \A p \in Present(r.bins) : ~LockedBlob(c, p)
  /\ side' = Written(c, r.bins)
  /\ IF d # r.dblob /\ ~exists
       THEN Step(c, NoRequest)
       ELSE Step(c, [r EXCEPT !.dblob = d, !.at = "commit_import"])
  /\ UNCHANGED <<store, work, torn>>

\* what the ORM leaves in the column
Flushed(r, new) == IF new # r.seen THEN new ELSE status

\* mutant: a status that is not one of the workspace's
ImportedOther(c) == IF TextOf(c)[Snakefile] # None THEN "stale" ELSE "failed"

\* the status after an import
Imported(c) == IF TextOf(c)[Snakefile] # None THEN "stale" ELSE "error"

(* The export that follows a sync goes on with the status this session set *)
(* (CLI), or reads it again (archive, Git).                                *)
CommitImport(c) ==
  LET r == req[c] IN
  /\ r.at = "commit_import"
  /\ IF ~exists
       THEN Fail(c)
       ELSE /\ text' = TextOf(c) /\ blob' = BlobOf(c)
            /\ status' = Flushed(r, Imported(c))
            /\ \E s \in {Imported(c), status'} :
                 Step(c, IF r.sync THEN [NoRequest EXCEPT !.at = "clear", !.seen = s]
                                   ELSE NoRequest)
            /\ UNCHANGED <<row, side, work, torn>>

-----------------------------------------------------------------------------
(* materialize_catalog_workspace                                           *)

ExportWorkspace(c) == Begin(c, [NoRequest EXCEPT !.at = "clear", !.seen = status])

ClearWork(c) ==
  /\ req[c].at = "clear"
  /\ work' = Empty /\ torn' = FALSE
  /\ Step(c, [req[c] EXCEPT !.at = "rows"])
  /\ UNCHANGED <<store, side>>

ReadText(c) ==
  /\ req[c].at = "rows"
  /\ Step(c, [req[c] EXCEPT !.at = "write", !.files = text])
  /\ UNCHANGED <<store, side, work, torn>>

(* The rows of the binaries are read last; one without its sidecar is      *)
(* skipped.  Whatever another export has put there meanwhile stays.        *)
Assembled(c) ==
  [p \in Paths |-> IF blob[p] # None /\ side[p] # None THEN side[p]
                   ELSE IF req[c].files[p] # None THEN req[c].files[p] ELSE work[p]]

WriteWork(c) ==
  /\ req[c].at = "write"
  /\ work' = Assembled(c)
  /\ Step(c, [req[c] EXCEPT !.at = "commit_export",
                            !.new = IF \/ req[c].files = Empty /\ blob = Empty
                                       \/ work'[Snakefile] = None
                                    THEN "error" ELSE "fresh"])
  /\ UNCHANGED <<store, side, torn>>

\* what the statement that client c is at makes of the two directories
Sidecar(c) ==
  CASE req[c].at = "clear_text" -> Unlinked(Present(req[c].files))
    [] req[c].at = "clear_blobs" -> Unlinked(BlobsToDelete(req[c], BlobOf(c)))
    [] req[c].at = "insert_blobs" -> Written(c, req[c].bins)
    [] OTHER -> side

Workspace(c) ==
  CASE req[c].at = "clear" -> Empty [] req[c].at = "write" -> Assembled(c) [] OTHER -> work

\* directories on the way from f to g
Between(f, g) == {[p \in Paths |-> IF p \in S THEN g[p] ELSE f[p]] : S \in SUBSET Paths}

\* mutant: the workspace passes for what it should be
DiskFailsUnnoticed(c) ==
  /\ req[c].at \in {"clear", "write"}
  /\ work' \in Between(work, Workspace(c)) /\ torn' = (torn \/ work' # work)
  /\ Step(c, [req[c] EXCEPT !.at = "commit_export", !.new = "fresh"])
  /\ UNCHANGED <<store, side>>

\* an OSError, of the removal or of a write, ends the export and becomes its status
DiskFails(c) ==
  /\ req[c].at \in {"clear", "write"}
  /\ work' \in Between(work, Workspace(c)) /\ torn' = (torn \/ work' # work)
  /\ Step(c, [req[c] EXCEPT !.at = "commit_export", !.new = "error"])
  /\ UNCHANGED <<store, side>>

CommitExport(c) ==
  /\ req[c].at = "commit_export"
  /\ status' = IF exists THEN Flushed(req[c], req[c].new) ELSE status
  /\ Step(c, NoRequest) /\ torn' = FALSE
  /\ UNCHANGED <<row, text, blob, side, work>>

-----------------------------------------------------------------------------
(* delete_catalog: the rows, by cascade, then both directories.  The row   *)
(* of the catalog is kept by whoever has inserted files or locked rows.    *)
DeleteCatalog ==
  /\ exists /\ asked < MaxRequests /\ asked' = asked + 1
  /\ \A c \in Clients : req[c].dtext = NoWrite /\ req[c].dblob = NoWrite
  /\ row' = "deleted" /\ text' = Empty /\ blob' = Empty
  /\ overlapped' = (overlapped \/ \E d \in Clients : req[d].at # "idle")
  /\ UNCHANGED <<status, side, work, req, torn>>

RemoveTrees ==
  /\ row = "deleted" /\ row' = "removed"
  /\ side' = Empty /\ work' = Empty
  /\ UNCHANGED <<text, blob, status, req, asked, overlapped, torn>>

Import(c) == \/ SaveFiles(c) \/ SyncTree(c) \/ ClearText(c) \/ InsertText(c)
             \/ ClearBlobs(c) \/ InsertBlobs(c) \/ CommitImport(c)

Export(c) == \/ ClearWork(c) \/ ReadText(c) \/ WriteWork(c) \/ DiskFails(c) \/ CommitExport(c)

(* An awaited statement fails, or the client is gone.                      *)
Interrupted(c) == c \in Failing /\ req[c].at # "idle" /\ Fail(c)

(* The server dies: transactions are rolled back, and a directory stays as *)
(* far as the one coroutine that had the processor had come with it.       *)
Dies ==
  /\ \A d \in Clients : req[d].at # "idle" => d \in Failing
  /\ \E c \in Clients :
       /\ req[c].at # "idle"
       /\ side' \in Between(side, Sidecar(c)) /\ work' \in Between(work, Workspace(c))
  /\ req' = [c \in Clients |-> NoRequest] /\ torn' = (torn \/ work' # work)
  /\ UNCHANGED <<store, asked, overlapped>>

Next == \/ \E c \in Writers : Import(c)
        \/ \E c \in Readers : ExportWorkspace(c)
        \/ \E c \in Clients : Export(c) \/ Interrupted(c)
        \/ DeleteCatalog \/ RemoveTrees \/ Dies

Spec == Init /\ [][Next]_vars

-----------------------------------------------------------------------------
(* Properties *)

\* no request of a client in S is in progress
Quiet(S) == \A c \in S : req[c].at = "idle"

(* Every variable holds a value of its kind.                               *)
CatalogTypeOK ==
  /\ row \in {"there", "deleted", "removed"} /\ status \in Status
  /\ text \in Files /\ blob \in Files /\ side \in Files /\ work \in Files
  /\ \A c \in Clients : req[c].dtext \in Writes /\ req[c].dblob \in Writes

(* While one client imports, however its requests fail and whatever else   *)
(* runs, the tables agree on what a path is: never a text file and a       *)
(* binary at once, whichever replaced the other.                           *)
PathIsOneKind == \A p \in Paths : text[p] = None \/ blob[p] = None

(* When no import is in progress or has failed, every binary's row has its *)
(* bytes in the sidecar, those of its hash: what an export copies and a    *)
(* download packs.                                                         *)
BlobsHaveBytes == Quiet(Writers) => \A p \in Paths : blob[p] # None => side[p] = blob[p]

\* workspace_flags_for_catalog; no directory is an empty one
Shown == IF status = "stale" THEN "stale"
         ELSE IF work[Snakefile] # None THEN status
         ELSE IF text[Snakefile] # None THEN "missing" ELSE "error"

\* the workspace the tables call for
Exported == [p \in Paths |-> IF blob[p] # None THEN blob[p] ELSE text[p]]

(* A workspace that is shown as fresh holds exactly the catalog's files,   *)
(* as long as requests came one after the other, wherever exports fail,    *)
(* disks included.  Excepted is a workspace that a death of the server, or *)
(* a COMMIT that failed after the disk had, left half done: nothing tells  *)
(* of it before the next export begins.                                    *)
FreshIsExported ==
  exists /\ ~overlapped /\ ~torn /\ Quiet(Clients) /\ Shown = "fresh" => work = Exported
=============================================================================
