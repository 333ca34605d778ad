---------------------------- MODULE CatalogProofs ----------------------------
(* Theorems about CatalogStore, for every value of its constants.          *)
EXTENDS CatalogStore, TLAPS

USE SnakefileAssumption, FileAssumption

-----------------------------------------------------------------------------
(* What the inductive invariants say *)

Importing == {"clear_text", "insert_text", "clear_blobs", "insert_blobs", "commit_import"}
Exporting == {"clear", "rows", "write", "commit_export"}

Request == [at : {"idle"} \cup Importing \cup Exporting, sync : BOOLEAN, replace : BOOLEAN,
            files : Files, bins : Files, del : SUBSET Paths,
            dtext : Writes, dblob : Writes, seen : Status, new : Status]

Types == /\ CatalogTypeOK /\ req \in [Clients -> Request]
         /\ asked \in Nat /\ overlapped \in BOOLEAN

\* only a client that imports has written rows, and only after its first statement
WritesAreImports ==
  \A c \in Clients :
    /\ req[c].at \in Importing => c \in Writers
    /\ req[c].at \notin Importing \ {"clear_text"} =>
         req[c].dtext = NoWrite /\ req[c].dblob = NoWrite

\* a catalog that was deleted has no rows, and no transaction can give it any
DeletedIsEmpty ==
  ~exists => /\ text = Empty /\ blob = Empty
             /\ \A c \in Clients : req[c].dtext = NoWrite /\ req[c].dblob = NoWrite

\* unless requests overlapped, at most one is in progress
OneAtATime ==
  ~overlapped => \A c, d \in Clients : req[c].at # "idle" /\ req[d].at # "idle" => c = d

BaseInv == Types /\ WritesAreImports /\ DeletedIsEmpty /\ OneAtATime

\* the transaction of c sees each path as one kind, and a kind that was cleared for the
\* other is gone
SeesOneKind(c) ==
  /\ \A p \in Paths : TextOf(c)[p] = None \/ BlobOf(c)[p] = None
  /\ req[c].at = "insert_text" => \A p \in Present(req[c].files) : BlobOf(c)[p] = None
  /\ req[c].at = "insert_blobs" => \A p \in Present(req[c].bins) : TextOf(c)[p] = None

OneImporter == \A c, d \in Writers : c = d

KindInv == /\ BaseInv /\ PathIsOneKind
           /\ \A c \in Writers : req[c].at \in Importing => SeesOneKind(c)

\* the rows f of binaries have their bytes
HasBytes(f) == \A p \in Paths : f[p] # None => side[p] = f[p]

\* imports came one after the other: there is one importer, or no requests overlapped
Orderly == OneImporter \/ ~overlapped

BytesInv ==
  /\ BaseInv
  /\ Orderly =>
       /\ (\A c \in Writers : req[c].at \notin Importing) => HasBytes(blob)
       /\ \A c \in Writers : req[c].at \in Importing => HasBytes(BlobOf(c))

\* what an export has done so far, and the status its session has loaded
ExportIsTrue(c) ==
  /\ req[c].at # "idle" => req[c].seen = status
  /\ req[c].at \in {"rows", "write"} => work = Empty
  /\ req[c].at = "write" => req[c].files = text
  /\ req[c].at = "commit_export" => req[c].new = "error" \/ work = Exported

FreshInv ==
  /\ BytesInv
  /\ exists /\ ~overlapped =>
       /\ status = "fresh" /\ ~torn => work[Snakefile] = None \/ work = Exported
       /\ \A c \in Clients : ExportIsTrue(c)
-----------------------------------------------------------------------------
(* What statements do to the rows a transaction sees                       *)

LEMMA AppliedRows ==
  ASSUME NEW over \in Writes, NEW base \in Files
  PROVE  /\ Applied(over, base) \in Files
         /\ Applied(NoWrite, base) = base
<1>1. \A p \in Paths : over[p] \in Contents \cup {None, Keep} /\ base[p] \in Contents \cup {None}
  BY DEF Writes, Files
<1>2. base = [p \in Paths |-> base[p]]
  BY DEF Files
<1> QED
  BY <1>1, <1>2 DEF Applied, Files, NoWrite

\* a DELETE hides the rows at its paths and nothing else
LEMMA WithoutRows ==
  ASSUME NEW over \in Writes, NEW base \in Files, NEW S
  PROVE  /\ Without(over, base, S) \in Writes
         /\ \A p \in Paths : Applied(Without(over, base, S), base)[p] =
                               IF p \in S THEN None ELSE Applied(over, base)[p]
<1>1. \A p \in Paths : over[p] \in Contents \cup {None, Keep} /\ base[p] \in Contents \cup {None}
  BY DEF Writes, Files
<1>2. Without(over, base, S) \in Writes
  BY <1>1 DEF Without, Applied, Writes
<1>3. ASSUME NEW p \in Paths
      PROVE  Applied(Without(over, base, S), base)[p] =
               IF p \in S THEN None ELSE Applied(over, base)[p]
  BY <1>1, <1>3 DEF Without, Applied
<1> QED
  BY <1>2, <1>3

\* an upsert shows the files it brings and leaves the others
LEMMA WithRows ==
  ASSUME NEW over \in Writes, NEW base \in Files, NEW f \in Files
  PROVE  /\ With(over, base, f) \in Writes
         /\ \A p \in Paths : Applied(With(over, base, f), base)[p] =
                               IF f[p] # None THEN f[p] ELSE Applied(over, base)[p]
<1>1. \A p \in Paths : /\ over[p] \in Contents \cup {None, Keep}
                       /\ base[p] \in Contents \cup {None} /\ f[p] \in Contents \cup {None}
  BY DEF Writes, Files
<1>2. With(over, base, f) \in Writes
  BY <1>1 DEF With, Applied, Writes
<1>3. ASSUME NEW p \in Paths
      PROVE  Applied(With(over, base, f), base)[p] =
               IF f[p] # None THEN f[p] ELSE Applied(over, base)[p]
  BY <1>1, <1>3 DEF With, Applied
<1> QED
  BY <1>2, <1>3

\* no DELETE finds a row in an empty table
LEMMA WithoutNothing ==
  ASSUME NEW S
  PROVE  Without(NoWrite, Empty, S) = NoWrite
BY DEF Without, Applied, NoWrite, Empty

LEMMA FilesTypes ==
  /\ Empty \in Files /\ NoWrite \in Writes
  /\ NoRequest \in Request /\ NoRequest.at = "idle"
  /\ NoRequest.dtext = NoWrite /\ NoRequest.dblob = NoWrite
<1>1. Empty \in Files /\ NoWrite \in Writes
  BY DEF Empty, Files, NoWrite, Writes
<1> QED
  BY <1>1 DEF NoRequest, Request, Status

LEMMA UnlinkedFiles ==
  ASSUME side \in Files, NEW S
  PROVE  /\ Unlinked(S) \in Files
         /\ \A p \in Paths : Unlinked(S)[p] = IF p \in S THEN None ELSE side[p]
BY DEF Unlinked, Files

-----------------------------------------------------------------------------
(* What every step keeps: types, whose rows are written, one at a time     *)

LEMMA InitBase == Init => BaseInv
<1> SUFFICES ASSUME Init PROVE BaseInv
  OBVIOUS
<1>1. \A c \in Clients : req[c] = NoRequest
  BY DEF Init
<1>2. Types
  BY <1>1, FilesTypes DEF Init, Types, CatalogTypeOK, Status
<1>3. WritesAreImports
  BY <1>1, FilesTypes DEF WritesAreImports, Importing
<1>4. DeletedIsEmpty /\ OneAtATime
  BY <1>1, FilesTypes DEF Init, DeletedIsEmpty, exists, OneAtATime
<1> QED
  BY <1>2, <1>3, <1>4 DEF BaseInv

\* the request r that client c has after a step may write
Lawful(c, r) == /\ r \in Request
                /\ r.at \in Importing => c \in Writers
                /\ r.at \notin Importing \ {"clear_text"} => r.dtext = NoWrite /\ r.dblob = NoWrite
                /\ ~exists => r.dtext = NoWrite /\ r.dblob = NoWrite

LEMMA StepBase ==
  ASSUME BaseInv, NEW c \in Clients, NEW r, Lawful(c, r), Step(c, r), req[c].at # "idle",
         UNCHANGED row, status' \in Status,
         text' \in Files, blob' \in Files, side' \in Files, work' \in Files,
         ~exists => UNCHANGED <<text, blob>>
  PROVE  BaseInv'
<1>1. /\ req' = [req EXCEPT ![c] = r] /\ UNCHANGED <<asked, overlapped>>
      /\ req \in [Clients -> Request]
  BY DEF Step, BaseInv, Types
<1>2. req'[c] = r /\ \A d \in Clients : d # c => req'[d] = req[d]
  BY <1>1
<1>3. req' \in [Clients -> Request]
  BY <1>1 DEF Lawful
<1>4. \A d \in Clients : req'[d].dtext \in Writes /\ req'[d].dblob \in Writes
  BY <1>3 DEF Request
<1>5. Types'
  BY <1>1, <1>3, <1>4 DEF BaseInv, Types, CatalogTypeOK
<1>6. WritesAreImports'
  BY <1>2 DEF BaseInv, WritesAreImports, Lawful
<1>7. DeletedIsEmpty'
  BY <1>2 DEF BaseInv, DeletedIsEmpty, Lawful, exists
<1>8. OneAtATime'
  BY <1>1, <1>2 DEF BaseInv, OneAtATime
<1> QED
  BY <1>5, <1>6, <1>7, <1>8 DEF BaseInv
LEMMA BeginBase ==
  ASSUME BaseInv, NEW c \in Clients, NEW r \in Request, Begin(c, r),
         r.at \in Importing => c \in Writers, r.dtext = NoWrite, r.dblob = NoWrite
  PROVE  BaseInv'
<1>1. /\ req' = [req EXCEPT ![c] = r] /\ req[c].at = "idle" /\ asked' = asked + 1
      /\ overlapped' = (overlapped \/ \E d \in Clients : req[d].at # "idle")
      /\ UNCHANGED <<store, side, work>> /\ req \in [Clients -> Request]
  BY DEF Begin, BaseInv, Types
<1>2. req'[c] = r /\ \A d \in Clients : d # c => req'[d] = req[d]
  BY <1>1
<1>3. req' \in [Clients -> Request]
  BY <1>1
<1>4. \A d \in Clients : req'[d].dtext \in Writes /\ req'[d].dblob \in Writes
  BY <1>3 DEF Request
<1>5. Types'
  <2>1. overlapped' \in BOOLEAN /\ asked' \in Nat
    BY <1>1 DEF BaseInv, Types
  <2> QED
    BY <1>1, <1>3, <1>4, <2>1 DEF BaseInv, Types, CatalogTypeOK, store
<1>6. WritesAreImports'
  BY <1>2 DEF BaseInv, WritesAreImports
<1>7. DeletedIsEmpty'
  BY <1>1, <1>2 DEF BaseInv, DeletedIsEmpty, store, exists
<1>8. OneAtATime'
  BY <1>1, <1>2 DEF BaseInv, OneAtATime
<1> QED
  BY <1>5, <1>6, <1>7, <1>8 DEF BaseInv

\* the facts about a request that the proofs about one action start from
LEMMA RequestParts ==
  ASSUME BaseInv, NEW c \in Clients
  PROVE  /\ req[c] \in Request /\ req[c].files \in Files /\ req[c].bins \in Files
         /\ req[c].dtext \in Writes /\ req[c].dblob \in Writes
         /\ req[c].seen \in Status /\ req[c].new \in Status
         /\ text \in Files /\ blob \in Files /\ side \in Files /\ work \in Files
         /\ status \in Status /\ TextOf(c) \in Files /\ BlobOf(c) \in Files
         /\ req[c].at \in Importing => c \in Writers
<1>1. /\ req[c] \in Request
      /\ text \in Files /\ blob \in Files /\ side \in Files /\ work \in Files
      /\ status \in Status /\ (req[c].at \in Importing => c \in Writers)
  BY DEF BaseInv, Types, CatalogTypeOK, WritesAreImports
<1>2. /\ req[c].files \in Files /\ req[c].bins \in Files
      /\ req[c].dtext \in Writes /\ req[c].dblob \in Writes
      /\ req[c].seen \in Status /\ req[c].new \in Status
  BY <1>1 DEF Request
<1>3. TextOf(c) \in Files /\ BlobOf(c) \in Files
  BY <1>1, <1>2, AppliedRows DEF TextOf, BlobOf
<1> QED
  BY <1>1, <1>2, <1>3

\* without a catalog a transaction has written nothing and its deletes find nothing
LEMMA NothingToDelete ==
  ASSUME BaseInv, NEW c \in Clients, ~exists, NEW S
  PROVE  /\ req[c].dtext = NoWrite /\ req[c].dblob = NoWrite /\ text = Empty /\ blob = Empty
         /\ Without(req[c].dtext, text, S) = NoWrite /\ Without(req[c].dblob, blob, S) = NoWrite
<1>1. req[c].dtext = NoWrite /\ req[c].dblob = NoWrite /\ text = Empty /\ blob = Empty
  BY DEF BaseInv, DeletedIsEmpty
<1> QED
  BY <1>1, WithoutNothing

LEMMA FailBase ==
  ASSUME BaseInv, NEW c \in Clients, req[c].at # "idle",
         Step(c, NoRequest), UNCHANGED <<store, work>>, side' \in Files
  PROVE  BaseInv'
<1>1. Lawful(c, NoRequest)
  BY FilesTypes DEF Lawful, Importing
<1>2. /\ UNCHANGED <<row, text, blob>> /\ status' \in Status
      /\ text' \in Files /\ blob' \in Files /\ work' \in Files
  BY RequestParts DEF store
<1> QED
  BY <1>1, <1>2, StepBase

LEMMA SaveFilesBase ==
  ASSUME BaseInv, NEW c \in Writers, SaveFiles(c)
  PROVE  BaseInv'
<1>1. c \in Clients
  BY DEF Clients
<1>2. PICK f \in Files, del \in SUBSET Paths, replace \in BOOLEAN :
        Begin(c, [NoRequest EXCEPT !.at = "clear_text", !.replace = replace, !.files = f,
                                   !.del = del, !.seen = status])
  BY Zenon DEF SaveFiles
<1>3. PICK r : r = [NoRequest EXCEPT !.at = "clear_text", !.replace = replace, !.files = f,
                                     !.del = del, !.seen = status]
  OBVIOUS
<1>4. r \in Request /\ r.dtext = NoWrite /\ r.dblob = NoWrite
  BY <1>1, <1>3, RequestParts, FilesTypes DEF Request, Importing
<1> QED
  BY <1>1, <1>2, <1>3, <1>4, BeginBase

LEMMA SyncTreeBase ==
  ASSUME BaseInv, NEW c \in Writers, SyncTree(c)
  PROVE  BaseInv'
<1>1. c \in Clients
  BY DEF Clients
<1>2. PICK f \in Files, b \in Files, replace \in BOOLEAN :
        Begin(c, [NoRequest EXCEPT !.at = "clear_text", !.sync = TRUE, !.replace = replace,
                                   !.files = f, !.bins = b, !.seen = status])
  BY Zenon DEF SyncTree
<1>3. PICK r : r = [NoRequest EXCEPT !.at = "clear_text", !.sync = TRUE, !.replace = replace,
                                     !.files = f, !.bins = b, !.seen = status]
  OBVIOUS
<1>4. r \in Request /\ r.dtext = NoWrite /\ r.dblob = NoWrite
  BY <1>1, <1>3, RequestParts, FilesTypes DEF Request, Importing
<1> QED
  BY <1>1, <1>2, <1>3, <1>4, BeginBase

LEMMA ExportWorkspaceBase ==
  ASSUME BaseInv, NEW c \in Readers, ExportWorkspace(c)
  PROVE  BaseInv'
<1>1. c \in Clients
  BY DEF Clients
<1>2. PICK r : r = [NoRequest EXCEPT !.at = "clear", !.seen = status]
  OBVIOUS
<1>3. r \in Request /\ r.dtext = NoWrite /\ r.dblob = NoWrite /\ r.at \notin Importing
  BY <1>1, <1>2, RequestParts, FilesTypes DEF Request, Importing, Exporting
<1> QED
  BY <1>1, <1>2, <1>3, BeginBase DEF ExportWorkspace
-----------------------------------------------------------------------------
(* What each statement of an import does                                   *)

\* the request of c, and no other, goes from one stage to the next
Moved(c, from, to) ==
  /\ c \in Clients /\ req[c].at = from /\ req'[c].at = to
  /\ Lawful(c, req'[c]) /\ Step(c, req'[c])
  /\ \A d \in Clients : d # c => req'[d] = req[d]
  /\ req'[c].seen = req[c].seen

\* and is about the same files
Keeps(c) == req'[c].files = req[c].files /\ req'[c].bins = req[c].bins

LEMMA StepMoves ==
  ASSUME BaseInv, NEW c \in Clients, NEW r, Lawful(c, r), Step(c, r), r.seen = req[c].seen
  PROVE  req'[c] = r /\ Moved(c, req[c].at, r.at)
<1>1. req' = [req EXCEPT ![c] = r] /\ req \in [Clients -> Request]
  BY DEF Step, BaseInv, Types
<1>2. req'[c] = r /\ \A d \in Clients : d # c => req'[d] = req[d]
  BY <1>1
<1> QED
  BY <1>2 DEF Moved

LEMMA ClearTextDoes ==
  ASSUME BaseInv, NEW c \in Writers, ClearText(c)
  PROVE  LET F == Present(req[c].files) IN
         /\ Moved(c, "clear_text", "insert_text") /\ Keeps(c) /\ UNCHANGED <<store, work>>
         /\ side' = Unlinked(F)
         /\ \A p \in Paths : /\ BlobOf(c)'[p] = IF p \in F THEN None ELSE BlobOf(c)[p]
                             /\ TextOf(c)'[p] \in {None, TextOf(c)[p]}
<1> DEFINE r == req[c]
           F == Present(r.files)
           D == TextToDelete(r)
<1>1. c \in Clients
  BY DEF Clients
<1>2. PICK n : n = [r EXCEPT !.at = "insert_text", !.dblob = Without(r.dblob, blob, F),
                             !.dtext = Without(r.dtext, text, D)]
  OBVIOUS
<1>3. r.at = "clear_text" /\ side' = Unlinked(F) /\ Step(c, n) /\ UNCHANGED <<store, work>>
  BY <1>2 DEF ClearText
<1>4. /\ n \in Request /\ n.at = "insert_text" /\ n.seen = r.seen
      /\ n.files = r.files /\ n.bins = r.bins
      /\ n.dblob = Without(r.dblob, blob, F) /\ n.dtext = Without(r.dtext, text, D)
  <2>1. /\ Without(r.dblob, blob, F) \in Writes /\ Without(r.dtext, text, D) \in Writes
        /\ r \in Request
    BY <1>1, RequestParts, WithoutRows
  <2> QED
    BY <1>2, <2>1 DEF Request, Importing
<1>5. Lawful(c, n)
  BY <1>1, <1>4, NothingToDelete DEF Lawful, Importing
<1>6. req'[c] = n /\ Moved(c, "clear_text", "insert_text")
  BY <1>1, <1>3, <1>4, <1>5, StepMoves
<1>7. \A p \in Paths : /\ BlobOf(c)'[p] = IF p \in F THEN None ELSE BlobOf(c)[p]
                       /\ TextOf(c)'[p] \in {None, TextOf(c)[p]}
  BY <1>1, <1>3, <1>4, <1>6, RequestParts, WithoutRows DEF BlobOf, TextOf, store
<1> QED
  BY <1>3, <1>4, <1>6, <1>7 DEF Keeps

\* an import whose INSERT finds no catalog fails
LEMMA FailDoes ==
  ASSUME BaseInv, NEW c \in Clients, Step(c, NoRequest)
  PROVE  /\ req'[c] = NoRequest /\ Lawful(c, NoRequest)
         /\ \A d \in Clients : d # c => req'[d] = req[d]
<1>1. req' = [req EXCEPT ![c] = NoRequest] /\ req \in [Clients -> Request]
  BY DEF Step, BaseInv, Types
<1>2. Lawful(c, NoRequest)
  BY FilesTypes DEF Lawful, Importing
<1> QED
  BY <1>1, <1>2

LEMMA InsertTextDoes ==
  ASSUME BaseInv, NEW c \in Writers, InsertText(c)
  PROVE  /\ c \in Clients /\ req[c].at = "insert_text" /\ UNCHANGED <<store, side, work>>
         /\ \/ ~exists /\ Step(c, NoRequest)
            \/ /\ \E to \in {"commit_import", "clear_blobs"} : Moved(c, "insert_text", to)
               /\ Keeps(c)
               /\ \A p \in Paths :
                    /\ BlobOf(c)'[p] = BlobOf(c)[p]
                    /\ TextOf(c)'[p] = IF req[c].files[p] # None THEN req[c].files[p]
                                       ELSE TextOf(c)[p]
<1> DEFINE r == req[c]
           d == With(r.dtext, text, r.files)
<1>1. c \in Clients
  BY DEF Clients
<1>2. CASE d # r.dtext /\ ~exists
  BY <1>1, <1>2 DEF InsertText, Fail
<1>3. CASE ~(d # r.dtext /\ ~exists)
  <2>1. PICK to \in {"commit_import", "clear_blobs"} :
          to = IF r.bins = Empty THEN "commit_import" ELSE "clear_blobs"
    OBVIOUS
  <2>2. PICK n : n = [r EXCEPT !.dtext = d, !.at = to]
    OBVIOUS
  <2>3. r.at = "insert_text" /\ Step(c, n) /\ UNCHANGED <<store, side, work>>
    BY <1>3, <2>1, <2>2 DEF InsertText
  <2>4. /\ n \in Request /\ n.at = to /\ n.seen = r.seen /\ n.dtext = d /\ n.dblob = r.dblob
        /\ n.files = r.files /\ n.bins = r.bins
    BY <1>1, <2>2, RequestParts, WithRows DEF Request, Importing
  <2>5. Lawful(c, n)
    <3>1. ~exists => n.dtext = NoWrite /\ n.dblob = NoWrite
      BY <1>1, <1>3, <2>4, NothingToDelete
    <3> QED
      BY <2>4, <3>1 DEF Lawful, Importing
  <2>6. req'[c] = n /\ Moved(c, "insert_text", to)
    BY <1>1, <2>3, <2>4, <2>5, StepMoves
  <2>7. \A p \in Paths :
          /\ BlobOf(c)'[p] = BlobOf(c)[p]
          /\ TextOf(c)'[p] = IF r.files[p] # None THEN r.files[p] ELSE TextOf(c)[p]
    <3>1. BlobOf(c)' = BlobOf(c) /\ TextOf(c)' = Applied(d, text)
      BY <2>3, <2>4, <2>6 DEF BlobOf, TextOf, store, Applied
    <3>2. r.dtext \in Writes /\ text \in Files /\ r.files \in Files
      BY <1>1, RequestParts
    <3> QED
      BY <3>1, <3>2, WithRows DEF TextOf
  <2> QED
    BY <1>1, <2>3, <2>4, <2>6, <2>7 DEF Keeps
<1> QED
  BY <1>2, <1>3
LEMMA ClearBlobsDoes ==
  ASSUME BaseInv, NEW c \in Writers, ClearBlobs(c)
  PROVE  LET S == BlobsToDelete(req[c], BlobOf(c)) IN
         /\ Moved(c, "clear_blobs", "insert_blobs") /\ Keeps(c) /\ UNCHANGED <<store, work>>
         /\ side' = Unlinked(S)
         /\ \A p \in Paths :
              /\ BlobOf(c)'[p] = IF p \in S THEN None ELSE BlobOf(c)[p]
              /\ TextOf(c)'[p] = IF p \in Present(req[c].bins) THEN None ELSE TextOf(c)[p]
<1> DEFINE r == req[c]
           S == BlobsToDelete(r, BlobOf(c))
<1>1. c \in Clients
  BY DEF Clients
<1>2. PICK n : n = [r EXCEPT !.at = "insert_blobs", !.dblob = Without(r.dblob, blob, S),
                             !.dtext = GiveWay(r)]
  OBVIOUS
<1>3. r.at = "clear_blobs" /\ side' = Unlinked(S) /\ Step(c, n) /\ UNCHANGED <<store, work>>
  BY <1>2 DEF ClearBlobs
<1>4. /\ n \in Request /\ n.at = "insert_blobs" /\ n.seen = r.seen
      /\ n.files = r.files /\ n.bins = r.bins
      /\ n.dblob = Without(r.dblob, blob, S)
      /\ n.dtext = Without(r.dtext, text, Present(r.bins))
  <2>1. /\ Without(r.dblob, blob, S) \in Writes
        /\ Without(r.dtext, text, Present(r.bins)) \in Writes /\ r \in Request
    BY <1>1, RequestParts, WithoutRows
  <2> QED
    BY <1>2, <2>1 DEF Request, Importing, GiveWay
<1>5. Lawful(c, n)
  BY <1>1, <1>4, NothingToDelete DEF Lawful, Importing
<1>6. req'[c] = n /\ Moved(c, "clear_blobs", "insert_blobs")
  BY <1>1, <1>3, <1>4, <1>5, StepMoves
<1>7. \A p \in Paths :
        /\ BlobOf(c)'[p] = IF p \in S THEN None ELSE BlobOf(c)[p]
        /\ TextOf(c)'[p] = IF p \in Present(r.bins) THEN None ELSE TextOf(c)[p]
  <2>1. /\ BlobOf(c)' = Applied(Without(r.dblob, blob, S), blob)
        /\ TextOf(c)' = Applied(Without(r.dtext, text, Present(r.bins)), text)
    BY <1>3, <1>4, <1>6 DEF BlobOf, TextOf, store, Applied
  <2>2. r.dtext \in Writes /\ r.dblob \in Writes /\ text \in Files /\ blob \in Files
    BY <1>1, RequestParts
  <2> QED
    BY <2>1, <2>2, WithoutRows DEF BlobOf, TextOf
<1> QED
  BY <1>3, <1>4, <1>6, <1>7 DEF Keeps

LEMMA InsertBlobsDoes ==
  ASSUME BaseInv, NEW c \in Writers, InsertBlobs(c)
  PROVE  /\ c \in Clients /\ req[c].at = "insert_blobs" /\ UNCHANGED <<store, work>>
         /\ side' \in Files
         /\ \A p \in Paths :
              side'[p] = IF req[c].bins[p] # None /\ req[c].bins[p] # BlobOf(c)[p]
                           THEN req[c].bins[p] ELSE side[p]
         /\ \/ ~exists /\ Step(c, NoRequest)
            \/ /\ Moved(c, "insert_blobs", "commit_import") /\ Keeps(c)
               /\ \A p \in Paths :
                    /\ BlobOf(c)'[p] = IF req[c].bins[p] # None THEN req[c].bins[p]
                                       ELSE BlobOf(c)[p]
                    /\ TextOf(c)'[p] = TextOf(c)[p]
<1> DEFINE r == req[c]
           d == With(r.dblob, blob, r.bins)
<1>1. c \in Clients
  BY DEF Clients
<1>2. /\ side' \in Files
      /\ \A p \in Paths : side'[p] = IF r.bins[p] # None /\ r.bins[p] # BlobOf(c)[p]
                                       THEN r.bins[p] ELSE side[p]
  <2>1. side' = Written(c, r.bins)
    BY DEF InsertBlobs
  <2>2. side \in Files /\ r.bins \in Files
    BY <1>1, RequestParts
  <2> QED
    BY <2>1, <2>2 DEF Written, Files
<1>3. r.at = "insert_blobs" /\ UNCHANGED <<store, work>>
  BY DEF InsertBlobs
<1>4. CASE d # r.dblob /\ ~exists
  BY <1>1, <1>2, <1>3, <1>4 DEF InsertBlobs
<1>5. CASE ~(d # r.dblob /\ ~exists)
  <2>1. PICK n : n = [r EXCEPT !.dblob = d, !.at = "commit_import"]
    OBVIOUS
  <2>2. Step(c, n)
    BY <1>5, <2>1 DEF InsertBlobs
  <2>3. r \in Request /\ d \in Writes
    BY <1>1, RequestParts, WithRows
  <2>4. /\ n \in Request /\ n.at = "commit_import" /\ n.seen = r.seen
        /\ n.dblob = d /\ n.dtext = r.dtext /\ n.files = r.files /\ n.bins = r.bins
    BY <2>1, <2>3 DEF Request, Importing
  <2>5. Lawful(c, n)
    <3>1. ~exists => n.dtext = NoWrite /\ n.dblob = NoWrite
      BY <1>1, <1>5, <2>4, NothingToDelete
    <3> QED
      BY <2>4, <3>1 DEF Lawful, Importing
  <2>6. req'[c] = n /\ Moved(c, "insert_blobs", "commit_import")
    BY <1>1, <1>3, <2>2, <2>4, <2>5, StepMoves
  <2>7. \A p \in Paths :
          /\ BlobOf(c)'[p] = IF r.bins[p] # None THEN r.bins[p] ELSE BlobOf(c)[p]
          /\ TextOf(c)'[p] = TextOf(c)[p]
    <3>1. TextOf(c)' = TextOf(c) /\ BlobOf(c)' = Applied(d, blob)
      BY <1>3, <2>4, <2>6 DEF BlobOf, TextOf, store, Applied
    <3>2. r.dblob \in Writes /\ blob \in Files /\ r.bins \in Files
      BY <1>1, RequestParts
    <3> QED
      BY <3>1, <3>2, WithRows DEF BlobOf
  <2> QED
    BY <1>1, <1>2, <1>3, <2>4, <2>6, <2>7 DEF Keeps
<1> QED
  BY <1>4, <1>5

\* COMMIT, if the catalog is still there: what the transaction saw is what everybody sees
LEMMA CommitImportDoes ==
  ASSUME BaseInv, NEW c \in Writers, CommitImport(c)
  PROVE  /\ c \in Clients /\ req[c].at = "commit_import" /\ UNCHANGED <<row, side, work>>
         /\ Step(c, req'[c]) /\ Lawful(c, req'[c])
         /\ \A d \in Clients : d # c => req'[d] = req[d]
         /\ req'[c].at \in {"idle", "clear"}
         /\ \/ ~exists /\ UNCHANGED store /\ req'[c].at = "idle"
            \/ /\ exists /\ text' = TextOf(c) /\ blob' = BlobOf(c)
               /\ status' = Flushed(req[c], Imported(c))
               /\ req'[c].at = "clear" => req'[c].seen \in {Imported(c), status'}
<1>1. c \in Clients /\ req[c].at = "commit_import" /\ UNCHANGED <<row, side, work>>
  BY DEF CommitImport, Clients, Fail, store
<1>2. CASE ~exists
  <2>1. Step(c, NoRequest) /\ UNCHANGED store
    BY <1>2 DEF CommitImport, Fail
  <2> QED
    BY <1>1, <1>2, <2>1, FailDoes, FilesTypes
<1>3. CASE exists
  <2>1. /\ text' = TextOf(c) /\ blob' = BlobOf(c) /\ status' = Flushed(req[c], Imported(c))
        /\ \E s \in {Imported(c), status'} :
             Step(c, IF req[c].sync THEN [NoRequest EXCEPT !.at = "clear", !.seen = s]
                                    ELSE NoRequest)
    BY <1>3 DEF CommitImport
  <2>2. Imported(c) \in Status /\ status' \in Status
    BY <1>1, <2>1, RequestParts DEF Flushed, Imported, Status
  <2>3. CASE ~req[c].sync
    <3>1. Step(c, NoRequest)
      BY <2>1, <2>3
    <3> QED
      BY <1>1, <1>3, <2>1, <3>1, FailDoes, FilesTypes
  <2>4. CASE req[c].sync
    <3>1. PICK s \in {Imported(c), status'} :
            Step(c, [NoRequest EXCEPT !.at = "clear", !.seen = s])
      BY <2>1, <2>4
    <3>2. PICK n : n = [NoRequest EXCEPT !.at = "clear", !.seen = s]
      OBVIOUS
    <3>3. /\ n \in Request /\ n.at = "clear" /\ n.seen = s
          /\ n.dtext = NoWrite /\ n.dblob = NoWrite
      BY <2>2, <3>1, <3>2, FilesTypes DEF Request, Exporting
    <3>4. Lawful(c, n)
      BY <3>3 DEF Lawful, Importing
    <3>5. req' = [req EXCEPT ![c] = n] /\ req \in [Clients -> Request]
      BY <3>1, <3>2 DEF Step, BaseInv, Types
    <3>6. req'[c] = n /\ \A d \in Clients : d # c => req'[d] = req[d]
      BY <1>1, <3>5
    <3> QED
      BY <1>1, <1>3, <2>1, <3>1, <3>2, <3>3, <3>4, <3>6
  <2> QED
    BY <2>3, <2>4
<1> QED
  BY <1>2, <1>3
-----------------------------------------------------------------------------
(* What each statement of an export does                                   *)

\* a directory on the way to what a statement makes of it
LEMMA HalfWay ==
  ASSUME BaseInv, NEW c \in Clients
  PROVE  /\ Between(side, Sidecar(c)) \subseteq Files
         /\ Between(work, Workspace(c)) \subseteq Files
<1>1. /\ text \in Files /\ blob \in Files /\ side \in Files /\ work \in Files
      /\ req[c].files \in Files /\ req[c].bins \in Files
  BY RequestParts
<1>2. ASSUME NEW S PROVE Unlinked(S) \in Files
  BY <1>1, UnlinkedFiles
<1>3. Written(c, req[c].bins) \in Files
  BY <1>1 DEF Written, Files
<1>4. Assembled(c) \in Files
  BY <1>1 DEF Assembled, Files
<1>5. Sidecar(c) \in Files
  BY <1>1, <1>2, <1>3 DEF Sidecar
<1>6. Workspace(c) \in Files
  BY <1>1, <1>4, FilesTypes DEF Workspace
<1>7. ASSUME NEW f \in Files, NEW g \in Files PROVE Between(f, g) \subseteq Files
  BY DEF Between, Files
<1> QED
  BY <1>1, <1>5, <1>6, <1>7

\* no step of an export writes rows
LEMMA ExportDoes ==
  ASSUME BaseInv, NEW c \in Clients, Export(c)
  PROVE  /\ UNCHANGED <<row, text, blob, side>> /\ work' \in Files
         /\ req[c].at \in Exporting /\ req'[c].at \in Exporting \cup {"idle"}
         /\ Step(c, req'[c]) /\ Lawful(c, req'[c])
         /\ \A d \in Clients : d # c => req'[d] = req[d]
         /\ \/ /\ req[c].at = "clear" /\ req'[c].at = "rows" /\ req'[c].seen = req[c].seen
               /\ work' = Empty /\ UNCHANGED status
            \/ /\ req[c].at = "rows" /\ req'[c].at = "write" /\ req'[c].seen = req[c].seen
               /\ req'[c].files = text /\ UNCHANGED <<work, status, torn>>
            \/ /\ req[c].at = "write" /\ req'[c].at = "commit_export"
               /\ req'[c].seen = req[c].seen /\ UNCHANGED status
               /\ \A p \in Paths :
                    work'[p] = IF blob[p] # None /\ side[p] # None THEN side[p]
                               ELSE IF req[c].files[p] # None THEN req[c].files[p] ELSE work[p]
            \/ /\ req[c].at \in {"clear", "write"} /\ req'[c].at = "commit_export"
               /\ req'[c].seen = req[c].seen /\ req'[c].new = "error" /\ UNCHANGED status
               /\ torn' = (torn \/ work' # work)
            \/ /\ req[c].at = "commit_export" /\ req'[c].at = "idle" /\ UNCHANGED work
               /\ status' = IF exists THEN Flushed(req[c], req[c].new) ELSE status
<1> DEFINE r == req[c]
<1>0. r \in Request /\ text \in Files /\ blob \in Files /\ side \in Files /\ work \in Files
      /\ r.files \in Files
  BY RequestParts
<1>i. req[c].at \in Exporting => r.dtext = NoWrite /\ r.dblob = NoWrite
  BY DEF BaseInv, WritesAreImports, Importing, Exporting
<1>1. CASE ClearWork(c)
  <2>1. PICK n : n = [r EXCEPT !.at = "rows"]
    OBVIOUS
  <2>2. r.at = "clear" /\ Step(c, n) /\ work' = Empty /\ UNCHANGED <<store, side>>
    BY <1>1, <2>1 DEF ClearWork
  <2>3. /\ n \in Request /\ n.at = "rows" /\ n.seen = r.seen
        /\ n.dtext = NoWrite /\ n.dblob = NoWrite
    BY <1>0, <1>i, <2>1, <2>2 DEF Request, Exporting
  <2>4. Lawful(c, n)
    BY <2>3 DEF Lawful, Importing
  <2>5. req'[c] = n /\ Moved(c, "clear", "rows")
    BY <2>2, <2>3, <2>4, StepMoves
  <2> QED
    BY <2>2, <2>3, <2>4, <2>5, FilesTypes DEF Moved, store, Exporting
<1>2. CASE ReadText(c)
  <2>1. PICK n : n = [r EXCEPT !.at = "write", !.files = text]
    OBVIOUS
  <2>2. r.at = "rows" /\ Step(c, n) /\ UNCHANGED <<store, side, work, torn>>
    BY <1>2, <2>1 DEF ReadText
  <2>3. /\ n \in Request /\ n.at = "write" /\ n.seen = r.seen /\ n.files = text
        /\ n.dtext = NoWrite /\ n.dblob = NoWrite
    BY <1>0, <1>i, <2>1, <2>2 DEF Request, Exporting
  <2>4. Lawful(c, n)
    BY <2>3 DEF Lawful, Importing
  <2>5. req'[c] = n /\ Moved(c, "rows", "write")
    BY <2>2, <2>3, <2>4, StepMoves
  <2> QED
    BY <1>0, <2>2, <2>3, <2>4, <2>5 DEF Moved, store, Exporting
<1>3. CASE WriteWork(c)
  <2>1. PICK new : new = IF \/ r.files = Empty /\ blob = Empty
                            \/ work'[Snakefile] = None THEN "error" ELSE "fresh"
    OBVIOUS
  <2>2. PICK n : n = [r EXCEPT !.at = "commit_export", !.new = new]
    OBVIOUS
  <2>3. /\ r.at = "write" /\ Step(c, n) /\ UNCHANGED <<store, side>>
        /\ work' = [p \in Paths |-> IF blob[p] # None /\ side[p] # None THEN side[p]
                                    ELSE IF r.files[p] # None THEN r.files[p] ELSE work[p]]
    BY <1>3, <2>1, <2>2 DEF WriteWork, Assembled
  <2>4. /\ n \in Request /\ n.at = "commit_export" /\ n.seen = r.seen
        /\ n.dtext = NoWrite /\ n.dblob = NoWrite
    BY <1>0, <1>i, <2>1, <2>2, <2>3 DEF Request, Exporting, Status
  <2>5. Lawful(c, n)
    BY <2>4 DEF Lawful, Importing
  <2>6. req'[c] = n /\ Moved(c, "write", "commit_export")
    BY <2>3, <2>4, <2>5, StepMoves
  <2>7. work' \in Files
    BY <1>0, <2>3 DEF Files
  <2> QED
    BY <2>3, <2>4, <2>5, <2>6, <2>7 DEF Moved, store, Exporting
<1>4. CASE CommitExport(c)
  <2>1. /\ r.at = "commit_export" /\ Step(c, NoRequest)
        /\ status' = (IF exists THEN Flushed(r, r.new) ELSE status)
        /\ UNCHANGED <<row, text, blob, side, work>>
    BY <1>4 DEF CommitExport
  <2> QED
    BY <1>0, <2>1, FailDoes, FilesTypes DEF Exporting
<1>5. CASE DiskFails(c)
  <2>1. PICK n : n = [r EXCEPT !.at = "commit_export", !.new = "error"]
    OBVIOUS
  <2>2. /\ r.at \in {"clear", "write"} /\ Step(c, n) /\ UNCHANGED <<store, side>>
        /\ work' \in Between(work, Workspace(c)) /\ torn' = (torn \/ work' # work)
    BY <1>5, <2>1 DEF DiskFails
  <2>3. /\ n \in Request /\ n.at = "commit_export" /\ n.seen = r.seen /\ n.new = "error"
        /\ n.dtext = NoWrite /\ n.dblob = NoWrite
    BY <1>0, <1>i, <2>1, <2>2 DEF Request, Exporting, Status
  <2>4. Lawful(c, n)
    BY <2>3 DEF Lawful, Importing
  <2>5. req'[c] = n /\ Moved(c, r.at, "commit_export")
    BY <2>2, <2>3, <2>4, StepMoves
  <2>6. work' \in Files
    BY <2>2, HalfWay
  <2> QED
    BY <2>2, <2>3, <2>4, <2>5, <2>6 DEF Moved, store, Exporting
<1> QED
  BY <1>1, <1>2, <1>3, <1>4, <1>5 DEF Export

\* a deletion finds no transaction that has written, and leaves nothing
LEMMA DeleteCatalogBase ==
  ASSUME BaseInv, DeleteCatalog
  PROVE  BaseInv'
<1>1. /\ \A c \in Clients : req[c].dtext = NoWrite /\ req[c].dblob = NoWrite
      /\ row' = "deleted" /\ text' = Empty /\ blob' = Empty /\ asked' = asked + 1
      /\ overlapped' = (overlapped \/ \E d \in Clients : req[d].at # "idle")
      /\ UNCHANGED <<status, side, work, req>>
  BY DEF DeleteCatalog
<1>2. Types'
  <2>1. overlapped' \in BOOLEAN /\ asked' \in Nat
    BY <1>1 DEF BaseInv, Types
  <2> QED
    BY <1>1, <2>1, FilesTypes DEF BaseInv, Types, CatalogTypeOK
<1>3. WritesAreImports' /\ DeletedIsEmpty' /\ OneAtATime'
  BY <1>1 DEF BaseInv, WritesAreImports, DeletedIsEmpty, OneAtATime
<1> QED
  BY <1>2, <1>3 DEF BaseInv

LEMMA RemoveTreesBase ==
  ASSUME BaseInv, RemoveTrees
  PROVE  BaseInv'
<1>1. /\ row = "deleted" /\ row' = "removed" /\ side' = Empty /\ work' = Empty
      /\ UNCHANGED <<text, blob, status, req, asked, overlapped>>
  BY DEF RemoveTrees
<1>2. Types'
  BY <1>1, FilesTypes DEF BaseInv, Types, CatalogTypeOK
<1>3. WritesAreImports' /\ DeletedIsEmpty' /\ OneAtATime'
  BY <1>1 DEF BaseInv, WritesAreImports, DeletedIsEmpty, OneAtATime, exists
<1> QED
  BY <1>2, <1>3 DEF BaseInv

\* every request is gone, and the directories are left on the way
LEMMA DeathDoes ==
  ASSUME BaseInv, Dies
  PROVE  /\ \A d \in Clients : req'[d] = NoRequest /\ (req[d].at # "idle" => d \in Failing)
         /\ UNCHANGED <<store, asked, overlapped>> /\ torn' = (torn \/ work' # work)
         /\ side' \in Files /\ work' \in Files
         /\ (\A c \in Clients : req[c].at \notin Importing) => side' = side
<1>1. PICK c \in Clients : /\ req[c].at # "idle"
                          /\ side' \in Between(side, Sidecar(c)) /\ work' \in Between(work, Workspace(c))
  BY DEF Dies
<1>2. side' \in Files /\ work' \in Files
  BY <1>1, HalfWay
<1>3. ASSUME req[c].at \notin Importing PROVE side' = side
  <2>1. side \in Files /\ side = [p \in Paths |-> side[p]]
    BY RequestParts DEF Files
  <2>2. Sidecar(c) = side
    BY <1>3 DEF Sidecar, Importing
  <2> QED
    BY <1>1, <2>1, <2>2 DEF Between
<1> QED
  BY <1>1, <1>2, <1>3 DEF Dies

LEMMA DiesBase ==
  ASSUME BaseInv, Dies
  PROVE  BaseInv'
<1>1. /\ \A d \in Clients : req'[d] = NoRequest
      /\ UNCHANGED <<row, text, blob, status, asked, overlapped>> /\ side' \in Files /\ work' \in Files
  BY DeathDoes DEF store
<1>2. req' \in [Clients -> Request]
  BY FilesTypes DEF Dies
<1>3. Types'
  BY <1>1, <1>2, FilesTypes DEF BaseInv, Types, CatalogTypeOK
<1>4. WritesAreImports' /\ DeletedIsEmpty' /\ OneAtATime'
  BY <1>1, FilesTypes DEF BaseInv, WritesAreImports, DeletedIsEmpty, OneAtATime, exists, Importing
<1> QED
  BY <1>3, <1>4 DEF BaseInv

LEMMA ImportBase ==
  ASSUME BaseInv, NEW c \in Writers, Import(c)
  PROVE  BaseInv'
<1>0. c \in Clients
  BY DEF Clients
<1>i. status \in Status /\ work \in Files /\ text \in Files /\ blob \in Files /\ side \in Files
      /\ TextOf(c) \in Files /\ BlobOf(c) \in Files
  BY <1>0, RequestParts
<1>1. CASE SaveFiles(c)
  BY <1>1, SaveFilesBase
<1>2. CASE SyncTree(c)
  BY <1>2, SyncTreeBase
<1>3. CASE ClearText(c)
  <2>1. /\ Moved(c, "clear_text", "insert_text") /\ UNCHANGED <<store, work>>
        /\ side' = Unlinked(Present(req[c].files))
    BY <1>3, ClearTextDoes
  <2>2. side' \in Files
    BY <1>i, <2>1, UnlinkedFiles
  <2> QED
    BY <1>0, <1>i, <2>1, <2>2, StepBase DEF Moved, store
<1>4. CASE InsertText(c)
  <2>1. CASE Step(c, NoRequest)
    BY <1>0, <1>4, <1>i, <2>1, FailBase, InsertTextDoes
  <2>2. CASE \E to \in {"commit_import", "clear_blobs"} : Moved(c, "insert_text", to)
    BY <1>0, <1>4, <1>i, <2>2, StepBase, InsertTextDoes DEF Moved, store
  <2> QED
    BY <1>4, <2>1, <2>2, InsertTextDoes
<1>5. CASE ClearBlobs(c)
  <2>1. /\ Moved(c, "clear_blobs", "insert_blobs") /\ UNCHANGED <<store, work>>
        /\ side' = Unlinked(BlobsToDelete(req[c], BlobOf(c)))
    BY <1>5, ClearBlobsDoes
  <2>2. side' \in Files
    BY <1>i, <2>1, UnlinkedFiles
  <2> QED
    BY <1>0, <1>i, <2>1, <2>2, StepBase DEF Moved, store
<1>6. CASE InsertBlobs(c)
  <2>0. side' \in Files /\ UNCHANGED <<store, work>> /\ req[c].at = "insert_blobs"
    BY <1>6, InsertBlobsDoes
  <2>1. CASE Step(c, NoRequest)
    BY <1>0, <2>0, <2>1, FailBase
  <2>2. CASE Moved(c, "insert_blobs", "commit_import")
    BY <1>0, <1>i, <2>0, <2>2, StepBase DEF Moved, store
  <2> QED
    BY <1>6, <2>1, <2>2, InsertBlobsDoes
<1>7. CASE CommitImport(c)
  <2>1. /\ req[c].at = "commit_import" /\ UNCHANGED <<row, side, work>>
        /\ Step(c, req'[c]) /\ Lawful(c, req'[c])
        /\ \/ ~exists /\ UNCHANGED store
           \/ /\ exists /\ text' = TextOf(c) /\ blob' = BlobOf(c)
              /\ status' = Flushed(req[c], Imported(c))
    BY <1>7, CommitImportDoes
  <2>2. /\ status' \in Status /\ text' \in Files /\ blob' \in Files /\ side' \in Files
        /\ work' \in Files /\ (~exists => UNCHANGED <<text, blob>>)
    BY <1>i, <2>1 DEF Flushed, Imported, Status, store
  <2> QED
    BY <1>0, <2>1, <2>2, StepBase
<1> QED
  BY <1>1, <1>2, <1>3, <1>4, <1>5, <1>6, <1>7 DEF Import

LEMMA ExportBase ==
  ASSUME BaseInv, NEW c \in Clients, Export(c)
  PROVE  BaseInv'
<1>1. /\ UNCHANGED <<row, text, blob, side>> /\ work' \in Files
      /\ req[c].at # "idle" /\ Step(c, req'[c]) /\ Lawful(c, req'[c])
  BY ExportDoes DEF Exporting
<1>2. status' \in Status
  BY ExportDoes, RequestParts DEF Flushed
<1>3. text' \in Files /\ blob' \in Files /\ side' \in Files
  BY <1>1, RequestParts
<1> QED
  BY <1>1, <1>2, <1>3, StepBase

LEMMA NextBase == BaseInv /\ [Next]_vars => BaseInv'
<1> SUFFICES ASSUME BaseInv, [Next]_vars PROVE BaseInv'
  OBVIOUS
<1>1. CASE \E c \in Writers : Import(c)
  BY <1>1, ImportBase
<1>2. CASE \E c \in Readers : ExportWorkspace(c)
  BY <1>2, ExportWorkspaceBase
<1>3. CASE \E c \in Clients : Export(c)
  BY <1>3, ExportBase
<1>4. CASE \E c \in Clients : Interrupted(c)
  <2>1. PICK c \in Clients : req[c].at # "idle" /\ Step(c, NoRequest) /\ UNCHANGED <<store, side, work>>
    BY <1>4 DEF Interrupted, Fail
  <2>2. side' \in Files
    BY <2>1, RequestParts
  <2> QED
    BY <2>1, <2>2, FailBase
<1>5. CASE DeleteCatalog
  BY <1>5, DeleteCatalogBase
<1>6. CASE RemoveTrees
  BY <1>6, RemoveTreesBase
<1>7. CASE UNCHANGED vars
  BY <1>7 DEF vars, store, BaseInv, Types, CatalogTypeOK, WritesAreImports, DeletedIsEmpty,
              OneAtATime, exists
<1>8. CASE Dies
  BY <1>8, DiesBase
<1> QED
  BY <1>1, <1>2, <1>3, <1>4, <1>5, <1>6, <1>7, <1>8 DEF Next

(* Tables, directories and the rows of open transactions are of their      *)
(* kinds, whatever is imported, exported, deleted or interrupted.          *)
THEOREM CatalogTypesCorrect == Spec => []CatalogTypeOK
<1>1. BaseInv => CatalogTypeOK
  BY DEF BaseInv, Types
<1> QED
  BY <1>1, InitBase, NextBase, PTL DEF Spec
-----------------------------------------------------------------------------
(* One importer: a path is one kind                                        *)
(*                                                                         *)
(* The tables only change at COMMIT, so what must be followed is what the  *)
(* transaction sees: each of its two halves first clears the other kind    *)
(* from the paths it then fills.                                           *)

\* a transaction that has not written sees the committed rows
LEMMA SeesCommitted ==
  ASSUME BaseInv, NEW c \in Clients, req[c].at \notin Importing \ {"clear_text"}
  PROVE  TextOf(c) = text /\ BlobOf(c) = blob
<1>1. req[c].dtext = NoWrite /\ req[c].dblob = NoWrite
  BY DEF BaseInv, WritesAreImports
<1> QED
  BY <1>1, RequestParts, AppliedRows DEF TextOf, BlobOf

LEMMA SameSight ==
  ASSUME NEW c \in Clients, req'[c] = req[c], UNCHANGED <<text, blob>>
  PROVE  TextOf(c)' = TextOf(c) /\ BlobOf(c)' = BlobOf(c)
BY DEF TextOf, BlobOf, Applied

LEMMA ImportBegins ==
  ASSUME BaseInv, NEW c \in Writers, SaveFiles(c) \/ SyncTree(c)
  PROVE  /\ c \in Clients /\ req[c].at = "idle" /\ req'[c].at = "clear_text"
         /\ req'[c].seen = status /\ UNCHANGED <<store, side, work>>
         /\ \A d \in Clients : d # c => req'[d] = req[d]
         /\ overlapped' = (overlapped \/ \E d \in Clients : req[d].at # "idle")
         /\ TextOf(c)' = text /\ BlobOf(c)' = blob
<1>1. c \in Clients
  BY DEF Clients
<1>2. PICK r : /\ Begin(c, r) /\ r.at = "clear_text" /\ r.seen = status
               /\ r.dtext = NoWrite /\ r.dblob = NoWrite
  <2>1. CASE SaveFiles(c)
    <3>1. PICK f \in Files, del \in SUBSET Paths, replace \in BOOLEAN :
            Begin(c, [NoRequest EXCEPT !.at = "clear_text", !.replace = replace, !.files = f,
                                       !.del = del, !.seen = status])
      BY <2>1, Zenon DEF SaveFiles
    <3>2. PICK r : r = [NoRequest EXCEPT !.at = "clear_text", !.replace = replace, !.files = f,
                                         !.del = del, !.seen = status]
      OBVIOUS
    <3>3. /\ r.at = "clear_text" /\ r.seen = status
          /\ r.dtext = NoWrite /\ r.dblob = NoWrite
      BY <3>2 DEF NoRequest
    <3> QED
      BY <3>1, <3>2, <3>3
  <2>2. CASE SyncTree(c)
    <3>1. PICK f \in Files, b \in Files, replace \in BOOLEAN :
            Begin(c, [NoRequest EXCEPT !.at = "clear_text", !.sync = TRUE, !.replace = replace,
                                       !.files = f, !.bins = b, !.seen = status])
      BY <2>2, Zenon DEF SyncTree
    <3>2. PICK r : r = [NoRequest EXCEPT !.at = "clear_text", !.sync = TRUE,
                                         !.replace = replace, !.files = f, !.bins = b,
                                         !.seen = status]
      OBVIOUS
    <3>3. /\ r.at = "clear_text" /\ r.seen = status
          /\ r.dtext = NoWrite /\ r.dblob = NoWrite
      BY <3>2 DEF NoRequest
    <3> QED
      BY <3>1, <3>2, <3>3
  <2> QED
    BY <2>1, <2>2
<1>3. /\ req[c].at = "idle" /\ UNCHANGED <<store, side, work>>
      /\ req' = [req EXCEPT ![c] = r] /\ req \in [Clients -> Request]
      /\ overlapped' = (overlapped \/ \E d \in Clients : req[d].at # "idle")
  BY <1>2 DEF Begin, BaseInv, Types
<1>4. req'[c] = r /\ \A d \in Clients : d # c => req'[d] = req[d]
  BY <1>1, <1>3
<1>5. text \in Files /\ blob \in Files
  BY <1>1, RequestParts
<1>6. TextOf(c)' = Applied(NoWrite, text) /\ BlobOf(c)' = Applied(NoWrite, blob)
  BY <1>2, <1>3, <1>4 DEF TextOf, BlobOf, store, Applied
<1>7. TextOf(c)' = text /\ BlobOf(c)' = blob
  BY <1>5, <1>6, FilesTypes, AppliedRows
<1> QED
  BY <1>1, <1>2, <1>3, <1>4, <1>7

LEMMA ExportBegins ==
  ASSUME BaseInv, NEW c \in Readers, ExportWorkspace(c)
  PROVE  /\ c \in Clients /\ req[c].at = "idle" /\ req'[c].at = "clear"
         /\ req'[c].seen = status /\ UNCHANGED <<store, side, work>>
         /\ \A d \in Clients : d # c => req'[d] = req[d]
         /\ overlapped' = (overlapped \/ \E d \in Clients : req[d].at # "idle")
<1>1. c \in Clients
  BY DEF Clients
<1>2. PICK r : r = [NoRequest EXCEPT !.at = "clear", !.seen = status]
  OBVIOUS
<1>3. /\ req[c].at = "idle" /\ UNCHANGED <<store, side, work>>
      /\ req' = [req EXCEPT ![c] = r] /\ req \in [Clients -> Request]
      /\ overlapped' = (overlapped \/ \E d \in Clients : req[d].at # "idle")
  BY <1>2 DEF ExportWorkspace, Begin, BaseInv, Types
<1>4. r.at = "clear" /\ r.seen = status
  BY <1>2 DEF NoRequest
<1> QED
  BY <1>1, <1>3, <1>4

LEMMA InterruptionDoes ==
  ASSUME BaseInv, NEW c \in Clients, Interrupted(c)
  PROVE  /\ c \in Failing /\ req'[c] = NoRequest /\ UNCHANGED <<store, side, work, overlapped>>
         /\ \A d \in Clients : d # c => req'[d] = req[d]
BY FailDoes DEF Interrupted, Fail, Step

\* after a deletion every transaction sees empty tables
LEMMA DeletionShows ==
  ASSUME BaseInv, DeleteCatalog, NEW c \in Clients
  PROVE  /\ req'[c] = req[c] /\ text' = Empty /\ blob' = Empty
         /\ TextOf(c)' = Empty /\ BlobOf(c)' = Empty
<1>1. /\ req[c].dtext = NoWrite /\ req[c].dblob = NoWrite
      /\ text' = Empty /\ blob' = Empty /\ req' = req
  BY DEF DeleteCatalog
<1>2. TextOf(c)' = Applied(NoWrite, Empty) /\ BlobOf(c)' = Applied(NoWrite, Empty)
  BY <1>1 DEF TextOf, BlobOf, Applied
<1> QED
  BY <1>1, <1>2, FilesTypes, AppliedRows

LEMMA InitKind == Init => KindInv
<1> SUFFICES ASSUME Init PROVE KindInv
  OBVIOUS
<1>1. \A c \in Writers : req[c].at = "idle"
  BY FilesTypes DEF Init, Clients
<1>2. PathIsOneKind
  BY DEF Init, PathIsOneKind, Empty
<1> QED
  BY <1>1, <1>2, InitBase DEF KindInv, Importing

\* a step that leaves the tables and the requests of importers alone
LEMMA KindKept ==
  ASSUME KindInv, UNCHANGED <<text, blob>>,
         \A c \in Writers : req'[c] = req[c] \/ req'[c].at \notin Importing
  PROVE  /\ PathIsOneKind'
         /\ \A c \in Writers : req'[c].at \in Importing => SeesOneKind(c)'
<1>1. ASSUME NEW c \in Writers, req'[c].at \in Importing PROVE SeesOneKind(c)'
  <2>1. c \in Clients /\ req'[c] = req[c] /\ SeesOneKind(c)
    BY <1>1 DEF Clients, KindInv
  <2> QED
    BY <2>1, SameSight DEF SeesOneKind, Present
<1> QED
  BY <1>1 DEF KindInv, PathIsOneKind

LEMMA ImportKind ==
  ASSUME OneImporter, KindInv, NEW c \in Writers, Import(c)
  PROVE  /\ PathIsOneKind'
         /\ \A d \in Writers : req'[d].at \in Importing => SeesOneKind(d)'
<1>0. BaseInv /\ c \in Clients /\ PathIsOneKind /\ (req[c].at \in Importing => SeesOneKind(c))
  BY DEF KindInv, Clients
<1>a. ASSUME UNCHANGED <<text, blob>>, req'[c].at \in Importing => SeesOneKind(c)'
      PROVE  /\ PathIsOneKind'
             /\ \A d \in Writers : req'[d].at \in Importing => SeesOneKind(d)'
  <2>1. \A d \in Writers : d = c
    BY DEF OneImporter
  <2> QED
    BY <1>0, <1>a, <2>1 DEF PathIsOneKind
<1>b. ASSUME Step(c, NoRequest), UNCHANGED store
      PROVE  UNCHANGED <<text, blob>> /\ req'[c].at \notin Importing
  BY <1>0, <1>b, FailDoes, FilesTypes DEF store, Importing
<1>1. CASE SaveFiles(c) \/ SyncTree(c)
  <2>1. /\ req'[c].at = "clear_text" /\ UNCHANGED store
        /\ TextOf(c)' = text /\ BlobOf(c)' = blob
    BY <1>0, <1>1, ImportBegins
  <2>2. SeesOneKind(c)'
    BY <1>0, <2>1 DEF SeesOneKind, PathIsOneKind
  <2> QED
    BY <1>a, <2>1, <2>2 DEF store
<1>2. CASE ClearText(c)
  <2>1. /\ Moved(c, "clear_text", "insert_text") /\ Keeps(c) /\ UNCHANGED store
        /\ \A p \in Paths : /\ BlobOf(c)'[p] = IF p \in Present(req[c].files) THEN None
                                               ELSE BlobOf(c)[p]
                            /\ TextOf(c)'[p] \in {None, TextOf(c)[p]}
    BY <1>0, <1>2, ClearTextDoes
  <2>2. SeesOneKind(c)
    BY <1>0, <2>1 DEF Moved, Importing
  <2>3. SeesOneKind(c)'
    BY <2>1, <2>2 DEF SeesOneKind, Moved, Keeps, Present
  <2> QED
    BY <1>a, <2>1, <2>3 DEF store
<1>3. CASE InsertText(c)
  <2>1. CASE ~exists /\ Step(c, NoRequest)
    BY <1>0, <1>3, <1>a, <1>b, <2>1, InsertTextDoes
  <2>2. CASE /\ \E to \in {"commit_import", "clear_blobs"} : Moved(c, "insert_text", to)
             /\ Keeps(c)
             /\ \A p \in Paths :
                  /\ BlobOf(c)'[p] = BlobOf(c)[p]
                  /\ TextOf(c)'[p] = IF req[c].files[p] # None THEN req[c].files[p]
                                     ELSE TextOf(c)[p]
    <3>1. SeesOneKind(c)
      BY <1>0, <2>2 DEF Moved, Importing
    <3>2. req[c].at = "insert_text" /\ req'[c].at \in {"commit_import", "clear_blobs"}
      BY <2>2 DEF Moved
    <3>3. SeesOneKind(c)'
      BY <2>2, <3>1, <3>2 DEF SeesOneKind, Present
    <3> QED
      BY <1>0, <1>3, <1>a, <3>3, InsertTextDoes DEF store
  <2> QED
    BY <1>0, <1>3, <2>1, <2>2, InsertTextDoes
<1>4. CASE ClearBlobs(c)
  <2>1. /\ Moved(c, "clear_blobs", "insert_blobs") /\ Keeps(c) /\ UNCHANGED store
        /\ \A p \in Paths :
             /\ BlobOf(c)'[p] \in {None, BlobOf(c)[p]}
             /\ TextOf(c)'[p] = IF p \in Present(req[c].bins) THEN None ELSE TextOf(c)[p]
    BY <1>0, <1>4, ClearBlobsDoes
  <2>2. SeesOneKind(c)
    BY <1>0, <2>1 DEF Moved, Importing
  <2>3. SeesOneKind(c)'
    BY <2>1, <2>2 DEF SeesOneKind, Moved, Keeps, Present
  <2> QED
    BY <1>a, <2>1, <2>3 DEF store
<1>5. CASE InsertBlobs(c)
  <2>1. CASE ~exists /\ Step(c, NoRequest)
    BY <1>0, <1>5, <1>a, <1>b, <2>1, InsertBlobsDoes
  <2>2. CASE /\ Moved(c, "insert_blobs", "commit_import") /\ Keeps(c)
             /\ \A p \in Paths :
                  /\ BlobOf(c)'[p] = IF req[c].bins[p] # None THEN req[c].bins[p]
                                     ELSE BlobOf(c)[p]
                  /\ TextOf(c)'[p] = TextOf(c)[p]
    <3>1. SeesOneKind(c)
      BY <1>0, <2>2 DEF Moved, Importing
    <3>2. req[c].at = "insert_blobs" /\ req'[c].at = "commit_import"
      BY <2>2 DEF Moved
    <3>3. SeesOneKind(c)'
      BY <2>2, <3>1, <3>2 DEF SeesOneKind, Present
    <3> QED
      BY <1>0, <1>5, <1>a, <3>3, InsertBlobsDoes DEF store
  <2> QED
    BY <1>0, <1>5, <2>1, <2>2, InsertBlobsDoes
<1>6. CASE CommitImport(c)
  <2>1. /\ req[c].at = "commit_import" /\ req'[c].at \notin Importing
        /\ \/ UNCHANGED store
           \/ text' = TextOf(c) /\ blob' = BlobOf(c)
    BY <1>0, <1>6, CommitImportDoes DEF Importing
  <2>2. CASE UNCHANGED store
    BY <1>a, <2>1, <2>2 DEF store
  <2>3. CASE text' = TextOf(c) /\ blob' = BlobOf(c)
    <3>1. PathIsOneKind'
      BY <1>0, <2>1, <2>3 DEF SeesOneKind, PathIsOneKind, Importing
    <3> QED
      BY <2>1, <3>1 DEF OneImporter
  <2> QED
    BY <2>1, <2>2, <2>3
<1> QED
  BY <1>1, <1>2, <1>3, <1>4, <1>5, <1>6 DEF Import

LEMMA NextKind ==
  ASSUME OneImporter
  PROVE  KindInv /\ [Next]_vars => KindInv'
<1> SUFFICES ASSUME KindInv, [Next]_vars
             PROVE  /\ PathIsOneKind'
                    /\ \A c \in Writers : req'[c].at \in Importing => SeesOneKind(c)'
  BY NextBase DEF KindInv
<1>0. BaseInv /\ Writers \subseteq Clients
  BY DEF KindInv, Clients
<1>1. CASE \E c \in Writers : Import(c)
  BY <1>1, ImportKind
<1>2. CASE \E c \in Readers : ExportWorkspace(c)
  <2>1. PICK r \in Readers : ExportWorkspace(r)
    BY <1>2
  <2> QED
    BY <1>0, <2>1, ExportBegins, KindKept DEF store, Importing
<1>3. CASE \E c \in Clients : Export(c)
  <2>1. PICK r \in Clients : Export(r)
    BY <1>3
  <2>2. /\ UNCHANGED <<text, blob>> /\ req'[r].at \notin Importing
        /\ \A d \in Clients : d # r => req'[d] = req[d]
    BY <1>0, <2>1, ExportDoes DEF Exporting, Importing
  <2> QED
    BY <1>0, <2>2, KindKept
<1>4. CASE \E c \in Clients : Interrupted(c)
  <2>1. PICK r \in Clients : Interrupted(r)
    BY <1>4
  <2> QED
    BY <1>0, <2>1, InterruptionDoes, FilesTypes, KindKept DEF store, Importing
<1>5. CASE DeleteCatalog
  <2>1. ASSUME NEW c \in Writers PROVE SeesOneKind(c)'
    BY <1>0, <1>5, DeletionShows DEF SeesOneKind, Empty, Present
  <2>2. text' = Empty
    BY <1>5 DEF DeleteCatalog
  <2> QED
    BY <2>1, <2>2 DEF PathIsOneKind, Empty
<1>6. CASE RemoveTrees \/ UNCHANGED vars
  BY <1>6, KindKept DEF RemoveTrees, vars, store
<1>7. CASE Dies
  BY <1>0, <1>7, DeathDoes, FilesTypes DEF KindInv, PathIsOneKind, store, Importing, Clients
<1> QED
  BY <1>1, <1>2, <1>3, <1>4, <1>5, <1>6, <1>7 DEF Next

(* While one client imports, for any number of paths, bodies and exports   *)
(* and wherever its requests fail, no path is a text file and a binary.    *)
THEOREM PathsStayOneKind ==
  ASSUME OneImporter
  PROVE  Spec => []PathIsOneKind
<1>1. KindInv => PathIsOneKind
  BY DEF KindInv
<1> QED
  BY <1>1, InitKind, NextKind, PTL DEF Spec
-----------------------------------------------------------------------------
(* Imports in order that do not fail half-way: every binary has its bytes  *)
(*                                                                         *)
(* The directory is written before the rows are committed, so during an    *)
(* import it agrees with what the transaction sees, not with the tables.   *)

ImportersFinish == Failing \cap Writers = {}

LEMMA OneImports ==
  ASSUME BaseInv, Orderly, NEW c \in Writers, NEW d \in Writers, req[c].at \in Importing, d # c
  PROVE  req[d].at = "idle"
BY DEF BaseInv, Orderly, OneImporter, OneAtATime, Importing, Clients

LEMMA OverlapsStay ==
  ASSUME BaseInv, [Next]_vars
  PROVE  overlapped => overlapped'
<1>1. CASE \E c \in Writers : SaveFiles(c) \/ SyncTree(c)
  BY <1>1, ImportBegins
<1>2. CASE \E c \in Writers : \/ ClearText(c) \/ InsertText(c) \/ ClearBlobs(c)
                              \/ InsertBlobs(c) \/ CommitImport(c)
  BY <1>2 DEF ClearText, InsertText, ClearBlobs, InsertBlobs, CommitImport, Fail, Step
<1>3. CASE \E c \in Readers : ExportWorkspace(c)
  BY <1>3, ExportBegins
<1>4. CASE \E c \in Clients : Export(c)
  BY <1>4, ExportDoes DEF Step
<1>5. CASE \E c \in Clients : Interrupted(c)
  BY <1>5, InterruptionDoes
<1>6. CASE DeleteCatalog \/ RemoveTrees \/ UNCHANGED vars
  BY <1>6 DEF DeleteCatalog, RemoveTrees, vars
<1>7. CASE Dies
  BY <1>7 DEF Dies
<1> QED
  BY <1>1, <1>2, <1>3, <1>4, <1>5, <1>6, <1>7 DEF Next, Import

\* the bytes are there, for the tables or for the transaction of the one importer
BytesThere == /\ (\A c \in Writers : req[c].at \notin Importing) => HasBytes(blob)
              /\ \A c \in Writers : req[c].at \in Importing => HasBytes(BlobOf(c))

LEMMA BytesKept ==
  ASSUME BaseInv, BytesThere, UNCHANGED <<blob, text, side>>,
         \A c \in Writers : \/ req'[c] = req[c]
                            \/ req[c].at \notin Importing /\ req'[c].at \notin Importing
  PROVE  BytesThere'
<1>1. ASSUME NEW c \in Writers, req'[c].at \in Importing PROVE HasBytes(BlobOf(c))'
  <2>1. c \in Clients /\ req'[c] = req[c] /\ HasBytes(BlobOf(c))
    BY <1>1 DEF BytesThere, Clients
  <2> QED
    BY <2>1, SameSight DEF HasBytes
<1>2. ASSUME \A c \in Writers : req'[c].at \notin Importing PROVE HasBytes(blob)'
  BY <1>2 DEF BytesThere, HasBytes
<1> QED
  BY <1>1, <1>2 DEF BytesThere

LEMMA ImportBytes ==
  ASSUME BaseInv, Orderly, Orderly', BytesThere, NEW c \in Writers, Import(c)
  PROVE  BytesThere'
<1>0. c \in Clients /\ blob \in Files /\ side \in Files /\ BlobOf(c) \in Files
      /\ (req[c].at \in Importing => HasBytes(BlobOf(c)))
  BY RequestParts DEF BytesThere, Clients
<1>a. ASSUME \A d \in Writers : d # c => req'[d].at \notin Importing,
             IF req'[c].at \in Importing THEN HasBytes(BlobOf(c))' ELSE HasBytes(blob)'
      PROVE  BytesThere'
  BY <1>a DEF BytesThere
<1>b. ASSUME req[c].at \in Importing, \A d \in Clients : d # c => req'[d] = req[d]
      PROVE  \A d \in Writers : d # c => req'[d].at \notin Importing
  BY <1>b, OneImports DEF Clients, Importing
<1>c. ASSUME ~exists, Step(c, NoRequest), UNCHANGED store, req[c].at \in Importing
      PROVE  BytesThere'
  <2>1. blob' = Empty
    BY <1>c DEF BaseInv, DeletedIsEmpty, store
  <2>2. HasBytes(blob)'
    BY <2>1 DEF HasBytes, Empty
  <2>3. req'[c].at \notin Importing /\ \A d \in Clients : d # c => req'[d] = req[d]
    BY <1>0, <1>c, FailDoes, FilesTypes DEF Importing
  <2> QED
    BY <1>a, <1>b, <1>c, <2>2, <2>3
<1>1. CASE SaveFiles(c) \/ SyncTree(c)
  <2>1. /\ req[c].at = "idle" /\ req'[c].at = "clear_text" /\ UNCHANGED side
        /\ BlobOf(c)' = blob /\ \A d \in Clients : d # c => req'[d] = req[d]
        /\ overlapped' = (overlapped \/ \E d \in Clients : req[d].at # "idle")
    BY <1>1, ImportBegins
  <2>2. \A d \in Writers : d # c => req[d].at \notin Importing
    BY <2>1 DEF Orderly, OneImporter, Clients, Importing
  <2>3. HasBytes(blob)
    BY <2>1, <2>2 DEF BytesThere, Importing
  <2>4. HasBytes(BlobOf(c))'
    BY <2>1, <2>3 DEF HasBytes
  <2> QED
    BY <1>a, <2>1, <2>2, <2>4 DEF Clients, Importing
<1>2. CASE ClearText(c)
  <2>1. /\ Moved(c, "clear_text", "insert_text") /\ side' = Unlinked(Present(req[c].files))
        /\ \A p \in Paths : BlobOf(c)'[p] = IF p \in Present(req[c].files) THEN None
                                            ELSE BlobOf(c)[p]
    BY <1>2, ClearTextDoes
  <2>2. HasBytes(BlobOf(c))'
    BY <1>0, <2>1, UnlinkedFiles DEF HasBytes, Moved, Importing
  <2> QED
    BY <1>a, <1>b, <2>1, <2>2 DEF Moved, Importing
<1>3. CASE InsertText(c)
  <2>0. req[c].at \in Importing /\ UNCHANGED <<store, side, work>>
    BY <1>3, InsertTextDoes DEF Importing
  <2>1. CASE ~exists /\ Step(c, NoRequest)
    BY <1>c, <2>0, <2>1
  <2>2. CASE /\ \E to \in {"commit_import", "clear_blobs"} : Moved(c, "insert_text", to)
             /\ \A p \in Paths : BlobOf(c)'[p] = BlobOf(c)[p]
    <3>1. HasBytes(BlobOf(c))'
      BY <1>0, <2>0, <2>2 DEF HasBytes
    <3> QED
      BY <1>a, <1>b, <2>0, <2>2, <3>1 DEF Moved, Importing
  <2> QED
    BY <1>3, <2>1, <2>2, InsertTextDoes
<1>4. CASE ClearBlobs(c)
  <2>1. /\ Moved(c, "clear_blobs", "insert_blobs")
        /\ side' = Unlinked(BlobsToDelete(req[c], BlobOf(c)))
        /\ \A p \in Paths : BlobOf(c)'[p] = IF p \in BlobsToDelete(req[c], BlobOf(c)) THEN None
                                            ELSE BlobOf(c)[p]
    BY <1>4, ClearBlobsDoes
  <2>2. HasBytes(BlobOf(c))'
    BY <1>0, <2>1, UnlinkedFiles DEF HasBytes, Moved, Importing
  <2> QED
    BY <1>a, <1>b, <2>1, <2>2 DEF Moved, Importing
<1>5. CASE InsertBlobs(c)
  <2>0. /\ req[c].at \in Importing /\ UNCHANGED store
        /\ \A p \in Paths :
             side'[p] = IF req[c].bins[p] # None /\ req[c].bins[p] # BlobOf(c)[p]
                          THEN req[c].bins[p] ELSE side[p]
    BY <1>5, InsertBlobsDoes DEF Importing
  <2>1. CASE ~exists /\ Step(c, NoRequest)
    BY <1>c, <2>0, <2>1
  <2>2. CASE /\ Moved(c, "insert_blobs", "commit_import")
             /\ \A p \in Paths : BlobOf(c)'[p] = IF req[c].bins[p] # None THEN req[c].bins[p]
                                                 ELSE BlobOf(c)[p]
    <3>1. HasBytes(BlobOf(c))'
      BY <1>0, <2>0, <2>2 DEF HasBytes
    <3> QED
      BY <1>a, <1>b, <2>0, <2>2, <3>1 DEF Moved, Importing
  <2> QED
    BY <1>5, <2>1, <2>2, InsertBlobsDoes
<1>6. CASE CommitImport(c)
  <2>1. /\ req[c].at \in Importing /\ req'[c].at \notin Importing /\ UNCHANGED side
        /\ \A d \in Clients : d # c => req'[d] = req[d]
        /\ \/ ~exists /\ UNCHANGED store
           \/ blob' = BlobOf(c)
    BY <1>6, CommitImportDoes DEF Importing
  <2>2. CASE ~exists /\ UNCHANGED store
    <3>1. blob' = Empty
      BY <2>2 DEF BaseInv, DeletedIsEmpty, store
    <3>2. HasBytes(blob)'
      BY <3>1 DEF HasBytes, Empty
    <3> QED
      BY <1>a, <1>b, <2>1, <3>2
  <2>3. CASE blob' = BlobOf(c)
    <3>1. HasBytes(blob)'
      BY <1>0, <2>1, <2>3 DEF HasBytes
    <3> QED
      BY <1>a, <1>b, <2>1, <3>1
  <2> QED
    BY <2>1, <2>2, <2>3
<1> QED
  BY <1>1, <1>2, <1>3, <1>4, <1>5, <1>6 DEF Import

LEMMA InitBytes == Init => BytesInv
<1> SUFFICES ASSUME Init PROVE BytesInv
  OBVIOUS
<1>1. \A c \in Writers : req[c].at = "idle"
  BY FilesTypes DEF Init, Clients
<1>2. HasBytes(blob)
  BY DEF Init, HasBytes, Empty
<1> QED
  BY <1>1, <1>2, InitBase DEF BytesInv, Importing

LEMMA NextBytes ==
  ASSUME ImportersFinish
  PROVE  BytesInv /\ [Next]_vars => BytesInv'
<1> SUFFICES ASSUME BytesInv, [Next]_vars, Orderly' PROVE BytesThere'
  BY NextBase DEF BytesInv, BytesThere
<1>0. BaseInv /\ Orderly /\ BytesThere /\ Writers \subseteq Clients
  BY OverlapsStay DEF BytesInv, BytesThere, Orderly, OneImporter, Clients
<1>1. CASE \E c \in Writers : Import(c)
  BY <1>0, <1>1, ImportBytes
<1>2. CASE \E c \in Readers : ExportWorkspace(c)
  <2>1. PICK r \in Readers : ExportWorkspace(r)
    BY <1>2
  <2> QED
    BY <1>0, <2>1, ExportBegins, BytesKept DEF store, Importing
<1>3. CASE \E c \in Clients : Export(c)
  <2>1. PICK r \in Clients : Export(r)
    BY <1>3
  <2>2. /\ UNCHANGED <<text, blob, side>> /\ req'[r].at \notin Importing
        /\ req[r].at \notin Importing /\ \A d \in Clients : d # r => req'[d] = req[d]
    BY <1>0, <2>1, ExportDoes DEF Exporting, Importing
  <2> QED
    BY <1>0, <2>2, BytesKept
<1>4. CASE \E c \in Clients : Interrupted(c)
  <2>1. PICK r \in Clients : Interrupted(r)
    BY <1>4
  <2>2. r \notin Writers /\ UNCHANGED <<text, blob, side>>
        /\ \A d \in Clients : d # r => req'[d] = req[d]
    BY <1>0, <2>1, InterruptionDoes DEF ImportersFinish, store
  <2> QED
    BY <1>0, <2>2, BytesKept
<1>5. CASE DeleteCatalog
  <2>1. ASSUME NEW c \in Writers PROVE HasBytes(BlobOf(c))'
    BY <1>0, <1>5, DeletionShows DEF HasBytes, Empty
  <2>2. blob' = Empty
    BY <1>5 DEF DeleteCatalog
  <2> QED
    BY <2>1, <2>2 DEF BytesThere, HasBytes, Empty
<1>6. CASE RemoveTrees
  <2>1. /\ blob = Empty /\ \A c \in Clients : req[c].dblob = NoWrite
        /\ UNCHANGED <<blob, req>>
    BY <1>0, <1>6 DEF RemoveTrees, BaseInv, DeletedIsEmpty, exists
  <2>2. ASSUME NEW c \in Writers PROVE HasBytes(BlobOf(c))'
    BY <1>0, <2>1, FilesTypes, AppliedRows DEF HasBytes, BlobOf, Empty, Applied, NoWrite
  <2> QED
    BY <2>1, <2>2 DEF BytesThere, HasBytes, Empty
<1>7. CASE UNCHANGED vars
  BY <1>0, <1>7, BytesKept DEF vars, store
<1>8. CASE Dies
  <2>1. ASSUME NEW c \in Clients PROVE req[c].at \notin Importing
    BY <1>0, <1>8, DeathDoes DEF ImportersFinish, BaseInv, WritesAreImports, Importing
  <2>2. side' = side /\ blob' = blob /\ \A c \in Writers : req'[c].at = "idle"
    BY <1>0, <1>8, <2>1, DeathDoes, FilesTypes DEF store
  <2> QED
    BY <1>0, <2>1, <2>2 DEF BytesThere, HasBytes, Importing
<1> QED
  BY <1>1, <1>2, <1>3, <1>4, <1>5, <1>6, <1>7, <1>8 DEF Next

(* With one importer whose imports are not cut off, every binary has its   *)
(* bytes, however many clients export, and whenever the catalog goes.      *)
THEOREM BlobsKeepBytes ==
  ASSUME OneImporter, ImportersFinish
  PROVE  Spec => []BlobsHaveBytes
<1>1. BytesInv => BlobsHaveBytes
  BY DEF BytesInv, Orderly, BlobsHaveBytes, Quiet, HasBytes, Importing
<1> QED
  BY <1>1, InitBytes, NextBytes, PTL DEF Spec
-----------------------------------------------------------------------------
(* Requests one after the other: what is shown as fresh is what there is   *)

LEMMA Alone ==
  ASSUME BaseInv, ~overlapped, NEW c \in Clients, req[c].at # "idle",
         NEW d \in Clients, d # c
  PROVE  req[d].at = "idle"
BY DEF BaseInv, OneAtATime

LEMMA IdleIsTrue ==
  ASSUME NEW c, req'[c].at = "idle"
  PROVE  ExportIsTrue(c)'
BY DEF ExportIsTrue

\* the status tells the truth, and so does the one request in progress
FreshThere == /\ status = "fresh" /\ ~torn => work[Snakefile] = None \/ work = Exported
              /\ \A c \in Clients : ExportIsTrue(c)

\* a step of the one client in progress
LEMMA FreshStep ==
  ASSUME NEW c \in Clients,
         \A d \in Clients : d # c => req'[d].at = "idle",
         ExportIsTrue(c)',
         (status = "fresh" /\ ~torn => work[Snakefile] = None \/ work = Exported)'
  PROVE  FreshThere'
BY IdleIsTrue DEF FreshThere

LEMMA TornStays ==
  ASSUME NEW c \in Clients, Import(c) \/ ExportWorkspace(c) \/ Interrupted(c)
  PROVE  torn' = torn
<1>1. ASSUME NEW r, Begin(c, r) PROVE torn' = torn
  BY <1>1 DEF Begin
<1>2. Fail(c) => torn' = torn
  BY DEF Fail
<1>3. CASE SaveFiles(c) \/ SyncTree(c) \/ ExportWorkspace(c)
  BY <1>1, <1>3 DEF SaveFiles, SyncTree, ExportWorkspace
<1>4. CASE Interrupted(c)
  BY <1>2, <1>4 DEF Interrupted
<1>5. CASE ClearText(c) \/ InsertText(c) \/ ClearBlobs(c) \/ InsertBlobs(c) \/ CommitImport(c)
  BY <1>2, <1>5 DEF ClearText, InsertText, ClearBlobs, InsertBlobs, CommitImport
<1> QED
  BY <1>3, <1>4, <1>5 DEF Import

LEMMA ImportFresh ==
  ASSUME BaseInv, exists, exists', ~overlapped, ~overlapped', FreshThere,
         NEW c \in Writers, Import(c)
  PROVE  FreshThere'
<1>0. c \in Clients /\ ExportIsTrue(c) /\ torn' = torn
  BY TornStays DEF FreshThere, Clients
<1>a. ASSUME UNCHANGED <<store, work>>, req'[c].at \in Importing, req'[c].seen = status,
             \A d \in Clients : d # c => req'[d] = req[d] /\ req[d].at = "idle"
      PROVE  FreshThere'
  <2>1. ExportIsTrue(c)'
    BY <1>a DEF ExportIsTrue, Importing, store
  <2>2. (status = "fresh" /\ ~torn => work[Snakefile] = None \/ work = Exported)'
    BY <1>0, <1>a DEF FreshThere, store, Exported
  <2> QED
    BY <1>0, <1>a, <2>1, <2>2, FreshStep
<1>b. ASSUME req[c].at \in Importing
      PROVE  req[c].seen = status /\ \A d \in Clients : d # c => req[d].at = "idle"
  BY <1>0, <1>b, Alone DEF ExportIsTrue, Importing
<1>1. CASE SaveFiles(c) \/ SyncTree(c)
  <2>1. /\ req'[c].at = "clear_text" /\ req'[c].seen = status /\ UNCHANGED <<store, work>>
        /\ \A d \in Clients : d # c => req'[d] = req[d]
        /\ overlapped' = (overlapped \/ \E d \in Clients : req[d].at # "idle")
    BY <1>1, ImportBegins
  <2> QED
    BY <1>a, <2>1 DEF Importing
<1>2. CASE ClearText(c)
  BY <1>2, <1>a, <1>b, ClearTextDoes DEF Moved, Importing
<1>3. CASE InsertText(c)
  BY <1>3, <1>a, <1>b, InsertTextDoes DEF Moved, Importing
<1>4. CASE ClearBlobs(c)
  BY <1>4, <1>a, <1>b, ClearBlobsDoes DEF Moved, Importing
<1>5. CASE InsertBlobs(c)
  BY <1>5, <1>a, <1>b, InsertBlobsDoes DEF Moved, Importing
<1>6. CASE CommitImport(c)
  <2>1. /\ req[c].at = "commit_import" /\ req'[c].at \in {"idle", "clear"}
        /\ status' = Flushed(req[c], Imported(c))
        /\ req'[c].at = "clear" => req'[c].seen \in {Imported(c), status'}
        /\ \A d \in Clients : d # c => req'[d] = req[d]
    BY <1>6, CommitImportDoes
  <2>2. req[c].seen = status /\ \A d \in Clients : d # c => req'[d].at = "idle"
    BY <1>b, <2>1 DEF Importing
  <2>3. status' = Imported(c) /\ status' # "fresh"
    BY <2>1, <2>2 DEF Flushed, Imported
  <2>4. ExportIsTrue(c)'
    BY <2>1, <2>3 DEF ExportIsTrue
  <2> QED
    BY <1>0, <2>2, <2>3, <2>4, FreshStep
<1> QED
  BY <1>1, <1>2, <1>3, <1>4, <1>5, <1>6 DEF Import

LEMMA ExportFresh ==
  ASSUME BytesInv, exists, exists', ~overlapped, ~overlapped', FreshThere,
         NEW c \in Clients, Export(c)
  PROVE  FreshThere'
<1>0. BaseInv /\ ExportIsTrue(c)
  BY DEF FreshThere, BytesInv
<1>1. /\ UNCHANGED <<row, text, blob, side>> /\ work' \in Files
      /\ req[c].at \in Exporting
      /\ \A d \in Clients : d # c => req'[d] = req[d]
  BY <1>0, ExportDoes
<1>2. \A d \in Clients : d # c => req[d].at = "idle" /\ req'[d].at = "idle"
  BY <1>0, <1>1, Alone DEF Exporting
<1>3. req[c].seen = status
  BY <1>0, <1>1 DEF ExportIsTrue, Exporting
<1>4. Exported' = Exported
  BY <1>1 DEF Exported
<1>5. CASE /\ req[c].at = "clear" /\ req'[c].at = "rows" /\ req'[c].seen = req[c].seen
           /\ work' = Empty /\ UNCHANGED status
  <2>1. ExportIsTrue(c)'
    BY <1>3, <1>5 DEF ExportIsTrue
  <2>2. work'[Snakefile] = None
    BY <1>5 DEF Empty
  <2> QED
    BY <1>2, <2>1, <2>2, FreshStep
<1>6. CASE /\ req[c].at = "rows" /\ req'[c].at = "write" /\ req'[c].seen = req[c].seen
           /\ req'[c].files = text /\ UNCHANGED <<work, status, torn>>
  <2>1. ExportIsTrue(c)'
    BY <1>0, <1>1, <1>3, <1>6 DEF ExportIsTrue
  <2> QED
    BY <1>2, <1>4, <1>6, <2>1, FreshStep DEF FreshThere
<1>7. CASE /\ req[c].at = "write" /\ req'[c].at = "commit_export"
           /\ req'[c].seen = req[c].seen /\ UNCHANGED status
           /\ \A p \in Paths :
                work'[p] = IF blob[p] # None /\ side[p] # None THEN side[p]
                           ELSE IF req[c].files[p] # None THEN req[c].files[p] ELSE work[p]
  <2>1. work = Empty /\ req[c].files = text
    BY <1>0, <1>7 DEF ExportIsTrue
  <2>2. \A d \in Writers : req[d].at \notin Importing
    BY <1>2, <1>7 DEF Clients, Importing
  <2>3. HasBytes(blob)
    BY <2>2 DEF BytesInv, Orderly
  <2>4. \A p \in Paths : work'[p] = IF blob[p] # None THEN blob[p] ELSE text[p]
    BY <1>7, <2>1, <2>3 DEF HasBytes, Empty
  <2>5. work' = [p \in Paths |-> work'[p]]
    BY <1>1 DEF Files
  <2>6. work' = Exported
    BY <2>4, <2>5 DEF Exported
  <2>7. ExportIsTrue(c)'
    BY <1>3, <1>4, <1>7, <2>6 DEF ExportIsTrue
  <2> QED
    BY <1>2, <1>4, <2>6, <2>7, FreshStep
<1>8. CASE /\ req[c].at = "commit_export" /\ req'[c].at = "idle" /\ UNCHANGED work
           /\ status' = IF exists THEN Flushed(req[c], req[c].new) ELSE status
  <2>1. work' = Exported' \/ status' = "error"
    BY <1>0, <1>3, <1>4, <1>8 DEF ExportIsTrue, Flushed
  <2>2. ExportIsTrue(c)'
    BY <1>8, IdleIsTrue
  <2> QED
    BY <1>2, <2>1, <2>2, FreshStep
<1>9. CASE /\ req[c].at \in {"clear", "write"} /\ req'[c].at = "commit_export"
           /\ req'[c].seen = req[c].seen /\ req'[c].new = "error" /\ UNCHANGED status
           /\ torn' = (torn \/ work' # work)
  <2>1. ExportIsTrue(c)'
    BY <1>3, <1>9 DEF ExportIsTrue
  <2> QED
    BY <1>2, <1>4, <1>9, <2>1, FreshStep DEF FreshThere
<1> QED
  BY <1>0, <1>5, <1>6, <1>7, <1>8, <1>9, ExportDoes

LEMMA InitFresh == Init => FreshInv
<1> SUFFICES ASSUME Init PROVE FreshInv
  OBVIOUS
<1>1. \A c \in Clients : req[c].at = "idle"
  BY FilesTypes DEF Init
<1>2. \A c \in Clients : ExportIsTrue(c)
  BY <1>1 DEF ExportIsTrue
<1> QED
  BY <1>2, InitBytes DEF Init, FreshInv

LEMMA NextFresh ==
  ASSUME ImportersFinish
  PROVE  FreshInv /\ [Next]_vars => FreshInv'
<1> SUFFICES ASSUME FreshInv, [Next]_vars, exists', ~overlapped' PROVE FreshThere'
  BY NextBytes DEF FreshInv, FreshThere
<1>0. BytesInv /\ BaseInv /\ ~overlapped
  BY OverlapsStay DEF FreshInv, BytesInv
<1>a. ASSUME exists, UNCHANGED <<text, blob, status>>, ~torn' => ~torn /\ work' = work,
             \A d \in Clients : req'[d].at = "idle" \/ (work' = work /\ req'[d] = req[d])
      PROVE  FreshThere'
  <2>1. FreshThere /\ Exported' = Exported
    BY <1>0, <1>a DEF FreshInv, FreshThere, Exported
  <2>2. ASSUME NEW d \in Clients PROVE ExportIsTrue(d)'
    BY <1>a, <2>1 DEF FreshThere, ExportIsTrue
  <2> QED
    BY <1>a, <2>1, <2>2 DEF FreshThere
<1>1. CASE \E c \in Writers : Import(c)
  <2>1. PICK c \in Writers : Import(c)
    BY <1>1
  <2>2. row' = row
    BY <2>1, <1>0, ImportBegins, ClearTextDoes, InsertTextDoes, ClearBlobsDoes, InsertBlobsDoes,
       CommitImportDoes DEF Import, store
  <2>3. exists /\ FreshThere
    BY <1>0, <2>2 DEF exists, FreshInv, FreshThere
  <2> QED
    BY <1>0, <2>1, <2>3, ImportFresh
<1>2. CASE \E c \in Readers : ExportWorkspace(c)
  <2>1. PICK c \in Readers : ExportWorkspace(c)
    BY <1>2
  <2>2. /\ c \in Clients /\ req'[c].at = "clear" /\ req'[c].seen = status
        /\ UNCHANGED <<store, work, torn>>
        /\ \A d \in Clients : d # c => req'[d] = req[d] /\ req[d].at = "idle"
    BY <1>0, <2>1, ExportBegins, TornStays DEF Clients
  <2>3. FreshThere /\ Exported' = Exported
    BY <1>0, <2>2 DEF exists, FreshInv, FreshThere, Exported, store
  <2>4. ExportIsTrue(c)'
    BY <2>2 DEF ExportIsTrue, store
  <2> QED
    BY <2>2, <2>3, <2>4, FreshStep DEF FreshThere, store
<1>3. CASE \E c \in Clients : Export(c)
  <2>1. PICK c \in Clients : Export(c)
    BY <1>3
  <2>2. exists /\ FreshThere
    BY <1>0, <2>1, ExportDoes DEF exists, FreshInv, FreshThere
  <2> QED
    BY <1>0, <2>1, <2>2, ExportFresh
<1>4. CASE \E c \in Clients : Interrupted(c)
  <2>1. PICK c \in Clients : Interrupted(c)
    BY <1>4
  <2>2. /\ UNCHANGED <<row, text, blob, status>>
        /\ ~torn' => ~torn /\ work' = work
        /\ \A d \in Clients : req'[d].at = "idle" \/ (work' = work /\ req'[d] = req[d])
    BY <1>0, <2>1, InterruptionDoes, TornStays, FilesTypes DEF store
  <2>3. exists
    BY <2>2 DEF exists
  <2> QED
    BY <1>a, <2>2, <2>3
<1>5. ~DeleteCatalog /\ ~RemoveTrees
  BY DEF DeleteCatalog, RemoveTrees, exists
<1>6. CASE UNCHANGED vars
  BY <1>6, <1>a DEF vars, store, exists
<1>7. CASE Dies
  <2>1. /\ UNCHANGED <<row, text, blob, status>>
        /\ torn' = (torn \/ work' # work)
        /\ \A d \in Clients : req'[d].at = "idle"
    BY <1>0, <1>7, DeathDoes, FilesTypes DEF store
  <2>2. ~torn' => ~torn /\ work' = work
    BY <2>1
  <2>3. exists
    BY <2>1 DEF exists
  <2> QED
    BY <1>a, <2>1, <2>2, <2>3
<1> QED
  BY <1>1, <1>2, <1>3, <1>4, <1>5, <1>6, <1>7 DEF Next

(* As long as requests come one after the other, for any number of         *)
(* importers and exporters and wherever exports and their disk fail, a     *)
(* workspace that is shown as fresh holds exactly the catalog's files,     *)
(* unless it is torn: changed by an export of which no status tells.       *)
THEOREM FreshStaysExported ==
  ASSUME ImportersFinish
  PROVE  Spec => []FreshIsExported
<1>1. FreshInv => FreshIsExported
  BY DEF FreshInv, FreshIsExported, Shown
<1> QED
  BY <1>1, InitFresh, NextFresh, PTL DEF Spec
=============================================================================
