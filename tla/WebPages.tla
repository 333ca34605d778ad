-------------------------------- MODULE WebPages -------------------------------
(***************************************************************************)
(* The pages around the runs: the session of the browser, with the login   *)
(* of the CLI; the accounts and the settings; the backup of the catalogs   *)
(* to Git; the output files; the pictures of DAGs; the catalogs.           *)
(*                                                                         *)
(* They share neither tables nor state of the page, so that interleaving   *)
(* them shows nothing: a behaviour is one of one of them, chosen at first, *)
(* and what belongs to the others is left alone.  The query cache, changes *)
(* under way and events are those of the one that is chosen.               *)
(***************************************************************************)
EXTENDS Naturals

CONSTANTS
  Tabs, Nobody, MaxJwts, SessionEvents,
  People, Me, Codes, NoCode, Attempts, Values, MaxTokens, AccountEvents,
  MaxRuns, MaxPolls, BackupEvents,
  Paths, Folders, TreeEvents,
  Viewers, DagEvents,
  Slugs, Derived, Urls, NoUrl, MaxIds, CatalogEvents,
  Missing

VARIABLES
  page,      \* the one that is chosen
  cache, missed, sent, events,
  \* WebSession
  stored, issued, dead, tabs, calls, refused,
  approve, bearer, lock, device, apis, cli, restarted,
  \* Accounts
  members, invites, policy, git, tokens, made,
  attempts, section, dialog, closed,
  \* GitBackup
  edits, work, status, runs, export, overlapped,
  clicks, mounted, seen, result, toast, strayed,
  \* ResultTree
  disk, listed, loads, before, loaded, settled, open, selected, full, got, spoilt,
  \* DagPreview
  variant, image, svg, err, busy, job, view, asks, card, swept, lost,
  \* CatalogPages
  db, ids, template, look, tab,
  edit, doomed, form, clash, importing, named, loose, unasked

Session == INSTANCE WebSession WITH MaxEvents <- SessionEvents
Accounts == INSTANCE Accounts WITH MaxEvents <- AccountEvents
Backup == INSTANCE GitBackup WITH MaxEvents <- BackupEvents
Tree == INSTANCE ResultTree WITH MaxEvents <- TreeEvents
Dag == INSTANCE DagPreview WITH MaxEvents <- DagEvents
Catalogs == INSTANCE CatalogPages WITH MaxEvents <- CatalogEvents

ASSUME PagesAssumption ==
  /\ Session!JwtsAssumption /\ Accounts!AccountsAssumption /\ Backup!BackupAssumption
  /\ Tree!PathsAssumption /\ Dag!DagAssumption /\ Catalogs!CatalogPagesAssumption

\* what belongs to each
sessionVars == <<stored, issued, dead, tabs, calls, refused, approve, bearer, lock, device, apis, cli, restarted>>
accountsVars == <<members, invites, policy, git, tokens, made, attempts, section, dialog, closed>>
backupVars == <<edits, work, status, runs, export, overlapped, clicks, mounted, seen, result, toast, strayed>>
treeVars == <<disk, listed, loads, before, loaded, settled, open, selected, full, got, spoilt>>
dagVars == <<variant, image, svg, err, busy, job, view, asks, card, swept, lost>>
catalogsVars == <<db, ids, template, look, tab, edit, doomed, form, clash, importing, named, loose, unasked>>

sharedVars == <<page, cache, missed, sent>>

webPagesVars == <<sharedVars, events, sessionVars, accountsVars, backupVars, treeVars, dagVars, catalogsVars>>

-----------------------------------------------------------------------------
\* what may differ at first does so in the page that is chosen
WebInit ==
  /\ page \in {"session", "accounts", "backup", "tree", "dag", "catalogs"}
  /\ Session!WsInit /\ Accounts!AccInit /\ Backup!GbInit
  /\ Tree!RtInit /\ Dag!DagInit /\ Catalogs!CpInit
  /\ page # "accounts" => members[Me] = "admin" /\ \A p \in People \ {Me} : members[p] = "none"
  /\ page # "tree" => disk = {}
  /\ page # "dag" => variant = "catalog"
  /\ page # "catalogs" => look.key = <<"list", "all">>

SessionStep ==
  /\ page = "session" /\ Session!WsNext
  /\ UNCHANGED <<sharedVars, accountsVars, backupVars, treeVars, dagVars, catalogsVars>>

AccountsStep ==
  /\ page = "accounts" /\ Accounts!AccNext
  /\ UNCHANGED <<page, sessionVars, backupVars, treeVars, dagVars, catalogsVars>>

BackupStep ==
  /\ page = "backup" /\ Backup!GbNext
  /\ UNCHANGED <<sharedVars, sessionVars, accountsVars, treeVars, dagVars, catalogsVars>>

TreeStep ==
  /\ page = "tree" /\ Tree!RtNext
  /\ UNCHANGED <<sharedVars, sessionVars, accountsVars, backupVars, dagVars, catalogsVars>>

DagStep ==
  /\ page = "dag" /\ Dag!DagNext
  /\ UNCHANGED <<sharedVars, sessionVars, accountsVars, backupVars, treeVars, catalogsVars>>

CatalogsStep ==
  /\ page = "catalogs" /\ Catalogs!CpNext
  /\ UNCHANGED <<page, sessionVars, accountsVars, backupVars, treeVars, dagVars>>

WebNext == SessionStep \/ AccountsStep \/ BackupStep \/ TreeStep \/ DagStep \/ CatalogsStep

(* Fairness: that of the pages for which something must happen.            *)
WebSpec == WebInit /\ [][WebNext]_webPagesVars /\ Session!WsFairness /\ Backup!GbFairness

-----------------------------------------------------------------------------
(* Properties *)

(* The type invariant of each page.                                        *)
WebTypeOK ==
  /\ Session!WsTypeOK /\ Backup!GbTypeOK /\ Tree!RtTypeOK /\ Dag!DagTypeOK
  /\ page = "accounts" => Accounts!AccTypeOK
  /\ page = "catalogs" => Catalogs!CpTypeOK

(* A login of the CLI goes as CliLogin says, however many tabs hold the    *)
(* address that the CLI printed, however often they are reloaded, and with *)
(* polls, expiry and restarts at any moment (api/endpoints/tokens.py).     *)
KeepsCliPromise == Session!KeepsCliPromise

(* A tab that says the CLI is logged in is right, but for a restart of the *)
(* server (login.tsx).                                                     *)
ApprovedMeansIt == Session!ApprovedMeansIt

(* The browser comes to rest between the login page and the pages that the *)
(* interceptor of auth.tsx sends it away from.                             *)
TabsRest == Session!TabsRest

(* A registration that fails costs no invitation, and one that succeeds    *)
(* leaves none that could be used again (app/core/users.py).              *)
InvitationKept == Accounts!InvitationKept

(* When nothing is under way, the settings show what the changes made in   *)
(* them have led to, with the exceptions that Accounts names.              *)
OwnChangesShown == page = "accounts" => Accounts!OwnChangesShown

(* The secret of a token that a dialog has shown and closed is not shown   *)
(* again (TokensSection.tsx, _authenticated.profile.tsx).                  *)
ShownOnce == Accounts!ShownOnce

(* What the page reports as a success of the backup was pushed, and holds  *)
(* what the catalogs held at the click (CatalogList.tsx and sync.py).      *)
SyncedIsPushed == Backup!SyncedIsPushed

(* The message of a backup that is loading ends.                           *)
ToastEnds == Backup!ToastEnds

(* The status that disables the button does not stay at "running", unless  *)
(* its run died with the server, or recorded nothing (sync.py).            *)
BackupSettles == Backup!BackupSettles

(* An open folder shows what the server answered for it (ResultViewer.tsx) *)
(* unless its listing failed or the root was read again.                   *)
FoldersFill == Tree!FoldersFill

(* A page that polls for a picture polls for something that may come       *)
(* (CatalogDagSvg.tsx and the jobs of snakevision.py).                     *)
WaitsForSomething == Dag!WaitsForSomething

(* When nothing is under way, the pages of catalogs show what the changes  *)
(* made on them have led to, with the exceptions that CatalogPages names.  *)
CatalogsShown == page = "catalogs" => Catalogs!CatalogsShown

(* An import replaces another source's catalog only after the dialog has   *)
(* named both (CatalogList.tsx and git_ops.py).                            *)
NoUnaskedOverwrite == Catalogs!NoUnaskedOverwrite
================================================================================
