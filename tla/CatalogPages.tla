----------------------------- MODULE CatalogPages -----------------------------
(***************************************************************************)
(* The pages of the catalogs: the list with its dialogs for deleting,      *)
(* editing and importing, the page of one catalog, and the page of the     *)
(* template, while other tabs and the CLI change the same catalogs.        *)
(* DagPreview and GitBackup model what else these pages show.              *)
(***************************************************************************)
EXTENDS PageCache, Naturals, FiniteSets

CONSTANTS
  Slugs,
  Derived,    \* the slug that every URL's repository is given
  Urls,       \* Git repositories that may be imported
  NoUrl,      \* the empty one (a source that is null, and that the dialog's
              \* request leaves out, is not modelled)
  MaxIds,     \* bound: catalogs that are ever made
  MaxEvents   \* bound: clicks, and what others do

\* the template passes for a catalog, whose id is 0
AsCatalog(v) == [id |-> 0, src |-> NoUrl, files |-> v, runs |-> 0]

\* what WebPages assumes of them
CatalogPagesAssumption ==
  /\ Derived \in Slugs /\ Urls # {} /\ NoUrl \notin Urls
  /\ MaxIds \in Nat /\ IsFiniteSet(Slugs) /\ Cardinality(Slugs) <= MaxIds /\ MaxEvents \in Nat
  /\ \A v \in 1..2 : AsCatalog(v) # Missing

VARIABLES
  db,        \* db[s]: the catalog [id, src, files, runs] of slug s, or Missing
             \* src: source_url, which stands for all metadata; files: whose they are
  ids,       \* catalogs 1..ids have been made
  template,  \* version of the template's files
  look,      \* the page: its key, the right panel's mode, whether its runs are
             \* shown instead of the files, and the catalogs, none or one, whose
             \* file or runs it reads, too
  tab,       \* the file that the editor shows, or Missing
  sent,      \* requests under way: [do, id, src, stage, here]
  edit,      \* the dialog for metadata: [id, src]; id 0: closed
  doomed,    \* the catalog that the dialog asks whether to delete, or 0
  form,      \* the dialog for imports: [open, url]
  clash,     \* the dialog over it: [slug, old, url], or Missing
  importing, \* the import under way: [stage, url, slug, force, old, here, id]
  named,     \* history: what that dialog has named since the pages were opened
  loose,     \* history: an import was pending when its form was changed, or when
             \* a catalog, or its source, was changed in another way
  unasked,   \* history: an import has replaced a catalog that was not named
  events

dbVars == <<db, ids, template>>
importVars == <<form, clash, importing, named, loose, unasked>>
dialogVars == <<edit, doomed>>
cpVars == <<cacheVars, dbVars, look, tab, sent, dialogVars, importVars, events>>

Event == events < MaxEvents /\ events' = events + 1

Ids == 1..MaxIds

\* what the source URL of a catalog may be
Sources == Urls \cup {NoUrl}

Closed == [id |-> 0, src |-> NoUrl]
NoForm == [open |-> FALSE, url |-> NoUrl]
NoImport == [stage |-> "idle", url |-> NoUrl, slug |-> Derived, force |-> FALSE, old |-> NoUrl,
             here |-> FALSE, id |-> 0]

Existing == {s \in Slugs : db[s] # Missing}
SlugOf(i) == {s \in Existing : db[s].id = i}

-----------------------------------------------------------------------------
(* Queries *)

Searches == Slugs \cup {"all"}
ListKeys == {<<"list", q>> : q \in Searches}

Read(k) ==
  LET catalog == IF k[2] = 0 THEN AsCatalog(template)
                 ELSE IF SlugOf(k[2]) = {} THEN Missing ELSE db[CHOOSE s \in SlugOf(k[2]) : TRUE] IN
  CASE k[1] = "list" -> [s \in {t \in Existing : k[2] \in {t, "all"}} |-> db[s]]
    [] k[1] = "slug" -> db[k[2]]
    [] k[1] = "id" -> catalog
    [] OTHER -> IF catalog = Missing THEN Missing ELSE IF k[1] = "file" THEN catalog.files ELSE catalog.runs

Editing(l) == l.mode = "editor" /\ ~l.runs

\* the README is read behind the runs, too
Looking(l) ==
  {l.key} \cup {k \in {"file", "runs"} \X l.on : IF k[1] = "runs" THEN l.runs ELSE l.mode = "readme" \/ Editing(l)}

InView == Looking(look)

Shown == Entry(look.key).data
Listing == look.key[1] = "list"
Catalog == ~Listing /\ Shown # Missing

\* the catalogs that the page shows
Listed == IF Shown = Missing THEN {} ELSE {Shown[s] : s \in DOMAIN Shown}
Offered == IF Listing THEN Listed ELSE IF Catalog /\ Shown.id # 0 THEN {Shown} ELSE {}

\* what a change of catalog i, of slug s, outdates
Concerned(i, s) == ListKeys \cup {<<"id", i>>, <<"slug", s>>, <<"file", i>>, <<"runs", i>>}

\* and what of it the callback leaves as it is: see Refreshed
Neglected(do, i, s) == Concerned(i, s) \ (ListKeys \cup IF do = "save" THEN {<<"id", i>>} ELSE {})

\* mutant: the list is invalidated under the key of the search in view
RefreshedHere(do, i) ==
  CASE do = "pull" -> {<<"id", 0>>, <<"file", 0>>}
    [] do = "save" -> {<<"list", "all">>, <<"id", i>>}
    [] OTHER -> {<<"list", "all">>}

(* What the callback of a change invalidates: no key of a catalog that was *)
(* opened by its slug, none of a file, and after an import or a deletion   *)
(* none but the lists.                                                     *)
Refreshed(do, i) ==
  CASE do = "pull" -> {<<"id", 0>>, <<"file", 0>>}
    [] do = "save" -> ListKeys \cup {<<"id", i>>}
    [] OTHER -> ListKeys

-----------------------------------------------------------------------------
(* Moving about *)

\* the editor keeps the first content of a file, as long as it is mounted
Tab(l) ==
  LET files == {k \in Looking(l) \cap DOMAIN cache' : k[1] = "file"} IN
  CASE ~Editing(l) \/ l.on = {} -> Missing
    [] Editing(l) /\ l.on # {} /\ tab # Missing /\ Editing(look) -> tab
    [] OTHER -> IF files = {} THEN Missing ELSE cache'[CHOOSE k \in files : TRUE].data

Goto(l) ==
  /\ look' = l
  /\ Turn(InView, Looking(l))
  /\ tab' = Tab(l)

\* another page: its dialogs are gone, and callbacks can no more close any
Open(key) ==
  /\ Event /\ (key[1] = "list" => ~Listing)
  /\ key # look.key
  /\ Goto([key |-> key, mode |-> "readme", runs |-> FALSE, on |-> {}])
  /\ sent' = {[m EXCEPT !.here = FALSE] : m \in sent}
  /\ importing' = [importing EXCEPT !.here = FALSE]
  /\ edit' = Closed /\ doomed' = 0 /\ form' = NoForm /\ clash' = Missing
  /\ UNCHANGED <<missed, dbVars, named, loose, unasked>>

NoDialog == edit = Closed /\ doomed = 0 /\ ~form.open /\ clash = Missing

Still == UNCHANGED <<missed, dbVars, sent, dialogVars, importVars>>

Search(q) ==
  /\ Event /\ Listing /\ NoDialog /\ q # look.key[2]
  /\ Goto([look EXCEPT !.key = <<"list", q>>]) /\ Still

Turned(l) == Event /\ Catalog /\ NoDialog /\ Goto(l) /\ Still

PickMode(m) == m # look.mode /\ Turned([look EXCEPT !.mode = m])

\* the last file is closed
CloseFiles == Editing(look) /\ PickMode("readme")

OpenFile == ~look.runs /\ PickMode("editor")

\* buttons of the header; behind the runs, too
ShowDag == PickMode("dag")
ShowReadme == look.key = <<"id", 0>> /\ PickMode("readme")

\* the tabs of the page of a catalog
ShowRuns == Catalog /\ Shown.id # 0 /\ Turned([look EXCEPT !.runs = ~@])

\* the first page is mounted; the README is read when the catalog is there, and
\* not any more when it is gone
Rendered ==
  LET on == IF Catalog THEN {Shown.id} ELSE {} IN
  /\ on # look.on \/ look.key \notin DOMAIN cache
  /\ Goto([look EXCEPT !.on = on]) /\ Still /\ UNCHANGED events

-----------------------------------------------------------------------------
(* Editing and deleting *)

OpenEdit(i) ==
  /\ NoDialog
  /\ \E c \in Offered : c.id = i /\ edit' = [id |-> i, src |-> c.src]
  /\ UNCHANGED <<cacheVars, dbVars, look, tab, sent, doomed, importVars, events>>

\* a page that says "Catalog not found" does not show its dialog
Visible == Listing \/ Catalog

Type(u) ==
  /\ edit.id # 0 /\ Visible /\ u # edit.src /\ edit' = [edit EXCEPT !.src = u]
  /\ UNCHANGED <<cacheVars, dbVars, look, tab, sent, doomed, importVars, events>>

OpenDelete(i) ==
  /\ NoDialog /\ Listing
  /\ \E c \in Offered : c.id = i /\ doomed' = i
  /\ UNCHANGED <<cacheVars, dbVars, look, tab, sent, edit, importVars, events>>

Cancel ==
  /\ Visible /\ (edit # Closed \/ doomed # 0)
  /\ edit' = Closed /\ doomed' = 0
  /\ UNCHANGED <<cacheVars, dbVars, look, tab, sent, importVars, events>>

Send(do, i, u) ==
  /\ Event /\ ~\E m \in sent : m.do = do /\ m.here
  /\ sent' = sent \cup {[do |-> do, id |-> i, src |-> u, stage |-> "sent", here |-> TRUE]}
  /\ UNCHANGED <<cacheVars, dbVars, look, tab, dialogVars, importVars>>

Save == edit.id # 0 /\ Visible /\ Send("save", edit.id, edit.src)
Delete == doomed # 0 /\ Send("delete", doomed, NoUrl)
Pull == look.key = <<"id", 0>> /\ Send("pull", 0, NoUrl)

Changing == importing.stage # "idle" \/ clash # Missing

\* update_metadata, delete_catalog, and the pull of the template, as far as COMMIT
Apply(m) ==
  /\ m.do = "pull" \/ SlugOf(m.id) # {}
  /\ template' = IF m.do = "pull" THEN 2 ELSE template
  /\ db' = [s \in Slugs |->
             CASE s \notin SlugOf(m.id) \/ m.do = "pull" -> db[s]
               [] m.do = "save" /\ s \in SlugOf(m.id) -> [db[s] EXCEPT !.src = m.src]
               [] OTHER -> Missing]
  /\ loose' = (loose \/ (Changing /\ \E s \in SlugOf(m.id) : m.do = "save" /\ db[s].src # m.src))

AnsweredAs(m, stage) ==
  /\ sent' = (sent \ {m}) \cup {[m EXCEPT !.stage = stage]}
  /\ UNCHANGED <<cache, ids, look, tab, dialogVars, form, clash, importing, named, unasked>>

Serve(m) ==
  /\ m \in sent /\ m.stage = "sent" /\ UNCHANGED events
  /\ \/ /\ Apply(m) /\ AnsweredAs(m, "done")
        /\ missed' = missed \cup UNION {Neglected(m.do, m.id, s) : s \in SlugOf(m.id)}
     \/ /\ m.do # "pull" /\ SlugOf(m.id) = {} /\ AnsweredAs(m, "failed")
        /\ UNCHANGED <<db, template, missed, loose>>

(* It fails, before its COMMIT or after, as when the files of a deleted    *)
(* catalog cannot be removed, or the answer is lost: the page hears of a   *)
(* failure, and reads nothing again.                                       *)
Fail(m) ==
  /\ Event /\ m \in sent /\ m.stage = "sent" /\ AnsweredAs(m, "failed")
  /\ \/ /\ Apply(m)
        /\ missed' = missed \cup IF m.do = "pull" THEN Refreshed("pull", 0)
                                ELSE UNION {Concerned(m.id, s) : s \in SlugOf(m.id)}
     \/ UNCHANGED <<db, template, missed, loose>>

\* whatever the dialog shows by now, success closes it
Hear(m) ==
  /\ m \in sent /\ m.stage \in {"done", "failed"}
  /\ sent' = sent \ {m}
  /\ IF m.stage = "done" THEN Invalidate(InView, Refreshed(m.do, m.id)) ELSE UNCHANGED cacheVars
  /\ edit' = IF m.stage = "done" /\ m.do = "save" /\ m.here THEN Closed ELSE edit
  /\ doomed' = IF m.stage = "done" /\ m.do = "delete" /\ m.here THEN 0 ELSE doomed
  /\ UNCHANGED <<dbVars, look, tab, importVars, events>>

-----------------------------------------------------------------------------
(* Importing *)

OpenImport ==
  /\ Listing /\ NoDialog /\ form' = [form EXCEPT !.open = TRUE]
  /\ UNCHANGED <<cacheVars, dbVars, look, tab, sent, dialogVars, clash, importing, named, loose, unasked, events>>

TypeUrl(u) ==
  /\ form.open /\ clash = Missing /\ u # form.url
  /\ form' = [form EXCEPT !.url = u]
  /\ loose' = (loose \/ importing.stage # "idle")
  /\ UNCHANGED <<cacheVars, dbVars, look, tab, sent, dialogVars, clash, importing, named, unasked, events>>

CancelImport ==
  /\ form.open \/ clash # Missing
  /\ IF clash # Missing THEN clash' = Missing /\ UNCHANGED form ELSE form' = NoForm /\ UNCHANGED clash
  /\ UNCHANGED <<cacheVars, dbVars, look, tab, sent, dialogVars, importing, named, loose, unasked, events>>

(* The three buttons send what the form holds by now.  Bound: an import    *)
(* that outlives its page ends before the next.                            *)
Import(slug, force) ==
  /\ Event /\ importing.stage = "idle" /\ form.url # NoUrl
  /\ CASE force -> clash # Missing /\ slug = Derived
       [] ~force /\ clash = Missing -> form.open /\ slug = Derived
       [] OTHER -> TRUE   \* under a new slug
  /\ importing' = [stage |-> "sent", url |-> form.url, slug |-> slug, force |-> force, old |-> NoUrl,
                   here |-> TRUE, id |-> 0]
  /\ UNCHANGED <<cacheVars, dbVars, look, tab, sent, dialogVars, form, clash, named, loose, unasked>>

At(stage) == importing' = [importing EXCEPT !.stage = stage]

\* mutant: a slug that the user has chosen is taken to be new
CheckDerived ==
  /\ importing.stage = "sent"
  /\ IF db[importing.slug] # Missing /\ db[importing.slug].src # importing.url
        /\ importing.slug = Derived /\ ~importing.force
       THEN importing' = [importing EXCEPT !.stage = "conflict", !.old = db[importing.slug].src]
       ELSE At("checked")

\* import_from_git, as far as the clone: 409 if the slug is another source's
CheckImport ==
  /\ importing.stage = "sent"
  /\ IF db[importing.slug] # Missing /\ db[importing.slug].src # importing.url /\ ~importing.force
       THEN importing' = [importing EXCEPT !.stage = "conflict", !.old = db[importing.slug].src]
       ELSE At("checked")

\* catalog s comes to have the source u
Sourced(s, u) ==
  /\ IF db[s] # Missing THEN UNCHANGED ids ELSE ids < MaxIds /\ ids' = ids + 1
  /\ db' = [db EXCEPT ![s] = IF @ # Missing THEN [@ EXCEPT !.src = u]
                             ELSE [id |-> ids', src |-> u, files |-> NoUrl, runs |-> 0]]

ImportOnly == UNCHANGED <<cache, template, look, tab, sent, dialogVars, form, clash, named, loose>>

\* the row and its source are committed before the files are read
WriteImport ==
  LET s == importing.slug
      old == IF db[s] = Missing THEN importing.url ELSE db[s].src IN
  /\ importing.stage = "checked" /\ Sourced(s, importing.url)
  /\ missed' = missed \cup Neglected("import", db'[s].id, s)
  /\ unasked' = (unasked \/ (old # importing.url /\ [slug |-> s, old |-> old, url |-> importing.url] \notin named))
  /\ importing' = [importing EXCEPT !.stage = "committed", !.id = db'[s].id]
  /\ ImportOnly /\ UNCHANGED events

\* batch_import_files finds the catalog by its id
Present == importing.slug \in SlugOf(importing.id)

FilesWritten == db' = [db EXCEPT ![importing.slug].files = importing.url]

WriteFiles ==
  /\ importing.stage = "committed" /\ Present /\ FilesWritten /\ At("done")
  /\ missed' = missed \cup Neglected("import", importing.id, importing.slug)
  /\ ImportOnly /\ UNCHANGED <<ids, unasked, events>>

(* Git, the network, a query or the disk fails; the row, and the files,    *)
(* may have been committed by then, and nothing is read again.             *)
FailImport ==
  /\ importing.stage \in {"sent", "checked", "committed"} /\ At("failed")
  /\ IF importing.stage = "committed"
       THEN /\ (Present /\ FilesWritten) \/ UNCHANGED db
            /\ missed' = missed \cup Concerned(importing.id, importing.slug)
       ELSE UNCHANGED <<db, missed>>
  /\ IF importing.stage = "committed" /\ ~Present THEN UNCHANGED events ELSE Event
  /\ ImportOnly /\ UNCHANGED <<ids, unasked>>

ImportStep ==
  \/ CheckImport /\ UNCHANGED <<cacheVars, dbVars, look, tab, sent, dialogVars, form, clash, named, loose, unasked, events>>
  \/ WriteImport \/ WriteFiles \/ FailImport

(* Success closes both dialogs, a conflict opens the one that names the    *)
(* catalog in the way.                                                     *)
HearImport ==
  LET found == [slug |-> importing.slug, old |-> importing.old, url |-> importing.url] IN
  /\ importing.stage \in {"done", "failed", "conflict"}
  /\ IF importing.stage = "done" THEN Invalidate(InView, Refreshed("import", 0)) ELSE UNCHANGED cacheVars
  /\ IF importing.stage = "done" /\ importing.here THEN form' = NoForm /\ clash' = Missing
     ELSE IF importing.stage = "conflict" /\ importing.here /\ ~importing.force THEN clash' = found /\ UNCHANGED form
     ELSE UNCHANGED <<form, clash>>
  /\ named' = IF clash' = found THEN named \cup {found} ELSE named
  /\ importing' = NoImport
  /\ UNCHANGED <<dbVars, look, tab, sent, dialogVars, loose, unasked, events>>

-----------------------------------------------------------------------------
\* another tab, the CLI or a run changes catalog s
Others(s) ==
  /\ Event
  /\ \/ \E u \in Urls : (db[s] # Missing => db[s].src # u) /\ Sourced(s, u)
     \/ /\ db[s] # Missing /\ UNCHANGED ids
        /\ db' \in {[db EXCEPT ![s] = Missing], [db EXCEPT ![s].runs = 1], [db EXCEPT ![s].src = NoUrl]}
                     \cup {[db EXCEPT ![s].files = u] : u \in Urls}
        /\ db' # db
  /\ missed' = missed \cup Concerned(IF db[s] = Missing THEN ids' ELSE db[s].id, s)
  /\ loose' = (loose \/ Changing)
  /\ UNCHANGED <<cache, template, look, tab, sent, dialogVars, form, clash, importing, named, unasked>>

\* the page of a catalog that could not be read says "Catalog not found", even
\* if it has been read before
Lose(k) ==
  IF k[1] = "slug" \/ (k[1] = "id" /\ k[2] # 0)
    THEN /\ k \in DOMAIN cache /\ cache[k].stage # "idle"
         /\ cache' = [cache EXCEPT ![k] = NoEntry] /\ missed' = missed \cup {k}
    ELSE FailRead(k)

(* The dialog of the catalog's page is filled anew when the catalog has    *)
(* changed, whatever was typed; the editor waits for its first content.    *)
Background ==
  /\ \E k \in DOMAIN cache :
       \/ UNCHANGED events /\ \/ IF Read(k) = Missing THEN Lose(k) ELSE ServeRead(k, Read(k))
                              \/ Answer(k) \/ Expire(k, InView)
       \/ Event /\ Lose(k)
  /\ LET c == IF look.key \in DOMAIN cache THEN cache'[look.key].data ELSE Missing IN
       edit' = IF edit.id # 0 /\ ~Listing /\ c \notin {Shown, Missing}
                 THEN [id |-> c.id, src |-> c.src] ELSE edit
  /\ tab' = Tab(look)
  /\ UNCHANGED <<dbVars, look, sent, doomed, importVars>>

-----------------------------------------------------------------------------
Pages == {<<"list", "all">>, <<"id", 0>>} \cup {<<"id", i>> : i \in Ids} \cup {<<"slug", s>> : s \in Slugs}

CpInit ==
  /\ db = LET n == CHOOSE n \in [Slugs -> 1..Cardinality(Slugs)] : \A s, t \in Slugs : n[s] = n[t] => s = t
              u == CHOOSE u \in Urls : TRUE
          IN [s \in Slugs |-> [id |-> n[s], src |-> u, files |-> u, runs |-> 0]]
  /\ ids = Cardinality(Slugs) /\ template = 1
  /\ look \in [key : {<<"list", "all">>, <<"id", 0>>, <<"id", 1>>}, mode : {"readme"}, runs : {FALSE}, on : {{}}]
  /\ cache = [k \in {} |-> NoEntry] /\ missed = {}
  /\ tab = Missing /\ sent = {} /\ edit = Closed /\ doomed = 0
  /\ form = NoForm /\ clash = Missing /\ importing = NoImport
  /\ named = {} /\ loose = FALSE /\ unasked = FALSE /\ events = 0

CpNext ==
  \/ \E k \in Pages : (k[1] = "id" => k[2] <= ids) /\ Open(k)
  \/ \E q \in Searches : Search(q)
  \/ ShowReadme \/ ShowDag \/ ShowRuns \/ OpenFile \/ CloseFiles \/ Save \/ Delete \/ Pull
  \/ Rendered \/ Cancel \/ OpenImport \/ CancelImport \/ ImportStep \/ HearImport \/ Background
  \/ \E i \in Ids : OpenEdit(i) \/ OpenDelete(i)
  \/ \E u \in Urls : Type(u)
  \/ \E m \in sent : Serve(m) \/ Fail(m) \/ Hear(m)
  \/ \E u \in Urls : TypeUrl(u)
  \/ \E s \in Slugs : Import(s, FALSE) \/ Import(s, TRUE) \/ Others(s)

CpSpec == CpInit /\ [][CpNext]_cpVars

-----------------------------------------------------------------------------
(* Properties *)

(* Every variable holds a value of its kind; what is asked for is in view, *)
(* and no two dialogs of the page are open, but the one over the import.   *)
CpTypeOK ==
  /\ ids \in 0..MaxIds /\ template \in 1..2
  /\ \A s \in Existing : db[s].id \in 1..ids /\ {db[s].src, db[s].files} \subseteq Sources
  /\ \A s, t \in Existing : db[s].id = db[t].id => s = t
  /\ \A k \in DOMAIN cache : cache[k].stage # "idle" => k \in InView
  /\ \/ edit = Closed /\ doomed = 0
     \/ edit = Closed /\ ~form.open
     \/ doomed = 0 /\ ~form.open
  /\ Cardinality(look.on) <= 1 /\ (tab # Missing => Editing(look))

(* When nothing is under way, the pages show what the changes made on them *)
(* have led to.  Excepted are what others changed since it was read, files *)
(* and runs, a catalog opened by its slug or after its deletion, a change  *)
(* whose failure was heard after its COMMIT, an entry whose last read      *)
(* failed, and an invalidation that met the first request.                 *)
CatalogsShown ==
  (sent = {} /\ importing.stage = "idle" /\ Idle(InView)) =>
    \A k \in InView \cap DOMAIN cache : k \in missed \/ Entry(k).data = Read(k)

(* An import replaces a catalog of another source only after the dialog    *)
(* has named both, whichever of its buttons are used, and however often.   *)
(* Excepted are a form that is changed while an import is pending, and a   *)
(* source that is changed meanwhile, by somebody else or by a save of the  *)
(* page's own that was still under way.                                    *)
NoUnaskedOverwrite == unasked => loose
===============================================================================
