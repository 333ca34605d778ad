------------------------------ MODULE DagPreview ------------------------------
(***************************************************************************)
(* The picture of a workflow's rules: pages ask for it, start its making   *)
(* and poll until it is there; a job in a thread of the server makes it;   *)
(* both know of each other only by two files and by a registry of the jobs *)
(* under way.                                                              *)
(***************************************************************************)
EXTENDS Naturals

CONSTANTS
  Viewers,    \* pages that show the picture
  MaxPolls,   \* polls of one effect, 90 in the code
  MaxEvents   \* bound: clicks, uploads, faults, restarts

\* what WebPages assumes of them
DagAssumption == MaxPolls \in Nat \ {0} /\ MaxEvents \in Nat

VARIABLES
  variant,   \* "catalog" or "snake-template"
  image,     \* the user has uploaded a picture
  svg,       \* dag.svg: "none", "half" while it is being written, or "whole"
  err,       \* dag_error.txt exists
  busy,      \* the job is in _generating_job_keys
  job,       \* "none", "queued", "cleared", "drawing" or "written"
  view,      \* view[v]: [phase, tries, forced] of the component
  asks,      \* asks[v]: its effects: what each waits for, until it is over
  card,      \* the preview of a card of the list
  swept,     \* history: a POST has removed what an ending job had just written,
             \* or removed something and found no Snakefile
  lost,      \* history: a job died, or the server did
  events

dagFiles == <<image, svg, err>>
dagVars == <<variant, dagFiles, busy, job, view, asks, card, swept, lost, events>>

Event == events < MaxEvents /\ events' = events + 1

\* the event loop is in the middle of a POST, which does not await there
Starting == \E v \in Viewers : \E a \in asks[v] : a.at = "sweep"

-----------------------------------------------------------------------------
(* The page *)

(* The effect, which any change of the forced flag runs anew: what is on   *)
(* its way for the effect before is still heard, its timer is not.         *)
Effect(v, forced, old) ==
  /\ view' = [view EXCEPT ![v] = [phase |-> "boot", tries |-> 0, forced |-> forced]]
  /\ asks' = [asks EXCEPT ![v] =
       {[a EXCEPT !.live = FALSE] : a \in {b \in old : b.at # "wait"}}
         \cup {[at |-> IF variant = "catalog" THEN "preview" ELSE "post", live |-> TRUE, forced |-> forced]}]

Same == UNCHANGED <<variant, dagFiles, busy, job, card, swept, lost>>

OpenDag(v) == Event /\ view[v].phase = "closed" /\ Effect(v, FALSE, asks[v]) /\ Same

\* a POST that was sent is still served
CloseDag(v) ==
  /\ Event /\ view[v].phase # "closed" /\ ~Starting
  /\ view' = [view EXCEPT ![v] = [phase |-> "closed", tries |-> 0, forced |-> FALSE]]
  /\ asks' = [asks EXCEPT ![v] = {[a EXCEPT !.live = FALSE] : a \in {b \in @ : b.at = "post"}}]
  /\ Same

Retry(v) == Event /\ view[v].phase = "error" /\ Effect(v, view[v].forced, asks[v]) /\ Same

Regenerate(v) == Event /\ view[v].phase = "ready" /\ Effect(v, TRUE, asks[v]) /\ Same

Over(v, a) == asks' = [asks EXCEPT ![v] = @ \ {a}]

\* effect a goes on to at, if it is not cancelled
GoesOn(v, a, at) ==
  asks' = [asks EXCEPT ![v] = (@ \ {a}) \cup (IF a.live THEN {[a EXCEPT !.at = at]} ELSE {})]

Phase(v, phase) == view' = [view EXCEPT ![v].phase = phase]

\* a picture has come, even for an effect that is over
Shown(v, a) ==
  IF view[v].forced THEN Effect(v, FALSE, asks[v] \ {a}) ELSE Phase(v, "ready") /\ Over(v, a)

Failed(v, a) == Over(v, a) /\ IF a.live THEN Phase(v, "error") ELSE UNCHANGED view

\* a request fails, or is refused
Fault(v, a) == Event /\ a \in asks[v] /\ a.at \notin {"wait", "sweep"} /\ Failed(v, a) /\ Same

\* tryLoadDagPreview
Preview(v, a) ==
  /\ a \in asks[v] /\ a.at = "preview" /\ ~Starting
  /\ IF image \/ svg # "none" THEN Shown(v, a) ELSE GoesOn(v, a, "post") /\ UNCHANGED view
  /\ Same /\ UNCHANGED events

\* the answer to the POST: there already, or queued
HearPost(v, a) ==
  /\ a \in asks[v] /\ a.at \in {"there", "queued"}
  /\ GoesOn(v, a, IF a.at = "there" THEN "svg once" ELSE "wait")
  /\ IF a.live /\ a.at = "queued" THEN Phase(v, "polling") ELSE UNCHANGED view
  /\ Same /\ UNCHANGED events

Poll(v, a) ==
  /\ a \in asks[v] /\ a.at = "wait"
  /\ IF view[v].tries = MaxPolls
       THEN Failed(v, a)
       ELSE view' = [view EXCEPT ![v].tries = @ + 1] /\ GoesOn(v, a, "svg")
  /\ Same /\ UNCHANGED events

\* tryLoadSvg
LoadSvg(v, a) ==
  /\ a \in asks[v] /\ a.at \in {"svg", "svg once"} /\ ~Starting
  /\ CASE svg # "none" -> Shown(v, a)
       [] svg = "none" /\ err -> Phase(v, "error") /\ Over(v, a)
       [] OTHER -> IF a.at = "svg" THEN GoesOn(v, a, "wait") /\ UNCHANGED view ELSE Failed(v, a)
  /\ Same /\ UNCHANGED events

(* The eye of a card: the preview, then the SVG, in a window of its own.   *)
ClickCard ==
  /\ Event /\ card' = IF card = "closed" THEN "preview" ELSE "closed"
  /\ UNCHANGED <<variant, dagFiles, busy, job, view, asks, swept, lost>>

CardLoads ==
  /\ card \in {"preview", "svg"} /\ ~Starting
  /\ card' = IF svg # "none" \/ (card = "preview" /\ image) THEN "ready"
             ELSE IF card = "preview" THEN "svg" ELSE "error"
  /\ UNCHANGED <<variant, dagFiles, busy, job, view, asks, swept, lost, events>>

Viewer(v) == \E a \in asks[v] : Preview(v, a) \/ HearPost(v, a) \/ Poll(v, a) \/ LoadSvg(v, a)

-----------------------------------------------------------------------------
(* The server *)

\* clear_dag_artifact_files
Sweep == svg' = "none" /\ err' = FALSE

(* POST: as far as the test for the SVG; a template knows no force.  The   *)
(* job runs in a thread, between any two of these steps.                   *)
PostLooks(v, a) ==
  LET forced == a.forced /\ variant = "catalog" IN
  /\ a \in asks[v] /\ a.at = "post" /\ ~Starting
  /\ IF forced THEN Sweep ELSE UNCHANGED <<svg, err>>
  /\ swept' = (swept \/ (forced /\ job = "written"))
  /\ asks' = [asks EXCEPT ![v] = (@ \ {a}) \cup
       {[a EXCEPT !.at = IF svg # "none" /\ ~forced THEN "there" ELSE "sweep"]}]
  /\ UNCHANGED <<variant, image, busy, job, view, card, lost, events>>

\* the files are removed before the registry is asked
PostSweeps(v, a) ==
  /\ a \in asks[v] /\ a.at = "sweep"
  /\ Sweep
  /\ \/ /\ busy' = TRUE /\ job' = IF busy THEN job ELSE "queued"
        /\ asks' = [asks EXCEPT ![v] = (@ \ {a}) \cup {[a EXCEPT !.at = "queued"]}]
        /\ swept' = (swept \/ job = "written")
        /\ UNCHANGED <<view, events>>
     \/ Event /\ Failed(v, a) /\ swept' = TRUE /\ UNCHANGED <<busy, job>>  \* no Snakefile
  /\ UNCHANGED <<variant, image, card, lost>>

JobClears ==
  /\ job = "queued" /\ job' = "cleared"
  /\ Sweep
  /\ UNCHANGED <<variant, image, busy, view, asks, card, swept, lost, events>>

\* snakemake has answered, and snakevision is writing
JobDraws ==
  /\ job = "cleared" /\ job' = "drawing"
  /\ svg' = "half"
  /\ UNCHANGED <<variant, image, err, busy, view, asks, card, swept, lost, events>>

\* mutant: a job that fails leaves nothing
JobWritesSuccess ==
  /\ job \in {"cleared", "drawing"} /\ job' = "written"
  /\ svg' \in {"none", IF svg = "half" THEN "whole" ELSE "none"}
  /\ UNCHANGED <<variant, image, err, busy, view, asks, card, swept, lost, events>>

\* the SVG, or why there is none; a file that was removed is missed
JobWrites ==
  /\ job \in {"cleared", "drawing"} /\ job' = "written"
  /\ \/ svg = "half" /\ svg' = "whole" /\ UNCHANGED err
     \/ svg' = "none" /\ err' = TRUE
  /\ UNCHANGED <<variant, image, busy, view, asks, card, swept, lost, events>>

\* a command that times out when it is run again raises
JobDies ==
  /\ Event /\ job = "cleared" /\ job' = "written" /\ lost' = TRUE
  /\ UNCHANGED <<variant, dagFiles, busy, view, asks, card, swept>>

\* end_generation
JobEnds ==
  /\ job = "written" /\ job' = "none" /\ busy' = FALSE
  /\ UNCHANGED <<variant, dagFiles, view, asks, card, swept, lost, events>>

\* the registry is in memory, the files stay; requests under way fail
RestartServer ==
  /\ Event /\ lost' = TRUE
  /\ busy' = FALSE /\ job' = "none"
  /\ asks' = [v \in Viewers |-> {a \in asks[v] : a.at # "sweep"}]
  /\ view' = [v \in Viewers |->
       IF \E a \in asks[v] : a.live /\ a.at = "sweep" THEN [view[v] EXCEPT !.phase = "error"] ELSE view[v]]
  /\ UNCHANGED <<variant, dagFiles, card, swept>>

\* the user uploads a picture, or removes it
Upload ==
  /\ Event /\ variant = "catalog" /\ ~Starting /\ image' = ~image
  /\ UNCHANGED <<variant, svg, err, busy, job, view, asks, card, swept, lost>>

-----------------------------------------------------------------------------
DagInit ==
  /\ variant \in {"catalog", "snake-template"}
  /\ image = FALSE /\ svg = "none" /\ err = FALSE /\ busy = FALSE /\ job = "none"
  /\ view = [v \in Viewers |-> [phase |-> "closed", tries |-> 0, forced |-> FALSE]]
  /\ asks = [v \in Viewers |-> {}]
  /\ card = "closed" /\ swept = FALSE /\ lost = FALSE /\ events = 0

DagNext ==
  \/ \E v \in Viewers :
       \/ OpenDag(v) \/ CloseDag(v) \/ Retry(v) \/ Regenerate(v) \/ Viewer(v)
       \/ \E a \in asks[v] : Fault(v, a) \/ PostLooks(v, a) \/ PostSweeps(v, a)
  \/ ClickCard \/ CardLoads \/ Upload \/ RestartServer
  \/ JobClears \/ JobDraws \/ JobWrites \/ JobDies \/ JobEnds

DagSpec == DagInit /\ [][DagNext]_dagVars

-----------------------------------------------------------------------------
(* Properties *)

(* Every variable holds a value of its kind; there is a job exactly when   *)
(* the registry says so, and one effect of a page at most is live.         *)
DagTypeOK ==
  /\ svg \in {"none", "half", "whole"} /\ {image, err, busy, swept, lost} \subseteq BOOLEAN
  /\ busy <=> job # "none"
  /\ job \in {"none", "queued", "cleared", "drawing", "written"}
  /\ card \in {"closed", "preview", "svg", "ready", "error"}
  /\ \A v \in Viewers :
       /\ view[v] \in [phase : {"closed", "boot", "polling", "ready", "error"}, tries : 0..MaxPolls, forced : BOOLEAN]
       /\ \A a, b \in asks[v] : a.live /\ b.live => a = b

(* A page that polls polls for something: the job is on its way, or its    *)
(* picture or its error is there, however many pages start, force and      *)
(* leave it.  Excepted are a POST that removes what an ending job has just *)
(* written, or finds no Snakefile after it has removed something, jobs     *)
(* that died and restarts, after which it polls in vain.                   *)
WaitsForSomething ==
  (\E v \in Viewers : \E a \in asks[v] : a.live /\ a.at \in {"queued", "wait", "svg"}) =>
    busy \/ svg # "none" \/ err \/ Starting \/ swept \/ lost
===============================================================================
