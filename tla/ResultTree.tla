------------------------------ MODULE ResultTree ------------------------------
(***************************************************************************)
(* The outputs of a run as the page shows them: a tree whose folders are   *)
(* listed by the server when they are opened for the first time, under a   *)
(* root listing that a query reads again, while the run goes on writing.   *)
(*                                                                         *)
(* A path is a sequence of names; the root is <<>>.                        *)
(***************************************************************************)
EXTENDS Naturals, Sequences

CONSTANTS
  Paths,     \* what may come to be on disk
  Folders,   \* those that are directories
  MaxEvents  \* bound: clicks, writes of the run, faults, refetches of the root

\* what WebPages assumes of them
PathsAssumption ==
  /\ Folders \subseteq Paths
  /\ \A p \in Paths : /\ p \in Seq(Nat) /\ p # <<>>
                      /\ \A n \in 1..Len(p) : SubSeq(p, 1, n) \in Paths

Parent(p) == SubSeq(p, 1, Len(p) - 1)

VARIABLES
  disk,      \* the paths that exist
  listed,    \* treeData: the children of the folders that have been given some
  loads,     \* loads[p]: a listing on its way: [is, list]
  before,    \* history: before[p]: listed, when p was asked for
  loaded,    \* loadedKeys of the component
  settled,   \* loadedKeys of antd's tree: folders whose loadData has resolved
  open,      \* folders expanded
  selected,  \* the node shown beside the tree, or <<>>
  full,      \* whether it fills the screen
  got,       \* history: got[p]: the listing the page was given for p
  spoilt,    \* history: folders that a failure or a new root has emptied
  events

treeVars == <<listed, loads, before, loaded, settled, open, selected, full, got, spoilt>>
rtVars == <<disk, treeVars, events>>

Event == events < MaxEvents /\ events' = events + 1

Listing(p) == {q \in disk : Parent(q) = p}

\* nodes of the tree: the children of the root, and of nodes with children
InTree(p) == /\ p \in Paths
             /\ \A n \in 0..(Len(p) - 1) : SubSeq(p, 1, n) \in DOMAIN listed /\ SubSeq(p, 1, n + 1) \in listed[SubSeq(p, 1, n)]

Asked(p) == p \in DOMAIN loads

-----------------------------------------------------------------------------
(* The run writes a file, with the folders it is in. *)
RunWrites(p) ==
  /\ Event /\ p \notin disk /\ p \notin Folders
  /\ disk' = disk \cup {SubSeq(p, 1, n) : n \in 1..Len(p)}
  /\ UNCHANGED treeVars

(* The root's listing has changed: the effect builds the tree anew and     *)
(* forgets what was loaded; antd's tree does not, and answers that are on  *)
(* their way still come.                                                   *)
NewRoot ==
  /\ Event /\ (<<>> \in DOMAIN listed => listed[<<>>] # Listing(<<>>))
  /\ listed' = [p \in {<<>>} |-> Listing(p)]
  /\ loaded' = {} /\ selected' = <<>>
  /\ spoilt' = spoilt \cup settled \cup DOMAIN loads
  /\ UNCHANGED <<disk, loads, before, settled, open, full, got>>

(* A folder is opened.  antd's tree calls loadData if it has no children   *)
(* and has not been loaded; onLoadData looks at its own set, too, which is *)
(* a part of that (RtTypeOK).                                              *)
Expand(p) ==
  /\ Event /\ InTree(p) /\ p \in Folders \ open
  /\ open' = open \cup {p}
  /\ IF (p \in DOMAIN listed /\ listed[p] # {}) \/ p \in settled \cup loaded \/ Asked(p)
       THEN UNCHANGED <<loads, before>>
     ELSE /\ loads' = [q \in DOMAIN loads \cup {p} |->
                         IF q = p THEN [is |-> "asked", list |-> {}] ELSE loads[q]]
          /\ before' = [q \in DOMAIN before \cup {p} |-> IF q = p THEN listed ELSE before[q]]
  /\ UNCHANGED <<disk, listed, loaded, settled, selected, full, got, spoilt>>

Collapse(p) ==
  /\ Event /\ InTree(p) /\ p \in open /\ open' = open \ {p}
  /\ UNCHANGED <<disk, listed, loads, before, loaded, settled, selected, full, got, spoilt>>

\* list_files: a scan of the directory, which may be refused
ServeList(p) ==
  /\ Asked(p) /\ loads[p].is = "asked"
  /\ \/ /\ loads' = [loads EXCEPT ![p] = [is |-> "answer", list |-> Listing(p)]]
        /\ UNCHANGED events
     \/ Event /\ loads' = [loads EXCEPT ![p].is = "failed"]
  /\ UNCHANGED <<disk, listed, before, loaded, settled, open, selected, full, got, spoilt>>

With(tree, p, list) == [q \in DOMAIN tree \cup {p} |-> IF q = p THEN list ELSE tree[q]]

\* mutant: the tree that was there when the listing was asked for
UpdateTreeAsAsked(p, list) == With(before[p], p, list)

\* updateTreeData, at any depth of the tree as it is now
UpdateTree(p, list) == IF InTree(p) THEN With(listed, p, list) ELSE listed

Without(f, p) == [q \in DOMAIN f \ {p} |-> f[q]]

\* the promise resolves, whatever has become of the listing
HearList(p) ==
  /\ Asked(p) /\ loads[p].is # "asked"
  /\ IF loads[p].is = "answer"
       THEN /\ listed' = UpdateTree(p, loads[p].list)
            /\ loaded' = loaded \cup {p} /\ got' = With(got, p, loads[p].list)
            /\ UNCHANGED spoilt
       ELSE spoilt' = spoilt \cup {p} /\ UNCHANGED <<listed, loaded, got>>
  /\ settled' = settled \cup {p}
  /\ loads' = Without(loads, p) /\ before' = Without(before, p)
  /\ UNCHANGED <<disk, open, selected, full, events>>

\* a node is selected, to be previewed if it is a file, or downloaded
Select(p) ==
  /\ Event /\ ~full /\ InTree(p) /\ p # selected
  /\ selected' = p
  /\ UNCHANGED <<disk, listed, loads, before, loaded, settled, open, full, got, spoilt>>

Fullscreen ==
  /\ Event /\ (~full => selected \in Paths \ Folders)
  /\ full' = ~full
  /\ UNCHANGED <<disk, listed, loads, before, loaded, settled, open, selected, got, spoilt>>

-----------------------------------------------------------------------------
RtInit ==
  /\ disk \in {{}, Folders}
  /\ listed = [p \in {} |-> {}] /\ got = [p \in {} |-> {}]
  /\ loads = [p \in {} |-> {}] /\ before = [p \in {} |-> {}]
  /\ loaded = {} /\ settled = {} /\ open = {} /\ spoilt = {}
  /\ selected = <<>> /\ full = FALSE /\ events = 0

RtNext ==
  \/ NewRoot \/ Fullscreen
  \/ \E p \in Paths : RunWrites(p) \/ Expand(p) \/ Collapse(p) \/ ServeList(p) \/ HearList(p) \/ Select(p)

RtSpec == RtInit /\ [][RtNext]_rtVars

-----------------------------------------------------------------------------
(* Properties *)

(* Every variable holds a value of its kind; only folders of the tree that *)
(* have been listed have children, and what is shown beside it is in it.   *)
RtTypeOK ==
  /\ disk \subseteq Paths /\ full \in BOOLEAN
  /\ DOMAIN loads = DOMAIN before /\ DOMAIN loads \subseteq Folders
  /\ \A p \in DOMAIN listed : listed[p] \subseteq disk /\ (p # <<>> => InTree(p))
  /\ loaded \subseteq settled /\ open \subseteq Folders
  /\ selected # <<>> => InTree(selected)

(* A folder that is open shows what the server answered for it, however    *)
(* the listings of several folders overlap and in whatever order they      *)
(* come; unless its listing failed, or the root was read again, after      *)
(* which antd's tree asks no more.                                         *)
FoldersFill ==
  \A p \in open : InTree(p) /\ ~Asked(p) /\ p \notin spoilt =>
    p \in DOMAIN listed /\ p \in DOMAIN got /\ listed[p] = got[p]
===============================================================================
