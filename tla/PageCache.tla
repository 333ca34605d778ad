------------------------------- MODULE PageCache ------------------------------
(***************************************************************************)
(* The query cache of one page, and what its components and its requests   *)
(* do to it.  The actions take the keys in view.                           *)
(***************************************************************************)
EXTENDS QueryCache

VARIABLES
  cache,     \* cache[k]: the entries, by key
  missed     \* history: keys whose entry may be outdated, and why the code
             \* lets it: an invalidation that met a first request; a read that
             \* failed; what a page adds

cacheVars == <<cache, missed>>

Entry(k) == IF k \in DOMAIN cache THEN cache[k] ELSE NoEntry

Idle(view) == \A k \in view : Entry(k).stage = "idle"

\* mutant: a request goes on although nobody waits for its answer
TurnKeeping(before, after) ==
  cache' = [k \in DOMAIN cache \cup after |-> IF k \in after THEN Observed(Entry(k)) ELSE cache[k]]

(* The components that are rendered look at the keys after; those that     *)
(* only the components before looked at are left, and what stays in view   *)
(* is not asked for because of that.                                       *)
Turn(before, after) ==
  cache' = [k \in DOMAIN cache \cup after |->
              CASE k \in after \ (before \cap DOMAIN cache) -> Observed(Entry(k))
                [] k \in before \ after -> Left(cache[k])
                [] OTHER -> cache[k]]

\* mutant: a request in flight is left to finish
InvalidateLazily(view, tagged) ==
  /\ cache' = [k \in DOMAIN cache |->
                 IF k \in view \cap tagged /\ cache[k].stage = "idle" THEN Asked(cache[k]) ELSE cache[k]]
  /\ UNCHANGED missed

\* the keys tagged are invalidated; those in view are asked again
Invalidate(view, tagged) ==
  /\ cache' = [k \in DOMAIN cache |->
                 IF k \in tagged THEN Invalidated(cache[k], k \in view) ELSE cache[k]]
  /\ missed' = missed \cup {k \in view \cap tagged \cap DOMAIN cache : Overtaken(cache[k])}

\* the server reads v for key k
ServeRead(k, v) ==
  /\ k \in DOMAIN cache /\ cache[k].stage = "sent"
  /\ cache' = [cache EXCEPT ![k] = ReadAs(@, v)]
  /\ missed' = missed \ {k}

Answer(k) ==
  /\ k \in DOMAIN cache /\ cache[k].stage = "read"
  /\ cache' = [cache EXCEPT ![k] = Answered(@)]
  /\ UNCHANGED missed

(* The request and its two repetitions have failed, or were refused: the   *)
(* entry keeps the data it has, and nothing asks for it again before the   *)
(* next invalidation, or before someone turns to it.                       *)
FailRead(k) ==
  /\ k \in DOMAIN cache /\ cache[k].stage # "idle"
  /\ cache' = [cache EXCEPT ![k] = Left(@)]
  /\ missed' = missed \cup {k}

\* thirty seconds after an answer; it matters when someone turns to the key
Expire(k, view) ==
  /\ k \in DOMAIN cache \ view /\ cache[k].fresh
  /\ cache' = [cache EXCEPT ![k] = Expired(@)]
  /\ UNCHANGED missed

\* what goes on by itself; the server answers key k with Read(k), and refuses it if
\* that is Missing
Reads(view, Read(_)) ==
  \E k \in DOMAIN cache : \/ IF Read(k) = Missing THEN FailRead(k) ELSE ServeRead(k, Read(k))
                          \/ Answer(k) \/ Expire(k, view)
===============================================================================
