--------------------------- MODULE WebSessionProofs ---------------------------
(* Theorems about WebSession, for any tabs, logins and events.             *)
EXTENDS WebSession, TLAPS

-----------------------------------------------------------------------------
(* The inductive invariant *)

\* what a tab may be when n JWTs have been given out
TabsOf(n) == [at : {"login", "app"}, link : BOOLEAN, jwt : 0..n, started : BOOLEAN, key : BOOLEAN]

Answers == {"none", "asked", "making", "yes", "no"}

WebTypes ==
  /\ issued \in 0..MaxJwts /\ stored \in 0..issued /\ dead \subseteq 1..issued
  /\ tabs \in [Tabs -> TabsOf(issued)]
  /\ calls \in [Tabs -> SUBSET (0..issued)] /\ refused \in [Tabs -> BOOLEAN]

CliTypes ==
  /\ approve \in [Tabs -> Answers]
  /\ lock \in Tabs \cup {Nobody} /\ device \in {"none", "waiting", "ready"}
  /\ cli \in {"start", "waits", "asked", "answered", "has", "expired", "failed", "timed out"}

(* The lock belongs to the approval that is making a token, and a tab with *)
(* an approval has its key, without which it asks for another.             *)
Locked == \A t \in Tabs : /\ approve[t] = "making" <=> lock = t
                          /\ approve[t] # "none" => tabs[t].key

(* There is no token as long as one can still be made.                     *)
OneToken ==
  /\ apis \in {0, 1}
  /\ lock # Nobody \/ device = "waiting" \/ cli = "start" => apis = 0
  /\ device = "ready" \/ cli \in {"answered", "has"} => apis = 1
  /\ cli = "start" => device = "none" /\ lock = Nobody

\* the session is gone once the CLI knows it, and before only by a restart
SessionKept ==
  /\ cli \in {"answered", "has", "expired"} => device = "none"
  /\ lock # Nobody /\ device = "none" => restarted \/ cli \in {"failed", "timed out"}

\* the session's own variables: events are counted by the other pages, too
ownVars == <<webVars, cliVars>>

WsInv == WebTypes /\ CliTypes /\ Locked /\ OneToken /\ SessionKept /\ ApprovedMeansIt

-----------------------------------------------------------------------------
(* The tabs *)

\* where a tab goes by itself keeps its kind, and an approval sets its key
LEMMA LandedTab ==
  ASSUME NEW n \in Nat, NEW tab \in TabsOf(n)
  PROVE  /\ Landed(tab) \in TabsOf(n)
         /\ tab.key \/ Approves(tab) => Landed(tab).key
         /\ Approves(tab) => ~tab.key
BY DEF TabsOf, Landed, Approves

LEMMA BecomeKeeps ==
  ASSUME WsInv, JwtsAssumption, NEW t \in Tabs, NEW tab \in TabsOf(issued'), tab.key = tabs[t].key,
         NEW old \in SUBSET (0..issued'), issued' \in issued..MaxJwts, stored' \in 0..issued',
         Become(t, tab, old), UNCHANGED <<lock, device, apis, cli, restarted>>
  PROVE  /\ tabs' \in [Tabs -> TabsOf(issued')] /\ calls' \in [Tabs -> SUBSET (0..issued')]
         /\ CliTypes' /\ Locked' /\ OneToken' /\ SessionKept' /\ ApprovedMeansIt'
<1>1. issued' \in Nat /\ 0..issued \subseteq 0..issued'
  BY DEF WsInv, WebTypes, JwtsAssumption
<1>2. tabs \in [Tabs -> TabsOf(issued')] /\ calls \in [Tabs -> SUBSET (0..issued')]
  BY <1>1 DEF WsInv, WebTypes, TabsOf
<1>3. /\ Landed(tab) \in TabsOf(issued')
      /\ tab.key \/ Approves(tab) => Landed(tab).key
      /\ Approves(tab) => ~tab.key
  BY <1>1, LandedTab
<1>4. tabs' \in [Tabs -> TabsOf(issued')] /\ calls' \in [Tabs -> SUBSET (0..issued')]
  BY <1>2, <1>3 DEF Become
<1>5. approve' \in [Tabs -> Answers] /\ \A u \in Tabs :
        /\ approve'[u] = approve[u] \/ (approve'[u] = "asked" /\ approve[u] = "none" /\ tabs'[u].key)
        /\ tabs[u].key => tabs'[u].key
  <2>1. CASE Approves(tab)
    <3>1. approve[t] = "none"
      BY <2>1, <1>3 DEF WsInv, Locked
    <3> QED
      BY <2>1, <3>1, <1>2, <1>3 DEF Become, WsInv, CliTypes, Answers
  <2>2. CASE ~Approves(tab)
    BY <2>2, <1>2, <1>3 DEF Become, WsInv, CliTypes
  <2> QED
    BY <2>1, <2>2
<1>6. CliTypes'
  BY <1>5 DEF WsInv, CliTypes
<1>7. Locked' /\ ApprovedMeansIt'
  BY <1>5 DEF WsInv, Locked, ApprovedMeansIt
<1>8. OneToken' /\ SessionKept'
  BY DEF WsInv, OneToken, SessionKept
<1> QED
  BY <1>4, <1>6, <1>7, <1>8

\* what a tab does or is told, the approval of the CLI left aside
TabStep(t) ==
  \/ Open(t, "login", FALSE) \/ Open(t, "login", TRUE) \/ Open(t, "app", FALSE)
  \/ Login(t) \/ Logout(t) \/ Ask(t) \/ Intercept(t)
  \/ \E j \in 0..MaxJwts : ServeCall(t, j)

LEMMA LoadKeeps ==
  ASSUME WsInv, JwtsAssumption, NEW t \in Tabs, NEW at \in {"login", "app"}, NEW link \in BOOLEAN,
         UNCHANGED <<issued, dead, lock, device, apis, cli, restarted>>, stored' \in 0..issued,
         Load(t, at, link)
  PROVE  WsInv'
<1> DEFINE tab == [tabs[t] EXCEPT !.at = at, !.link = link, !.jwt = stored', !.started = FALSE]
<1>1. issued \in Nat /\ issued' \in issued..MaxJwts /\ stored' \in 0..issued'
  BY DEF WsInv, WebTypes, JwtsAssumption
<1>2. tab \in TabsOf(issued') /\ tab.key = tabs[t].key
  BY <1>1 DEF WsInv, WebTypes, TabsOf
<1>3. Become(t, tab, {})
  BY DEF Load
<1>4. /\ tabs' \in [Tabs -> TabsOf(issued')] /\ calls' \in [Tabs -> SUBSET (0..issued')]
      /\ CliTypes' /\ Locked' /\ OneToken' /\ SessionKept' /\ ApprovedMeansIt'
  <2> HIDE DEF tab
  <2> QED
    BY <1>1, <1>2, <1>3, BecomeKeeps
<1>5. WebTypes'
  BY <1>1, <1>4 DEF WsInv, WebTypes, Load
<1> QED
  BY <1>4, <1>5 DEF WsInv

LEMMA TabStepKeeps ==
  ASSUME WsInv, JwtsAssumption, NEW t \in Tabs, TabStep(t)
  PROVE  WsInv'
<1>0. issued \in Nat /\ issued <= MaxJwts /\ stored \in 0..issued /\ 0 \in 0..issued
  BY DEF WsInv, WebTypes, JwtsAssumption
<1>1. ASSUME NEW at \in {"login", "app"}, NEW link \in BOOLEAN, Open(t, at, link)
      PROVE  WsInv'
  BY <1>0, <1>1, LoadKeeps DEF Open
<1>2. CASE Login(t)
  <2> DEFINE tab == [tabs[t] EXCEPT !.jwt = issued']
  <2>1. /\ issued' = issued + 1 /\ issued' \in issued..MaxJwts /\ stored' \in 0..issued'
        /\ dead' = dead /\ refused' = refused
    BY <1>0, <1>2 DEF Login, JwtsAssumption
  <2>2. tab \in TabsOf(issued') /\ tab.key = tabs[t].key /\ calls[t] \in SUBSET (0..issued')
    BY <1>0, <2>1 DEF WsInv, WebTypes, TabsOf
  <2>3. Become(t, tab, calls[t]) /\ UNCHANGED <<lock, device, apis, cli, restarted>>
    BY <1>2 DEF Login
  <2>4. /\ tabs' \in [Tabs -> TabsOf(issued')] /\ calls' \in [Tabs -> SUBSET (0..issued')]
        /\ CliTypes' /\ Locked' /\ OneToken' /\ SessionKept' /\ ApprovedMeansIt'
    <3> HIDE DEF tab
    <3> QED
      BY <2>1, <2>2, <2>3, BecomeKeeps
  <2>5. WebTypes'
    BY <1>0, <2>1, <2>4 DEF WsInv, WebTypes, JwtsAssumption
  <2> QED
    BY <2>4, <2>5 DEF WsInv
<1>3. CASE Logout(t)
  BY <1>0, <1>3, LoadKeeps DEF Logout
<1>4. CASE Ask(t)
  <2>1. WebTypes'
    BY <1>0, <1>4 DEF Ask, WsInv, WebTypes
  <2> QED
    BY <2>1, <1>4 DEF Ask, cliVars, WsInv, CliTypes, Locked, OneToken, SessionKept, ApprovedMeansIt
<1>5. CASE Intercept(t)
  <2>1. CASE tabs[t].at = "login"
    <3>1. WebTypes'
      BY <1>0, <1>5, <2>1 DEF Intercept, WsInv, WebTypes
    <3> QED
      BY <3>1, <1>5, <2>1 DEF Intercept, WsInv, CliTypes, Locked, OneToken, SessionKept, ApprovedMeansIt
  <2>2. CASE tabs[t].at # "login"
    BY <1>0, <1>5, <2>2, LoadKeeps DEF Intercept
  <2> QED
    BY <2>1, <2>2
<1>6. ASSUME NEW j \in 0..MaxJwts, ServeCall(t, j)
      PROVE  WsInv'
  <2>1. WebTypes'
    BY <1>6 DEF ServeCall, WsInv, WebTypes
  <2> QED
    BY <2>1, <1>6 DEF ServeCall, cliVars, WsInv, CliTypes, Locked, OneToken, SessionKept, ApprovedMeansIt
<1> QED
  BY <1>1, <1>2, <1>3, <1>4, <1>5, <1>6 DEF TabStep

-----------------------------------------------------------------------------
(* flowo login *)

\* the approvals of the CLI, and what the CLI and its server do
CliStep ==
  \/ \E t \in Tabs : TakeApproval(t) \/ MakeToken(t) \/ MakeFails(t) \/ HearApproval(t)
  \/ StartCli \/ Poll \/ ServePoll \/ GetToken \/ GiveUp \/ ExpireSession \/ Restart

\* a token that was being made when the server died is the only one
LEMMA RestartTokens ==
  ASSUME WsInv, Restart
  PROVE  apis' \in {0, 1} /\ (cli = "start" => apis' = 0) /\ (apis = 1 => apis' = 1)
<1>1. apis \in {0, 1} /\ (lock # Nobody \/ cli = "start" => apis = 0) /\ (cli = "start" => lock = Nobody)
  BY DEF WsInv, OneToken
<1>2. apis' \in IF lock = Nobody THEN {apis} ELSE {apis, apis + 1}
  BY DEF Restart
<1> QED
  BY <1>1, <1>2

LEMMA CliStepKeeps ==
  ASSUME WsInv, JwtsAssumption, CliStep
  PROVE  WsInv'
<1>1. ASSUME NEW t \in Tabs, TakeApproval(t)
      PROVE  WsInv'
  <2>1. WebTypes'
    BY <1>1 DEF TakeApproval, webVars, WsInv, WebTypes
  <2>2. CASE approve'[t] = "making"
    <3>1. /\ device = "waiting" /\ lock = Nobody /\ lock' = t
          /\ approve' = [approve EXCEPT ![t] = "making"] /\ approve[t] = "asked"
      BY <1>1, <2>2 DEF TakeApproval, WsInv, CliTypes
    <3>2. CliTypes'
      BY <1>1, <3>1 DEF TakeApproval, WsInv, CliTypes, Answers
    <3>3. Locked'
      <4>1. \A u \in Tabs : lock # u /\ tabs'[u] = tabs[u]
        BY <1>1, <3>1 DEF TakeApproval, webVars, JwtsAssumption
      <4> QED
        BY <3>1, <4>1 DEF WsInv, CliTypes, Locked
    <3>4. OneToken' /\ SessionKept'
      BY <1>1, <3>1 DEF TakeApproval, WsInv, OneToken, SessionKept
    <3>5. ApprovedMeansIt'
      BY <1>1, <3>1 DEF TakeApproval, WsInv, CliTypes, ApprovedMeansIt
    <3> QED
      BY <2>1, <3>2, <3>3, <3>4, <3>5 DEF WsInv
  <2>3. CASE approve'[t] # "making"
    <3> DEFINE a == approve'[t]
    <3> DEFINE made == CASE ~Alive(bearer[t]) \/ device = "none" -> "no"
                         [] device = "ready" -> "yes"
                         [] OTHER -> "making"
    <3>0. approve[t] = "asked" /\ approve' = [approve EXCEPT ![t] = made]
      BY <1>1 DEF TakeApproval
    <3>1. a = made
      BY <3>0 DEF WsInv, CliTypes
    <3>2. approve' = [approve EXCEPT ![t] = a]
      BY <3>0, <3>1
    <3>3. lock' = lock
      BY <1>1, <2>3 DEF TakeApproval
    <3>4. a \in {"no", "yes"} /\ (a = "yes" => device = "ready")
      BY <3>1, <2>3
    <3> HIDE DEF a, made
    <3>5. CliTypes' /\ Locked'
      BY <1>1, <3>0, <3>2, <3>3, <3>4 DEF TakeApproval, webVars, WsInv, CliTypes, Answers, Locked
    <3>6. OneToken' /\ SessionKept'
      BY <1>1, <3>3 DEF TakeApproval, WsInv, OneToken, SessionKept
    <3>7. ApprovedMeansIt'
      BY <1>1, <3>2, <3>4 DEF TakeApproval, WsInv, CliTypes, ApprovedMeansIt
    <3> QED
      BY <2>1, <3>5, <3>6, <3>7 DEF WsInv
  <2> QED
    BY <2>2, <2>3
<1>2. ASSUME NEW t \in Tabs, MakeToken(t)
      PROVE  WsInv'
  <2>1. approve[t] = "making" /\ lock = t /\ lock # Nobody
    BY <1>2 DEF MakeToken, WsInv, Locked, JwtsAssumption
  <2>2. apis = 0 /\ device # "ready" /\ cli \notin {"start", "answered", "has"}
    BY <2>1 DEF WsInv, OneToken
  <2>3. /\ lock' = Nobody /\ cli' = cli /\ restarted' = restarted
        /\ device' = IF device = "waiting" THEN "ready" ELSE device
        /\ approve' = [approve EXCEPT ![t] = "yes"]
    BY <1>2, <2>1 DEF MakeToken
  <2>4. apis' = 1
    BY <1>2, <2>2 DEF MakeToken
  <2>5. WebTypes'
    BY <1>2 DEF MakeToken, webVars, WsInv, WebTypes
  <2>6. CliTypes' /\ Locked'
    BY <1>2, <2>1, <2>3 DEF MakeToken, webVars, WsInv, CliTypes, Answers, Locked, JwtsAssumption
  <2>7. OneToken'
    BY <2>2, <2>3, <2>4 DEF WsInv, CliTypes, OneToken
  <2>8. SessionKept'
    BY <2>2, <2>3 DEF WsInv, SessionKept
  <2>9. ApprovedMeansIt'
    BY <2>1, <2>2, <2>3 DEF WsInv, CliTypes, SessionKept, ApprovedMeansIt
  <2> QED
    BY <2>5, <2>6, <2>7, <2>8, <2>9 DEF WsInv
<1>3. ASSUME NEW t \in Tabs, HearApproval(t)
      PROVE  WsInv'
  <2>1. WebTypes'
    <3>1. tabs[t] \in TabsOf(issued)
      BY DEF WsInv, WebTypes
    <3>2. /\ [tabs[t] EXCEPT !.at = "app", !.link = FALSE, !.started = FALSE] \in TabsOf(issued)
          /\ [tabs[t] EXCEPT !.key = FALSE] \in TabsOf(issued)
      BY <3>1 DEF TabsOf
    <3>3. tabs' \in [Tabs -> TabsOf(issued)]
      <4>1. CASE approve[t] = "yes"
        <5>1. tabs' = [tabs EXCEPT ![t] = [tabs[t] EXCEPT !.at = "app", !.link = FALSE, !.started = FALSE]]
          BY <1>3, <4>1, <3>1 DEF HearApproval, TabsOf
        <5> QED
          BY <5>1, <3>2 DEF WsInv, WebTypes
      <4>2. CASE approve[t] # "yes"
        BY <1>3, <4>2, <3>2 DEF HearApproval, WsInv, WebTypes
      <4> QED
        BY <4>1, <4>2
    <3>4. calls' \in [Tabs -> SUBSET (0..issued)]
      BY <1>3 DEF HearApproval, WsInv, WebTypes
    <3> QED
      BY <1>3, <3>3, <3>4 DEF HearApproval, WsInv, WebTypes
  <2>2. CliTypes' /\ approve' = [approve EXCEPT ![t] = "none"]
    BY <1>3 DEF HearApproval, WsInv, CliTypes, Answers
  <2>3. Locked'
    <3>1. lock' = lock /\ approve[t] # "making" /\ \A u \in Tabs : u # t => tabs'[u] = tabs[u]
      BY <1>3 DEF HearApproval, WsInv, WebTypes
    <3> QED
      BY <2>2, <3>1 DEF WsInv, CliTypes, Locked
  <2>4. OneToken' /\ SessionKept'
    BY <1>3 DEF HearApproval, WsInv, OneToken, SessionKept
  <2>5. ApprovedMeansIt'
    BY <1>3, <2>2 DEF HearApproval, WsInv, CliTypes, ApprovedMeansIt
  <2> QED
    BY <2>1, <2>2, <2>3, <2>4, <2>5 DEF WsInv
<1>4. CASE StartCli \/ Poll \/ ServePoll \/ GetToken \/ GiveUp \/ ExpireSession
  <2>1. WebTypes'
    BY <1>4 DEF StartCli, Poll, ServePoll, GetToken, GiveUp, ExpireSession, webVars, WsInv, WebTypes
  <2>2. CliTypes' /\ Locked'
    BY <1>4 DEF StartCli, Poll, ServePoll, GetToken, GiveUp, ExpireSession, webVars, WsInv, CliTypes,
                Locked
  <2>3. OneToken' /\ SessionKept' /\ ApprovedMeansIt'
    <3>1. CASE StartCli
      BY <3>1 DEF StartCli, WsInv, CliTypes, OneToken, SessionKept, ApprovedMeansIt
    <3>2. CASE Poll
      BY <3>2 DEF Poll, WsInv, CliTypes, OneToken, SessionKept, ApprovedMeansIt
    <3>3. CASE ServePoll
      BY <3>3 DEF ServePoll, WsInv, CliTypes, OneToken, SessionKept, ApprovedMeansIt
    <3>4. CASE GetToken
      BY <3>4 DEF GetToken, WsInv, CliTypes, OneToken, SessionKept, ApprovedMeansIt
    <3>5. CASE GiveUp
      BY <3>5 DEF GiveUp, WsInv, CliTypes, OneToken, SessionKept, ApprovedMeansIt
    <3>6. CASE ExpireSession
      BY <3>6 DEF ExpireSession, WsInv, CliTypes, OneToken, SessionKept, ApprovedMeansIt
    <3> QED
      BY <1>4, <3>1, <3>2, <3>3, <3>4, <3>5, <3>6
  <2> QED
    BY <2>1, <2>2, <2>3 DEF WsInv
<1>5. CASE Restart
  <2>1. WebTypes'
    BY <1>5 DEF Restart, WsInv, WebTypes
  <2>2. CliTypes' /\ Locked'
    BY <1>5 DEF Restart, WsInv, CliTypes, Answers, Locked, JwtsAssumption
  <2>3. apis' \in {0, 1} /\ (cli = "start" => apis' = 0) /\ (apis = 1 => apis' = 1)
    BY <1>5, RestartTokens
  <2>4. OneToken' /\ SessionKept'
    BY <1>5, <2>3 DEF Restart, WsInv, CliTypes, OneToken, SessionKept
  <2>5. ApprovedMeansIt'
    BY <1>5 DEF Restart, ApprovedMeansIt
  <2> QED
    BY <2>1, <2>2, <2>4, <2>5 DEF WsInv
<1>6. ASSUME NEW t \in Tabs, MakeFails(t)
      PROVE  WsInv'
  <2>1. approve[t] = "making" /\ lock = t /\ lock # Nobody
    BY <1>6 DEF MakeFails, WsInv, Locked, JwtsAssumption
  <2>2. lock' = Nobody /\ approve' = [approve EXCEPT ![t] = "no"]
    BY <1>6, <2>1 DEF MakeFails
  <2>3. WebTypes' /\ OneToken' /\ SessionKept'
    BY <1>6, <2>2 DEF MakeFails, webVars, WsInv, WebTypes, OneToken, SessionKept
  <2>4. CliTypes' /\ Locked'
    BY <1>6, <2>1, <2>2 DEF MakeFails, webVars, WsInv, CliTypes, Answers, Locked, JwtsAssumption
  <2>5. ApprovedMeansIt'
    BY <1>6, <2>2 DEF MakeFails, WsInv, CliTypes, ApprovedMeansIt
  <2> QED
    BY <2>3, <2>4, <2>5 DEF WsInv
<1> QED
  BY <1>1, <1>2, <1>3, <1>4, <1>5, <1>6 DEF CliStep

-----------------------------------------------------------------------------
(* Every state of the session *)

LEMMA WsInvInit ==
  ASSUME JwtsAssumption, WsInit
  PROVE  WsInv
BY DEF WsInit, WsInv, WebTypes, CliTypes, Locked, OneToken, SessionKept, ApprovedMeansIt, TabsOf,
       Answers, JwtsAssumption

LEMMA WsInvNext ==
  ASSUME JwtsAssumption, WsInv, [WsNext]_ownVars
  PROVE  WsInv'
<1>1. CASE \E t \in Tabs : TabStep(t)
  BY <1>1, TabStepKeeps
<1>2. CASE CliStep
  BY <1>2, CliStepKeeps
<1>3. ASSUME NEW j \in Jwts, ExpireJwt(j)
      PROVE  WsInv'
  <2>1. WebTypes'
    BY <1>3 DEF ExpireJwt, Alive, Jwts, WsInv, WebTypes
  <2> QED
    BY <2>1, <1>3 DEF ExpireJwt, cliVars, WsInv, CliTypes, Locked, OneToken, SessionKept, ApprovedMeansIt
<1>4. CASE UNCHANGED ownVars
  BY <1>4 DEF ownVars, webVars, cliVars, WsInv, WebTypes, CliTypes, Locked, OneToken, SessionKept,
              ApprovedMeansIt
<1> QED
  BY <1>1, <1>2, <1>3, <1>4 DEF WsNext, TabStep, CliStep

LEMMA WsInvAlways ==
  ASSUME JwtsAssumption
  PROVE  WsInit /\ [][WsNext]_ownVars => []WsInv
<1>1. WsInit => WsInv
  BY WsInvInit
<1>2. WsInv /\ [WsNext]_ownVars => WsInv'
  BY WsInvNext
<1> QED
  BY <1>1, <1>2, PTL

LEMMA SpecIsOwn == WsSpec => WsInit /\ [][WsNext]_ownVars
<1>1. [WsNext]_wsVars => [WsNext]_ownVars
  BY DEF wsVars, ownVars
<1> QED
  BY <1>1, PTL DEF WsSpec

(* The types of the session, its tabs and its approvals: only the approval *)
(* that holds _CLI_LOGIN_LOCK is making a token (api/endpoints/tokens.py). *)
THEOREM SessionTypes ==
  ASSUME JwtsAssumption
  PROVE  WsSpec => []WsTypeOK
<1>1. WsInv => WsTypeOK
  BY DEF WsInv, WebTypes, TabsOf, CliTypes, Locked, WsTypeOK
<1> QED
  BY <1>1, WsInvAlways, SpecIsOwn, PTL

(* A tab that says the CLI is logged in is right, whatever the number of   *)
(* tabs, reloads, polls and expired JWTs, but for a restart (login.tsx).   *)
THEOREM ApprovalsMeanIt ==
  ASSUME JwtsAssumption
  PROVE  WsSpec => []ApprovedMeansIt
<1>1. WsInv => ApprovedMeansIt
  BY DEF WsInv
<1> QED
  BY <1>1, WsInvAlways, SpecIsOwn, PTL

-----------------------------------------------------------------------------
(* A login of the CLI goes as CliLogin says *)

\* the variables that CliLogin is about
PromiseStutters == UNCHANGED <<device, apis, cli>>

LEMMA StutterKeepsPromise ==
  ASSUME PromiseStutters
  PROVE  UNCHANGED Promise!cliLoginVars
BY DEF PromiseStutters, Promise!cliLoginVars, Session

LEMMA CliStepPromised ==
  ASSUME JwtsAssumption, WsInv, CliStep
  PROVE  [Promise!CliLoginNext]_(Promise!cliLoginVars)
<1> USE DEF Session, Promise!cliLoginVars, Promise!CliLoginNext
<1>1. ASSUME NEW t \in Tabs, TakeApproval(t) \/ MakeFails(t) \/ HearApproval(t)
      PROVE  PromiseStutters
  BY <1>1 DEF TakeApproval, MakeFails, HearApproval, PromiseStutters
<1>2. ASSUME NEW t \in Tabs, MakeToken(t)
      PROVE  Promise!Approve \/ Promise!Orphan
  <2>1. lock # Nobody
    BY <1>2 DEF MakeToken, WsInv, Locked, JwtsAssumption
  <2>2. apis = 0 /\ device # "ready" /\ cli \notin {"start", "answered", "has"}
    BY <2>1 DEF WsInv, OneToken
  <2>3. apis' = 1
    BY <1>2, <2>2 DEF MakeToken
  <2>4. CASE device = "waiting"
    BY <1>2, <2>2, <2>3, <2>4 DEF MakeToken, Promise!Approve
  <2>5. CASE device = "none"
    BY <1>2, <2>2, <2>3, <2>5 DEF MakeToken, Promise!Orphan
  <2> QED
    BY <2>2, <2>4, <2>5 DEF WsInv, CliTypes
<1>3. CASE StartCli
  <2>1. device = "none"
    BY <1>3 DEF StartCli, WsInv, OneToken
  <2> QED
    BY <1>3, <2>1 DEF StartCli, Promise!Start
<1>4. CASE Poll
  BY <1>4 DEF Poll
<1>5. CASE ServePoll
  <2>1. CASE device = "ready"
    BY <1>5, <2>1 DEF ServePoll, Promise!End
  <2>2. CASE device # "ready"
    BY <1>5, <2>2 DEF ServePoll
  <2> QED
    BY <2>1, <2>2
<1>6. CASE GetToken
  <2>1. device = "none" /\ apis = 1
    BY <1>6 DEF GetToken, WsInv, OneToken, SessionKept
  <2> QED
    BY <1>6, <2>1 DEF GetToken, Promise!Obtain
<1>7. CASE GiveUp
  BY <1>7 DEF GiveUp
<1>8. CASE ExpireSession
  BY <1>8 DEF ExpireSession, Promise!End, WsInv, CliTypes
<1>9. CASE Restart
  <2>1. apis' \in {0, 1} /\ (cli = "start" => apis' = 0) /\ (apis = 1 => apis' = 1)
    BY <1>9, RestartTokens
  <2>2. device' = "none" /\ cli' = IF cli \in {"asked", "answered"} THEN "failed" ELSE cli
    BY <1>9 DEF Restart
  <2>3. apis \in {0, 1} /\ (cli = "start" => device = "none" /\ apis = 0) /\ (cli = "has" => apis = 1)
    BY DEF WsInv, OneToken
  <2>4. CASE device # "none"
    <3>1. Promise!End
      BY <2>1, <2>2, <2>3, <2>4 DEF Promise!End, WsInv, CliTypes
    <3> QED
      BY <3>1
  <2>5. CASE device = "none"
    <3>1. CASE apis' = apis
      BY <2>2, <2>5, <3>1
    <3>2. CASE apis' # apis
      <4>1. apis = 0 /\ apis' = 1 /\ cli \notin {"start", "has"}
        BY <2>1, <2>3, <3>2
      <4>2. Promise!Orphan
        BY <2>2, <2>5, <4>1 DEF Promise!Orphan
      <4> QED
        BY <4>2
    <3> QED
      BY <3>1, <3>2
  <2> QED
    BY <2>4, <2>5
<1> QED
  BY <1>1, <1>2, <1>3, <1>4, <1>5, <1>6, <1>7, <1>8, <1>9, StutterKeepsPromise DEF CliStep

LEMMA StepPromised ==
  ASSUME JwtsAssumption, WsInv, [WsNext]_ownVars
  PROVE  [Promise!CliLoginNext]_(Promise!cliLoginVars)
<1>1. CASE CliStep
  BY <1>1, CliStepPromised
<1>2. ASSUME NEW t \in Tabs, TabStep(t)
      PROVE  PromiseStutters
  BY <1>2 DEF TabStep, Open, Login, Logout, Ask, Intercept, ServeCall, cliVars, PromiseStutters
<1>3. ASSUME NEW j \in Jwts, ExpireJwt(j)
      PROVE  PromiseStutters
  BY <1>3 DEF ExpireJwt, cliVars, PromiseStutters
<1>4. ASSUME UNCHANGED ownVars
      PROVE  PromiseStutters
  BY <1>4 DEF ownVars, cliVars, PromiseStutters
<1> QED
  BY <1>1, <1>2, <1>3, <1>4, StutterKeepsPromise DEF WsNext, TabStep, CliStep

(* However many tabs hold the address of the CLI, one API token at most is *)
(* made for a login and it is given out once (api/endpoints/tokens.py).    *)
THEOREM SessionKeepsPromise ==
  ASSUME JwtsAssumption
  PROVE  WsSpec => KeepsCliPromise
<1>1. WsInit => Promise!CliLoginInit
  BY DEF WsInit, Promise!CliLoginInit, Session
<1>2. WsInv /\ [WsNext]_ownVars => [Promise!CliLoginNext]_(Promise!cliLoginVars)
  BY StepPromised
<1> QED
  BY <1>1, <1>2, WsInvAlways, SpecIsOwn, PTL DEF KeepsCliPromise, Promise!CliLoginSpec
================================================================================
