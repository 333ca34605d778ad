------------------------------ MODULE WebSession ------------------------------
(***************************************************************************)
(* Who is logged in: the tabs of one browser, which share localStorage but *)
(* nothing else, the JWTs they are given, and "flowo login", whose device  *)
(* session a tab approves and whose API token the CLI polls for.           *)
(***************************************************************************)
EXTENDS Naturals

CONSTANTS
  Tabs,
  Nobody,
  MaxJwts,    \* bound: logins
  MaxEvents   \* bound: what the user does, tokens that expire, restarts

\* what WebPages assumes of them
JwtsAssumption == MaxJwts \in Nat \ {0} /\ Nobody \notin Tabs

VARIABLES
  stored,    \* "token" of localStorage: a JWT, or 0
  issued,    \* JWTs 1..issued have been given out
  dead,      \* those that the server refuses
  tabs,      \* tabs[t]: where it is, whether its address holds the codes of the
             \* CLI, the token of its AuthProvider, cliLoginStarted, and the
             \* approvedKey of its sessionStorage
  calls,     \* calls[t]: the tokens that its requests under way carry
  refused,   \* refused[t]: a 401 is on its way to it
  approve,   \* approve[t]: its approval, "none", "asked", "making", "yes" or "no"
  bearer,    \* bearer[t]: the JWT the approval carries
  lock,      \* holder of _CLI_LOGIN_LOCK
  device,    \* the device session: "none", "waiting", or "ready" with its token
  apis,      \* history: API tokens made for it; one whose making failed after its
             \* COMMIT is not counted: nobody has its text
  cli,       \* "start", "waits", "asked", "answered", "has", or why it gave up:
             \* "expired", "failed", "timed out"
  restarted, \* history: the server has been restarted
  events

webVars == <<stored, issued, dead, tabs, calls, refused>>
cliVars == <<approve, bearer, lock, device, apis, cli, restarted>>
wsVars == <<webVars, cliVars, events>>

Jwts == 1..MaxJwts

Alive(j) == j \in 1..issued \ dead

Event == events < MaxEvents /\ events' = events + 1

-----------------------------------------------------------------------------
(* The tabs *)

(* The effect of LoginComponent, whenever the token of the tab changes: it *)
(* asks for the approval of the CLI, once, or leaves for the pages.        *)
Approves(tab) == tab.at = "login" /\ tab.jwt # 0 /\ tab.link /\ ~tab.started /\ ~tab.key

Landed(tab) ==
  CASE Approves(tab) -> [tab EXCEPT !.started = TRUE, !.key = TRUE]
    [] tab.at = "login" /\ tab.jwt # 0 /\ ~tab.link -> [tab EXCEPT !.at = "app"]
    [] tab.at = "app" /\ tab.jwt = 0 -> [tab EXCEPT !.at = "login"]
    [] OTHER -> tab

\* tab t comes to be as in tab; AuthProvider asks who a new token's user is
Become(t, tab, old) ==
  /\ tabs' = [tabs EXCEPT ![t] = Landed(tab)]
  /\ calls' = [calls EXCEPT ![t] = old \cup (IF tab.jwt = 0 THEN {} ELSE {stored'})]
  /\ IF Approves(tab)
       THEN approve' = [approve EXCEPT ![t] = "asked"] /\ bearer' = [bearer EXCEPT ![t] = tab.jwt]
       ELSE UNCHANGED <<approve, bearer>>

\* a page is loaded: what the tab was waiting for is lost, but not sessionStorage
Load(t, at, link) ==
  /\ Become(t, [tabs[t] EXCEPT !.at = at, !.link = link, !.jwt = stored', !.started = FALSE], {})
  /\ refused' = [refused EXCEPT ![t] = FALSE]

\* the user opens or reloads a page, or the address that the CLI printed
Open(t, at, link) ==
  /\ Event /\ (link => at = "login" /\ cli # "start")
  /\ UNCHANGED <<stored, issued, dead, lock, device, apis, cli, restarted>>
  /\ Load(t, at, link)

\* onFinish of the login form: the server's answer is a JWT
Login(t) ==
  /\ Event /\ tabs[t].at = "login" /\ issued < MaxJwts
  /\ issued' = issued + 1 /\ stored' = issued'
  /\ Become(t, [tabs[t] EXCEPT !.jwt = issued'], calls[t])
  /\ UNCHANGED <<dead, refused, lock, device, apis, cli, restarted>>

\* logout
Logout(t) ==
  /\ Event /\ tabs[t].at = "app"
  /\ stored' = 0
  /\ Load(t, "login", FALSE)
  /\ UNCHANGED <<issued, dead, lock, device, apis, cli, restarted>>

\* a page reads something, with the token that is stored at that moment
Ask(t) ==
  /\ Event /\ tabs[t].at = "app"
  /\ calls' = [calls EXCEPT ![t] = @ \cup {stored}]
  /\ UNCHANGED <<stored, issued, dead, tabs, refused, cliVars>>

ServeCall(t, j) ==
  /\ j \in calls[t]
  /\ calls' = [calls EXCEPT ![t] = @ \ {j}]
  /\ refused' = [refused EXCEPT ![t] = @ \/ ~Alive(j)]
  /\ UNCHANGED <<stored, issued, dead, tabs, cliVars, events>>

\* mutant: the token that was refused stays where it is
InterceptKeeping(t) ==
  /\ refused[t]
  /\ UNCHANGED stored
  /\ IF tabs[t].at = "login"
       THEN refused' = [refused EXCEPT ![t] = FALSE] /\ UNCHANGED <<tabs, calls, approve, bearer>>
       ELSE Load(t, "login", FALSE)
  /\ UNCHANGED <<issued, dead, lock, device, apis, cli, restarted, events>>

(* The interceptor of the client: a 401 removes the stored token, whatever *)
(* token it is by now, and loads the login page, except on that page.      *)
Intercept(t) ==
  /\ refused[t]
  /\ stored' = 0
  /\ IF tabs[t].at = "login"
       THEN refused' = [refused EXCEPT ![t] = FALSE] /\ UNCHANGED <<tabs, calls, approve, bearer>>
       ELSE Load(t, "login", FALSE)
  /\ UNCHANGED <<issued, dead, lock, device, apis, cli, restarted, events>>

\* a week later
ExpireJwt(j) ==
  /\ Event /\ Alive(j)
  /\ dead' = dead \cup {j}
  /\ UNCHANGED <<stored, issued, tabs, calls, refused, cliVars>>

-----------------------------------------------------------------------------
(* flowo login *)

StartCli ==
  /\ cli = "start" /\ cli' = "waits"
  /\ device' = "waiting"
  /\ UNCHANGED <<webVars, approve, bearer, lock, apis, restarted, events>>

\* mutant: the lock is left out
TakeApprovalUnlocked(t) ==
  /\ approve[t] = "asked"
  /\ approve' = [approve EXCEPT ![t] =
       CASE ~Alive(bearer[t]) \/ device = "none" -> "no"
         [] device = "ready" -> "yes"
         [] OTHER -> "making"]
  /\ UNCHANGED <<webVars, bearer, lock, device, apis, cli, restarted, events>>

\* mutant: a session that has its token is not recognised
TakeApprovalAgain(t) ==
  /\ approve[t] = "asked"
  /\ Alive(bearer[t]) => lock = Nobody
  /\ approve' = [approve EXCEPT ![t] = IF ~Alive(bearer[t]) \/ device = "none" THEN "no" ELSE "making"]
  /\ lock' = IF approve'[t] = "making" THEN t ELSE lock
  /\ UNCHANGED <<webVars, bearer, device, apis, cli, restarted, events>>

(* approve_cli_login, as far as its first await: the user is known before  *)
(* the lock is taken; a session that has its token is approved already.    *)
TakeApproval(t) ==
  /\ approve[t] = "asked"
  /\ Alive(bearer[t]) => lock = Nobody
  /\ approve' = [approve EXCEPT ![t] =
       CASE ~Alive(bearer[t]) \/ device = "none" -> "no"
         [] device = "ready" -> "yes"
         [] OTHER -> "making"]
  /\ lock' = IF approve'[t] = "making" THEN t ELSE lock
  /\ UNCHANGED <<webVars, bearer, device, apis, cli, restarted, events>>

\* create_token has committed; the session may be gone meanwhile
MakeToken(t) ==
  /\ approve[t] = "making"
  /\ apis' = apis + 1
  /\ device' = IF device = "waiting" THEN "ready" ELSE device
  /\ approve' = [approve EXCEPT ![t] = "yes"]
  /\ lock' = IF lock = t THEN Nobody ELSE lock
  /\ UNCHANGED <<webVars, bearer, cli, restarted, events>>

(* A query fails, or the COMMIT, or the refresh that follows it: another   *)
(* approval makes a token again, as the text of this one is lost.          *)
MakeFails(t) ==
  /\ Event /\ approve[t] = "making"
  /\ approve' = [approve EXCEPT ![t] = "no"]
  /\ lock' = IF lock = t THEN Nobody ELSE lock
  /\ UNCHANGED <<webVars, bearer, device, apis, cli, restarted>>

(* The tab that asked is still there: success leads to the runs, failure   *)
(* removes the key, but not cliLoginStarted.                               *)
HearApproval(t) ==
  /\ approve[t] \in {"yes", "no"} /\ tabs[t].started
  /\ approve' = [approve EXCEPT ![t] = "none"]
  /\ IF approve[t] = "yes"
       THEN /\ tabs' = [tabs EXCEPT ![t].at = "app", ![t].link = FALSE, ![t].started = FALSE]
            /\ calls' = [calls EXCEPT ![t] = @ \cup {stored}]
       ELSE tabs' = [tabs EXCEPT ![t].key = FALSE] /\ UNCHANGED calls
  /\ UNCHANGED <<stored, issued, dead, refused, bearer, lock, device, apis, cli, restarted, events>>

\* every two seconds
Poll ==
  /\ cli = "waits" /\ cli' = "asked"
  /\ UNCHANGED <<webVars, approve, bearer, lock, device, apis, restarted, events>>

\* mutant: the session is taken out before its token is looked at
ServePollPopping ==
  /\ cli = "asked"
  /\ device' = "none"
  /\ cli' = CASE device = "none" -> "expired" [] device = "waiting" -> "waits" [] OTHER -> "answered"
  /\ UNCHANGED <<webVars, approve, bearer, lock, apis, restarted, events>>

\* poll_cli_login: the token is handed out once
ServePoll ==
  /\ cli = "asked"
  /\ device' = IF device = "ready" THEN "none" ELSE device
  /\ cli' = CASE device = "none" -> "expired" [] device = "waiting" -> "waits" [] OTHER -> "answered"
  /\ UNCHANGED <<webVars, approve, bearer, lock, apis, restarted, events>>

\* the CLI writes its configuration
GetToken ==
  /\ cli = "answered" /\ cli' = "has"
  /\ UNCHANGED <<webVars, approve, bearer, lock, device, apis, restarted, events>>

\* an answer is lost, or five minutes are over
GiveUp ==
  /\ Event
  /\ \/ cli \in {"asked", "answered"} /\ cli' = "failed"
     \/ cli = "waits" /\ cli' = "timed out"
  /\ UNCHANGED <<webVars, approve, bearer, lock, device, apis, restarted>>

\* ten minutes are over: the CLI has ended before
ExpireSession ==
  /\ Event /\ cli \in {"expired", "failed", "timed out"} /\ device # "none"
  /\ device' = "none"
  /\ UNCHANGED <<webVars, approve, bearer, lock, apis, cli, restarted>>

\* the sessions are kept in memory; a token may have been committed before
Restart ==
  /\ Event /\ restarted' = TRUE
  /\ device' = "none" /\ lock' = Nobody
  /\ cli' = IF cli \in {"asked", "answered"} THEN "failed" ELSE cli
  /\ apis' \in IF lock = Nobody THEN {apis} ELSE {apis, apis + 1}
  /\ approve' = [t \in Tabs |-> IF approve[t] \in {"asked", "making"} THEN "no" ELSE approve[t]]
  /\ calls' = [t \in Tabs |-> {}]
  /\ UNCHANGED <<stored, issued, dead, tabs, refused, bearer>>

-----------------------------------------------------------------------------
WsInit ==
  /\ stored = 0 /\ issued = 0 /\ dead = {}
  /\ tabs = [t \in Tabs |-> [at |-> "login", link |-> FALSE, jwt |-> 0, started |-> FALSE, key |-> FALSE]]
  /\ calls = [t \in Tabs |-> {}] /\ refused = [t \in Tabs |-> FALSE]
  /\ approve = [t \in Tabs |-> "none"] /\ bearer = [t \in Tabs |-> 0]
  /\ lock = Nobody /\ device = "none" /\ apis = 0 /\ cli = "start"
  /\ restarted = FALSE /\ events = 0

WsNext ==
  \/ \E t \in Tabs :
       \/ Open(t, "login", FALSE) \/ Open(t, "login", TRUE) \/ Open(t, "app", FALSE)
       \/ Login(t) \/ Logout(t) \/ Ask(t) \/ Intercept(t)
       \/ TakeApproval(t) \/ MakeToken(t) \/ MakeFails(t) \/ HearApproval(t)
       \/ \E j \in 0..MaxJwts : ServeCall(t, j)
  \/ \E j \in Jwts : ExpireJwt(j)
  \/ StartCli \/ Poll \/ ServePoll \/ GetToken \/ GiveUp \/ ExpireSession \/ Restart

(* Fairness: what is asked is answered, and an answer is heard.            *)
WsFairness == \A t \in Tabs :
  /\ WF_wsVars(Intercept(t)) /\ WF_wsVars(HearApproval(t))
  /\ WF_wsVars(TakeApproval(t)) /\ WF_wsVars(MakeToken(t))
  /\ WF_wsVars(\E j \in 0..MaxJwts : ServeCall(t, j))

WsSpec == WsInit /\ [][WsNext]_wsVars /\ WsFairness

-----------------------------------------------------------------------------
(* Properties *)

(* Every variable holds a value of its kind; the lock is held by the one   *)
(* approval that is making a token, and a tab that waits for an approval   *)
(* has marked it.                                                          *)
WsTypeOK ==
  /\ stored \in 0..issued /\ issued \in 0..MaxJwts /\ dead \subseteq 1..issued
  /\ \A t \in Tabs :
       /\ tabs[t] \in [at : {"login", "app"}, link : BOOLEAN, jwt : 0..issued, started : BOOLEAN, key : BOOLEAN]
       /\ calls[t] \subseteq 0..issued /\ refused[t] \in BOOLEAN
       /\ approve[t] = "making" <=> lock = t
       /\ tabs[t].started /\ approve[t] # "none" => tabs[t].key
  /\ device \in {"none", "waiting", "ready"}
  /\ cli \in {"start", "waits", "asked", "answered", "has", "expired", "failed", "timed out"}

\* the device session, as who logs in sees it
Session == IF device # "none" THEN device ELSE IF cli = "start" THEN "none" ELSE "over"

Promise == INSTANCE CliLogin WITH session <- Session, tokens <- apis, has <- (cli = "has")

(* However many tabs hold the address that the CLI printed, however often  *)
(* they are reloaded, and with polls, expiry and restarts at any moment, a *)
(* login of the CLI goes as CliLogin says: one API token at most is made   *)
(* for it, and given out once.  Those that nobody can have, as an approval *)
(* failed after its COMMIT, are not counted.                               *)
KeepsCliPromise == Promise!CliLoginSpec

(* A tab that says the CLI is logged in is right: the CLI has the token,   *)
(* will have it with its next poll, or has given up by itself.  Only a     *)
(* restart of the server can make it wrong.                                *)
ApprovedMeansIt ==
  \A t \in Tabs : approve[t] = "yes" =>
    restarted \/ device = "ready" \/ cli \in {"answered", "has", "failed", "timed out"}

(* The browser comes to rest: the login page, which leaves when there is a *)
(* token, and the pages, which go to the login page when it is refused, do *)
(* not send each other the user for ever.                                  *)
TabsRest == <>[](\A t \in Tabs : calls[t] = {} /\ ~refused[t] /\ approve[t] \notin {"asked", "making"})
===============================================================================
