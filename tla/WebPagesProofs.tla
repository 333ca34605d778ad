---------------------------- MODULE WebPagesProofs -----------------------------
(***************************************************************************)
(* What is proved of the pages together: first what the proofs of the web  *)
(* session alone establish, then what the accounts keep, for any number of *)
(* addresses, invitations, registrations, tokens and changes, the backup,  *)
(* for any number of runs, polls, edits and faults, the tree of outputs,   *)
(* the pictures, the imports, what the settings and the catalogs show      *)
(* through the cache, and last the types of all pages.                     *)
(***************************************************************************)
EXTENDS WebPages, FiniteSetTheorems, TLAPS

-----------------------------------------------------------------------------
(* The session                                                             *)

SessionProofs == INSTANCE WebSessionProofs WITH MaxEvents <- SessionEvents

LEMMA SessionConstants == SessionProofs!JwtsAssumption
BY PagesAssumption DEF PagesAssumption, Session!JwtsAssumption, SessionProofs!JwtsAssumption

-----------------------------------------------------------------------------
(* The session that is proved about is the one of the pages: the two       *)
(* instances of WebSession say the same.                                   *)

LEMMA SameNext ==
  ASSUME Session!WsNext
  PROVE  SessionProofs!WsNext
<1>1. ASSUME NEW t \in Tabs
      PROVE  /\ Session!Open(t, "login", FALSE) => SessionProofs!Open(t, "login", FALSE)
             /\ Session!Open(t, "login", TRUE) => SessionProofs!Open(t, "login", TRUE)
             /\ Session!Open(t, "app", FALSE) => SessionProofs!Open(t, "app", FALSE)
  BY DEF Session!Open, SessionProofs!Open, Session!Load, SessionProofs!Load, Session!Event,
         SessionProofs!Event, Session!Become, SessionProofs!Become, Session!Landed,
         SessionProofs!Landed, Session!Approves, SessionProofs!Approves
<1>2. ASSUME NEW t \in Tabs
      PROVE  Session!Login(t) => SessionProofs!Login(t)
  BY DEF Session!Login, SessionProofs!Login, Session!Event, SessionProofs!Event, Session!Become,
         SessionProofs!Become, Session!Landed, SessionProofs!Landed, Session!Approves,
         SessionProofs!Approves
<1>3. ASSUME NEW t \in Tabs
      PROVE  Session!Logout(t) => SessionProofs!Logout(t)
  BY DEF Session!Logout, SessionProofs!Logout, Session!Load, SessionProofs!Load, Session!Event,
         SessionProofs!Event, Session!Become, SessionProofs!Become, Session!Landed,
         SessionProofs!Landed, Session!Approves, SessionProofs!Approves
<1>4. ASSUME NEW t \in Tabs
      PROVE  Session!Ask(t) => SessionProofs!Ask(t)
  BY DEF Session!Ask, SessionProofs!Ask, Session!Event, SessionProofs!Event, Session!cliVars,
         SessionProofs!cliVars
<1>5. ASSUME NEW t \in Tabs
      PROVE  Session!Intercept(t) => SessionProofs!Intercept(t)
  BY DEF Session!Intercept, SessionProofs!Intercept, Session!Load, SessionProofs!Load,
         Session!Become, SessionProofs!Become, Session!Landed, SessionProofs!Landed,
         Session!Approves, SessionProofs!Approves
<1>6. ASSUME NEW t \in Tabs
      PROVE  \A j \in 0..MaxJwts : Session!ServeCall(t, j) => SessionProofs!ServeCall(t, j)
  BY DEF Session!ServeCall, SessionProofs!ServeCall, Session!Alive, SessionProofs!Alive,
         Session!cliVars, SessionProofs!cliVars
<1>7. ASSUME NEW t \in Tabs
      PROVE  Session!TakeApproval(t) => SessionProofs!TakeApproval(t)
  BY DEF Session!TakeApproval, SessionProofs!TakeApproval, Session!Alive, SessionProofs!Alive,
         Session!webVars, SessionProofs!webVars
<1>8. ASSUME NEW t \in Tabs
      PROVE  Session!MakeToken(t) => SessionProofs!MakeToken(t)
  BY DEF Session!MakeToken, SessionProofs!MakeToken, Session!webVars, SessionProofs!webVars
<1>9. ASSUME NEW t \in Tabs
      PROVE  Session!HearApproval(t) => SessionProofs!HearApproval(t)
  BY DEF Session!HearApproval, SessionProofs!HearApproval
<1>10. \A j \in Session!Jwts : j \in SessionProofs!Jwts /\ (Session!ExpireJwt(j) => SessionProofs!ExpireJwt(j))
  BY DEF Session!ExpireJwt, SessionProofs!ExpireJwt, Session!Jwts, SessionProofs!Jwts,
         Session!Event, SessionProofs!Event, Session!Alive, SessionProofs!Alive,
         Session!cliVars, SessionProofs!cliVars
<1>11. Session!StartCli => SessionProofs!StartCli
  BY DEF Session!StartCli, SessionProofs!StartCli, Session!webVars, SessionProofs!webVars
<1>12. Session!Poll => SessionProofs!Poll
  BY DEF Session!Poll, SessionProofs!Poll, Session!webVars, SessionProofs!webVars
<1>13. Session!ServePoll => SessionProofs!ServePoll
  BY DEF Session!ServePoll, SessionProofs!ServePoll, Session!webVars, SessionProofs!webVars
<1>14. Session!GetToken => SessionProofs!GetToken
  BY DEF Session!GetToken, SessionProofs!GetToken, Session!webVars, SessionProofs!webVars
<1>15. Session!GiveUp => SessionProofs!GiveUp
  BY DEF Session!GiveUp, SessionProofs!GiveUp, Session!Event, SessionProofs!Event,
         Session!webVars, SessionProofs!webVars
<1>16. Session!ExpireSession => SessionProofs!ExpireSession
  BY DEF Session!ExpireSession, SessionProofs!ExpireSession, Session!Event, SessionProofs!Event,
         Session!webVars, SessionProofs!webVars
<1>17. Session!Restart => SessionProofs!Restart
  BY DEF Session!Restart, SessionProofs!Restart, Session!Event, SessionProofs!Event
<1>23. ASSUME NEW t \in Tabs
       PROVE  Session!MakeFails(t) => SessionProofs!MakeFails(t)
  BY DEF Session!MakeFails, SessionProofs!MakeFails, Session!Event, SessionProofs!Event,
         Session!webVars, SessionProofs!webVars
<1>18. ASSUME NEW t \in Tabs,
              \/ Session!Open(t, "login", FALSE) \/ Session!Open(t, "login", TRUE)
              \/ Session!Open(t, "app", FALSE)
              \/ Session!Login(t) \/ Session!Logout(t) \/ Session!Ask(t) \/ Session!Intercept(t)
       PROVE  SessionProofs!WsNext
  <2>1. CASE Session!Open(t, "login", FALSE)
    BY <1>1, <2>1 DEF SessionProofs!WsNext
  <2>2. CASE Session!Open(t, "login", TRUE)
    BY <1>1, <2>2 DEF SessionProofs!WsNext
  <2>3. CASE Session!Open(t, "app", FALSE)
    BY <1>1, <2>3 DEF SessionProofs!WsNext
  <2>4. CASE Session!Login(t)
    BY <1>2, <2>4 DEF SessionProofs!WsNext
  <2>5. CASE Session!Logout(t)
    BY <1>3, <2>5 DEF SessionProofs!WsNext
  <2>6. CASE Session!Ask(t)
    BY <1>4, <2>6 DEF SessionProofs!WsNext
  <2>7. CASE Session!Intercept(t)
    BY <1>5, <2>7 DEF SessionProofs!WsNext
  <2> QED
    BY <1>18, <2>1, <2>2, <2>3, <2>4, <2>5, <2>6, <2>7
<1>19. ASSUME NEW t \in Tabs, NEW j \in 0..MaxJwts, Session!ServeCall(t, j)
       PROVE  SessionProofs!WsNext
  BY <1>6, <1>19 DEF SessionProofs!WsNext
<1>20. ASSUME NEW t \in Tabs,
              \/ Session!TakeApproval(t) \/ Session!MakeToken(t)
              \/ Session!MakeFails(t) \/ Session!HearApproval(t)
       PROVE  SessionProofs!WsNext
  BY <1>7, <1>8, <1>9, <1>20, <1>23 DEF SessionProofs!WsNext
<1>21. ASSUME NEW j \in Session!Jwts, Session!ExpireJwt(j)
       PROVE  SessionProofs!WsNext
  BY <1>10, <1>21 DEF SessionProofs!WsNext
<1>22. CASE \/ Session!StartCli \/ Session!Poll \/ Session!ServePoll \/ Session!GetToken
            \/ Session!GiveUp \/ Session!ExpireSession \/ Session!Restart
  BY <1>11, <1>12, <1>13, <1>14, <1>15, <1>16, <1>17, <1>22 DEF SessionProofs!WsNext
<1> QED
  BY <1>18, <1>19, <1>20, <1>21, <1>22 DEF Session!WsNext

LEMMA SamePromise ==
  [SessionProofs!Promise!CliLoginNext]_(SessionProofs!Promise!cliLoginVars)
    => [Session!Promise!CliLoginNext]_(Session!Promise!cliLoginVars)
BY DEF Session!Promise!CliLoginNext, Session!Promise!cliLoginVars,
       Session!Promise!Start, Session!Promise!Approve, Session!Promise!End,
       Session!Promise!Orphan, Session!Promise!Obtain, Session!Session,
       SessionProofs!Promise!CliLoginNext, SessionProofs!Promise!cliLoginVars,
       SessionProofs!Promise!Start, SessionProofs!Promise!Approve,
       SessionProofs!Promise!End, SessionProofs!Promise!Orphan,
       SessionProofs!Promise!Obtain, SessionProofs!Session

\* the pages' session starts and steps as WebSession says, or stutters
LEMMA SessionRuns ==
  WebSpec => SessionProofs!WsInit /\ [][SessionProofs!WsNext]_(SessionProofs!ownVars)
<1>1. WebInit => SessionProofs!WsInit
  BY DEF WebInit, Session!WsInit, SessionProofs!WsInit
<1>2. [WebNext]_webPagesVars => [SessionProofs!WsNext]_(SessionProofs!ownVars)
  <2> SUFFICES ASSUME [WebNext]_webPagesVars
               PROVE  [SessionProofs!WsNext]_(SessionProofs!ownVars)
    OBVIOUS
  <2>1. CASE SessionStep
    BY <2>1, SameNext DEF SessionStep
  <2>2. CASE UNCHANGED sessionVars
    BY <2>2 DEF sessionVars, SessionProofs!ownVars, SessionProofs!webVars, SessionProofs!cliVars
  <2>3. AccountsStep \/ BackupStep \/ TreeStep \/ DagStep \/ CatalogsStep \/ UNCHANGED webPagesVars
          => UNCHANGED sessionVars
    BY DEF AccountsStep, BackupStep, TreeStep, DagStep, CatalogsStep, webPagesVars
  <2> QED
    BY <2>1, <2>2, <2>3 DEF WebNext
<1> QED
  BY <1>1, <1>2, PTL DEF WebSpec

-----------------------------------------------------------------------------
(* Among the other pages, too, one API token at most is made for a login   *)
(* of the CLI, and it is given out once (api/endpoints/tokens.py).         *)
THEOREM PagesKeepCliPromise == WebSpec => KeepsCliPromise
<1>1. SessionProofs!WsInit => Session!Promise!CliLoginInit
  BY DEF SessionProofs!WsInit, Session!Promise!CliLoginInit, Session!Session
<1>2. SessionProofs!WsInv /\ [SessionProofs!WsNext]_(SessionProofs!ownVars)
        => [Session!Promise!CliLoginNext]_(Session!Promise!cliLoginVars)
  BY SessionConstants, SessionProofs!StepPromised, SamePromise
<1>3. SessionProofs!WsInit /\ [][SessionProofs!WsNext]_(SessionProofs!ownVars) => []SessionProofs!WsInv
  BY SessionConstants, SessionProofs!WsInvAlways
<1> QED
  BY <1>1, <1>2, <1>3, SessionRuns, PTL
     DEF KeepsCliPromise, Session!KeepsCliPromise, Session!Promise!CliLoginSpec

(* A tab that says the CLI is logged in is right, but for a restart of the *)
(* server (login.tsx).                                                     *)
THEOREM PagesApproveRightly == WebSpec => []ApprovedMeansIt
<1>1. SessionProofs!WsInv => ApprovedMeansIt
  BY DEF SessionProofs!WsInv, SessionProofs!ApprovedMeansIt, ApprovedMeansIt, Session!ApprovedMeansIt
<1>2. SessionProofs!WsInit /\ [][SessionProofs!WsNext]_(SessionProofs!ownVars) => []SessionProofs!WsInv
  BY SessionConstants, SessionProofs!WsInvAlways
<1> QED
  BY <1>1, <1>2, SessionRuns, PTL

-----------------------------------------------------------------------------
(* Invitations *)

Stages == {"none", "asked", "open to all", "invited", "joined", "done", "failed"}
States == {"unborn", "open", "used", "revoked"}

\* a registration is let in by an invitation only if it named one
RegistrationsTyped ==
  /\ attempts \in [Attempts -> [stage : Stages, email : People, code : Codes \cup {NoCode}]]
  /\ \A a \in Attempts : attempts[a].stage \in {"invited", "joined"} => attempts[a].code \in Codes

InvitesTyped == invites \in [Codes -> States]

InvitesInv == RegistrationsTyped /\ InvitesTyped /\ InvitationKept

LEMMA InvitesInvInit == WebInit => InvitesInv
BY PagesAssumption
   DEF PagesAssumption, Accounts!AccountsAssumption, WebInit, Accounts!AccInit, InvitesInv,
       RegistrationsTyped, InvitesTyped, InvitationKept, Accounts!InvitationKept, Stages, States

(* What the server does for anyone makes no invitation used, and brings    *)
(* none that was used back.                                                *)
LEMMA ChangesKeepInvites ==
  ASSUME InvitesInv, NEW m, Accounts!Applies(m), Accounts!Apply(m), UNCHANGED attempts
  PROVE  InvitesInv'
<1>1. /\ InvitesTyped'
      /\ \A c \in Codes : invites'[c] = invites[c] \/ (invites[c] = "unborn" /\ invites'[c] = "open")
                             \/ (invites[c] \in {"open", "used"} /\ invites'[c] = "revoked")
  <2>1. CASE m.do = "invite"
    <3>1. invites[m.arg] = "unborn" /\ invites' = [invites EXCEPT ![m.arg] = "open"]
      BY <2>1 DEF Accounts!Applies, Accounts!Apply
    <3> QED
      BY <3>1 DEF InvitesInv, InvitesTyped, States
  <2>2. CASE m.do = "revoke invitation"
    <3>1. invites[m.arg] \in {"open", "used"} /\ invites' = [invites EXCEPT ![m.arg] = "revoked"]
      BY <2>2 DEF Accounts!Applies, Accounts!Apply
    <3> QED
      BY <3>1 DEF InvitesInv, InvitesTyped, States
  <2>3. CASE m.do \notin {"invite", "revoke invitation"}
    <3>1. UNCHANGED invites
      BY <2>3 DEF Accounts!Apply
    <3> QED
      BY <3>1 DEF InvitesInv, InvitesTyped
  <2> QED
    BY <2>1, <2>2, <2>3
<1>2. RegistrationsTyped'
  BY DEF InvitesInv, RegistrationsTyped
<1>3. InvitationKept'
  BY <1>1, <1>2 DEF InvitesInv, RegistrationsTyped, InvitationKept, Accounts!InvitationKept
<1> QED
  BY <1>1, <1>2, <1>3 DEF InvitesInv

LEMMA RegistrationKeepsInvites ==
  ASSUME InvitesInv, NEW a \in Attempts, NEW p \in People, NEW c \in Codes \cup {NoCode},
         Accounts!Register(a, p, c)
  PROVE  InvitesInv'
<1>1. /\ attempts[a].stage = "none" /\ UNCHANGED invites
      /\ attempts' = [attempts EXCEPT ![a] = [stage |-> "asked", email |-> p, code |-> c]]
  BY DEF Accounts!Register, Accounts!dbVars
<1>2. RegistrationsTyped'
  BY <1>1 DEF InvitesInv, RegistrationsTyped, Stages
<1>3. \A b \in Attempts : b # a => attempts'[b] = attempts[b]
  BY <1>1 DEF InvitesInv, RegistrationsTyped
<1>4. attempts'[a].stage = "asked"
  BY <1>1 DEF InvitesInv, RegistrationsTyped
<1> QED
  BY <1>1, <1>2, <1>3, <1>4 DEF InvitesInv, InvitesTyped, InvitationKept, Accounts!InvitationKept

LEMMA CheckKeepsInvites ==
  ASSUME InvitesInv, NEW a \in Attempts, Accounts!Check(a)
  PROVE  InvitesInv'
<1> DEFINE s == attempts'[a].stage
<1>1. PICK t \in Stages : /\ attempts' = [attempts EXCEPT ![a].stage = t]
                          /\ t \in {"open to all", "invited", "failed"}
                          /\ t = "invited" => attempts[a].code # NoCode
  BY DEF Accounts!Check, Stages
<1>2. attempts[a].stage = "asked" /\ UNCHANGED invites
  BY DEF Accounts!Check, Accounts!dbVars
<1>3. RegistrationsTyped'
  BY <1>1 DEF InvitesInv, RegistrationsTyped, Stages
<1>4. \A b \in Attempts : b # a => attempts'[b] = attempts[b]
  BY <1>1 DEF InvitesInv, RegistrationsTyped
<1>5. attempts'[a].stage # "joined"
  BY <1>1 DEF InvitesInv, RegistrationsTyped
<1> QED
  BY <1>2, <1>3, <1>4, <1>5 DEF InvitesInv, InvitesTyped, InvitationKept, Accounts!InvitationKept

LEMMA JoinKeepsInvites ==
  ASSUME InvitesInv, NEW a \in Attempts, Accounts!Join(a)
  PROVE  InvitesInv'
<1> DEFINE r == attempts[a]
<1>0. r.stage \in {"open to all", "invited"} /\ (r.stage = "invited" => r.code \in Codes)
  BY DEF Accounts!Join, InvitesInv, RegistrationsTyped
<1>1. PICK t \in {"joined", "done", "failed"} :
        /\ attempts' = [attempts EXCEPT ![a].stage = t]
        /\ \/ t = "joined" /\ r.stage = "invited" /\ invites' = [invites EXCEPT ![r.code] = "used"]
           \/ t # "joined" /\ UNCHANGED invites
  BY <1>0 DEF Accounts!Join
<1>2. RegistrationsTyped'
  BY <1>0, <1>1 DEF InvitesInv, RegistrationsTyped, Stages
<1>3. InvitesTyped'
  BY <1>1 DEF InvitesInv, InvitesTyped, States
<1>4. /\ \A b \in Attempts : b # a => attempts'[b] = attempts[b]
      /\ attempts'[a].stage = t /\ attempts'[a].code = r.code
  BY <1>1 DEF InvitesInv, RegistrationsTyped
<1>5. CASE t = "joined"
  <2>1. r.code \in Codes /\ invites' = [invites EXCEPT ![r.code] = "used"]
    BY <1>0, <1>1, <1>5
  <2>2. invites'[r.code] = "used" /\ \A c \in Codes : c # r.code => invites'[c] = invites[c]
    BY <2>1 DEF InvitesInv, InvitesTyped
  <2>3. ASSUME NEW c \in Codes, invites'[c] = "used"
        PROVE  \E b \in Attempts : attempts'[b].stage = "joined" /\ attempts'[b].code = c
    <3>1. CASE c = r.code
      BY <1>4, <1>5, <3>1
    <3>2. CASE c # r.code
      <4>1. PICK b \in Attempts : attempts[b].stage = "joined" /\ attempts[b].code = c
        BY <2>2, <2>3, <3>2 DEF InvitesInv, InvitationKept, Accounts!InvitationKept
      <4> QED
        BY <1>0, <1>4, <4>1
    <3> QED
      BY <3>1, <3>2
  <2>4. ASSUME NEW b \in Attempts, attempts'[b].stage = "joined"
        PROVE  invites'[attempts'[b].code] \in {"used", "revoked"}
    <3>1. CASE b = a
      BY <1>4, <2>2, <3>1
    <3>2. CASE b # a
      BY <1>4, <2>2, <2>4, <3>2
         DEF InvitesInv, RegistrationsTyped, InvitationKept, Accounts!InvitationKept
    <3> QED
      BY <3>1, <3>2
  <2> QED
    BY <1>2, <1>3, <2>3, <2>4 DEF InvitesInv, InvitationKept, Accounts!InvitationKept
<1>6. CASE t # "joined"
  <2>1. UNCHANGED invites
    BY <1>1, <1>6
  <2>2. \A b \in Attempts : (attempts'[b].stage = "joined" \/ attempts[b].stage = "joined")
                              => b # a /\ attempts'[b] = attempts[b]
    BY <1>0, <1>4, <1>6
  <2>3. InvitationKept'
    BY <2>1, <2>2 DEF InvitesInv, InvitationKept, Accounts!InvitationKept
  <2> QED
    BY <1>2, <1>3, <2>3 DEF InvitesInv
<1> QED
  BY <1>5, <1>6

LEMMA InvitesUntouched ==
  ASSUME InvitesInv, UNCHANGED <<attempts, invites>>
  PROVE  InvitesInv'
BY DEF InvitesInv, RegistrationsTyped, InvitesTyped, InvitationKept, Accounts!InvitationKept

LEMMA InvitesInvStep ==
  ASSUME InvitesInv, [WebNext]_webPagesVars
  PROVE  InvitesInv'
<1>1. CASE AccountsStep
  <2>9. ASSUME NEW m, Accounts!Fail(m)
        PROVE  InvitesInv'
    BY <2>9, ChangesKeepInvites, InvitesUntouched DEF Accounts!Fail, Accounts!dbVars
  <2>1. ASSUME NEW a \in Attempts, NEW p \in People, NEW c \in Codes \cup {NoCode},
               Accounts!Register(a, p, c)
        PROVE  InvitesInv'
    BY <2>1, RegistrationKeepsInvites
  <2>2. ASSUME NEW a \in Attempts, Accounts!Check(a) \/ Accounts!Join(a)
        PROVE  InvitesInv'
    BY <2>2, CheckKeepsInvites, JoinKeepsInvites
  <2>3. ASSUME NEW m, Accounts!Serve(m)
        PROVE  InvitesInv'
    <3>1. CASE Accounts!Applies(m)
      BY <2>3, <3>1, ChangesKeepInvites DEF Accounts!Serve
    <3>2. CASE ~Accounts!Applies(m)
      BY <2>3, <3>2, InvitesUntouched DEF Accounts!Serve, Accounts!dbVars
    <3> QED
      BY <3>1, <3>2
  <2>4. ASSUME NEW p, NEW do, NEW arg, Accounts!Others(p, do, arg)
        PROVE  InvitesInv'
    <3> DEFINE m == [do |-> do, by |-> p, arg |-> arg]
    <3>1. Accounts!Applies(m) /\ Accounts!Apply(m) /\ UNCHANGED attempts
      BY <2>4 DEF Accounts!Others
    <3> QED
      BY <3>1, ChangesKeepInvites
  <2>5. ASSUME NEW s, Accounts!PickSection(s)
        PROVE  InvitesInv'
    BY <2>5, InvitesUntouched DEF Accounts!PickSection, Accounts!dbVars
  <2>6. ASSUME NEW do, NEW arg, Accounts!Click(do, arg)
        PROVE  InvitesInv'
    BY <2>6, InvitesUntouched DEF Accounts!Click, Accounts!dbVars
  <2>7. ASSUME NEW m, Accounts!Hear(m)
        PROVE  InvitesInv'
    BY <2>7, InvitesUntouched DEF Accounts!Hear, Accounts!dbVars
  <2>8. CASE Accounts!OpenDialog \/ Accounts!CloseDialog \/ Accounts!Background
    BY <2>8, InvitesUntouched
       DEF Accounts!OpenDialog, Accounts!CloseDialog, Accounts!Background, Accounts!dbVars
  <2> QED
    BY <1>1, <2>1, <2>2, <2>3, <2>4, <2>5, <2>6, <2>7, <2>8, <2>9
       DEF AccountsStep, Accounts!AccNext
<1>2. CASE UNCHANGED accountsVars
  BY <1>2, InvitesUntouched DEF accountsVars
<1>3. SessionStep \/ BackupStep \/ TreeStep \/ DagStep \/ CatalogsStep \/ UNCHANGED webPagesVars
        => UNCHANGED accountsVars
  BY DEF SessionStep, BackupStep, TreeStep, DagStep, CatalogsStep, webPagesVars
<1> QED
  BY <1>1, <1>2, <1>3 DEF WebNext

(* A registration that fails costs no invitation, and one that succeeds    *)
(* leaves none that could be used again (app/core/users.py).          *)
THEOREM InvitationsKept == WebSpec => []InvitationKept
<1>1. InvitesInv => InvitationKept
  BY DEF InvitesInv
<1> QED
  BY <1>1, InvitesInvInit, InvitesInvStep, PTL DEF WebSpec

-----------------------------------------------------------------------------
(* Secrets *)

Creating == {"create token", "create token here"}

\* answered, and not yet heard: the answer carries a secret
Fresh == {m \in sent : m.stage = "done" /\ m.do \in Creating}

Arguments == Nat \cup UNION {Accounts!Args(do) : do \in Accounts!Mine}

Requests == [do : Accounts!Mine, by : {Me}, arg : Arguments,
             stage : {"sent", "done", "failed"}, here : BOOLEAN]

SentTyped == sent \subseteq Requests

SecretsTyped ==
  made \in Nat /\ closed \subseteq 1..made /\ dialog \in [open : BOOLEAN, secret : 0..made]

(* A secret under way was never in a dialog; and no two requests bring the *)
(* same.                                                                   *)
FreshIsNew ==
  /\ \A m \in Fresh : m.arg \in 1..made /\ m.arg \notin closed /\ m.arg # dialog.secret
  /\ \A m, n \in Fresh : m.arg = n.arg => m = n

\* only the settings keep the secret of a dialog they have closed
ClosedIsForgotten ==
  dialog.secret \in closed => ~dialog.open /\ section = "tokens"

SecretsInv == SentTyped /\ SecretsTyped /\ FreshIsNew /\ ClosedIsForgotten

LEMMA SecretsInvInit == WebInit => SecretsInv
BY DEF WebInit, Accounts!AccInit, SecretsInv, SentTyped, SecretsTyped, FreshIsNew, Fresh,
       ClosedIsForgotten, Accounts!Nowhere

LEMMA SecretsUntouched ==
  ASSUME SecretsInv, UNCHANGED <<made, sent, dialog, closed, section>>
  PROVE  SecretsInv'
BY DEF SecretsInv, SentTyped, SecretsTyped, FreshIsNew, Fresh, ClosedIsForgotten

LEMMA SeenIsMade ==
  ASSUME SecretsInv
  PROVE  Accounts!Seen \subseteq {dialog.secret} /\ Accounts!Seen \subseteq 1..made
<1>1. dialog.secret \in 0..made
  BY DEF SecretsInv, SecretsTyped
<1> QED
  BY <1>1 DEF Accounts!Seen, SecretsInv, SecretsTyped

\* what others do to the tokens
LEMMA OthersKeepSecrets ==
  ASSUME SecretsInv, NEW p, NEW do, NEW arg, Accounts!Others(p, do, arg)
  PROVE  SecretsInv'
<1>0. UNCHANGED <<sent, dialog, closed, section>> /\ made' \in {made, made + 1}
  <2> DEFINE m == [do |-> do, by |-> p, arg |-> arg]
  <2>1. Accounts!Apply(m) /\ UNCHANGED <<sent, dialog, closed, section>>
    BY DEF Accounts!Others
  <2>2. made' \in {made, made + 1}
    BY <2>1 DEF Accounts!Apply
  <2> QED
    BY <2>1, <2>2
<1>1. made' \in Nat /\ made <= made' /\ UNCHANGED <<sent, dialog, closed, section>>
  BY <1>0 DEF SecretsInv, SecretsTyped
<1>2. \A n \in 0..made : n \in 0..made'
  BY <1>1 DEF SecretsInv, SecretsTyped
<1>3. SecretsTyped'
  BY <1>1, <1>2 DEF SecretsInv, SecretsTyped
<1>4. Fresh' = Fresh
  BY <1>1 DEF Fresh
<1>5. FreshIsNew'
  BY <1>1, <1>4 DEF SecretsInv, SecretsTyped, FreshIsNew
<1> QED
  BY <1>1, <1>3, <1>5 DEF SecretsInv, SentTyped, ClosedIsForgotten

LEMMA SectionKeepsSecrets ==
  ASSUME SecretsInv, NEW s, Accounts!PickSection(s)
  PROVE  SecretsInv'
<1>1. /\ sent' = {[m EXCEPT !.here = FALSE] : m \in sent}
      /\ dialog' = [open |-> FALSE, secret |-> 0]
      /\ closed' = closed \cup Accounts!Seen /\ UNCHANGED made
  BY DEF Accounts!PickSection, Accounts!Nowhere, Accounts!dbVars
<1>2. \A m \in sent : LET n == [m EXCEPT !.here = FALSE] IN
        n \in Requests /\ n.do = m.do /\ n.stage = m.stage /\ n.arg = m.arg
  BY DEF SecretsInv, SentTyped, Requests
<1>4. SentTyped'
  BY <1>1, <1>2 DEF SentTyped
<1>5. closed' \subseteq closed \cup {dialog.secret} /\ closed' \subseteq 1..made
  BY <1>1, SeenIsMade DEF SecretsInv, SecretsTyped
<1>6. SecretsTyped'
  BY <1>1, <1>5 DEF SecretsInv, SecretsTyped
<1>7. \A n \in Fresh' : \E m \in Fresh : n = [m EXCEPT !.here = FALSE] /\ n.arg = m.arg
  <2> TAKE n \in Fresh'
  <2>1. n \in sent' /\ n.stage = "done" /\ n.do \in Creating
    BY DEF Fresh
  <2>2. PICK m \in sent : n = [m EXCEPT !.here = FALSE]
    BY <1>1, <2>1
  <2>3. n.do = m.do /\ n.stage = m.stage /\ n.arg = m.arg
    BY <1>2, <2>2
  <2> QED
    BY <2>1, <2>2, <2>3 DEF Fresh
<1>8. \A n \in Fresh' : n.arg \in 1..made /\ n.arg \notin closed' /\ n.arg # 0
  BY <1>5, <1>7 DEF SecretsInv, SecretsTyped, FreshIsNew
<1>9. \A m, n \in Fresh' : m.arg = n.arg => m = n
  <2> TAKE m, n \in Fresh'
  <2>1. PICK p \in Fresh : m = [p EXCEPT !.here = FALSE] /\ m.arg = p.arg
    BY <1>7
  <2>2. PICK q \in Fresh : n = [q EXCEPT !.here = FALSE] /\ n.arg = q.arg
    BY <1>7
  <2> HAVE m.arg = n.arg
  <2>3. p = q
    BY <2>1, <2>2 DEF SecretsInv, FreshIsNew
  <2> QED
    BY <2>1, <2>2, <2>3
<1>10. FreshIsNew'
  BY <1>1, <1>8, <1>9 DEF FreshIsNew
<1> QED
  BY <1>1, <1>4, <1>5, <1>6, <1>10 DEF SecretsInv, SecretsTyped, ClosedIsForgotten

LEMMA ClickKeepsSecrets ==
  ASSUME SecretsInv, NEW do \in Accounts!Mine, NEW arg \in Accounts!Args(do),
         Accounts!Click(do, arg)
  PROVE  SecretsInv'
<1> DEFINE m == [do |-> do, by |-> Me, arg |-> arg, stage |-> "sent", here |-> TRUE]
<1>1. sent' = sent \cup {m} /\ UNCHANGED <<made, dialog, closed, section>>
  BY DEF Accounts!Click, Accounts!dbVars
<1>2. Fresh' = Fresh
  BY <1>1 DEF Fresh
<1>3. arg \in Arguments
  BY DEF Arguments
<1>4. SentTyped'
  <2>1. m \in Requests
    BY <1>3 DEF Requests
  <2> HIDE DEF m
  <2> QED
    BY <1>1, <2>1 DEF SecretsInv, SentTyped
<1> QED
  BY <1>1, <1>2, <1>4 DEF SecretsInv, SecretsTyped, FreshIsNew, ClosedIsForgotten

\* a request that goes on to stage s, and brings no secret
LEMMA AnswerKeepsSecrets ==
  ASSUME SecretsInv, NEW m \in sent, m.stage = "sent", NEW s \in {"done", "failed"},
         s = "done" => m.do \notin Creating,
         sent' = (sent \ {m}) \cup {[m EXCEPT !.stage = s]},
         made' \in {made, made + 1}, UNCHANGED <<dialog, closed, section>>
  PROVE  SecretsInv'
<1> DEFINE n == [m EXCEPT !.stage = s]
<1>1. n \in Requests /\ n.stage = s /\ n.do = m.do
  BY DEF SecretsInv, SentTyped, Requests
<1> HIDE DEF n
<1>2. sent' = (sent \ {m}) \cup {n}
  BY DEF n
<1>3. SentTyped'
  BY <1>1, <1>2 DEF SecretsInv, SentTyped
<1>4. Fresh' = Fresh
  BY <1>1, <1>2 DEF Fresh
<1>5. made' \in Nat /\ \A i \in 0..made : i \in 0..made'
  BY DEF SecretsInv, SecretsTyped
<1>6. SecretsTyped'
  BY <1>5 DEF SecretsInv, SecretsTyped
<1>7. FreshIsNew'
  BY <1>4, <1>5 DEF SecretsInv, SecretsTyped, FreshIsNew
<1> QED
  BY <1>3, <1>6, <1>7 DEF SecretsInv, ClosedIsForgotten

LEMMA FailKeepsSecrets ==
  ASSUME SecretsInv, NEW m, Accounts!Fail(m)
  PROVE  SecretsInv'
<1>1. /\ m \in sent /\ m.stage = "sent" /\ UNCHANGED <<dialog, closed, section>>
      /\ sent' = (sent \ {m}) \cup {[m EXCEPT !.stage = "failed"]}
  BY DEF Accounts!Fail
<1>2. made' \in {made, made + 1}
  BY DEF Accounts!Fail, Accounts!Apply, Accounts!dbVars
<1> QED
  BY <1>1, <1>2, AnswerKeepsSecrets

LEMMA ServeKeepsSecrets ==
  ASSUME SecretsInv, NEW m, Accounts!Serve(m)
  PROVE  SecretsInv'
<1>1. m \in sent /\ m.stage = "sent" /\ UNCHANGED <<dialog, closed, section>>
  BY DEF Accounts!Serve
<1>2. m \in Requests
  BY <1>1 DEF SecretsInv, SentTyped
<1>3. CASE Accounts!Applies(m) /\ m.do \in Creating
  <2> DEFINE n == [m EXCEPT !.stage = "done", !.arg = made']
  <2>1. made' = made + 1
    BY <1>3 DEF Accounts!Serve, Accounts!Apply, Creating
  <2>2. sent' = (sent \ {m}) \cup {n}
    BY <1>3 DEF Accounts!Serve, Creating
  <2>3. made' \in Arguments
    BY <2>1 DEF Arguments, SecretsInv, SecretsTyped
  <2>4. n \in Requests /\ n.arg = made'
    BY <1>2, <2>3 DEF Requests
  <2> HIDE DEF n
  <2>5. SentTyped'
    BY <2>2, <2>4 DEF SecretsInv, SentTyped
  <2>6. SecretsTyped'
    BY <1>1, <2>1 DEF SecretsInv, SecretsTyped
  <2>7. Fresh' \subseteq Fresh \cup {n}
    BY <2>2 DEF Fresh
  <2>8. \A k \in Fresh : k.arg \in 1..made
    BY DEF SecretsInv, FreshIsNew
  <2>9. FreshIsNew'
    BY <1>1, <2>1, <2>4, <2>7, <2>8 DEF SecretsInv, SecretsTyped, FreshIsNew
  <2> QED
    BY <1>1, <2>5, <2>6, <2>9 DEF SecretsInv, ClosedIsForgotten
<1>4. CASE ~(Accounts!Applies(m) /\ m.do \in Creating)
  <2>1. PICK s \in {"done", "failed"} :
          /\ sent' = (sent \ {m}) \cup {[m EXCEPT !.stage = s]}
          /\ s = "done" => m.do \notin Creating
          /\ UNCHANGED made
    <3>1. CASE Accounts!Applies(m)
      <4>1. m.do \notin Creating
        BY <1>4, <3>1
      <4>2. UNCHANGED made
        BY <3>1, <4>1 DEF Accounts!Serve, Accounts!Apply, Creating
      <4>3. sent' = (sent \ {m}) \cup {[m EXCEPT !.stage = "done", !.arg = m.arg]}
        BY <3>1, <4>1 DEF Accounts!Serve, Creating
      <4>4. [m EXCEPT !.stage = "done", !.arg = m.arg] = [m EXCEPT !.stage = "done"]
        BY <1>2 DEF Requests
      <4> QED
        BY <4>1, <4>2, <4>3, <4>4
    <3>2. CASE ~Accounts!Applies(m)
      BY <3>2 DEF Accounts!Serve, Accounts!dbVars
    <3> QED
      BY <3>1, <3>2
  <2> QED
    BY <1>1, <2>1, AnswerKeepsSecrets
<1> QED
  BY <1>3, <1>4

LEMMA HearKeepsSecrets ==
  ASSUME SecretsInv, NEW m, Accounts!Hear(m)
  PROVE  SecretsInv'
<1>1. m \in sent /\ sent' = sent \ {m} /\ UNCHANGED <<made, closed, section>>
  BY DEF Accounts!Hear, Accounts!dbVars
<1>2. \/ UNCHANGED dialog
      \/ m \in Fresh /\ dialog' = [dialog EXCEPT !.secret = m.arg]
  BY <1>1 DEF Accounts!Hear, Fresh, Creating
<1>3. SentTyped'
  BY <1>1 DEF SecretsInv, SentTyped
<1>4. Fresh' = Fresh \ {m}
  BY <1>1 DEF Fresh
<1>5. CASE UNCHANGED dialog
  BY <1>1, <1>3, <1>4, <1>5 DEF SecretsInv, SecretsTyped, FreshIsNew, ClosedIsForgotten
<1>6. CASE m \in Fresh /\ dialog' = [dialog EXCEPT !.secret = m.arg]
  <2>1. m.arg \in 1..made /\ m.arg \notin closed
    BY <1>6 DEF SecretsInv, FreshIsNew
  <2>2. dialog'.secret = m.arg /\ dialog' \in [open : BOOLEAN, secret : 0..made]
    BY <1>6, <2>1 DEF SecretsInv, SecretsTyped
  <2>3. SecretsTyped'
    BY <1>1, <2>2 DEF SecretsInv, SecretsTyped
  <2>4. FreshIsNew'
    BY <1>1, <1>4, <1>6, <2>2 DEF SecretsInv, FreshIsNew
  <2>5. ClosedIsForgotten'
    BY <1>1, <2>1, <2>2 DEF ClosedIsForgotten
  <2> QED
    BY <1>3, <2>3, <2>4, <2>5 DEF SecretsInv
<1> QED
  BY <1>2, <1>5, <1>6

LEMMA DialogKeepsSecrets ==
  ASSUME SecretsInv, Accounts!OpenDialog \/ Accounts!CloseDialog
  PROVE  SecretsInv'
<1>1. UNCHANGED <<made, sent, section>>
  BY DEF Accounts!OpenDialog, Accounts!CloseDialog, Accounts!dbVars
<1>2. Fresh' = Fresh /\ SentTyped'
  BY <1>1 DEF Fresh, SecretsInv, SentTyped
<1>3. CASE Accounts!OpenDialog
  <2>1. /\ ~dialog.open /\ UNCHANGED closed
        /\ dialog' = [open |-> TRUE, secret |-> IF section = "tokens" THEN 0 ELSE dialog.secret]
    BY <1>3 DEF Accounts!OpenDialog
  <2>2. SecretsTyped'
    BY <1>1, <2>1 DEF SecretsInv, SecretsTyped
  <2>3. dialog'.secret = 0 \/ (dialog'.secret = dialog.secret /\ section # "tokens")
    BY <2>1
  <2>4. 0 \notin closed /\ \A m \in Fresh : m.arg # 0
    BY DEF SecretsInv, SecretsTyped, FreshIsNew
  <2>5. FreshIsNew'
    BY <1>1, <1>2, <2>1, <2>3, <2>4 DEF SecretsInv, FreshIsNew
  <2>6. ClosedIsForgotten'
    BY <1>1, <2>1, <2>3, <2>4 DEF SecretsInv, ClosedIsForgotten
  <2> QED
    BY <1>2, <2>2, <2>5, <2>6 DEF SecretsInv
<1>4. CASE Accounts!CloseDialog
  <2>1. /\ closed' = closed \cup Accounts!Seen
        /\ dialog' = [open |-> FALSE, secret |-> IF section = "tokens" THEN dialog.secret ELSE 0]
    BY <1>4 DEF Accounts!CloseDialog
  <2>2. closed' \subseteq closed \cup {dialog.secret} /\ closed' \subseteq 1..made
    BY <2>1, SeenIsMade DEF SecretsInv, SecretsTyped
  <2>3. SecretsTyped'
    BY <1>1, <2>1, <2>2 DEF SecretsInv, SecretsTyped
  <2>4. dialog'.secret \in {0, dialog.secret} /\ (section # "tokens" => dialog'.secret = 0)
    BY <2>1
  <2>5. \A m \in Fresh : m.arg # 0
    BY DEF SecretsInv, SecretsTyped, FreshIsNew
  <2>6. FreshIsNew'
    BY <1>1, <1>2, <2>2, <2>4, <2>5 DEF SecretsInv, FreshIsNew
  <2>7. 0 \notin closed' /\ ~dialog'.open
    BY <2>1, <2>2
  <2>8. ClosedIsForgotten'
    BY <1>1, <2>4, <2>7 DEF ClosedIsForgotten
  <2> QED
    BY <1>2, <2>3, <2>6, <2>8 DEF SecretsInv
<1> QED
  BY <1>3, <1>4

LEMMA SecretsInvStep ==
  ASSUME page = "accounts", SecretsInv, [WebNext]_webPagesVars
  PROVE  SecretsInv'
<1>1. CASE AccountsStep
  <2>1. ASSUME NEW a, NEW p, NEW c,
               Accounts!Register(a, p, c) \/ Accounts!Check(a) \/ Accounts!Join(a)
        PROVE  SecretsInv'
    BY <2>1, SecretsUntouched
       DEF Accounts!Register, Accounts!Check, Accounts!Join, Accounts!dbVars
  <2>2. CASE Accounts!Background
    BY <2>2, SecretsUntouched DEF Accounts!Background, Accounts!dbVars
  <2> QED
    BY <1>1, <2>1, <2>2, OthersKeepSecrets, SectionKeepsSecrets, ClickKeepsSecrets,
       ServeKeepsSecrets, FailKeepsSecrets, HearKeepsSecrets, DialogKeepsSecrets DEF AccountsStep, Accounts!AccNext
<1>2. CASE UNCHANGED <<accountsVars, sent>>
  BY <1>2, SecretsUntouched DEF accountsVars
<1>3. SessionStep \/ BackupStep \/ TreeStep \/ DagStep \/ UNCHANGED webPagesVars
        => UNCHANGED <<accountsVars, sent>>
  BY DEF SessionStep, BackupStep, TreeStep, DagStep, webPagesVars, sharedVars
<1>4. ~CatalogsStep
  BY DEF CatalogsStep
<1> QED
  BY <1>1, <1>2, <1>3, <1>4 DEF WebNext

\* requests under way belong to the page that is chosen
ChosenSecrets == IF page = "accounts" THEN SecretsInv ELSE closed = {}

(* The secret of a token that a dialog has shown and closed is not shown   *)
(* again (TokensSection.tsx, _authenticated.profile.tsx).                  *)
THEOREM SecretsShownOnce == WebSpec => []ShownOnce
<1>1. WebInit => ChosenSecrets
  BY SecretsInvInit DEF WebInit, Accounts!AccInit, ChosenSecrets
<1>2. ChosenSecrets /\ [WebNext]_webPagesVars => ChosenSecrets'
  <2> SUFFICES ASSUME ChosenSecrets, [WebNext]_webPagesVars
               PROVE  ChosenSecrets'
    OBVIOUS
  <2>1. UNCHANGED page
    BY DEF WebNext, SessionStep, AccountsStep, BackupStep, TreeStep, DagStep, CatalogsStep,
           webPagesVars, sharedVars
  <2>2. CASE page = "accounts"
    BY <2>1, <2>2, SecretsInvStep DEF ChosenSecrets
  <2>3. CASE page # "accounts"
    <3>1. UNCHANGED accountsVars
      BY <2>3 DEF WebNext, SessionStep, AccountsStep, BackupStep, TreeStep, DagStep,
                  CatalogsStep, webPagesVars
    <3> QED
      BY <2>1, <2>3, <3>1 DEF ChosenSecrets, accountsVars
  <2> QED
    BY <2>2, <2>3
<1>3. ChosenSecrets => ShownOnce
  BY DEF ChosenSecrets, SecretsInv, ClosedIsForgotten, ShownOnce, Accounts!ShownOnce
<1> QED
  BY <1>1, <1>2, <1>3, PTL DEF WebSpec

-----------------------------------------------------------------------------
(* The backup *)

RunStages == {"none", "queued", "begun", "cleared", "read", "written", "pushed", "failing",
              "success", "error", "lost", "dropped"}
ClickStages == {"none", "posting", "accepted", "waiting", "answered", "failed", "over"}
Statuses == [run : Nat, is : {"none", "running", "success", "error"}]

BackupTypes ==
  /\ edits \in Nat /\ work \in Nat /\ overlapped \in BOOLEAN
  /\ status \in Statuses /\ result \in Statuses
  /\ runs \in [Backup!Runs -> [stage : RunStages, read : Nat, pushed : Nat]]
  /\ export \in [stage : {"none", "cleared", "read"}, read : Nat]
  /\ clicks \in [Backup!Runs -> [at : ClickStages, polls : Nat, edits : Nat, read : Statuses]]

\* exports that meet have set overlapped
OneExport ==
  /\ \A r, q \in Backup!Exporting : r = q
  /\ export.stage # "none" => Backup!Exporting = {}

(* What run r has read, the workspace holds until it has pushed it; it is  *)
(* as new as the click that asked for it.                                  *)
Faithful(r) ==
  /\ runs[r].stage \in {"read", "written"} => runs[r].read >= clicks[r].edits
  /\ runs[r].stage = "written" => work = runs[r].read
  /\ runs[r].stage \in {"pushed", "success"} => runs[r].pushed >= clicks[r].edits

\* unless exports met, or a disk failed
Exported == ~overlapped => OneExport /\ \A r \in Backup!Runs : Faithful(r)

\* a click comes before its run
ClickedFirst ==
  \A r \in Backup!Runs : /\ clicks[r].edits <= edits
                         /\ clicks[r].at = "posting" => runs[r].stage = "none"

Honest(s) == s.is = "success" => s.run \in Backup!Runs /\ runs[s.run].stage = "success"

\* no success is told, or passed on, that was none
ToldTrue ==
  /\ Honest(status) /\ Honest(result) /\ \A r \in Backup!Runs : Honest(clicks[r].read)
  /\ result.is = "success" => clicks[result.run].at = "over"

BackupInv == BackupTypes /\ Exported /\ ClickedFirst /\ ToldTrue

LEMMA BackupInvInit == WebInit => BackupInv
<1> SUFFICES ASSUME Backup!GbInit
             PROVE  BackupInv
  BY DEF WebInit
<1>1. BackupTypes
  BY DEF Backup!GbInit, BackupTypes, Statuses, RunStages, ClickStages, Backup!Unknown,
         Backup!NoRun, Backup!NoClick
<1>2. Exported
  BY DEF Backup!GbInit, Exported, OneExport, Faithful, Backup!Exporting, Backup!NoRun
<1>3. ClickedFirst
  BY DEF Backup!GbInit, ClickedFirst, Backup!NoClick
<1>4. ToldTrue
  BY DEF Backup!GbInit, ToldTrue, Honest, Backup!NoClick, Backup!Unknown
<1> QED
  BY <1>1, <1>2, <1>3, <1>4 DEF BackupInv

-----------------------------------------------------------------------------
(* The tasks of a run *)

\* a step that changes one run only, which is not over before or after it
LEMMA TaskTold ==
  ASSUME BackupInv, NEW r \in Backup!Runs, UNCHANGED <<status, result, clicks>>,
         NEW v \in [stage : RunStages, read : Nat, pushed : Nat],
         runs' = [runs EXCEPT ![r] = v], runs[r].stage # "success"
  PROVE  ToldTrue'
<1>1. \A q \in Backup!Runs : runs[q].stage = "success" => runs'[q].stage = "success"
  BY DEF BackupInv, BackupTypes
<1> QED
  BY <1>1 DEF BackupInv, ToldTrue, Honest

LEMMA TaskClicked ==
  ASSUME BackupInv, NEW r \in Backup!Runs, UNCHANGED <<edits, clicks>>,
         NEW v \in [stage : RunStages, read : Nat, pushed : Nat],
         runs' = [runs EXCEPT ![r] = v], runs[r].stage # "none"
  PROVE  ClickedFirst'
<1>1. \A q \in Backup!Runs : q # r => runs'[q] = runs[q]
  BY DEF BackupInv, BackupTypes
<1> QED
  BY <1>1 DEF BackupInv, ClickedFirst

\* where run r exports, and where it does not
LEMMA TaskExporting ==
  ASSUME BackupInv, NEW r \in Backup!Runs,
         NEW v \in [stage : RunStages, read : Nat, pushed : Nat],
         runs' = [runs EXCEPT ![r] = v]
  PROVE  /\ Backup!Exporting' = IF v.stage \in {"cleared", "read", "written"}
                                  THEN Backup!Exporting \cup {r} ELSE Backup!Exporting \ {r}
         /\ runs'[r] = v /\ \A q \in Backup!Runs \ {r} : runs'[q] = runs[q]
         /\ runs' \in [Backup!Runs -> [stage : RunStages, read : Nat, pushed : Nat]]
<1>1. /\ runs'[r] = v /\ \A q \in Backup!Runs \ {r} : runs'[q] = runs[q]
      /\ runs' \in [Backup!Runs -> [stage : RunStages, read : Nat, pushed : Nat]]
  BY DEF BackupInv, BackupTypes
<1> QED
  BY <1>1 DEF Backup!Exporting

LEMMA TaskKeeps ==
  ASSUME BackupInv, NEW r \in Backup!Runs, Backup!Task(r)
  PROVE  BackupInv'
<1> DEFINE Records == [stage : RunStages, read : Nat, pushed : Nat]
<1>0. /\ BackupTypes /\ Exported /\ ClickedFirst /\ ToldTrue
      /\ UNCHANGED <<clicks, result, edits>>
      /\ runs[r] \in Records
  BY DEF BackupInv, BackupTypes, Backup!Task, Backup!pageVars, Backup!Begin, Backup!Clear,
         Backup!ReadRows, Backup!Write, Backup!Push, Backup!Finish
<1>1. CASE Backup!Begin(r)
  <2> DEFINE v == [runs[r] EXCEPT !.stage = "begun"]
  <2>1. /\ runs[r].stage = "queued" /\ runs' = [runs EXCEPT ![r] = v]
        /\ status' = [run |-> r, is |-> "running"] /\ UNCHANGED <<work, export, overlapped>>
    BY <1>1 DEF Backup!Begin, Backup!At, Backup!Is
  <2>2. v \in Records /\ v.stage = "begun"
    BY <1>0 DEF RunStages
  <2> HIDE DEF v
  <2>3. /\ Backup!Exporting' = Backup!Exporting \ {r}
        /\ runs'[r] = v /\ \A q \in Backup!Runs \ {r} : runs'[q] = runs[q]
        /\ runs' \in [Backup!Runs -> Records]
    BY <2>1, <2>2, TaskExporting
  <2>4. BackupTypes'
    BY <1>0, <2>1, <2>3 DEF BackupTypes, Statuses, Backup!Runs
  <2>5. Exported'
    BY <1>0, <2>1, <2>2, <2>3 DEF Exported, OneExport, Faithful
  <2>6. ClickedFirst'
    BY <1>0, <2>1, <2>2, TaskClicked
  <2>7. ToldTrue'
    BY <1>0, <2>1, <2>2, <2>3 DEF ToldTrue, Honest
  <2> QED
    BY <2>4, <2>5, <2>6, <2>7 DEF BackupInv
<1>2. CASE Backup!Clear(r)
  <2> DEFINE v == [runs[r] EXCEPT !.stage = "cleared"]
  <2>1. /\ runs[r].stage = "begun" /\ runs' = [runs EXCEPT ![r] = v]
        /\ overlapped' = (overlapped \/ Backup!Exporting # {} \/ export.stage # "none")
        /\ work' = 0 /\ UNCHANGED <<status, export>>
    BY <1>2 DEF Backup!Clear, Backup!At
  <2>2. v \in Records /\ v.stage = "cleared"
    BY <1>0 DEF RunStages
  <2> HIDE DEF v
  <2>3. /\ Backup!Exporting' = Backup!Exporting \cup {r}
        /\ runs'[r] = v /\ \A q \in Backup!Runs \ {r} : runs'[q] = runs[q]
        /\ runs' \in [Backup!Runs -> Records]
    BY <2>1, <2>2, TaskExporting
  <2>4. BackupTypes'
    BY <1>0, <2>1, <2>3 DEF BackupTypes
  <2>5. Exported'
    <3> SUFFICES ASSUME ~overlapped'
                 PROVE  OneExport' /\ \A q \in Backup!Runs : Faithful(q)'
      BY DEF Exported
    <3>1. Backup!Exporting = {} /\ export.stage = "none" /\ ~overlapped
      BY <2>1
    <3>2. OneExport'
      BY <2>1, <2>3, <3>1 DEF OneExport
    <3>3. \A q \in Backup!Runs \ {r} : runs'[q].stage # "written"
      BY <2>3, <3>1 DEF Backup!Exporting
    <3> QED
      BY <1>0, <2>2, <2>3, <3>1, <3>2, <3>3 DEF Exported, Faithful
  <2>6. ClickedFirst'
    BY <1>0, <2>1, <2>2, TaskClicked
  <2>7. ToldTrue'
    BY <1>0, <2>1, <2>2, TaskTold
  <2> QED
    BY <2>4, <2>5, <2>6, <2>7 DEF BackupInv
<1>3. CASE Backup!ReadRows(r)
  <2> DEFINE v == [stage |-> "read", read |-> edits, pushed |-> 0]
  <2>1. /\ runs[r].stage = "cleared" /\ runs' = [runs EXCEPT ![r] = v]
        /\ UNCHANGED <<work, status, export, overlapped>>
    BY <1>3 DEF Backup!ReadRows
  <2>2. v \in Records /\ v.stage = "read" /\ v.read = edits
    BY <1>0 DEF RunStages, BackupTypes
  <2> HIDE DEF v
  <2>3. /\ Backup!Exporting' = Backup!Exporting \cup {r}
        /\ runs'[r] = v /\ \A q \in Backup!Runs \ {r} : runs'[q] = runs[q]
        /\ runs' \in [Backup!Runs -> Records]
    BY <2>1, <2>2, TaskExporting
  <2>4. BackupTypes'
    BY <1>0, <2>1, <2>3 DEF BackupTypes
  <2>5. r \in Backup!Exporting
    BY <2>1 DEF Backup!Exporting
  <2>6. clicks[r].edits <= edits
    BY <1>0 DEF ClickedFirst
  <2>7. Exported'
    BY <1>0, <2>1, <2>2, <2>3, <2>5, <2>6 DEF Exported, OneExport, Faithful, BackupTypes
  <2>8. ClickedFirst'
    BY <1>0, <2>1, <2>2, TaskClicked
  <2>9. ToldTrue'
    BY <1>0, <2>1, <2>2, TaskTold
  <2> QED
    BY <2>4, <2>7, <2>8, <2>9 DEF BackupInv
<1>4. CASE Backup!Write(r)
  <2> DEFINE v == [runs[r] EXCEPT !.stage = "written"]
  <2>1. /\ runs[r].stage = "read" /\ runs' = [runs EXCEPT ![r] = v]
        /\ work' = runs[r].read /\ UNCHANGED <<status, export, overlapped>>
    BY <1>4 DEF Backup!Write, Backup!At
  <2>2. v \in Records /\ v.stage = "written" /\ v.read = runs[r].read
    BY <1>0 DEF RunStages
  <2> HIDE DEF v
  <2>3. /\ Backup!Exporting' = Backup!Exporting \cup {r}
        /\ runs'[r] = v /\ \A q \in Backup!Runs \ {r} : runs'[q] = runs[q]
        /\ runs' \in [Backup!Runs -> Records]
    BY <2>1, <2>2, TaskExporting
  <2>4. BackupTypes'
    BY <1>0, <2>1, <2>3 DEF BackupTypes
  <2>5. r \in Backup!Exporting
    BY <2>1 DEF Backup!Exporting
  <2>6. Exported'
    <3> SUFFICES ASSUME ~overlapped
                 PROVE  OneExport' /\ \A q \in Backup!Runs : Faithful(q)'
      BY <2>1 DEF Exported
    <3>1. OneExport /\ \A q \in Backup!Runs : Faithful(q)
      BY <1>0 DEF Exported
    <3>2. OneExport'
      BY <2>1, <2>3, <2>5, <3>1 DEF OneExport
    <3>3. \A q \in Backup!Runs \ {r} : runs[q].stage # "written"
      BY <2>5, <3>1 DEF OneExport, Backup!Exporting
    <3>4. Faithful(r)'
      BY <1>0, <2>1, <2>2, <2>3, <3>1 DEF Faithful
    <3> QED
      BY <1>0, <2>3, <3>1, <3>2, <3>3, <3>4 DEF Faithful
  <2>7. ClickedFirst'
    BY <1>0, <2>1, <2>2, TaskClicked
  <2>8. ToldTrue'
    BY <1>0, <2>1, <2>2, TaskTold
  <2> QED
    BY <2>4, <2>6, <2>7, <2>8 DEF BackupInv
<1>5. CASE Backup!Push(r)
  <2> DEFINE v == [runs[r] EXCEPT !.stage = "pushed", !.pushed = work]
  <2>1. /\ runs[r].stage = "written" /\ runs' = [runs EXCEPT ![r] = v]
        /\ UNCHANGED <<work, status, export, overlapped>>
    <3>1. [runs EXCEPT ![r].stage = "pushed", ![r].pushed = work] = [runs EXCEPT ![r] = v]
      BY <1>0 DEF BackupTypes
    <3> QED
      BY <1>5, <3>1 DEF Backup!Push
  <2>2. v \in Records /\ v.stage = "pushed" /\ v.pushed = work
    BY <1>0 DEF RunStages, BackupTypes
  <2> HIDE DEF v
  <2>3. /\ Backup!Exporting' = Backup!Exporting \ {r}
        /\ runs'[r] = v /\ \A q \in Backup!Runs \ {r} : runs'[q] = runs[q]
        /\ runs' \in [Backup!Runs -> Records]
    BY <2>1, <2>2, TaskExporting
  <2>4. BackupTypes'
    BY <1>0, <2>1, <2>3 DEF BackupTypes
  <2>5. Exported'
    BY <1>0, <2>1, <2>2, <2>3 DEF Exported, OneExport, Faithful
  <2>6. ClickedFirst'
    BY <1>0, <2>1, <2>2, TaskClicked
  <2>7. ToldTrue'
    BY <1>0, <2>1, <2>2, TaskTold
  <2> QED
    BY <2>4, <2>5, <2>6, <2>7 DEF BackupInv
<1>6. CASE Backup!Finish(r)
  <2> DEFINE end == IF runs[r].stage = "pushed" THEN "success" ELSE "error"
             v == [runs[r] EXCEPT !.stage = end, !.read = 0]
  <2>1. /\ runs[r].stage \in {"pushed", "failing"} /\ runs' = [runs EXCEPT ![r] = v]
        /\ status' = [run |-> r, is |-> runs'[r].stage] /\ UNCHANGED <<work, export, overlapped>>
    <3>1. [runs EXCEPT ![r].stage = IF @ = "pushed" THEN "success" ELSE "error", ![r].read = 0]
            = [runs EXCEPT ![r] = v]
      BY <1>0 DEF BackupTypes
    <3> QED
      BY <1>6, <3>1 DEF Backup!Finish, Backup!Is
  <2>2. v \in Records /\ v.stage = end /\ v.pushed = runs[r].pushed
    BY <1>0 DEF RunStages
  <2> HIDE DEF v
  <2>3. /\ Backup!Exporting' = Backup!Exporting \ {r}
        /\ runs'[r] = v /\ \A q \in Backup!Runs \ {r} : runs'[q] = runs[q]
        /\ runs' \in [Backup!Runs -> Records]
    BY <2>1, <2>2, TaskExporting
  <2>4. BackupTypes'
    BY <1>0, <2>1, <2>2, <2>3 DEF BackupTypes, Statuses, Backup!Runs
  <2>5. Exported'
    BY <1>0, <2>1, <2>2, <2>3 DEF Exported, OneExport, Faithful
  <2>6. ClickedFirst'
    BY <1>0, <2>1, <2>2, TaskClicked
  <2>7. ToldTrue'
    <3>1. Honest(status)'
      BY <2>1 DEF Honest
    <3>2. \A q \in Backup!Runs : runs[q].stage = "success" => runs'[q].stage = "success"
      BY <2>1, <2>3
    <3> QED
      BY <1>0, <3>1, <3>2 DEF ToldTrue, Honest
  <2> QED
    BY <2>4, <2>5, <2>6, <2>7 DEF BackupInv
<1> QED
  BY <1>1, <1>2, <1>3, <1>4, <1>5, <1>6 DEF Backup!Task

\* an attempt to write or to do anything else that fails, and a run that is dropped
LEMMA FailureKeeps ==
  ASSUME BackupInv, NEW r \in Backup!Runs,
         Backup!WriteFails(r) \/ Backup!RunFails(r) \/ Backup!Drop(r)
  PROVE  BackupInv'
<1> DEFINE Records == [stage : RunStages, read : Nat, pushed : Nat]
<1>0. BackupTypes /\ Exported /\ ClickedFirst /\ ToldTrue /\ runs[r] \in Records
  BY DEF BackupInv, BackupTypes
<1>1. PICK v \in Records :
        /\ v.stage \in {"written", "failing", "dropped"}
        /\ runs[r].stage \notin {"none", "success"} /\ runs' = [runs EXCEPT ![r] = v]
        /\ overlapped' \in BOOLEAN /\ (overlapped => overlapped')
        /\ v.stage = "written" => overlapped' /\ r \in Backup!Exporting
        /\ v.stage # "written" => overlapped' = overlapped
        /\ UNCHANGED <<edits, work, status, export, clicks, result>>
  <2>1. CASE Backup!WriteFails(r)
    <3> DEFINE w == [runs[r] EXCEPT !.stage = "written"]
    <3>1. w \in Records /\ w.stage = "written"
      BY <1>0 DEF RunStages
    <3>2. runs' = [runs EXCEPT ![r] = w]
      BY <1>0, <2>1 DEF Backup!WriteFails, Backup!At, BackupTypes
    <3> HIDE DEF w
    <3> QED
      BY <1>0, <2>1, <3>1, <3>2 DEF Backup!WriteFails, Backup!At, Backup!pageVars, Backup!Exporting, BackupTypes
  <2>2. CASE Backup!RunFails(r)
    <3> DEFINE w == [Backup!NoRun EXCEPT !.stage = "failing"]
    <3>1. w \in Records /\ w.stage = "failing"
      BY <1>0 DEF RunStages, Backup!NoRun
    <3>2. runs' = [runs EXCEPT ![r] = w]
      BY <1>0, <2>2 DEF Backup!RunFails, Backup!Ended, BackupTypes
    <3> HIDE DEF w
    <3> QED
      BY <1>0, <2>2, <3>1, <3>2 DEF Backup!RunFails, Backup!Ended, Backup!pageVars, Backup!Exporting, BackupTypes
  <2>3. CASE Backup!Drop(r)
    <3> DEFINE w == [runs[r] EXCEPT !.stage = "dropped"]
    <3>1. w \in Records /\ w.stage = "dropped"
      BY <1>0 DEF RunStages
    <3>2. runs' = [runs EXCEPT ![r] = w]
      BY <1>0, <2>3 DEF Backup!Drop, Backup!At, BackupTypes
    <3> HIDE DEF w
    <3> QED
      BY <1>0, <2>3, <3>1, <3>2 DEF Backup!Drop, Backup!At, Backup!pageVars, Backup!Exporting, BackupTypes
  <2> QED
    BY <2>1, <2>2, <2>3
<1>3. /\ Backup!Exporting' = IF v.stage \in {"cleared", "read", "written"}
                                THEN Backup!Exporting \cup {r} ELSE Backup!Exporting \ {r}
      /\ runs'[r] = v /\ \A q \in Backup!Runs \ {r} : runs'[q] = runs[q]
      /\ runs' \in [Backup!Runs -> Records]
  BY <1>1, TaskExporting
<1>4. BackupTypes'
  BY <1>0, <1>1, <1>3 DEF BackupTypes
<1>5. Exported'
  BY <1>0, <1>1, <1>3 DEF Exported, OneExport, Faithful
<1>6. ClickedFirst'
  BY <1>0, <1>1, TaskClicked
<1>7. ToldTrue'
  BY <1>0, <1>1, TaskTold
<1> QED
  BY <1>4, <1>5, <1>6, <1>7 DEF BackupInv

LEMMA StartOtherKeeps ==
  ASSUME BackupInv, NEW r \in Backup!Runs, Backup!StartOther(r)
  PROVE  BackupInv'
<1> DEFINE Records == [stage : RunStages, read : Nat, pushed : Nat]
           v == [runs[r] EXCEPT !.stage = "queued"]
<1>0. BackupTypes /\ Exported /\ ClickedFirst /\ ToldTrue /\ runs[r] \in Records
  BY DEF BackupInv, BackupTypes
<1>1. /\ runs[r].stage = "none" /\ clicks[r].at = "none" /\ runs' = [runs EXCEPT ![r] = v]
      /\ UNCHANGED <<edits, work, status, export, overlapped, clicks, result>>
  BY DEF Backup!StartOther, Backup!pageVars
<1>2. v \in Records /\ v.stage = "queued"
  BY <1>0 DEF RunStages
<1> HIDE DEF v
<1>3. /\ Backup!Exporting' = Backup!Exporting \ {r}
      /\ runs'[r] = v /\ \A q \in Backup!Runs \ {r} : runs'[q] = runs[q]
      /\ runs' \in [Backup!Runs -> Records]
  BY <1>1, <1>2, TaskExporting
<1>4. BackupTypes'
  BY <1>0, <1>1, <1>3 DEF BackupTypes
<1>5. Exported'
  BY <1>0, <1>1, <1>2, <1>3 DEF Exported, OneExport, Faithful
<1>6. ClickedFirst'
  BY <1>0, <1>1, <1>3 DEF ClickedFirst
<1>7. ToldTrue'
  BY <1>0, <1>1, <1>2, TaskTold
<1> QED
  BY <1>4, <1>5, <1>6, <1>7 DEF BackupInv

LEMMA EditKeeps ==
  ASSUME BackupInv, Backup!Edit
  PROVE  BackupInv'
<1>1. /\ edits' = edits + 1
      /\ UNCHANGED <<work, status, runs, export, overlapped, clicks, result>>
  BY DEF Backup!Edit, Backup!pageVars
<1> QED
  BY <1>1 DEF BackupInv, BackupTypes, Exported, OneExport, Faithful, Backup!Exporting,
              ClickedFirst, ToldTrue, Honest

LEMMA ExportKeeps ==
  ASSUME BackupInv, Backup!Export
  PROVE  BackupInv'
<1>0. BackupTypes /\ Exported /\ ClickedFirst /\ ToldTrue
  BY DEF BackupInv
<1>1. UNCHANGED <<edits, status, runs, clicks, result>>
  BY DEF Backup!Export, Backup!pageVars
<1>2. ClickedFirst' /\ ToldTrue' /\ Backup!Exporting' = Backup!Exporting
  BY <1>0, <1>1 DEF ClickedFirst, ToldTrue, Honest, Backup!Exporting
<1>3. CASE /\ export.stage = "none" /\ export' = [stage |-> "cleared", read |-> 0] /\ work' = 0
           /\ overlapped' = (overlapped \/ Backup!Exporting # {})
  <2>1. BackupTypes'
    BY <1>0, <1>1, <1>3 DEF BackupTypes
  <2>2. Exported'
    BY <1>0, <1>1, <1>2, <1>3 DEF Exported, OneExport, Faithful, Backup!Exporting
  <2> QED
    BY <1>2, <2>1, <2>2 DEF BackupInv
<1>4. CASE /\ export.stage = "cleared" /\ export' = [stage |-> "read", read |-> edits]
           /\ UNCHANGED <<work, overlapped>>
  <2>1. BackupTypes'
    BY <1>0, <1>1, <1>4 DEF BackupTypes
  <2>2. Exported'
    BY <1>0, <1>1, <1>2, <1>4 DEF Exported, OneExport, Faithful
  <2> QED
    BY <1>2, <2>1, <2>2 DEF BackupInv
<1>5. CASE /\ export.stage = "read" /\ export' = [stage |-> "none", read |-> 0]
           /\ work' = export.read /\ UNCHANGED overlapped
  <2>1. BackupTypes'
    BY <1>0, <1>1, <1>5 DEF BackupTypes
  <2>2. Exported'
    BY <1>0, <1>1, <1>2, <1>5 DEF Exported, OneExport, Faithful, Backup!Exporting
  <2> QED
    BY <1>2, <2>1, <2>2 DEF BackupInv
<1> QED
  BY <1>3, <1>4, <1>5 DEF Backup!Export

-----------------------------------------------------------------------------
(* The server dies: what was over stays so, and nothing is exported.       *)
LEMMA CrashKeeps ==
  ASSUME BackupInv, Backup!Crash
  PROVE  BackupInv'
<1>0. BackupTypes /\ Exported /\ ClickedFirst /\ ToldTrue
  BY DEF BackupInv
<1>1. /\ export' = [stage |-> "none", read |-> 0]
      /\ UNCHANGED <<edits, work, status, overlapped, result>>
  BY DEF Backup!Crash
<1>2. ASSUME NEW r \in Backup!Runs
      PROVE  /\ runs'[r] \in [stage : RunStages, read : Nat, pushed : Nat]
             /\ runs[r].stage \in {"none", "success", "error", "dropped"} => runs'[r] = runs[r]
             /\ runs'[r].stage \in {"none", "success", "error", "dropped", "lost"}
             /\ runs'[r].stage = "success" => runs[r].stage = "success"
  BY <1>0 DEF Backup!Crash, Backup!NoRun, BackupTypes, RunStages
<1>3. ASSUME NEW r \in Backup!Runs
      PROVE  /\ clicks'[r] \in [at : ClickStages, polls : Nat, edits : Nat, read : Statuses]
             /\ clicks'[r].edits = clicks[r].edits /\ clicks'[r].read = clicks[r].read
             /\ clicks[r].at = "over" => clicks'[r].at = "over"
             /\ clicks'[r].at # "posting"
  BY <1>0 DEF Backup!Crash, BackupTypes, ClickStages
<1>4. runs' = [r \in Backup!Runs |-> runs'[r]] /\ clicks' = [r \in Backup!Runs |-> clicks'[r]]
  BY DEF Backup!Crash
<1>5. BackupTypes'
  <2>1. /\ runs' \in [Backup!Runs -> [stage : RunStages, read : Nat, pushed : Nat]]
        /\ clicks' \in [Backup!Runs -> [at : ClickStages, polls : Nat, edits : Nat, read : Statuses]]
    BY <1>2, <1>3, <1>4
  <2> QED
    BY <1>0, <1>1, <2>1 DEF BackupTypes
<1>6. Exported'
  <2>1. Backup!Exporting' = {}
    BY <1>2 DEF Backup!Exporting
  <2>2. overlapped \/ \A r \in Backup!Runs : Faithful(r)'
    BY <1>0, <1>2, <1>3 DEF Exported, Faithful
  <2> QED
    BY <1>1, <2>1, <2>2 DEF Exported, OneExport
<1>7. ClickedFirst'
  BY <1>0, <1>1, <1>3 DEF ClickedFirst
<1>8. ToldTrue'
  BY <1>0, <1>1, <1>2, <1>3 DEF ToldTrue, Honest
<1> QED
  BY <1>5, <1>6, <1>7, <1>8 DEF BackupInv

-----------------------------------------------------------------------------
(* The page *)

\* a step of the page leaves the runs alone; the server's answer may start one
LEMMA PageKeeps ==
  ASSUME BackupInv, UNCHANGED <<edits, work, status, runs, export, overlapped>>,
         NEW r \in Backup!Runs,
         NEW c \in [at : ClickStages, polls : Nat, edits : Nat, read : Statuses],
         clicks' = [clicks EXCEPT ![r] = c],
         c.edits <= clicks[r].edits \/ (c.edits <= edits /\ runs[r].stage = "none"),
         c.at = "posting" => runs[r].stage = "none",
         Honest(c.read),
         result' \in Statuses, Honest(result'),
         result'.is = "success" =>
           \/ result'.run = r /\ c.at = "over"
           \/ result' = result /\ result.run # r
  PROVE  BackupInv'
<1>0. BackupTypes /\ Exported /\ ClickedFirst /\ ToldTrue
  BY DEF BackupInv
<1>1. /\ clicks' \in [Backup!Runs -> [at : ClickStages, polls : Nat, edits : Nat, read : Statuses]]
      /\ clicks'[r] = c /\ \A q \in Backup!Runs \ {r} : clicks'[q] = clicks[q]
  BY <1>0 DEF BackupTypes
<1>2. BackupTypes'
  BY <1>0, <1>1 DEF BackupTypes
<1>3. Exported'
  <2>1. Backup!Exporting' = Backup!Exporting
    BY DEF Backup!Exporting
  <2>2. \A q \in Backup!Runs \ {r} : Faithful(q) => Faithful(q)'
    BY <1>1 DEF Faithful
  <2>3. Faithful(r) => Faithful(r)'
    BY <1>0, <1>1 DEF Faithful, BackupTypes
  <2> QED
    BY <1>0, <2>1, <2>2, <2>3 DEF Exported, OneExport
<1>4. ClickedFirst'
  BY <1>0, <1>1 DEF ClickedFirst, BackupTypes
<1>5. ToldTrue'
  <2>1. Honest(status)' /\ Honest(result)' /\ \A q \in Backup!Runs : Honest(clicks[q].read)'
    BY <1>0, <1>1 DEF ToldTrue, Honest
  <2>2. result'.is = "success" => result'.run \in Backup!Runs
    BY DEF Honest
  <2>3. result'.is = "success" => clicks'[result'.run].at = "over"
    BY <1>0, <1>1, <2>2 DEF ToldTrue
  <2> QED
    BY <2>1, <2>3 DEF ToldTrue
<1> QED
  BY <1>2, <1>3, <1>4, <1>5 DEF BackupInv

\* what the handlers make of the record of a click
LEMMA OverRecord ==
  ASSUME NEW k \in [at : ClickStages, polls : Nat, edits : Nat, read : Statuses],
         NEW a \in ClickStages, NEW n \in Nat, NEW c, c = [k EXCEPT !.at = a, !.edits = n]
  PROVE  /\ c \in [at : ClickStages, polls : Nat, edits : Nat, read : Statuses]
         /\ c.edits <= n /\ c.read = k.read /\ c.at = a
<1>1. c \in [at : ClickStages, polls : Nat, edits : Nat, read : Statuses]
  OBVIOUS
<1>2. c.edits = n /\ c.read = k.read /\ c.at = a
  OBVIOUS
<1> QED
  BY <1>1, <1>2

LEMMA HandlerKeeps ==
  ASSUME BackupInv, NEW r \in Backup!Runs,
         Backup!Click(r) \/ Backup!Refuse(r) \/ Backup!Handler(r)
  PROVE  BackupInv'
<1> DEFINE Clicked == [at : ClickStages, polls : Nat, edits : Nat, read : Statuses]
<1>0. /\ BackupTypes /\ ClickedFirst /\ ToldTrue
      /\ clicks[r] \in Clicked /\ result \in Statuses /\ status \in Statuses
      /\ UNCHANGED <<edits, work, status, runs, export, overlapped>>
  BY DEF BackupInv, BackupTypes, Backup!Click, Backup!Refuse, Backup!Handler, Backup!HearFailure,
         Backup!Poll, Backup!HearPoll, Backup!serverVars
<1>1. /\ Honest(result) /\ Honest(status) /\ Honest(clicks[r].read)
      /\ result.is = "success" /\ clicks[r].at # "over" => result.run # r
  BY <1>0 DEF ToldTrue
<1>2. Backup!Unknown \in Statuses /\ Honest(Backup!Unknown)
  BY DEF Backup!Unknown, Statuses, Honest
<1>3. CASE Backup!Click(r)
  <2> DEFINE c == [Backup!NoClick EXCEPT !.at = "posting", !.edits = edits]
  <2>1. /\ runs[r].stage = "none" /\ clicks' = [clicks EXCEPT ![r] = c]
        /\ result' = Backup!Unknown
    BY <1>3 DEF Backup!Click
  <2>2. c \in Clicked /\ c.edits = edits /\ c.read = Backup!Unknown
    BY <1>0, <1>2 DEF Backup!NoClick, ClickStages, BackupTypes
  <2>3. result'.is # "success" /\ edits <= edits
    BY <1>0, <2>1 DEF Backup!Unknown, BackupTypes
  <2> HIDE DEF c
  <2> QED
    BY <1>0, <1>2, <2>1, <2>2, <2>3, PageKeeps
<1>4. CASE Backup!Refuse(r)
  <2> DEFINE c == [clicks[r] EXCEPT !.at = "failed"]
  <2>1. /\ clicks[r].at \in {"posting", "accepted", "waiting"}
        /\ clicks' = [clicks EXCEPT ![r] = c] /\ UNCHANGED result
    BY <1>4 DEF Backup!Refuse
  <2>2. c \in Clicked /\ c.edits <= clicks[r].edits /\ c.read = clicks[r].read /\ c.at = "failed"
    BY <1>0 DEF ClickStages
  <2> HIDE DEF c
  <2> QED
    BY <1>0, <1>1, <2>1, <2>2, PageKeeps
<1>5. CASE Backup!HearFailure(r)
  <2> DEFINE c == [Backup!NoClick EXCEPT !.at = "over"]
  <2>1. /\ clicks[r].at = "failed" /\ clicks' = [clicks EXCEPT ![r] = c]
        /\ result' = result \/ result' = [run |-> 0, is |-> "error"]
    BY <1>5 DEF Backup!HearFailure, Backup!Result, Backup!Is
  <2>2. c \in Clicked /\ c.edits <= clicks[r].edits /\ c.read = Backup!Unknown /\ c.at = "over"
    BY <1>0, <1>2 DEF Backup!NoClick, ClickStages
  <2>3. /\ result' \in Statuses /\ Honest(result')
        /\ result'.is = "success" => result' = result /\ result.run # r
    BY <1>0, <1>1, <2>1 DEF Statuses, Honest
  <2> HIDE DEF c
  <2> QED
    BY <1>0, <1>2, <2>1, <2>2, <2>3, PageKeeps
<1>6. CASE Backup!Poll(r)
  <2> DEFINE c == [clicks[r] EXCEPT !.at = "answered", !.polls = @ + 1, !.read = status]
  <2>1. /\ clicks[r].at \in {"accepted", "waiting"}
        /\ clicks' = [clicks EXCEPT ![r] = c] /\ UNCHANGED result
    <3>1. [clicks EXCEPT ![r].at = "answered", ![r].polls = @ + 1, ![r].read = status]
            = [clicks EXCEPT ![r] = c]
      BY <1>0 DEF BackupTypes
    <3> QED
      BY <1>6, <3>1 DEF Backup!Poll
  <2>2. c \in Clicked /\ c.edits <= clicks[r].edits /\ c.read = status /\ c.at = "answered"
    <3>1. "answered" \in ClickStages /\ clicks[r].polls + 1 \in Nat
      BY <1>0 DEF ClickStages
    <3>2. c \in Clicked
      BY <1>0, <3>1
    <3>3. c.edits = clicks[r].edits /\ c.read = status /\ c.at = "answered"
      BY <1>0
    <3> HIDE DEF c
    <3> QED
      BY <1>0, <3>2, <3>3
  <2> HIDE DEF c
  <2> QED
    BY <1>0, <1>1, <2>1, <2>2, PageKeeps
<1>7. CASE Backup!HearPoll(r)
  <2> DEFINE over == [Backup!NoClick EXCEPT !.at = "over", !.edits = clicks[r].edits]
             again == [clicks[r] EXCEPT !.at = "waiting", !.read = Backup!Unknown]
  <2>1. /\ clicks[r].at = "answered"
        /\ \/ /\ clicks[r].read.run = r /\ clicks' = [clicks EXCEPT ![r] = over]
              /\ result' \in {result, clicks[r].read}
           \/ clicks' = [clicks EXCEPT ![r] = again] /\ UNCHANGED result
           \/ /\ clicks' = [clicks EXCEPT ![r] = over]
              /\ result' \in {result, [run |-> r, is |-> "running"]}
    <3>1. [clicks EXCEPT ![r].at = "waiting", ![r].read = Backup!Unknown]
            = [clicks EXCEPT ![r] = again]
      BY <1>0 DEF BackupTypes
    <3> QED
      BY <1>7, <3>1 DEF Backup!HearPoll, Backup!Over, Backup!Result, Backup!Is
  <2>2. /\ over \in Clicked /\ over.edits <= clicks[r].edits /\ over.read = Backup!Unknown
        /\ over.at = "over"
    <3>1. /\ Backup!NoClick \in Clicked /\ Backup!NoClick.read = Backup!Unknown
          /\ clicks[r].edits \in Nat /\ "over" \in ClickStages
      BY <1>0, <1>2 DEF Backup!NoClick, ClickStages
    <3> QED
      BY <3>1, OverRecord
  <2>3. /\ again \in Clicked /\ again.edits <= clicks[r].edits /\ again.read = Backup!Unknown
        /\ again.at = "waiting"
    <3>1. "waiting" \in ClickStages
      BY DEF ClickStages
    <3>2. again \in Clicked
      BY <1>0, <1>2, <3>1
    <3>3. again.edits = clicks[r].edits /\ again.read = Backup!Unknown /\ again.at = "waiting"
      BY <1>0
    <3> HIDE DEF again
    <3> QED
      BY <1>0, <3>2, <3>3
  <2> HIDE DEF over, again
  <2>4. CASE clicks[r].read.run = r /\ clicks' = [clicks EXCEPT ![r] = over]
             /\ result' \in {result, clicks[r].read}
    <3>1. result' \in Statuses /\ Honest(result')
      BY <1>0, <1>1, <2>4
    <3>2. result'.is = "success" => result'.run = r \/ (result' = result /\ result.run # r)
      BY <1>1, <2>1, <2>4
    <3> QED
      BY <1>0, <1>2, <2>2, <2>4, <3>1, <3>2, PageKeeps
  <2>5. CASE clicks' = [clicks EXCEPT ![r] = again] /\ UNCHANGED result
    BY <1>0, <1>1, <1>2, <2>1, <2>3, <2>5, PageKeeps
  <2>6. CASE clicks' = [clicks EXCEPT ![r] = over]
             /\ result' \in {result, [run |-> r, is |-> "running"]}
    <3>1. /\ result' \in Statuses /\ Honest(result')
          /\ result'.is = "success" => result' = result /\ result.run # r
      BY <1>0, <1>1, <2>1, <2>6 DEF Statuses, Honest, Backup!Runs
    <3> QED
      BY <1>0, <1>2, <2>2, <2>6, <3>1, PageKeeps
  <2> QED
    BY <2>1, <2>4, <2>5, <2>6
<1> QED
  BY <1>3, <1>4, <1>5, <1>6, <1>7 DEF Backup!Handler

LEMMA AcceptKeeps ==
  ASSUME BackupInv, NEW r \in Backup!Runs, Backup!Accept(r)
  PROVE  BackupInv'
<1> DEFINE Records == [stage : RunStages, read : Nat, pushed : Nat]
           Clicked == [at : ClickStages, polls : Nat, edits : Nat, read : Statuses]
           v == [runs[r] EXCEPT !.stage = "queued"]
           c == [clicks[r] EXCEPT !.at = "accepted"]
<1>0. /\ BackupTypes /\ Exported /\ ClickedFirst /\ ToldTrue
      /\ runs[r] \in Records /\ clicks[r] \in Clicked
  BY DEF BackupInv, BackupTypes
<1>1. /\ clicks[r].at = "posting" /\ runs[r].stage = "none"
      /\ runs' = [runs EXCEPT ![r] = v] /\ clicks' = [clicks EXCEPT ![r] = c]
      /\ status' \in {status, [run |-> r, is |-> "running"]}
      /\ UNCHANGED <<edits, work, export, overlapped, result>>
  BY <1>0 DEF Backup!Accept, Backup!At, Backup!Is, ClickedFirst
<1>2. v \in Records /\ v.stage = "queued"
  BY <1>0 DEF RunStages
<1>3. c \in Clicked /\ c.edits = clicks[r].edits /\ c.read = clicks[r].read /\ c.at = "accepted"
  BY <1>0 DEF ClickStages
<1> HIDE DEF v, c
<1>4. /\ Backup!Exporting' = Backup!Exporting \ {r}
      /\ runs'[r] = v /\ \A q \in Backup!Runs \ {r} : runs'[q] = runs[q]
      /\ runs' \in [Backup!Runs -> Records]
  BY <1>1, <1>2, TaskExporting
<1>5. /\ clicks'[r] = c /\ \A q \in Backup!Runs \ {r} : clicks'[q] = clicks[q]
      /\ clicks' \in [Backup!Runs -> Clicked]
  BY <1>0, <1>1, <1>3 DEF BackupTypes
<1>6. BackupTypes'
  <2>1. [run |-> r, is |-> "running"] \in Statuses
    BY DEF Statuses, Backup!Runs
  <2>2. status' \in Statuses
    BY <1>0, <1>1, <2>1 DEF BackupTypes
  <2> QED
    BY <1>0, <1>1, <1>4, <1>5, <2>2 DEF BackupTypes
<1>7. Exported'
  BY <1>0, <1>1, <1>2, <1>4, <1>5 DEF Exported, OneExport, Faithful
<1>8. ClickedFirst'
  BY <1>0, <1>1, <1>3, <1>4, <1>5 DEF ClickedFirst
<1>9. ToldTrue'
  <2>1. Honest(status)' /\ \A q \in Backup!Runs : runs[q].stage = "success" => runs'[q].stage = "success"
    BY <1>0, <1>1, <1>4 DEF ToldTrue, Honest
  <2>2. result.is = "success" => clicks'[result.run].at = "over"
    BY <1>0, <1>1, <1>5 DEF ToldTrue, Honest
  <2>3. Honest(result)' /\ \A q \in Backup!Runs : Honest(clicks[q].read)'
    BY <1>0, <1>1, <1>3, <1>5, <2>1 DEF ToldTrue, Honest
  <2> QED
    BY <1>1, <2>1, <2>2, <2>3 DEF ToldTrue
<1> QED
  BY <1>6, <1>7, <1>8, <1>9 DEF BackupInv

LEMMA BackupUntouched ==
  ASSUME BackupInv, UNCHANGED <<edits, work, status, runs, export, overlapped, clicks>>,
         result' = result \/ result' = Backup!Unknown
  PROVE  BackupInv'
<1>1. BackupTypes'
  BY DEF BackupInv, BackupTypes, Backup!Unknown, Statuses
<1>2. Exported' /\ ClickedFirst'
  BY DEF BackupInv, Exported, OneExport, Faithful, Backup!Exporting, ClickedFirst
<1>3. ToldTrue'
  BY DEF BackupInv, ToldTrue, Honest, Backup!Unknown
<1> QED
  BY <1>1, <1>2, <1>3 DEF BackupInv

LEMMA BackupInvStep == BackupInv /\ [WebNext]_webPagesVars => BackupInv'
<1> SUFFICES ASSUME BackupInv, [WebNext]_webPagesVars
             PROVE  BackupInv'
  OBVIOUS
<1>1. CASE BackupStep
  <2>1. Backup!GbNext
    BY <1>1 DEF BackupStep
  <2>2. CASE Backup!Reopen \/ Backup!Refetch
    BY <2>2, BackupUntouched DEF Backup!Reopen, Backup!Refetch, Backup!serverVars
  <2> QED
    BY <2>1, <2>2, EditKeeps, ExportKeeps, CrashKeeps, StartOtherKeeps, TaskKeeps, FailureKeeps,
       HandlerKeeps, AcceptKeeps DEF Backup!GbNext
<1>2. CASE UNCHANGED backupVars
  BY <1>2, BackupUntouched DEF backupVars
<1>3. SessionStep \/ AccountsStep \/ TreeStep \/ DagStep \/ CatalogsStep \/ UNCHANGED webPagesVars
        => UNCHANGED backupVars
  BY DEF SessionStep, AccountsStep, TreeStep, DagStep, CatalogsStep, webPagesVars
<1> QED
  BY <1>1, <1>2, <1>3 DEF WebNext

(* "Synced to Git" is not said before it is true: unless exports met or a  *)
(* disk failed, what the page reports as its success was pushed with all   *)
(* that the catalogs held at the click, whoever else starts runs, edits    *)
(* and exports (CatalogList.tsx, sync.py).                                 *)
THEOREM SyncTellsTrue == WebSpec => []SyncedIsPushed
<1>1. BackupInv => SyncedIsPushed
  BY DEF BackupInv, ToldTrue, Honest, Exported, Faithful, SyncedIsPushed, Backup!SyncedIsPushed
<1> QED
  BY <1>1, BackupInvInit, BackupInvStep, PTL DEF WebSpec
-----------------------------------------------------------------------------
(* A behaviour is one of the page that is chosen. *)

LEMMA PageStays == [WebNext]_webPagesVars => UNCHANGED page
BY DEF WebNext, SessionStep, AccountsStep, BackupStep, TreeStep, DagStep, CatalogsStep,
       webPagesVars, sharedVars

-----------------------------------------------------------------------------
(* The tree of outputs *)

TreeTyped ==
  /\ open \subseteq Folders /\ DOMAIN loads \subseteq Folders /\ loaded \subseteq settled
  /\ DOMAIN before = DOMAIN loads
  /\ \A p \in DOMAIN loads :
       /\ loads[p].is \in {"asked", "answer", "failed"}
       /\ loads[p] = [is |-> loads[p].is, list |-> loads[p].list]

\* a folder whose children are known was answered for, and with those children
ListedAsGot ==
  \A p \in DOMAIN listed : p # <<>> =>
    Tree!InTree(p) /\ p \in settled /\ p \in DOMAIN got /\ listed[p] = got[p]

\* a folder is asked for once
AskedOnce == \A p \in DOMAIN loads : p \notin settled /\ (p \in spoilt \/ Tree!InTree(p))

AnswersKept == settled \subseteq spoilt \cup DOMAIN listed

OpenIsAsked == open \subseteq settled \cup DOMAIN loads

TreeInv == TreeTyped /\ ListedAsGot /\ AskedOnce /\ AnswersKept /\ OpenIsAsked

LEMMA TreeInvInit == WebInit => TreeInv
BY DEF WebInit, Tree!RtInit, TreeInv, TreeTyped, ListedAsGot, AskedOnce, AnswersKept, OpenIsAsked

LEMMA FoldersAreNotTheRoot == \A p \in Folders : p \in Paths /\ p # <<>>
BY PagesAssumption DEF PagesAssumption, Tree!PathsAssumption

LEMMA TreeUntouched ==
  ASSUME TreeInv, UNCHANGED <<listed, loads, before, loaded, settled, open, got, spoilt>>
  PROVE  TreeInv'
BY DEF TreeInv, TreeTyped, ListedAsGot, AskedOnce, AnswersKept, OpenIsAsked, Tree!InTree

LEMMA NewRootKeeps ==
  ASSUME TreeInv, Tree!NewRoot
  PROVE  TreeInv'
<1>1. /\ DOMAIN listed' = {<<>>} /\ loaded' = {}
      /\ spoilt' = spoilt \cup settled \cup DOMAIN loads
      /\ UNCHANGED <<loads, before, settled, open, got>>
  BY DEF Tree!NewRoot
<1>2. TreeTyped' /\ ListedAsGot' /\ OpenIsAsked'
  BY <1>1 DEF TreeInv, TreeTyped, ListedAsGot, OpenIsAsked
<1>3. AskedOnce' /\ AnswersKept'
  BY <1>1 DEF TreeInv, AskedOnce, AnswersKept
<1> QED
  BY <1>2, <1>3 DEF TreeInv

LEMMA ExpandKeeps ==
  ASSUME TreeInv, NEW p \in Paths, Tree!Expand(p)
  PROVE  TreeInv'
<1>1. /\ Tree!InTree(p) /\ p \in Folders /\ p # <<>> /\ open' = open \cup {p}
      /\ UNCHANGED <<listed, loaded, settled, got, spoilt>>
  BY FoldersAreNotTheRoot DEF Tree!Expand
<1>2. CASE UNCHANGED <<loads, before>> /\ (p \in DOMAIN listed \/ p \in settled \cup loaded \/ p \in DOMAIN loads)
  <2>1. p \in settled \cup DOMAIN loads
    BY <1>1, <1>2 DEF TreeInv, TreeTyped, ListedAsGot
  <2>2. TreeTyped' /\ OpenIsAsked'
    BY <1>1, <1>2, <2>1 DEF TreeInv, TreeTyped, OpenIsAsked
  <2>3. ListedAsGot' /\ AskedOnce' /\ AnswersKept'
    BY <1>1, <1>2 DEF TreeInv, ListedAsGot, AskedOnce, AnswersKept, Tree!InTree
  <2> QED
    BY <2>2, <2>3 DEF TreeInv
<1>3. CASE /\ p \notin settled \cup loaded
           /\ DOMAIN loads' = DOMAIN loads \cup {p} /\ DOMAIN before' = DOMAIN before \cup {p}
           /\ loads'[p] = [is |-> "asked", list |-> {}]
           /\ \A q \in DOMAIN loads \ {p} : loads'[q] = loads[q]
  <2>1. TreeTyped' /\ OpenIsAsked'
    BY <1>1, <1>3 DEF TreeInv, TreeTyped, OpenIsAsked
  <2>2. ListedAsGot' /\ AskedOnce' /\ AnswersKept'
    BY <1>1, <1>3 DEF TreeInv, ListedAsGot, AskedOnce, AnswersKept, Tree!InTree
  <2> QED
    BY <2>1, <2>2 DEF TreeInv
<1> QED
  BY <1>2, <1>3 DEF Tree!Expand, Tree!Asked

LEMMA ServeListKeeps ==
  ASSUME TreeInv, NEW p \in Paths, Tree!ServeList(p)
  PROVE  TreeInv'
<1>1. /\ UNCHANGED <<listed, before, loaded, settled, open, got, spoilt>>
      /\ p \in DOMAIN loads /\ DOMAIN loads' = DOMAIN loads
      /\ \A q \in DOMAIN loads \ {p} : loads'[q] = loads[q]
  BY DEF Tree!ServeList, Tree!Asked
<1>2. /\ loads'[p].is \in {"answer", "failed"}
      /\ loads'[p] = [is |-> loads'[p].is, list |-> loads'[p].list]
  <2>1. CASE loads' = [loads EXCEPT ![p] = [is |-> "answer", list |-> Tree!Listing(p)]]
    BY <1>1, <2>1
  <2>2. CASE loads' = [loads EXCEPT ![p].is = "failed"]
    <3> DEFINE r == [is |-> loads[p].is, list |-> loads[p].list]
    <3>1. loads[p] = r
      BY <1>1 DEF TreeInv, TreeTyped
    <3>2. loads'[p] = [r EXCEPT !.is = "failed"]
      BY <1>1, <2>2, <3>1
    <3>3. loads'[p] = [is |-> "failed", list |-> loads[p].list]
      BY <3>2
    <3> QED
      BY <3>3
  <2> QED
    BY <2>1, <2>2 DEF Tree!ServeList
<1> QED
  BY <1>1, <1>2
     DEF TreeInv, TreeTyped, ListedAsGot, AskedOnce, AnswersKept, OpenIsAsked, Tree!InTree

(* A listing that comes is the first of its folder, and changes that of no *)
(* other: what was in the tree stays in it.                                *)
LEMMA HearListKeeps ==
  ASSUME TreeInv, NEW p \in Paths, Tree!HearList(p)
  PROVE  TreeInv'
<1>1. /\ p \in DOMAIN loads /\ p \in Folders /\ p # <<>>
      /\ p \notin settled /\ p \notin DOMAIN listed
      /\ p \in spoilt \/ Tree!InTree(p)
  BY FoldersAreNotTheRoot DEF TreeInv, TreeTyped, AskedOnce, ListedAsGot, Tree!HearList, Tree!Asked
<1>2. /\ UNCHANGED open /\ settled' = settled \cup {p}
      /\ DOMAIN loads' = DOMAIN loads \ {p} /\ DOMAIN before' = DOMAIN before \ {p}
      /\ \A q \in DOMAIN loads' : loads'[q] = loads[q]
  BY DEF Tree!HearList, Tree!Without
<1>3. \/ /\ loads[p].is = "answer" /\ loaded' = loaded \cup {p} /\ UNCHANGED spoilt
         /\ listed' = Tree!UpdateTree(p, loads[p].list)
         /\ got' = Tree!With(got, p, loads[p].list)
      \/ spoilt' = spoilt \cup {p} /\ UNCHANGED <<listed, loaded, got>>
  BY DEF Tree!HearList
<1>4. /\ DOMAIN listed \subseteq DOMAIN listed'
      /\ \A q \in DOMAIN listed : listed'[q] = listed[q]
      /\ \A q \in DOMAIN listed' \ DOMAIN listed :
           q = p /\ Tree!InTree(p) /\ p \in DOMAIN got' /\ listed'[p] = got'[p]
      /\ \A q \in DOMAIN got \ {p} : q \in DOMAIN got' /\ got'[q] = got[q]
      /\ p \in spoilt' \cup DOMAIN listed'
      /\ spoilt \subseteq spoilt'
      /\ loaded' \subseteq loaded \cup {p}
  <2>1. CASE /\ loads[p].is = "answer" /\ loaded' = loaded \cup {p} /\ UNCHANGED spoilt
             /\ listed' = Tree!UpdateTree(p, loads[p].list)
             /\ got' = Tree!With(got, p, loads[p].list)
    <3>1. /\ p \in DOMAIN got' /\ got'[p] = loads[p].list
          /\ \A q \in DOMAIN got \ {p} : q \in DOMAIN got' /\ got'[q] = got[q]
      BY <2>1 DEF Tree!With
    <3>2. CASE Tree!InTree(p)
      <4>1. listed' = Tree!With(listed, p, loads[p].list)
        BY <2>1, <3>2 DEF Tree!UpdateTree
      <4>2. /\ DOMAIN listed' = DOMAIN listed \cup {p} /\ listed'[p] = loads[p].list
            /\ \A q \in DOMAIN listed \ {p} : listed'[q] = listed[q]
        BY <4>1 DEF Tree!With
      <4> QED
        BY <1>1, <2>1, <3>1, <3>2, <4>2
    <3>3. CASE ~Tree!InTree(p)
      <4>1. listed' = listed
        BY <2>1, <3>3 DEF Tree!UpdateTree
      <4> QED
        BY <1>1, <2>1, <3>1, <3>3, <4>1
    <3> QED
      BY <3>2, <3>3
  <2>2. CASE spoilt' = spoilt \cup {p} /\ UNCHANGED <<listed, loaded, got>>
    BY <2>2
  <2> QED
    BY <1>3, <2>1, <2>2
<1>5. \A q : Tree!InTree(q) => Tree!InTree(q)'
  BY <1>4 DEF Tree!InTree
<1>6. TreeTyped' /\ OpenIsAsked'
  BY <1>1, <1>2, <1>4 DEF TreeInv, TreeTyped, OpenIsAsked
<1>7. ListedAsGot'
  BY <1>1, <1>2, <1>4, <1>5 DEF TreeInv, ListedAsGot
<1>8. AskedOnce' /\ AnswersKept'
  BY <1>1, <1>2, <1>4, <1>5 DEF TreeInv, AskedOnce, AnswersKept
<1> QED
  BY <1>6, <1>7, <1>8 DEF TreeInv

LEMMA TreeInvStep == TreeInv /\ [WebNext]_webPagesVars => TreeInv'
<1> SUFFICES ASSUME TreeInv, [WebNext]_webPagesVars PROVE TreeInv'
  OBVIOUS
<1>1. CASE TreeStep
  <2>1. Tree!RtNext
    BY <1>1 DEF TreeStep
  <2>2. ASSUME NEW p \in Paths, Tree!RunWrites(p) \/ Tree!Select(p)
        PROVE  TreeInv'
    BY <2>2, TreeUntouched DEF Tree!RunWrites, Tree!Select, Tree!treeVars
  <2>3. CASE Tree!Fullscreen
    BY <2>3, TreeUntouched DEF Tree!Fullscreen
  <2>4. ASSUME NEW p \in Paths, Tree!Collapse(p)
        PROVE  TreeInv'
    BY <2>4 DEF Tree!Collapse, TreeInv, TreeTyped, ListedAsGot, AskedOnce, AnswersKept,
                OpenIsAsked, Tree!InTree
  <2> QED
    BY <2>1, <2>2, <2>3, <2>4, NewRootKeeps, ExpandKeeps, ServeListKeeps, HearListKeeps
       DEF Tree!RtNext
<1>2. CASE UNCHANGED treeVars
  BY <1>2, TreeUntouched DEF treeVars
<1>3. SessionStep \/ AccountsStep \/ BackupStep \/ DagStep \/ CatalogsStep \/ UNCHANGED webPagesVars
        => UNCHANGED treeVars
  BY DEF SessionStep, AccountsStep, BackupStep, DagStep, CatalogsStep, webPagesVars
<1> QED
  BY <1>1, <1>2, <1>3 DEF WebNext

(* An open folder of the tree of outputs shows what the server answered    *)
(* for it, for any tree of folders, however many listings overlap and in   *)
(* whatever order they come (ResultViewer.tsx).                            *)
THEOREM OpenFoldersFill == WebSpec => []FoldersFill
<1>1. TreeInv => FoldersFill
  <2> SUFFICES ASSUME TreeInv, NEW p \in open, ~Tree!Asked(p), p \notin spoilt
               PROVE  p \in DOMAIN listed /\ p \in DOMAIN got /\ listed[p] = got[p]
    BY DEF FoldersFill, Tree!FoldersFill
  <2>1. p \in settled
    BY DEF TreeInv, OpenIsAsked, Tree!Asked
  <2>2. p \in DOMAIN listed /\ p # <<>>
    BY <2>1, FoldersAreNotTheRoot DEF TreeInv, AnswersKept, TreeTyped
  <2> QED
    BY <2>2 DEF TreeInv, ListedAsGot
<1> QED
  BY <1>1, TreeInvInit, TreeInvStep, PTL DEF WebSpec

-----------------------------------------------------------------------------
(* The picture of a workflow *)

Waits(a) == a.live /\ a.at \in {"queued", "wait", "svg"}

AsksTyped ==
  /\ DOMAIN asks = Viewers
  /\ \A v \in Viewers : \A a \in asks[v] : a = [at |-> a.at, live |-> a.live, forced |-> a.forced]

\* the registry knows of the job, which leaves something when it is over
JobIsKnown ==
  /\ busy <=> job # "none"
  /\ job = "written" => svg # "none" \/ err \/ swept \/ lost

SomethingComes == busy \/ svg # "none" \/ err \/ Dag!Starting \/ swept \/ lost

WaitsKnow == (\E v \in Viewers : \E a \in asks[v] : Waits(a)) => SomethingComes

DagInv == AsksTyped /\ JobIsKnown /\ WaitsKnow

dagServerVars == <<svg, err, busy, job, swept, lost>>

LEMMA DagInvInit == WebInit => DagInv
BY DEF WebInit, Dag!DagInit, DagInv, AsksTyped, JobIsKnown, WaitsKnow, SomethingComes

LEMMA DagUntouched ==
  ASSUME DagInv, UNCHANGED <<dagServerVars, asks>>
  PROVE  DagInv'
BY DEF DagInv, dagServerVars, AsksTyped, JobIsKnown, WaitsKnow, SomethingComes, Waits, Dag!Starting

(* The steps of the page: nothing begins to wait that did not wait before, *)
(* and no POST that is being served is forgotten.                          *)
LEMMA PageKeepsDag ==
  ASSUME DagInv, UNCHANGED dagServerVars, DOMAIN asks' = Viewers,
         \A v \in Viewers : \A b \in asks'[v] :
           /\ b = [at |-> b.at, live |-> b.live, forced |-> b.forced]
           /\ Waits(b) => \E a \in asks[v] : Waits(a),
         \A v \in Viewers : \A a \in asks[v] : a.at = "sweep" => \E b \in asks'[v] : b.at = "sweep"
  PROVE  DagInv'
<1>1. Dag!Starting => Dag!Starting'
  BY DEF Dag!Starting
<1>2. AsksTyped' /\ JobIsKnown'
  BY DEF DagInv, AsksTyped, JobIsKnown, dagServerVars
<1>3. WaitsKnow'
  BY <1>1 DEF DagInv, WaitsKnow, SomethingComes, dagServerVars, Waits
<1> QED
  BY <1>2, <1>3 DEF DagInv

\* two records of asks that differ in one field
LEMMA AskFields ==
  ASSUME NEW a, a = [at |-> a.at, live |-> a.live, forced |-> a.forced], NEW x
  PROVE  /\ [a EXCEPT !.live = x] = [at |-> a.at, live |-> x, forced |-> a.forced]
         /\ [a EXCEPT !.at = x] = [at |-> x, live |-> a.live, forced |-> a.forced]
<1> DEFINE r == [at |-> a.at, live |-> a.live, forced |-> a.forced]
<1>1. [r EXCEPT !.live = x] = [at |-> a.at, live |-> x, forced |-> a.forced]
  OBVIOUS
<1>2. [r EXCEPT !.at = x] = [at |-> x, live |-> a.live, forced |-> a.forced]
  OBVIOUS
<1> QED
  BY <1>1, <1>2

LEMMA EffectKeeps ==
  ASSUME DagInv, UNCHANGED dagServerVars, NEW v \in Viewers, NEW forced,
         NEW old \in SUBSET asks[v], \A a \in asks[v] \ old : a.at # "sweep", 
         Dag!Effect(v, forced, old)
  PROVE  DagInv'
<1> DEFINE Left == {b \in old : b.at # "wait"}
           New == [at |-> IF variant = "catalog" THEN "preview" ELSE "post", live |-> TRUE, forced |-> forced]
           Asks == {[a EXCEPT !.live = FALSE] : a \in Left} \cup {New}
<1>1. DOMAIN asks' = Viewers /\ asks'[v] = Asks /\ \A w \in Viewers \ {v} : asks'[w] = asks[w]
  BY DEF DagInv, AsksTyped, Dag!Effect
<1>2. \A a \in Left : [a EXCEPT !.live = FALSE] = [at |-> a.at, live |-> FALSE, forced |-> a.forced]
  BY AskFields DEF DagInv, AsksTyped
<1>3. \A b \in Asks : b = [at |-> b.at, live |-> b.live, forced |-> b.forced] /\ ~Waits(b)
  <2> SUFFICES ASSUME NEW b \in Asks
               PROVE  b = [at |-> b.at, live |-> b.live, forced |-> b.forced] /\ ~Waits(b)
    OBVIOUS
  <2>1. CASE b = New
    BY <2>1 DEF Waits
  <2>2. CASE b \in {[a EXCEPT !.live = FALSE] : a \in Left}
    <3>1. PICK a \in Left : b = [a EXCEPT !.live = FALSE]
      BY <2>2
    <3>2. b = [at |-> a.at, live |-> FALSE, forced |-> a.forced]
      BY <1>2, <3>1
    <3> QED
      BY <3>2 DEF Waits
  <2> QED
    BY <2>1, <2>2
<1>4. \A a \in asks[v] : a.at = "sweep" => \E b \in Asks : b.at = "sweep"
  <2> SUFFICES ASSUME NEW a \in asks[v], a.at = "sweep" PROVE \E b \in Asks : b.at = "sweep"
    OBVIOUS
  <2>1. a \in Left
    OBVIOUS
  <2>2. [a EXCEPT !.live = FALSE] \in Asks /\ [a EXCEPT !.live = FALSE].at = "sweep"
    BY <1>2, <2>1
  <2> QED
    BY <2>2
<1> QED
  BY <1>1, <1>3, <1>4, PageKeepsDag DEF DagInv, AsksTyped

LEMMA OverKeeps ==
  ASSUME DagInv, UNCHANGED dagServerVars, NEW v \in Viewers, NEW a, a.at # "sweep", Dag!Over(v, a)
  PROVE  DagInv'
BY PageKeepsDag DEF DagInv, AsksTyped, Dag!Over

LEMMA GoesOnKeeps ==
  ASSUME DagInv, UNCHANGED dagServerVars, NEW v \in Viewers, NEW a \in asks[v], a.at # "sweep",
         NEW at, Dag!GoesOn(v, a, at), at \in {"queued", "wait", "svg"} => a.at \in {"queued", "wait", "svg"}
  PROVE  DagInv'
<1> DEFINE b == [a EXCEPT !.at = at]
<1>1. b = [at |-> at, live |-> a.live, forced |-> a.forced]
  BY AskFields DEF DagInv, AsksTyped
<1>2. b = [at |-> b.at, live |-> b.live, forced |-> b.forced] /\ (Waits(b) => Waits(a))
  BY <1>1 DEF Waits
<1>3. /\ DOMAIN asks' = Viewers /\ \A w \in Viewers \ {v} : asks'[w] = asks[w]
      /\ asks[v] \ {a} \subseteq asks'[v]
      /\ asks'[v] \subseteq (asks[v] \ {a}) \cup {b}
  BY DEF DagInv, AsksTyped, Dag!GoesOn
<1> HIDE DEF b
<1> QED
  BY <1>2, <1>3, PageKeepsDag DEF DagInv, AsksTyped

LEMMA CloseDagKeeps ==
  ASSUME DagInv, NEW v \in Viewers, Dag!CloseDag(v)
  PROVE  DagInv'
<1>1. /\ UNCHANGED dagServerVars /\ ~Dag!Starting
      /\ DOMAIN asks' = Viewers /\ \A w \in Viewers \ {v} : asks'[w] = asks[w]
      /\ asks'[v] = {[a EXCEPT !.live = FALSE] : a \in {b \in asks[v] : b.at = "post"}}
  BY DEF DagInv, AsksTyped, Dag!CloseDag, Dag!Same, Dag!dagFiles, dagServerVars
<1>2. ASSUME NEW b \in asks'[v]
      PROVE  b = [at |-> b.at, live |-> b.live, forced |-> b.forced] /\ ~Waits(b)
  <2>1. PICK a \in asks[v] : b = [a EXCEPT !.live = FALSE]
    BY <1>1
  <2>2. b = [at |-> a.at, live |-> FALSE, forced |-> a.forced]
    BY <2>1, AskFields DEF DagInv, AsksTyped
  <2> QED
    BY <2>2 DEF Waits
<1> QED
  BY <1>1, <1>2, PageKeepsDag DEF DagInv, AsksTyped, Dag!Starting

LEMMA ShownKeeps ==
  ASSUME DagInv, UNCHANGED dagServerVars, NEW v \in Viewers, NEW a \in asks[v], a.at # "sweep", Dag!Shown(v, a)
  PROVE  DagInv'
<1>1. CASE Dag!Effect(v, FALSE, asks[v] \ {a})
  BY <1>1, EffectKeeps
<1>2. CASE Dag!Over(v, a)
  BY <1>2, OverKeeps
<1> QED
  BY <1>1, <1>2 DEF Dag!Shown

LEMMA ViewerKeeps ==
  ASSUME DagInv, NEW v \in Viewers, Dag!Viewer(v)
  PROVE  DagInv'
<1>1. PICK a \in asks[v] : Dag!Preview(v, a) \/ Dag!HearPost(v, a) \/ Dag!Poll(v, a) \/ Dag!LoadSvg(v, a)
  BY DEF Dag!Viewer
<1>2. CASE Dag!Preview(v, a)
  <2>1. UNCHANGED dagServerVars /\ a.at = "preview" /\ (Dag!Shown(v, a) \/ Dag!GoesOn(v, a, "post"))
    BY <1>2 DEF Dag!Preview, Dag!Same, Dag!dagFiles, dagServerVars
  <2> QED
    BY <2>1, ShownKeeps, GoesOnKeeps
<1>3. CASE Dag!HearPost(v, a)
  <2>1. /\ UNCHANGED dagServerVars /\ a.at \in {"there", "queued"}
        /\ Dag!GoesOn(v, a, IF a.at = "there" THEN "svg once" ELSE "wait")
    BY <1>3 DEF Dag!HearPost, Dag!Same, Dag!dagFiles, dagServerVars
  <2>2. CASE a.at = "there"
    BY <2>1, <2>2, GoesOnKeeps
  <2>3. CASE a.at = "queued"
    BY <2>1, <2>3, GoesOnKeeps
  <2> QED
    BY <2>1, <2>2, <2>3
<1>4. CASE Dag!Poll(v, a)
  <2>1. UNCHANGED dagServerVars /\ a.at = "wait" /\ (Dag!Over(v, a) \/ Dag!GoesOn(v, a, "svg"))
    BY <1>4 DEF Dag!Poll, Dag!Failed, Dag!Same, Dag!dagFiles, dagServerVars
  <2> QED
    BY <2>1, OverKeeps, GoesOnKeeps
<1>5. CASE Dag!LoadSvg(v, a)
  <2>1. /\ UNCHANGED dagServerVars /\ a.at \in {"svg", "svg once"}
        /\ Dag!Shown(v, a) \/ Dag!Over(v, a) \/ (a.at = "svg" /\ Dag!GoesOn(v, a, "wait"))
    BY <1>5 DEF Dag!LoadSvg, Dag!Failed, Dag!Same, Dag!dagFiles, dagServerVars
  <2> QED
    BY <2>1, ShownKeeps, OverKeeps, GoesOnKeeps
<1> QED
  BY <1>1, <1>2, <1>3, <1>4, <1>5

(* A POST that sweeps is being served until it has queued a job. *)
LEMMA PostKeeps ==
  ASSUME DagInv, NEW v \in Viewers, NEW a \in asks[v], Dag!PostLooks(v, a) \/ Dag!PostSweeps(v, a)
  PROVE  DagInv'
<1>1. CASE Dag!PostLooks(v, a)
  <2> DEFINE forced == a.forced /\ variant = "catalog"
             at == IF svg # "none" /\ ~forced THEN "there" ELSE "sweep"
             b == [a EXCEPT !.at = at]
  <2>1. b = [at |-> at, live |-> a.live, forced |-> a.forced]
    BY AskFields DEF DagInv, AsksTyped
  <2>2. /\ b = [at |-> b.at, live |-> b.live, forced |-> b.forced] /\ ~Waits(b)
        /\ forced => b.at = "sweep"
    BY <2>1 DEF Waits
  <2>3. /\ DOMAIN asks' = Viewers /\ \A w \in Viewers \ {v} : asks'[w] = asks[w]
        /\ asks'[v] = (asks[v] \ {a}) \cup {b}
    BY <1>1 DEF DagInv, AsksTyped, Dag!PostLooks
  <2>4. /\ UNCHANGED <<busy, job, lost>> /\ (swept => swept')
        /\ forced \/ UNCHANGED <<svg, err>>
        /\ forced /\ job = "written" => swept'
        /\ a.at = "post" /\ ~Dag!Starting
    BY <1>1 DEF Dag!PostLooks
  <2> HIDE DEF forced, b
  <2>5. AsksTyped'
    BY <2>2, <2>3 DEF DagInv, AsksTyped
  <2>6. JobIsKnown'
    BY <2>4 DEF DagInv, JobIsKnown
  <2>7. CASE forced
    <3>1. Dag!Starting'
      BY <2>2, <2>3, <2>7 DEF Dag!Starting
    <3> QED
      BY <2>5, <2>6, <3>1 DEF DagInv, WaitsKnow, SomethingComes
  <2>8. CASE ~forced
    <3>1. (\E w \in Viewers : \E c \in asks'[w] : Waits(c)) => \E w \in Viewers : \E c \in asks[w] : Waits(c)
      BY <2>2, <2>3
    <3>2. SomethingComes => SomethingComes'
      BY <2>4, <2>8 DEF SomethingComes
    <3>3. WaitsKnow'
      BY <3>1, <3>2 DEF DagInv, WaitsKnow, Waits
    <3> QED
      BY <2>5, <2>6, <3>3 DEF DagInv
  <2> QED
    BY <2>7, <2>8
<1>2. CASE Dag!PostSweeps(v, a)
  <2>1. CASE /\ busy' = TRUE /\ job' = (IF busy THEN job ELSE "queued")
             /\ asks' = [asks EXCEPT ![v] = (@ \ {a}) \cup {[a EXCEPT !.at = "queued"]}]
             /\ swept' = (swept \/ job = "written")
    <3> DEFINE b == [a EXCEPT !.at = "queued"]
    <3>1. b = [at |-> "queued", live |-> a.live, forced |-> a.forced]
      BY AskFields DEF DagInv, AsksTyped
    <3>2. b = [at |-> b.at, live |-> b.live, forced |-> b.forced]
      BY <3>1
    <3>3. AsksTyped'
      BY <2>1, <3>2 DEF DagInv, AsksTyped
    <3>4. job' # "none" /\ (job' = "written" => swept')
      BY <2>1 DEF DagInv, JobIsKnown
    <3> QED
      BY <2>1, <3>3, <3>4 DEF DagInv, JobIsKnown, WaitsKnow, SomethingComes
  <2>2. CASE Dag!Failed(v, a) /\ swept' = TRUE /\ UNCHANGED <<busy, job>>
    <3>1. AsksTyped'
      BY <2>2 DEF DagInv, AsksTyped, Dag!Failed, Dag!Over
    <3> QED
      BY <2>2, <3>1 DEF DagInv, JobIsKnown, WaitsKnow, SomethingComes
  <2> QED
    BY <1>2, <2>1, <2>2 DEF Dag!PostSweeps
<1> QED
  BY <1>1, <1>2

LEMMA JobKeeps ==
  ASSUME DagInv, Dag!JobClears \/ Dag!JobDraws \/ Dag!JobWrites \/ Dag!JobDies \/ Dag!JobEnds
  PROVE  DagInv'
<1>1. /\ UNCHANGED asks /\ (swept => swept') /\ (lost => lost')
      /\ AsksTyped'
  BY DEF DagInv, AsksTyped, Dag!JobClears, Dag!JobDraws, Dag!JobWrites, Dag!JobDies, Dag!JobEnds
<1>2. CASE Dag!JobClears \/ Dag!JobDraws \/ Dag!JobWrites \/ Dag!JobDies
  <2>1. /\ job # "none" /\ job' # "none" /\ UNCHANGED busy
        /\ job' = "written" => svg' # "none" \/ err' \/ lost'
    BY <1>2 DEF Dag!JobClears, Dag!JobDraws, Dag!JobWrites, Dag!JobDies
  <2> QED
    BY <1>1, <2>1 DEF DagInv, JobIsKnown, WaitsKnow, SomethingComes
<1>3. CASE Dag!JobEnds
  <2>1. /\ job = "written" /\ job' = "none" /\ ~busy' /\ UNCHANGED <<svg, err, swept, lost>>
    BY <1>3 DEF Dag!JobEnds, Dag!dagFiles
  <2> QED
    BY <1>1, <2>1 DEF DagInv, JobIsKnown, WaitsKnow, SomethingComes
<1> QED
  BY <1>2, <1>3

LEMMA RestartKeeps ==
  ASSUME DagInv, Dag!RestartServer
  PROVE  DagInv'
<1>1. /\ lost' /\ ~busy' /\ job' = "none" /\ DOMAIN asks' = Viewers
      /\ \A v \in Viewers : asks'[v] \subseteq asks[v]
  BY DEF Dag!RestartServer
<1> QED
  BY <1>1 DEF DagInv, AsksTyped, JobIsKnown, WaitsKnow, SomethingComes

LEMMA DagInvStep == DagInv /\ [WebNext]_webPagesVars => DagInv'
<1> SUFFICES ASSUME DagInv, [WebNext]_webPagesVars PROVE DagInv'
  OBVIOUS
<1>1. CASE DagStep
  <2>1. Dag!DagNext
    BY <1>1 DEF DagStep
  <2>2. ASSUME NEW v \in Viewers, Dag!OpenDag(v) \/ Dag!Retry(v) \/ Dag!Regenerate(v)
        PROVE  DagInv'
    <3>1. UNCHANGED dagServerVars /\ \E forced : Dag!Effect(v, forced, asks[v])
      BY <2>2 DEF Dag!OpenDag, Dag!Retry, Dag!Regenerate, Dag!Same, Dag!dagFiles, dagServerVars
    <3> QED
      BY <3>1, EffectKeeps
  <2>3. ASSUME NEW v \in Viewers, NEW a \in asks[v], Dag!Fault(v, a)
        PROVE  DagInv'
    <3>1. UNCHANGED dagServerVars /\ a.at # "sweep" /\ Dag!Over(v, a)
      BY <2>3 DEF Dag!Fault, Dag!Failed, Dag!Same, Dag!dagFiles, dagServerVars
    <3> QED
      BY <3>1, OverKeeps
  <2>4. CASE Dag!ClickCard \/ Dag!CardLoads \/ Dag!Upload
    BY <2>4, DagUntouched DEF Dag!ClickCard, Dag!CardLoads, Dag!Upload, Dag!dagFiles, dagServerVars
  <2> QED
    BY <2>1, <2>2, <2>3, <2>4, CloseDagKeeps, ViewerKeeps, PostKeeps, JobKeeps, RestartKeeps
       DEF Dag!DagNext
<1>2. CASE UNCHANGED dagVars
  BY <1>2, DagUntouched DEF dagVars, dagServerVars
<1>3. SessionStep \/ AccountsStep \/ BackupStep \/ TreeStep \/ CatalogsStep \/ UNCHANGED webPagesVars
        => UNCHANGED dagVars
  BY DEF SessionStep, AccountsStep, BackupStep, TreeStep, CatalogsStep, webPagesVars
<1> QED
  BY <1>1, <1>2, <1>3 DEF WebNext

(* A page that polls for the picture of a workflow polls for something     *)
(* that is on its way or there, however many pages start its making at     *)
(* once, force it anew and go away (CatalogDagSvg.tsx, snakevision.py).    *)
THEOREM PollsForSomething == WebSpec => []WaitsForSomething
<1>1. DagInv => WaitsForSomething
  BY DEF DagInv, WaitsKnow, SomethingComes, Waits, WaitsForSomething, Dag!WaitsForSomething
<1> QED
  BY <1>1, DagInvInit, DagInvStep, PTL DEF WebSpec

-----------------------------------------------------------------------------
(* The dialogs for imports *)

Record(c) == c = [id |-> c.id, src |-> c.src, files |-> c.files, runs |-> c.runs]

RecordsTyped == DOMAIN db = Slugs /\ \A s \in Slugs : db[s] # Missing => Record(db[s])

ImportRecord(r) ==
  r = [stage |-> r.stage, url |-> r.url, slug |-> r.slug, force |-> r.force, old |-> r.old,
       here |-> r.here, id |-> r.id]

ImportTyped ==
  /\ RecordsTyped /\ ImportRecord(importing)
  /\ form = [open |-> form.open, url |-> form.url]
  /\ importing.slug \in Slugs /\ importing.force \in BOOLEAN
  /\ importing.force => importing.slug = Derived

\* importing u under slug s replaces nothing of another source
Harmless(s, u) == db[s] = Missing \/ db[s].src = u

\* or a dialog has named what u replaces if the user insists
DerivedNamed(u) ==
  Harmless(Derived, u) \/ [slug |-> Derived, old |-> db[Derived].src, url |-> u] \in named

Underway == importing.stage # "idle"

FormOfImport == Underway => IF importing.here THEN form.url \in {NoUrl, importing.url} ELSE clash = Missing

\* both ways out of the dialog over the form were reached by way of it
InsistingIsNamed ==
  /\ Underway /\ (importing.slug # Derived \/ importing.force) => DerivedNamed(importing.url)
  /\ clash # Missing /\ form.url # NoUrl => DerivedNamed(form.url)

\* what the server found for an import holds until it is written or heard of
FoundHolds ==
  /\ importing.stage = "checked" /\ ~importing.force => Harmless(importing.slug, importing.url)
  /\ importing.stage = "conflict" =>
       db[importing.slug] = Missing \/ importing.old = db[importing.slug].src

ImportInv ==
  /\ ImportTyped
  /\ ~loose => FormOfImport /\ InsistingIsNamed /\ FoundHolds /\ ~unasked

LEMMA CatalogConstants == Derived \in Slugs
BY PagesAssumption DEF PagesAssumption, Catalogs!CatalogPagesAssumption

\* the fields of a catalog are set one by one
LEMMA FieldsSet ==
  ASSUME NEW c, Record(c), NEW v
  PROVE  /\ Record([c EXCEPT !.src = v])
         /\ [c EXCEPT !.src = v].id = c.id /\ [c EXCEPT !.src = v].src = v /\ [c EXCEPT !.src = v].files = c.files
         /\ Record([c EXCEPT !.files = v])
         /\ [c EXCEPT !.files = v].id = c.id /\ [c EXCEPT !.files = v].src = c.src /\ [c EXCEPT !.files = v].files = v
         /\ Record([c EXCEPT !.runs = v])
         /\ [c EXCEPT !.runs = v].id = c.id /\ [c EXCEPT !.runs = v].src = c.src /\ [c EXCEPT !.runs = v].files = c.files
<1>1. ASSUME NEW g, g = [c EXCEPT !.src = v]
      PROVE  Record(g) /\ g.id = c.id /\ g.src = v /\ g.files = c.files
  BY <1>1 DEF Record
<1>2. ASSUME NEW g, g = [c EXCEPT !.files = v]
      PROVE  Record(g) /\ g.id = c.id /\ g.src = c.src /\ g.files = v
  BY <1>2 DEF Record
<1>3. ASSUME NEW g, g = [c EXCEPT !.runs = v]
      PROVE  Record(g) /\ g.id = c.id /\ g.src = c.src /\ g.files = c.files
  BY <1>3 DEF Record
<1> QED
  BY <1>1, <1>2, <1>3

\* what a request of the page does to the catalogs
LEMMA Applied ==
  ASSUME RecordsTyped, NEW m, Catalogs!Apply(m)
  PROVE  /\ RecordsTyped' /\ (m.do = "pull" => \A s \in Slugs : db'[s] = db[s])
         /\ \A s \in Slugs \ Catalogs!SlugOf(m.id) : db'[s] = db[s]
         /\ \A s \in Slugs : db'[s] # Missing =>
              /\ db[s] # Missing /\ db'[s].id = db[s].id /\ db'[s].files = db[s].files
              /\ db'[s].src = db[s].src \/ (m.do = "save" /\ s \in Catalogs!SlugOf(m.id) /\ db'[s].src = m.src)
<1> DEFINE Saved(c) == [c EXCEPT !.src = m.src]
<1>1. /\ DOMAIN db' = Slugs
      /\ \A s \in Slugs :
           db'[s] = CASE s \notin Catalogs!SlugOf(m.id) \/ m.do = "pull" -> db[s]
                      [] m.do = "save" /\ s \in Catalogs!SlugOf(m.id) -> Saved(db[s])
                      [] OTHER -> Missing
  BY DEF Catalogs!Apply
<1>2. \A s \in Catalogs!SlugOf(m.id) : db[s] # Missing
  BY DEF Catalogs!SlugOf, Catalogs!Existing
<1>3. \A c : Record(c) => Record(Saved(c)) /\ Saved(c).id = c.id /\ Saved(c).src = m.src /\ Saved(c).files = c.files
  <2>1. ASSUME NEW c, NEW g, Record(c), g = Saved(c)
        PROVE  Record(g) /\ g.id = c.id /\ g.src = m.src /\ g.files = c.files
    BY <2>1 DEF Record
  <2> HIDE DEF Saved
  <2> QED
    BY <2>1
<1> HIDE DEF Saved
<1>4. ASSUME NEW s \in Slugs
      PROVE  \/ db'[s] = db[s]
             \/ db'[s] = Missing /\ m.do # "pull" /\ s \in Catalogs!SlugOf(m.id)
             \/ m.do = "save" /\ s \in Catalogs!SlugOf(m.id) /\ db'[s] = Saved(db[s])
  BY <1>1
<1>5. /\ m.do = "pull" => \A s \in Slugs : db'[s] = db[s]
      /\ \A s \in Slugs \ Catalogs!SlugOf(m.id) : db'[s] = db[s]
  BY <1>4
<1> QED
  BY <1>1, <1>2, <1>3, <1>4, <1>5 DEF RecordsTyped

\* what an import, or a stranger, does to one of them
LEMMA SourcedRecords ==
  ASSUME RecordsTyped, NEW s \in Slugs, NEW u, Catalogs!Sourced(s, u)
  PROVE  /\ RecordsTyped' /\ \A t \in Slugs \ {s} : db'[t] = db[t]
         /\ db'[s].id = (IF db[s] = Missing THEN ids' ELSE db[s].id)
         /\ db'[s].src = u
         /\ db'[s].files = (IF db[s] = Missing THEN NoUrl ELSE db[s].files)
<1>1. CASE db[s] # Missing
  <2>1. Record(db[s]) /\ db' = [db EXCEPT ![s] = [db[s] EXCEPT !.src = u]]
    BY <1>1 DEF RecordsTyped, Catalogs!Sourced
  <2>2. PICK g : g = [db[s] EXCEPT !.src = u]
    OBVIOUS
  <2>3. Record(g) /\ g.id = db[s].id /\ g.src = u /\ g.files = db[s].files /\ db' = [db EXCEPT ![s] = g]
    BY <2>1, <2>2, FieldsSet
  <2> QED
    BY <1>1, <2>3 DEF RecordsTyped
<1>2. CASE db[s] = Missing
  <2>1. PICK g : g = [id |-> ids', src |-> u, files |-> NoUrl, runs |-> 0]
    OBVIOUS
  <2>2. db' = [db EXCEPT ![s] = g]
    BY <1>2, <2>1 DEF Catalogs!Sourced
  <2>3. Record(g) /\ g.id = ids' /\ g.src = u /\ g.files = NoUrl
    BY <2>1 DEF Record
  <2> QED
    BY <1>2, <2>2, <2>3 DEF RecordsTyped
<1> QED
  BY <1>1, <1>2

LEMMA FilesRecords ==
  ASSUME RecordsTyped, NEW s \in Slugs, db[s] # Missing, NEW u, db' = [db EXCEPT ![s].files = u]
  PROVE  /\ RecordsTyped' /\ \A t \in Slugs \ {s} : db'[t] = db[t]
         /\ db'[s].id = db[s].id /\ db'[s].src = db[s].src /\ db'[s].files = u
<1>1. Record(db[s])
  BY DEF RecordsTyped
<1>2. PICK g : g = [db[s] EXCEPT !.files = u]
  OBVIOUS
<1>3. Record(g) /\ g.id = db[s].id /\ g.src = db[s].src /\ g.files = u /\ db' = [db EXCEPT ![s] = g]
  BY <1>1, <1>2, FieldsSet
<1> QED
  BY <1>3 DEF RecordsTyped

LEMMA OthersRecords ==
  ASSUME RecordsTyped, NEW s \in Slugs, Catalogs!Others(s)
  PROVE  /\ RecordsTyped' /\ \A t \in Slugs \ {s} : db'[t] = db[t]
         /\ db'[s] # Missing =>
              /\ db'[s].id = IF db[s] = Missing THEN ids' ELSE db[s].id
              /\ db'[s].src \in Catalogs!Sources \/ (db[s] # Missing /\ db'[s].src = db[s].src)
              /\ db'[s].files \in Catalogs!Sources \/ (db[s] # Missing /\ db'[s].files = db[s].files)
         /\ db[s] # Missing => db'[s] = Missing \/ UNCHANGED ids
<1> DEFINE Kept(g) == /\ Record(g) /\ g.id = db[s].id
                      /\ g.src \in Catalogs!Sources \/ g.src = db[s].src
                      /\ g.files \in Catalogs!Sources \/ g.files = db[s].files
<1>0. Urls \subseteq Catalogs!Sources /\ NoUrl \in Catalogs!Sources
  BY DEF Catalogs!Sources
<1>1. ASSUME NEW u \in Urls, Catalogs!Sourced(s, u)
      PROVE  /\ RecordsTyped' /\ \A t \in Slugs \ {s} : db'[t] = db[t]
             /\ db'[s].id = (IF db[s] = Missing THEN ids' ELSE db[s].id)
             /\ db'[s].src = u
             /\ db'[s].files = (IF db[s] = Missing THEN NoUrl ELSE db[s].files)
             /\ db[s] # Missing => UNCHANGED ids
  BY <1>1, SourcedRecords DEF Catalogs!Sourced
<1>2. ASSUME db[s] # Missing, db' = [db EXCEPT ![s] = Missing]
      PROVE  RecordsTyped' /\ db'[s] = Missing /\ \A t \in Slugs \ {s} : db'[t] = db[t]
  BY <1>2 DEF RecordsTyped
<1>3. ASSUME db[s] # Missing, NEW g, Kept(g), db' = [db EXCEPT ![s] = g]
      PROVE  RecordsTyped' /\ db'[s] = g /\ \A t \in Slugs \ {s} : db'[t] = db[t]
  BY <1>3 DEF RecordsTyped
<1>4. \/ \E u \in Urls : Catalogs!Sourced(s, u)
      \/ /\ db[s] # Missing /\ UNCHANGED ids
         /\ \/ db' = [db EXCEPT ![s] = Missing]
            \/ \E g : Kept(g) /\ db' = [db EXCEPT ![s] = g]
  <2>1. CASE db[s] # Missing
    <3>1. /\ Kept([db[s] EXCEPT !.runs = 1]) /\ Kept([db[s] EXCEPT !.src = NoUrl])
          /\ \A u \in Urls : Kept([db[s] EXCEPT !.files = u])
      BY <1>0, <2>1, FieldsSet DEF RecordsTyped
    <3>2. \/ \E u \in Urls : Catalogs!Sourced(s, u)
          \/ /\ UNCHANGED ids
             /\ \/ db' = [db EXCEPT ![s] = Missing]
                \/ db' = [db EXCEPT ![s] = [db[s] EXCEPT !.runs = 1]]
                \/ db' = [db EXCEPT ![s] = [db[s] EXCEPT !.src = NoUrl]]
                \/ \E u \in Urls : db' = [db EXCEPT ![s] = [db[s] EXCEPT !.files = u]]
      BY DEF Catalogs!Others
    <3> HIDE DEF Kept
    <3> QED
      BY <2>1, <3>1, <3>2
  <2>2. CASE db[s] = Missing
    BY <2>2 DEF Catalogs!Others
  <2> QED
    BY <2>1, <2>2
<1> QED
  BY <1>0, <1>1, <1>2, <1>3, <1>4

LEMMA ImportInvInit == WebInit => ImportInv
<1> SUFFICES ASSUME Catalogs!CpInit PROVE ImportInv
  BY DEF WebInit
<1>1. /\ importing = Catalogs!NoImport /\ form = Catalogs!NoForm /\ clash = Missing /\ ~unasked
  BY DEF Catalogs!CpInit
<1>2. ImportTyped
  <2> DEFINE n == CHOOSE n \in [Slugs -> 1..Catalogs!Cardinality(Slugs)] : \A s, t \in Slugs : n[s] = n[t] => s = t
             u == CHOOSE u \in Urls : TRUE
  <2>1. db = [s \in Slugs |-> [id |-> n[s], src |-> u, files |-> u, runs |-> 0]]
    BY DEF Catalogs!CpInit
  <2> HIDE DEF n, u
  <2>2. RecordsTyped
    BY <2>1 DEF RecordsTyped, Record
  <2> QED
    BY <1>1, <2>2, CatalogConstants DEF ImportTyped, ImportRecord, Catalogs!NoImport, Catalogs!NoForm
<1> QED
  BY <1>1, <1>2 DEF ImportInv, FormOfImport, InsistingIsNamed, FoundHolds, Underway, Catalogs!NoImport

importVars == <<form, clash, importing, named, loose, unasked>>

LEMMA ImportUntouched ==
  ASSUME ImportInv, UNCHANGED <<db, importVars>>
  PROVE  ImportInv'
BY DEF ImportInv, importVars, ImportTyped, RecordsTyped, ImportRecord, FormOfImport, InsistingIsNamed,
       FoundHolds, Underway, DerivedNamed, Harmless

(* No catalog gets another source, or none is of concern, or the change is *)
(* one of the exceptions.                                                  *)
SourcesStay == \A s \in Slugs : db'[s] # Missing => db[s] # Missing /\ db'[s].src = db[s].src

LEMMA ChangesKeepImport ==
  ASSUME ImportInv, RecordsTyped', UNCHANGED <<form, clash, importing, named, unasked>>, loose => loose',
         SourcesStay \/ loose' \/ ~Catalogs!Changing
  PROVE  ImportInv'
<1>1. ImportTyped'
  BY DEF ImportInv, ImportTyped, ImportRecord
<1>2. ASSUME ~loose', SourcesStay
      PROVE  (FormOfImport /\ InsistingIsNamed /\ FoundHolds /\ ~unasked)'
  <2>1. \A s \in Slugs : \A u : Harmless(s, u) => Harmless(s, u)'
    BY <1>2 DEF Harmless, SourcesStay
  <2>2. \A u : DerivedNamed(u) => DerivedNamed(u)'
    BY <1>2, CatalogConstants DEF DerivedNamed, Harmless, SourcesStay
  <2>3. (FormOfImport /\ ~unasked)'
    BY <1>2 DEF ImportInv, FormOfImport, Underway
  <2>4. InsistingIsNamed'
    BY <1>2, <2>2 DEF ImportInv, InsistingIsNamed, Underway, DerivedNamed, Harmless
  <2>5. FoundHolds'
    BY <1>2 DEF ImportInv, ImportTyped, FoundHolds, Harmless, SourcesStay
  <2> QED
    BY <2>3, <2>4, <2>5
<1>3. ASSUME ~loose', ~Catalogs!Changing
      PROVE  (FormOfImport /\ InsistingIsNamed /\ FoundHolds /\ ~unasked)'
  BY <1>3 DEF ImportInv, FormOfImport, InsistingIsNamed, FoundHolds, Underway, Catalogs!Changing
<1> QED
  BY <1>1, <1>2, <1>3 DEF ImportInv

(* A save of the page's own counts as an exception, too, if it gives the   *)
(* catalog another source while an import is under way.                    *)
LEMMA ServeKeepsImport ==
  ASSUME ImportInv, NEW m, Catalogs!Serve(m) \/ Catalogs!Fail(m)
  PROVE  ImportInv'
<1>1. UNCHANGED <<form, clash, importing, named, unasked>>
  BY DEF Catalogs!Serve, Catalogs!Fail, Catalogs!AnsweredAs
<1>2. RecordsTyped
  BY DEF ImportInv, ImportTyped
<1>3. CASE Catalogs!Apply(m)
  <2>1. /\ RecordsTyped'
        /\ \A s \in Slugs : db'[s] # Missing =>
             /\ db[s] # Missing
             /\ db'[s].src = db[s].src \/ (m.do = "save" /\ s \in Catalogs!SlugOf(m.id) /\ db'[s].src = m.src)
    BY <1>2, <1>3, Applied
  <2>2. loose' = (loose \/ (Catalogs!Changing /\ \E s \in Catalogs!SlugOf(m.id) : m.do = "save" /\ db[s].src # m.src))
    BY <1>3 DEF Catalogs!Apply
  <2>3. SourcesStay \/ loose' \/ ~Catalogs!Changing
    BY <2>1, <2>2 DEF SourcesStay
  <2> QED
    BY <1>1, <2>1, <2>2, <2>3, ChangesKeepImport
<1>4. CASE UNCHANGED <<db, loose>>
  BY <1>1, <1>4, ImportUntouched DEF importVars
<1> QED
  BY <1>3, <1>4 DEF Catalogs!Serve, Catalogs!Fail

(* The form: it is changed while an import is under way only with the      *)
(* exception that is made of it, or by being closed.                       *)
LEMMA FormKeepsImport ==
  ASSUME ImportInv, UNCHANGED <<db, importing, named, unasked, clash>>,
         form' = [open |-> form'.open, url |-> form'.url],
         loose \/ (Underway /\ form'.url \notin {form.url, NoUrl}) => loose',
         clash = Missing \/ form'.url \in {form.url, NoUrl}
  PROVE  ImportInv'
<1>1. ImportTyped'
  BY DEF ImportInv, ImportTyped, RecordsTyped
<1>2. ASSUME ~loose'
      PROVE  (FormOfImport /\ InsistingIsNamed /\ FoundHolds /\ ~unasked)'
  <2>1. FormOfImport'
    BY <1>2 DEF ImportInv, FormOfImport, Underway
  <2>2. InsistingIsNamed'
    BY <1>2 DEF ImportInv, InsistingIsNamed, Underway, DerivedNamed, Harmless
  <2>3. FoundHolds' /\ ~unasked'
    BY <1>2 DEF ImportInv, FoundHolds, Harmless
  <2> QED
    BY <2>1, <2>2, <2>3
<1> QED
  BY <1>1, <1>2 DEF ImportInv

LEMMA CancelKeepsImport ==
  ASSUME ImportInv, Catalogs!CancelImport
  PROVE  ImportInv'
<1>1. UNCHANGED <<db, importing, named, loose, unasked>>
  BY DEF Catalogs!CancelImport, Catalogs!dbVars
<1>2. CASE clash' = Missing /\ UNCHANGED form
  <2>1. ImportTyped'
    BY <1>1, <1>2 DEF ImportInv, ImportTyped, RecordsTyped
  <2>2. ~loose => (FormOfImport /\ InsistingIsNamed /\ FoundHolds /\ ~unasked)'
    BY <1>1, <1>2 DEF ImportInv, FormOfImport, InsistingIsNamed, FoundHolds, Underway, DerivedNamed, Harmless
  <2> QED
    BY <1>1, <2>1, <2>2 DEF ImportInv
<1>3. CASE form' = Catalogs!NoForm /\ UNCHANGED clash
  <2>1. form' = [open |-> form'.open, url |-> form'.url] /\ form'.url = NoUrl
    BY <1>3 DEF Catalogs!NoForm
  <2> QED
    BY <1>1, <1>3, <2>1, FormKeepsImport
<1> QED
  BY <1>2, <1>3 DEF Catalogs!CancelImport

LEMMA FormSteps ==
  ASSUME ImportInv, Catalogs!OpenImport \/ \E u \in Urls : Catalogs!TypeUrl(u)
  PROVE  ImportInv'
<1> DEFINE f == [open |-> form.open, url |-> form.url]
<1>1. form = f
  BY DEF ImportInv, ImportTyped, RecordsTyped
<1>2. CASE Catalogs!OpenImport
  <2>1. form' = [f EXCEPT !.open = TRUE] /\ UNCHANGED <<db, importing, named, unasked, clash, loose>>
    BY <1>1, <1>2 DEF Catalogs!OpenImport, Catalogs!dbVars
  <2>2. form' = [open |-> TRUE, url |-> form.url]
    BY <2>1
  <2> QED
    BY <2>1, <2>2, FormKeepsImport
<1>3. ASSUME NEW u \in Urls, Catalogs!TypeUrl(u)
      PROVE  ImportInv'
  <2>1. /\ form' = [f EXCEPT !.url = u] /\ clash = Missing
        /\ UNCHANGED <<db, importing, named, unasked, clash>>
        /\ loose' = (loose \/ Underway)
    BY <1>1, <1>3 DEF Catalogs!TypeUrl, Catalogs!dbVars, Underway
  <2>2. form' = [open |-> form.open, url |-> u]
    BY <2>1
  <2> QED
    BY <2>1, <2>2, FormKeepsImport
<1> QED
  BY <1>2, <1>3

(* Another page: the dialogs are gone, and the import goes on unseen. *)
LEMMA OpenKeepsImport ==
  ASSUME ImportInv, NEW key, Catalogs!Open(key)
  PROVE  ImportInv'
<1>1. /\ importing' = [importing EXCEPT !.here = FALSE] /\ form' = Catalogs!NoForm /\ clash' = Missing
      /\ UNCHANGED <<db, named, loose, unasked>>
  BY DEF Catalogs!Open, Catalogs!dbVars
<1>2. /\ ImportRecord(importing') /\ ~importing'.here
      /\ importing'.stage = importing.stage /\ importing'.url = importing.url
      /\ importing'.slug = importing.slug /\ importing'.force = importing.force
      /\ importing'.old = importing.old
  BY <1>1 DEF ImportInv, ImportTyped, ImportRecord
<1>3. ImportTyped'
  BY <1>1, <1>2 DEF ImportInv, ImportTyped, RecordsTyped, Catalogs!NoForm
<1>4. ~loose => (FormOfImport /\ InsistingIsNamed /\ FoundHolds /\ ~unasked)'
  BY <1>1, <1>2 DEF ImportInv, FormOfImport, InsistingIsNamed, FoundHolds, Underway, DerivedNamed, Harmless
<1> QED
  BY <1>1, <1>3, <1>4 DEF ImportInv

(* The three buttons. *)
LEMMA ImportKeeps ==
  ASSUME ImportInv, NEW slug \in Slugs, NEW force \in BOOLEAN, Catalogs!Import(slug, force)
  PROVE  ImportInv'
<1>1. /\ form.url # NoUrl
      /\ importing' = [stage |-> "sent", url |-> form.url, slug |-> slug, force |-> force, old |-> NoUrl,
                       here |-> TRUE, id |-> 0]
      /\ UNCHANGED <<db, form, clash, named, loose, unasked>>
      /\ force => clash # Missing /\ slug = Derived
      /\ clash # Missing \/ slug = Derived
  BY DEF Catalogs!Import, Catalogs!dbVars
<1>2. ImportTyped'
  BY <1>1 DEF ImportInv, ImportTyped, RecordsTyped, ImportRecord
<1>3. ~loose => (FormOfImport /\ InsistingIsNamed /\ FoundHolds /\ ~unasked)'
  BY <1>1 DEF ImportInv, FormOfImport, InsistingIsNamed, FoundHolds, Underway, DerivedNamed, Harmless
<1> QED
  BY <1>1, <1>2, <1>3 DEF ImportInv

LEMMA CheckKeepsImport ==
  ASSUME ImportInv, UNCHANGED <<db, form, clash, named, loose, unasked>>, Catalogs!CheckImport
  PROVE  ImportInv'
<1>0. ImportRecord(importing) /\ importing.stage = "sent"
  BY DEF ImportInv, ImportTyped, Catalogs!CheckImport
<1>1. \/ /\ importing' = [importing EXCEPT !.stage = "conflict", !.old = db[importing.slug].src]
         /\ ~importing.force
      \/ /\ importing' = [importing EXCEPT !.stage = "checked"]
         /\ importing.force \/ Harmless(importing.slug, importing.url)
  BY DEF Catalogs!CheckImport, Catalogs!At, Harmless
<1>2. /\ importing'.stage \in {"conflict", "checked"}
      /\ ImportRecord(importing')
      /\ importing'.url = importing.url /\ importing'.slug = importing.slug
      /\ importing'.force = importing.force /\ importing'.here = importing.here
      /\ importing'.stage = "checked" => importing.force \/ Harmless(importing.slug, importing.url)
      /\ importing'.stage = "conflict" => importing'.old = db[importing.slug].src
  <2>1. CASE /\ importing' = [importing EXCEPT !.stage = "conflict", !.old = db[importing.slug].src]
             /\ ~importing.force
    BY <1>0, <2>1 DEF ImportRecord
  <2>2. CASE /\ importing' = [importing EXCEPT !.stage = "checked"]
             /\ importing.force \/ Harmless(importing.slug, importing.url)
    BY <1>0, <2>2 DEF ImportRecord
  <2> QED
    BY <1>1, <2>1, <2>2
<1>3. ImportTyped'
  BY <1>2 DEF ImportInv, ImportTyped, RecordsTyped
<1>4. ~loose => (FormOfImport /\ InsistingIsNamed /\ ~unasked)'
  BY <1>0, <1>2 DEF ImportInv, FormOfImport, InsistingIsNamed, Underway, DerivedNamed, Harmless
<1>5. FoundHolds'
  BY <1>2 DEF FoundHolds, Harmless
<1> QED
  BY <1>3, <1>4, <1>5 DEF ImportInv

(* The row is written: what stood in its place had been found to be of the *)
(* same source, or had been named.                                         *)
LEMMA WriteKeepsImport ==
  ASSUME ImportInv, Catalogs!WriteImport
  PROVE  ImportInv'
<1> DEFINE s == importing.slug
           u == importing.url
           old == IF db[s] = Missing THEN u ELSE db[s].src
<1>1. ImportRecord(importing) /\ RecordsTyped /\ s \in Slugs
  BY DEF ImportInv, ImportTyped
<1>2. /\ importing.stage = "checked"
      /\ importing' = [importing EXCEPT !.stage = "committed", !.id = db'[s].id]
      /\ Catalogs!Sourced(s, u)
      /\ unasked' = (unasked \/ (old # u /\ [slug |-> s, old |-> old, url |-> u] \notin named))
      /\ UNCHANGED <<form, clash, named, loose>>
  BY DEF Catalogs!WriteImport, Catalogs!ImportOnly
<1>3. /\ ImportRecord(importing') /\ importing'.stage = "committed"
      /\ importing'.url = u /\ importing'.slug = s
      /\ importing'.force = importing.force /\ importing'.here = importing.here
  BY <1>1, <1>2 DEF ImportRecord
<1>4. /\ RecordsTyped' /\ \A t \in Slugs \ {s} : db'[t] = db[t]
      /\ db'[s].src = u
  BY <1>1, <1>2, SourcedRecords
<1>5. ImportTyped'
  BY <1>2, <1>3, <1>4 DEF ImportInv, ImportTyped
<1>6. ASSUME ~loose
      PROVE  (FormOfImport /\ InsistingIsNamed /\ FoundHolds /\ ~unasked)'
  <2>1. DerivedNamed(u)'
    <3>1. CASE s = Derived
      BY <1>3, <1>4, <3>1 DEF DerivedNamed, Harmless
    <3>2. CASE s # Derived
      <4>1. DerivedNamed(u)
        BY <1>2, <1>6, <3>2 DEF ImportInv, InsistingIsNamed, Underway
      <4> QED
        BY <1>2, <1>3, <1>4, <3>2, <4>1, CatalogConstants DEF DerivedNamed, Harmless
    <3> QED
      BY <3>1, <3>2
  <2>2. FormOfImport'
    BY <1>2, <1>3, <1>6 DEF ImportInv, FormOfImport, Underway
  <2>3. clash # Missing /\ form.url # NoUrl => form.url = u
    BY <1>2, <1>6 DEF ImportInv, FormOfImport, Underway
  <2>4. InsistingIsNamed'
    BY <1>2, <1>3, <2>1, <2>3 DEF InsistingIsNamed, DerivedNamed, Harmless
  <2>5. old = u \/ [slug |-> s, old |-> old, url |-> u] \in named
    <3>1. CASE importing.force
      <4>1. s = Derived /\ DerivedNamed(u)
        BY <1>2, <1>6, <3>1 DEF ImportInv, ImportTyped, InsistingIsNamed, Underway
      <4> QED
        BY <4>1 DEF DerivedNamed, Harmless
    <3>2. CASE ~importing.force
      BY <1>2, <1>6, <3>2 DEF ImportInv, FoundHolds, Harmless
    <3> QED
      BY <3>1, <3>2
  <2>6. FoundHolds' /\ ~unasked'
    BY <1>2, <1>3, <1>6, <2>5 DEF ImportInv, FoundHolds
  <2> QED
    BY <2>2, <2>4, <2>6
<1> QED
  BY <1>2, <1>5, <1>6 DEF ImportInv

(* What is left of an import, its files or its failure, changes no source. *)
LEMMA EndsKeepImport ==
  ASSUME ImportInv, Catalogs!WriteFiles \/ Catalogs!FailImport
  PROVE  ImportInv'
<1>1. /\ importing.stage \in {"sent", "checked", "committed"}
      /\ \E st \in {"done", "failed"} : importing' = [importing EXCEPT !.stage = st]
      /\ UNCHANGED <<form, clash, named, loose, unasked>>
      /\ UNCHANGED db \/ (Catalogs!Present /\ Catalogs!FilesWritten)
  BY DEF Catalogs!WriteFiles, Catalogs!FailImport, Catalogs!At, Catalogs!ImportOnly
<1>2. ImportRecord(importing) /\ RecordsTyped /\ importing.slug \in Slugs
  BY DEF ImportInv, ImportTyped
<1>3. /\ ImportRecord(importing') /\ importing'.stage \in {"done", "failed"}
      /\ importing'.url = importing.url /\ importing'.slug = importing.slug
      /\ importing'.force = importing.force /\ importing'.here = importing.here
  BY <1>1, <1>2 DEF ImportRecord
<1>4. RecordsTyped' /\ SourcesStay
  <2>1. CASE UNCHANGED db
    BY <1>2, <2>1 DEF RecordsTyped, SourcesStay
  <2>2. CASE Catalogs!Present /\ Catalogs!FilesWritten
    <3>1. db[importing.slug] # Missing /\ db' = [db EXCEPT ![importing.slug].files = importing.url]
      BY <2>2 DEF Catalogs!Present, Catalogs!FilesWritten, Catalogs!SlugOf, Catalogs!Existing
    <3>2. /\ RecordsTyped' /\ \A t \in Slugs \ {importing.slug} : db'[t] = db[t]
          /\ db'[importing.slug].src = db[importing.slug].src
      BY <1>2, <3>1, FilesRecords
    <3> QED
      BY <3>1, <3>2 DEF SourcesStay
  <2> QED
    BY <1>1, <2>1, <2>2
<1>5. ImportTyped'
  BY <1>1, <1>3, <1>4 DEF ImportInv, ImportTyped
<1>6. ASSUME ~loose
      PROVE  (FormOfImport /\ InsistingIsNamed /\ FoundHolds /\ ~unasked)'
  <2>1. \A v : DerivedNamed(v) => DerivedNamed(v)'
    BY <1>1, <1>4, CatalogConstants DEF DerivedNamed, Harmless, SourcesStay
  <2>2. Underway /\ Underway'
    BY <1>1, <1>3 DEF Underway
  <2>3. (FormOfImport /\ FoundHolds /\ ~unasked)'
    BY <1>1, <1>3, <1>6, <2>2 DEF ImportInv, FormOfImport, FoundHolds
  <2>4. InsistingIsNamed'
    <3>1. PICK v, w : v = importing.url /\ w = form.url
      OBVIOUS
    <3>2. /\ importing.slug # Derived \/ importing.force => DerivedNamed(v)
          /\ clash # Missing /\ w # NoUrl => DerivedNamed(w)
      BY <1>6, <2>2, <3>1 DEF ImportInv, InsistingIsNamed
    <3>3. /\ importing.slug # Derived \/ importing.force => DerivedNamed(v)'
          /\ clash # Missing /\ w # NoUrl => DerivedNamed(w)'
      BY <2>1, <3>2
    <3> QED
      BY <1>1, <1>3, <3>1, <3>3 DEF InsistingIsNamed
  <2> QED
    BY <2>3, <2>4
<1> QED
  BY <1>1, <1>5, <1>6 DEF ImportInv

(* A conflict that is heard names the catalog in the way: that of the slug *)
(* that the URL gives, unless that one has been named before.              *)
LEMMA HearKeepsImport ==
  ASSUME ImportInv, Catalogs!HearImport
  PROVE  ImportInv'
<1> DEFINE found == [slug |-> importing.slug, old |-> importing.old, url |-> importing.url]
<1>1. /\ importing.stage \in {"done", "failed", "conflict"} /\ importing' = Catalogs!NoImport
      /\ UNCHANGED <<db, loose, unasked>>
      /\ named \subseteq named' /\ (clash' = found => found \in named')
      /\ \/ form' = Catalogs!NoForm /\ clash' = Missing
         \/ UNCHANGED <<form, clash>>
         \/ /\ importing.stage = "conflict" /\ importing.here /\ ~importing.force
            /\ clash' = found /\ UNCHANGED form
  BY DEF Catalogs!HearImport, Catalogs!dbVars
<1>2. ImportTyped'
  BY <1>1, CatalogConstants DEF ImportInv, ImportTyped, RecordsTyped, ImportRecord, Catalogs!NoImport, Catalogs!NoForm
<1>3. ASSUME ~loose
      PROVE  (FormOfImport /\ InsistingIsNamed /\ FoundHolds /\ ~unasked)'
  <2>1. FormOfImport' /\ FoundHolds' /\ ~unasked'
    BY <1>1, <1>3 DEF ImportInv, FormOfImport, FoundHolds, Underway, Catalogs!NoImport
  <2>2. ~Underway'
    BY <1>1 DEF Underway, Catalogs!NoImport
  <2>3. \A v : DerivedNamed(v) => DerivedNamed(v)'
    BY <1>1 DEF DerivedNamed, Harmless
  <2>4. CASE form' = Catalogs!NoForm /\ clash' = Missing
    BY <2>1, <2>2, <2>4 DEF InsistingIsNamed
  <2>5. CASE UNCHANGED <<form, clash>>
    <3>1. PICK v : v = form.url
      OBVIOUS
    <3>2. clash # Missing /\ v # NoUrl => DerivedNamed(v)
      BY <1>3, <3>1 DEF ImportInv, InsistingIsNamed
    <3>3. clash' # Missing /\ v # NoUrl => DerivedNamed(v)'
      BY <2>3, <2>5, <3>2
    <3> QED
      BY <2>1, <2>2, <2>5, <3>1, <3>3 DEF InsistingIsNamed
  <2>6. CASE /\ importing.stage = "conflict" /\ importing.here /\ ~importing.force
             /\ clash' = found /\ UNCHANGED form
    <3>1. PICK v : v = importing.url
      OBVIOUS
    <3>2. form.url \in {NoUrl, v}
      BY <1>3, <2>6, <3>1 DEF ImportInv, FormOfImport, Underway
    <3>3. DerivedNamed(v)'
      <4>1. CASE importing.slug = Derived
        BY <1>1, <1>3, <2>6, <3>1, <4>1 DEF ImportInv, FoundHolds, DerivedNamed, Harmless
      <4>2. CASE importing.slug # Derived
        <5>1. DerivedNamed(v)
          BY <1>3, <2>6, <3>1, <4>2 DEF ImportInv, InsistingIsNamed, Underway
        <5> QED
          BY <2>3, <5>1
      <4> QED
        BY <4>1, <4>2
    <3> QED
      BY <2>1, <2>2, <2>6, <3>2, <3>3 DEF InsistingIsNamed
  <2> QED
    BY <1>1, <2>4, <2>5, <2>6
<1> QED
  BY <1>1, <1>2, <1>3 DEF ImportInv

LEMMA OthersKeepImport ==
  ASSUME ImportInv, NEW s \in Slugs, Catalogs!Others(s)
  PROVE  ImportInv'
<1>1. /\ loose' = (loose \/ Catalogs!Changing)
      /\ UNCHANGED <<form, clash, importing, named, unasked>>
  BY DEF Catalogs!Others
<1>2. RecordsTyped'
  BY OthersRecords DEF ImportInv, ImportTyped
<1> QED
  BY <1>1, <1>2, ChangesKeepImport

LEMMA ImportInvStep == ImportInv /\ [WebNext]_webPagesVars => ImportInv'
<1> SUFFICES ASSUME ImportInv, [WebNext]_webPagesVars PROVE ImportInv'
  OBVIOUS
<1>1. CASE CatalogsStep
  <2>1. Catalogs!CpNext
    BY <1>1 DEF CatalogsStep
  <2>2. ASSUME \/ \E q \in Catalogs!Searches : Catalogs!Search(q)
               \/ Catalogs!ShowReadme \/ Catalogs!ShowDag \/ Catalogs!ShowRuns
               \/ Catalogs!OpenFile \/ Catalogs!CloseFiles \/ Catalogs!Rendered
        PROVE  ImportInv'
    BY <2>2, ImportUntouched
       DEF Catalogs!Search, Catalogs!ShowReadme, Catalogs!ShowDag, Catalogs!ShowRuns, Catalogs!OpenFile,
           Catalogs!CloseFiles, Catalogs!Rendered, Catalogs!PickMode, Catalogs!Turned, Catalogs!Still,
           Catalogs!dbVars, Catalogs!importVars, importVars
  <2>3. ASSUME Catalogs!Save \/ Catalogs!Delete \/ Catalogs!Pull \/ Catalogs!Cancel \/ Catalogs!Background
        PROVE  ImportInv'
    BY <2>3, ImportUntouched
       DEF Catalogs!Save, Catalogs!Delete, Catalogs!Pull, Catalogs!Send, Catalogs!Cancel,
           Catalogs!Background, Catalogs!dbVars, Catalogs!importVars, importVars
  <2>4. ASSUME \/ \E i \in Catalogs!Ids : Catalogs!OpenEdit(i) \/ Catalogs!OpenDelete(i)
               \/ \E u \in Urls : Catalogs!Type(u)
               \/ \E m \in sent : Catalogs!Hear(m)
        PROVE  ImportInv'
    BY <2>4, ImportUntouched
       DEF Catalogs!OpenEdit, Catalogs!OpenDelete, Catalogs!Type, Catalogs!Hear,
           Catalogs!dbVars, Catalogs!importVars, importVars
  <2>5. CASE Catalogs!ImportStep
    <3>1. CASE Catalogs!WriteImport
      BY <3>1, WriteKeepsImport
    <3>2. CASE Catalogs!WriteFiles \/ Catalogs!FailImport
      BY <3>2, EndsKeepImport
    <3>3. CASE Catalogs!CheckImport /\ UNCHANGED <<db, form, clash, named, loose, unasked>>
      BY <3>3, CheckKeepsImport
    <3> QED
      BY <2>5, <3>1, <3>2, <3>3 DEF Catalogs!ImportStep, Catalogs!dbVars
  <2>6. ASSUME \E s \in Slugs : Catalogs!Import(s, FALSE) \/ Catalogs!Import(s, TRUE)
        PROVE  ImportInv'
    BY <2>6, ImportKeeps
  <2> QED
    BY <2>1, <2>2, <2>3, <2>4, <2>5, <2>6, OpenKeepsImport, ServeKeepsImport, FormSteps,
       CancelKeepsImport, HearKeepsImport, OthersKeepImport
       DEF Catalogs!CpNext
<1>2. CASE UNCHANGED catalogsVars
  BY <1>2, ImportUntouched DEF catalogsVars, importVars
<1>3. SessionStep \/ AccountsStep \/ BackupStep \/ TreeStep \/ DagStep \/ UNCHANGED webPagesVars
        => UNCHANGED catalogsVars
  BY DEF SessionStep, AccountsStep, BackupStep, TreeStep, DagStep, webPagesVars
<1> QED
  BY <1>1, <1>2, <1>3 DEF WebNext

(* An import replaces another source's catalog only after the dialog has   *)
(* named both, whichever of its buttons are used, however often, and       *)
(* whatever is closed meanwhile (CatalogList.tsx, git_ops.py).             *)
THEOREM OverwritesAreAsked == WebSpec => []NoUnaskedOverwrite
<1>1. ImportInv => NoUnaskedOverwrite
  BY DEF ImportInv, NoUnaskedOverwrite, Catalogs!NoUnaskedOverwrite
<1> QED
  BY <1>1, ImportInvInit, ImportInvStep, PTL DEF WebSpec

-----------------------------------------------------------------------------
(* The cache of a page: what its steps do to one entry.  The accounts and  *)
(* the catalogs have a cache of this kind each.                            *)

Page == INSTANCE PageCache

Written(e) == [data |-> e.data, fresh |-> e.fresh, stage |-> e.stage, copy |-> e.copy]

\* an entry, of a key that is shown or not
EntryTyped(e, shown) ==
  /\ e = Written(e)
  /\ e.fresh \in BOOLEAN /\ e.stage \in {"idle", "sent", "read"}
  /\ e.stage # "idle" => shown /\ ~e.fresh

\* it tells v, or will when it has been answered
Tells(e, shown, v) ==
  /\ e.stage = "idle" /\ (e.fresh \/ shown) => e.data = v
  /\ e.stage = "read" => e.copy = v

LEMMA AskedTells ==
  ASSUME NEW e, e = Written(e), NEW v
  PROVE  EntryTyped(Page!Asked(e), TRUE) /\ Tells(Page!Asked(e), TRUE, v)
<1>1. ASSUME NEW g, g = [e EXCEPT !.fresh = FALSE, !.stage = "sent", !.copy = Missing], e = Written(e)
      PROVE  g.data = e.data /\ g.fresh = FALSE /\ g.stage = "sent" /\ g.copy = Missing /\ g = Written(g)
  BY <1>1 DEF Written
<1>2. PICK g : g = Page!Asked(e)
  OBVIOUS
<1>3. g.data = e.data /\ g.fresh = FALSE /\ g.stage = "sent" /\ g.copy = Missing /\ g = Written(g)
  BY <1>1, <1>2 DEF Page!Asked, EntryTyped
<1> QED
  BY <1>2, <1>3 DEF EntryTyped, Tells

LEMMA ObservedTells ==
  ASSUME NEW e, NEW shown, EntryTyped(e, shown), NEW v
  PROVE  /\ EntryTyped(Page!Observed(e), TRUE)
         /\ Tells(e, shown, v) => Tells(Page!Observed(e), TRUE, v)
<1>1. CASE e.fresh \/ e.stage # "idle"
  BY <1>1 DEF Page!Observed, EntryTyped, Tells
<1>2. CASE ~(e.fresh \/ e.stage # "idle")
  <2>1. e = Written(e) /\ Page!Observed(e) = Page!Asked(e)
    BY <1>2 DEF EntryTyped, Written, Page!Observed
  <2> QED
    BY <2>1, AskedTells
<1> QED
  BY <1>1, <1>2

LEMMA FirstTells ==
  ASSUME NEW v
  PROVE  EntryTyped(Page!Observed(Page!NoEntry), TRUE) /\ Tells(Page!Observed(Page!NoEntry), TRUE, v)
<1>1. /\ Page!NoEntry = Written(Page!NoEntry)
      /\ ~Page!NoEntry.fresh /\ Page!NoEntry.stage = "idle"
  BY DEF Page!NoEntry, Written
<1>2. Page!Observed(Page!NoEntry) = Page!Asked(Page!NoEntry)
  BY <1>1 DEF Page!Observed
<1> QED
  BY <1>1, <1>2, AskedTells

LEMMA LeftTells ==
  ASSUME NEW e, NEW shown, EntryTyped(e, shown), NEW v
  PROVE  /\ EntryTyped(Page!Left(e), FALSE)
         /\ Tells(e, shown, v) => Tells(Page!Left(e), FALSE, v)
<1>1. ASSUME NEW g, g = [e EXCEPT !.stage = "idle", !.copy = Missing], e = Written(e)
      PROVE  g.data = e.data /\ g.fresh = e.fresh /\ g.stage = "idle" /\ g.copy = Missing /\ g = Written(g)
  BY <1>1 DEF Written
<1>2. PICK g : g = Page!Left(e)
  OBVIOUS
<1>3. g.data = e.data /\ g.fresh = e.fresh /\ g.stage = "idle" /\ g.copy = Missing /\ g = Written(g)
  BY <1>1, <1>2 DEF Page!Left, EntryTyped
<1> QED
  BY <1>2, <1>3 DEF EntryTyped, Tells

LEMMA ReadAsTells ==
  ASSUME NEW e, NEW shown, EntryTyped(e, shown), e.stage = "sent", NEW v
  PROVE  EntryTyped(Page!ReadAs(e, v), shown) /\ Tells(Page!ReadAs(e, v), shown, v)
<1>1. ASSUME NEW g, g = [e EXCEPT !.stage = "read", !.copy = v], e = Written(e)
      PROVE  g.data = e.data /\ g.fresh = e.fresh /\ g.stage = "read" /\ g.copy = v /\ g = Written(g)
  BY <1>1 DEF Written
<1>2. PICK g : g = Page!ReadAs(e, v)
  OBVIOUS
<1>3. g.data = e.data /\ g.fresh = e.fresh /\ g.stage = "read" /\ g.copy = v /\ g = Written(g)
  BY <1>1, <1>2 DEF Page!ReadAs, EntryTyped
<1> QED
  BY <1>2, <1>3 DEF EntryTyped, Tells

LEMMA AnsweredTells ==
  ASSUME NEW e, NEW shown, EntryTyped(e, shown), e.stage = "read", NEW v
  PROVE  /\ EntryTyped(Page!Answered(e), shown)
         /\ Tells(e, shown, v) => Tells(Page!Answered(e), shown, v)
<1>1. PICK g : g = Page!Answered(e)
  OBVIOUS
<1>2. g.data = e.copy /\ g.fresh = TRUE /\ g.stage = "idle" /\ g = Written(g)
  BY <1>1 DEF Page!Answered, Written
<1> QED
  BY <1>1, <1>2 DEF EntryTyped, Tells

LEMMA ExpiredTells ==
  ASSUME NEW e, EntryTyped(e, FALSE), NEW v
  PROVE  EntryTyped(Page!Expired(e), FALSE) /\ Tells(Page!Expired(e), FALSE, v)
<1>1. ASSUME NEW g, g = [e EXCEPT !.fresh = FALSE], e = Written(e)
      PROVE  g.data = e.data /\ g.fresh = FALSE /\ g.stage = e.stage /\ g.copy = e.copy /\ g = Written(g)
  BY <1>1 DEF Written
<1>2. PICK g : g = Page!Expired(e)
  OBVIOUS
<1>3. g.data = e.data /\ g.fresh = FALSE /\ g.stage = e.stage /\ g.copy = e.copy /\ g = Written(g)
  BY <1>1, <1>2 DEF Page!Expired, EntryTyped
<1> QED
  BY <1>2, <1>3 DEF EntryTyped, Tells

\* an invalidation is in vain only if it meets the answer to the first request
LEMMA InvalidatedTells ==
  ASSUME NEW e, NEW shown \in BOOLEAN, EntryTyped(e, shown), NEW v
  PROVE  /\ EntryTyped(Page!Invalidated(e, shown), shown)
         /\ Tells(Page!Invalidated(e, shown), shown, v) \/ (shown /\ Page!Overtaken(e))
<1>1. CASE ~shown
  <2>1. Page!Invalidated(e, shown) = Page!Expired(e)
    BY <1>1 DEF Page!Invalidated, Page!Expired
  <2> QED
    BY <1>1, <2>1, ExpiredTells
<1>2. CASE shown /\ e.data = Missing /\ e.stage # "idle"
  BY <1>2 DEF Page!Invalidated, Page!Overtaken, EntryTyped, Tells
<1>3. CASE shown /\ ~(e.data = Missing /\ e.stage # "idle")
  <2>1. Page!Invalidated(e, shown) = Page!Asked(e) /\ e = Written(e)
    BY <1>3 DEF Page!Invalidated, EntryTyped, Written
  <2> QED
    BY <1>3, <2>1, AskedTells
<1> QED
  BY <1>1, <1>2, <1>3

(* And on all of them.                                                     *)

CacheTyped(looked) == \A k \in DOMAIN cache : EntryTyped(cache[k], k \in looked)

Told(k, looked, v) == k \in missed \/ Tells(cache[k], k \in looked, v)

(* The components that looked at old are gone; looked is all that was in   *)
(* view.                                                                   *)
LEMMA TurnTells ==
  ASSUME NEW looked, NEW old, NEW new, CacheTyped(looked), Page!Turn(old, new), UNCHANGED missed,
         old \subseteq looked, looked \subseteq old \cup new
  PROVE  /\ DOMAIN cache' = DOMAIN cache \cup new
         /\ \A k \in DOMAIN cache' : EntryTyped(cache'[k], k \in new)
         /\ \A k \in DOMAIN cache : \A v :
              Tells(cache[k], k \in looked, v) => Tells(cache'[k], k \in new, v)
         /\ \A k \in DOMAIN cache' \ DOMAIN cache : \A v : Tells(cache'[k], k \in new, v)
<1>1. /\ DOMAIN cache' = DOMAIN cache \cup new
      /\ \A k \in new \ (old \cap DOMAIN cache) : cache'[k] = Page!Observed(Page!Entry(k))
      /\ \A k \in DOMAIN cache \ new : cache'[k] = IF k \in old THEN Page!Left(cache[k]) ELSE cache[k]
      /\ \A k \in new \cap old \cap DOMAIN cache : cache'[k] = cache[k]
  BY DEF Page!Turn
<1>2. ASSUME NEW k \in DOMAIN cache
      PROVE  /\ EntryTyped(cache'[k], k \in new)
             /\ \A v : Tells(cache[k], k \in looked, v) => Tells(cache'[k], k \in new, v)
  <2>1. EntryTyped(cache[k], k \in looked)
    BY DEF CacheTyped
  <2>2. CASE k \in new \ old
    <3>1. cache'[k] = Page!Observed(cache[k]) /\ (k \in new) = TRUE
      BY <1>1, <2>2 DEF Page!Entry
    <3> QED
      BY <2>1, <3>1, ObservedTells
  <2>3. CASE k \notin new /\ k \in old
    <3>1. cache'[k] = Page!Left(cache[k]) /\ (k \in new) = FALSE
      BY <1>1, <2>3
    <3> QED
      BY <2>1, <3>1, LeftTells
  <2>4. CASE k \notin new /\ k \notin old
    <3>1. cache'[k] = cache[k] /\ (k \in new) = FALSE /\ (k \in looked) = FALSE
      BY <1>1, <2>4
    <3> QED
      BY <2>1, <3>1
  <2>5. CASE k \in new \cap old
    <3>1. cache'[k] = cache[k] /\ (k \in new) = TRUE /\ (k \in looked) = TRUE
      BY <1>1, <2>5
    <3> QED
      BY <2>1, <3>1
  <2> QED
    BY <2>2, <2>3, <2>4, <2>5
<1>3. ASSUME NEW k \in new \ DOMAIN cache
      PROVE  /\ EntryTyped(cache'[k], k \in new)
             /\ \A v : Tells(cache'[k], k \in new, v)
  <2>1. cache'[k] = Page!Observed(Page!NoEntry) /\ (k \in new) = TRUE
    BY <1>1 DEF Page!Entry
  <2> QED
    BY <2>1, FirstTells
<1> QED
  BY <1>1, <1>2, <1>3

LEMMA InvalidateTells ==
  ASSUME NEW looked, NEW tagged, CacheTyped(looked), Page!Invalidate(looked, tagged)
  PROVE  /\ DOMAIN cache' = DOMAIN cache /\ missed \subseteq missed'
         /\ \A k \in DOMAIN cache' : EntryTyped(cache'[k], k \in looked)
         /\ \A k \in DOMAIN cache \cap tagged : \A v : k \in missed' \/ Tells(cache'[k], k \in looked, v)
         /\ \A k \in DOMAIN cache \ tagged : cache'[k] = cache[k]
<1>1. /\ DOMAIN cache' = DOMAIN cache
      /\ \A k \in DOMAIN cache \cap tagged : cache'[k] = Page!Invalidated(cache[k], k \in looked)
      /\ \A k \in DOMAIN cache \ tagged : cache'[k] = cache[k]
      /\ missed \subseteq missed'
      /\ \A k \in looked \cap tagged \cap DOMAIN cache : Page!Overtaken(cache[k]) => k \in missed'
  BY DEF Page!Invalidate
<1>2. ASSUME NEW k \in DOMAIN cache \cap tagged
      PROVE  /\ EntryTyped(cache'[k], k \in looked)
             /\ \A v : k \in missed' \/ Tells(cache'[k], k \in looked, v)
  <2>1. EntryTyped(cache[k], k \in looked) /\ (k \in looked) \in BOOLEAN
    BY DEF CacheTyped
  <2> QED
    BY <1>1, <2>1, InvalidatedTells
<1> QED
  BY <1>1, <1>2 DEF CacheTyped

LEMMA ReadsTell ==
  ASSUME NEW looked, CacheTyped(looked), NEW k \in DOMAIN cache, NEW v,
         Page!ServeRead(k, v) \/ Page!Answer(k) \/ Page!Expire(k, looked) \/ Page!FailRead(k)
  PROVE  /\ DOMAIN cache' = DOMAIN cache /\ missed \ {k} \subseteq missed'
         /\ \A j \in DOMAIN cache' : EntryTyped(cache'[j], j \in looked)
         /\ \A j \in DOMAIN cache \ {k} : cache'[j] = cache[j]
         /\ \/ Tells(cache'[k], k \in looked, v)
            \/ k \in missed'
            \/ /\ UNCHANGED missed
               /\ \A w : Tells(cache[k], k \in looked, w) => Tells(cache'[k], k \in looked, w)
<1> DEFINE e == cache[k]
<1>0. EntryTyped(e, k \in looked)
  BY DEF CacheTyped
<1>1. CASE Page!ServeRead(k, v)
  <2>1. /\ e.stage = "sent" /\ cache'[k] = Page!ReadAs(e, v) /\ missed' = missed \ {k}
        /\ DOMAIN cache' = DOMAIN cache /\ \A j \in DOMAIN cache \ {k} : cache'[j] = cache[j]
    BY <1>1 DEF Page!ServeRead
  <2>2. EntryTyped(cache'[k], k \in looked) /\ Tells(cache'[k], k \in looked, v)
    BY <1>0, <2>1, ReadAsTells
  <2> QED
    BY <2>1, <2>2 DEF CacheTyped
<1>2. CASE Page!Answer(k)
  <2>1. /\ e.stage = "read" /\ cache'[k] = Page!Answered(e) /\ UNCHANGED missed
        /\ DOMAIN cache' = DOMAIN cache /\ \A j \in DOMAIN cache \ {k} : cache'[j] = cache[j]
    BY <1>2 DEF Page!Answer
  <2>2. /\ EntryTyped(cache'[k], k \in looked)
        /\ \A w : Tells(cache[k], k \in looked, w) => Tells(cache'[k], k \in looked, w)
    BY <1>0, <2>1, AnsweredTells
  <2> QED
    BY <2>1, <2>2 DEF CacheTyped
<1>3. CASE Page!Expire(k, looked)
  <2>1. /\ (k \in looked) = FALSE /\ cache'[k] = Page!Expired(e) /\ UNCHANGED missed
        /\ DOMAIN cache' = DOMAIN cache /\ \A j \in DOMAIN cache \ {k} : cache'[j] = cache[j]
    BY <1>3 DEF Page!Expire
  <2>2. /\ EntryTyped(cache'[k], k \in looked)
        /\ \A w : Tells(cache'[k], k \in looked, w)
    BY <1>0, <2>1, ExpiredTells
  <2> QED
    BY <2>1, <2>2 DEF CacheTyped
<1>4. CASE Page!FailRead(k)
  <2>1. /\ cache'[k] = Page!Left(e) /\ missed' = missed \cup {k}
        /\ DOMAIN cache' = DOMAIN cache /\ \A j \in DOMAIN cache \ {k} : cache'[j] = cache[j]
    BY <1>4 DEF Page!FailRead
  <2>2. EntryTyped(cache'[k], k \in looked)
    <3>1. EntryTyped(cache'[k], FALSE)
      BY <1>0, <2>1, LeftTells
    <3> QED
      BY <3>1 DEF EntryTyped
  <2> QED
    BY <2>1, <2>2 DEF CacheTyped
<1> QED
  BY <1>1, <1>2, <1>3, <1>4

-----------------------------------------------------------------------------
(* The settings *)

\* a callback that is still to come will invalidate it
Due(k) == \E m \in sent : m.stage = "done" /\ k \in Accounts!Refreshed(m.do)

SettingsTyped ==
  /\ section \in Accounts!Sections
  /\ DOMAIN cache \subseteq Accounts!AllKeys /\ Accounts!InView \subseteq DOMAIN cache
  /\ CacheTyped(Accounts!InView)

SettingsTell ==
  \A k \in DOMAIN cache : Due(k) \/ Told(k, Accounts!InView, Accounts!Holds(k))

SettingsInv == SettingsTyped /\ SettingsTell

LEMMA SettingsInvInit == WebInit => SettingsInv
<1> SUFFICES ASSUME Accounts!AccInit PROVE SettingsInv
  BY DEF WebInit
<1>1. section = "identity" /\ DOMAIN cache = {}
  BY DEF Accounts!AccInit
<1>2. Accounts!InView = {}
  BY <1>1 DEF Accounts!InView, Accounts!KeysOf
<1> QED
  BY <1>1, <1>2 DEF SettingsInv, SettingsTyped, SettingsTell, CacheTyped, Accounts!Sections

\* what the page shows changes only if it will be told, or never is
LEMMA ServerKeepsSettings ==
  ASSUME SettingsInv, UNCHANGED <<cache, section>>, missed \subseteq missed',
         \A k : Due(k) => Due(k)',
         \A k \in Accounts!AllKeys : Accounts!Holds(k)' = Accounts!Holds(k) \/ k \in missed' \/ Due(k)'
  PROVE  SettingsInv'
<1>1. SettingsTyped'
  BY DEF SettingsInv, SettingsTyped, CacheTyped, Accounts!InView
<1>2. ASSUME NEW k \in DOMAIN cache
      PROVE  Due(k)' \/ k \in missed' \/ Tells(cache[k], k \in Accounts!InView, Accounts!Holds(k)')
  <2>1. k \in Accounts!AllKeys /\ (Due(k) \/ Told(k, Accounts!InView, Accounts!Holds(k)))
    BY DEF SettingsInv, SettingsTyped, SettingsTell
  <2>2. CASE Accounts!Holds(k)' = Accounts!Holds(k)
    BY <2>1, <2>2 DEF Told
  <2> QED
    BY <2>1, <2>2
<1>3. SettingsTell'
  BY <1>2 DEF SettingsTell, Told, Accounts!InView
<1> QED
  BY <1>1, <1>3 DEF SettingsInv

LEMMA SettingsUntouched ==
  ASSUME SettingsInv, UNCHANGED <<cache, missed, section, members, invites, policy, git, tokens>>,
         \A k : Due(k) => Due(k)'
  PROVE  SettingsInv'
BY ServerKeepsSettings DEF Accounts!Holds

LEMMA SettingsKeys == Accounts!AllKeys \subseteq {"tokens", "my tokens", "git", "users", "invites", "policy"}
BY DEF Accounts!AllKeys, Accounts!KeysOf

LEMMA JoinKeepsSettings ==
  ASSUME SettingsInv, NEW a, Accounts!Join(a)
  PROVE  SettingsInv'
<1>1. /\ UNCHANGED <<cache, section, sent, policy, git, tokens>> /\ missed \subseteq missed'
      /\ UNCHANGED <<members, invites>> \/ {"users", "invites"} \subseteq missed'
  BY DEF Accounts!Join
<1>2. \A k : Due(k) => Due(k)'
  BY <1>1 DEF Due
<1>3. \A k : Accounts!Holds(k)' = Accounts!Holds(k) \/ k \in missed'
  BY <1>1 DEF Accounts!Holds
<1> QED
  BY <1>1, <1>2, <1>3, ServerKeepsSettings

\* what a change leaves as it is
LEMMA ConcernedSettings ==
  ASSUME NEW m, Accounts!Apply(m), NEW k \in Accounts!AllKeys
  PROVE  Accounts!Holds(k)' = Accounts!Holds(k) \/ k \in Accounts!Concerned(m.do)
<1>1. /\ m.do \notin {"set admin", "delete user"} => UNCHANGED members
      /\ m.do \notin {"invite", "revoke invitation"} => UNCHANGED invites
      /\ m.do \notin {"save smtp", "save policy"} => UNCHANGED policy
      /\ m.do # "save git" => UNCHANGED git
      /\ m.do \in {"set admin", "delete user", "invite", "revoke invitation", "save smtp", "save policy", "save git"}
           => UNCHANGED tokens
  BY DEF Accounts!Apply
<1>2. CASE k \in {"tokens", "my tokens"}
  BY <1>1, <1>2 DEF Accounts!Holds, Accounts!Concerned
<1>3. CASE k = "users"
  BY <1>1, <1>3 DEF Accounts!Holds, Accounts!Concerned
<1>4. CASE k = "invites"
  BY <1>1, <1>4 DEF Accounts!Holds, Accounts!Concerned
<1>5. CASE k = "git"
  BY <1>1, <1>5 DEF Accounts!Holds, Accounts!Concerned
<1>6. CASE k = "policy"
  BY <1>1, <1>6 DEF Accounts!Holds, Accounts!Concerned
<1> QED
  BY <1>2, <1>3, <1>4, <1>5, <1>6, SettingsKeys

LEMMA OthersKeepSettings ==
  ASSUME SettingsInv, NEW p, NEW do \in Accounts!Elsewhere, NEW arg, Accounts!Others(p, do, arg)
  PROVE  SettingsInv'
<1> DEFINE m == [do |-> do, by |-> p, arg |-> arg]
<1>1. /\ Accounts!Apply(m) /\ m.do = do
      /\ missed' = missed \cup Accounts!Concerned(do)
      /\ UNCHANGED <<cache, section, sent>>
  BY DEF Accounts!Others
<1> HIDE DEF m
<1>2. \A k : Due(k) => Due(k)'
  BY <1>1 DEF Due
<1>3. \A k \in Accounts!AllKeys : Accounts!Holds(k)' = Accounts!Holds(k) \/ k \in missed'
  BY <1>1, ConcernedSettings
<1> QED
  BY <1>1, <1>2, <1>3, ServerKeepsSettings

(* A failure that is heard after its COMMIT is one of the exceptions. *)
LEMMA FailKeepsSettings ==
  ASSUME SettingsInv, NEW m, Accounts!Fail(m)
  PROVE  SettingsInv'
<1>1. /\ m \in sent /\ m.stage = "sent" /\ sent \ {m} \subseteq sent' /\ UNCHANGED <<cache, section>>
  BY DEF Accounts!Fail
<1>2. \A k : Due(k) => Due(k)'
  BY <1>1 DEF Due
<1>3. CASE Accounts!Apply(m) /\ missed' = missed \cup Accounts!Concerned(m.do)
  <2>1. \A k \in Accounts!AllKeys : Accounts!Holds(k)' = Accounts!Holds(k) \/ k \in missed'
    BY <1>3, ConcernedSettings
  <2> QED
    BY <1>1, <1>2, <1>3, <2>1, ServerKeepsSettings
<1>4. CASE UNCHANGED <<missed, members, invites, policy, git, tokens>>
  BY <1>1, <1>2, <1>4, SettingsUntouched
<1> QED
  BY <1>3, <1>4 DEF Accounts!Fail, Accounts!dbVars

(* The server changes nothing that the callback will not refresh, but for  *)
(* what the callbacks neglect.                                             *)
LEMMA ServeKeepsSettings ==
  ASSUME SentTyped, SettingsInv, NEW m, Accounts!Serve(m)
  PROVE  SettingsInv'
<1>1. m \in sent /\ m.stage = "sent" /\ m \in Requests /\ UNCHANGED <<cache, section>>
  BY DEF Accounts!Serve, SentTyped
<1>2. sent \ {m} \subseteq sent'
  BY DEF Accounts!Serve
<1>3. \A k : Due(k) => Due(k)'
  BY <1>1, <1>2 DEF Due
<1>4. CASE Accounts!Applies(m)
  <2> DEFINE creates == m.do \in {"create token", "create token here"}
             n == [m EXCEPT !.stage = "done", !.arg = IF creates THEN made' ELSE m.arg]
  <2>1. Accounts!Apply(m) /\ n \in sent' /\ missed' = missed \cup Accounts!Neglected(m.do)
    BY <1>4 DEF Accounts!Serve
  <2>2. n.do = m.do /\ n.stage = "done"
    BY <1>1 DEF Requests
  <2>3. \A k \in Accounts!Refreshed(m.do) : Due(k)'
    BY <2>1, <2>2 DEF Due
  <2> HIDE DEF n
  <2>4. /\ m.do \notin {"set admin", "delete user"} => UNCHANGED members
        /\ m.do \notin {"invite", "revoke invitation"} => UNCHANGED invites
        /\ m.do \notin {"save smtp", "save policy"} => UNCHANGED policy
        /\ m.do # "save git" => UNCHANGED git
        /\ m.do \notin {"create token", "create token here", "revoke token", "revoke token here"}
             => UNCHANGED tokens
    BY <2>1 DEF Accounts!Apply
  <2>5. ASSUME NEW k \in Accounts!AllKeys
        PROVE  Accounts!Holds(k)' = Accounts!Holds(k) \/ k \in Accounts!Refreshed(m.do) \cup Accounts!Neglected(m.do)
    <3>1. k \in {"tokens", "my tokens", "git", "users", "invites"} \/ (Accounts!Holds(k)' = policy' /\ Accounts!Holds(k) = policy)
      BY DEF Accounts!Holds
    <3>2. CASE k \in {"tokens", "my tokens"}
      BY <2>4, <3>2 DEF Accounts!Holds, Accounts!Refreshed, Accounts!Neglected
    <3>3. CASE k \in {"git", "users", "invites"}
      BY <2>4, <3>3 DEF Accounts!Holds, Accounts!Refreshed, Accounts!Neglected
    <3>4. CASE Accounts!Holds(k)' = policy' /\ Accounts!Holds(k) = policy
      BY <2>4, <3>4 DEF Accounts!Refreshed
    <3> QED
      BY <3>1, <3>2, <3>3, <3>4
  <2> QED
    BY <1>1, <1>3, <2>1, <2>3, <2>5, ServerKeepsSettings
<1>5. CASE ~Accounts!Applies(m)
  <2>1. UNCHANGED <<missed, members, invites, policy, git, tokens>>
    BY <1>5 DEF Accounts!Serve, Accounts!dbVars
  <2> QED
    BY <1>1, <1>3, <2>1, SettingsUntouched
<1> QED
  BY <1>4, <1>5

LEMMA HearKeepsSettings ==
  ASSUME SettingsInv, NEW m, Accounts!Hear(m)
  PROVE  SettingsInv'
<1>1. /\ m \in sent /\ m.stage \in {"done", "failed"} /\ sent' = sent \ {m}
      /\ UNCHANGED <<section, members, invites, policy, git, tokens>>
  BY DEF Accounts!Hear, Accounts!dbVars
<1>2. CASE m.stage = "failed"
  <2>1. UNCHANGED <<cache, missed>>
    BY <1>2 DEF Accounts!Hear, Accounts!cacheVars
  <2>2. \A k : Due(k) => Due(k)'
    BY <1>1, <1>2 DEF Due
  <2> QED
    BY <1>1, <2>1, <2>2, SettingsUntouched
<1>3. CASE m.stage = "done"
  <2> DEFINE tagged == Accounts!Refreshed(m.do)
  <2>1. Page!Invalidate(Accounts!InView, tagged) /\ CacheTyped(Accounts!InView)
    BY <1>3 DEF Accounts!Hear, Accounts!Invalidate, Accounts!Invalidated, Accounts!Overtaken, Accounts!Asked,
                Page!Invalidate, Page!Invalidated, Page!Overtaken, Page!Asked, SettingsInv, SettingsTyped
  <2>2. \A k : Due(k) => Due(k)' \/ k \in tagged
    BY <1>1 DEF Due
  <2> HIDE DEF tagged
  <2>3. /\ DOMAIN cache' = DOMAIN cache /\ missed \subseteq missed'
        /\ \A k \in DOMAIN cache' : EntryTyped(cache'[k], k \in Accounts!InView)
        /\ \A k \in DOMAIN cache \cap tagged : \A v : k \in missed' \/ Tells(cache'[k], k \in Accounts!InView, v)
        /\ \A k \in DOMAIN cache \ tagged : cache'[k] = cache[k]
    BY <2>1, InvalidateTells
  <2>4. \A k : Accounts!Holds(k)' = Accounts!Holds(k)
    BY <1>1 DEF Accounts!Holds
  <2>5. SettingsTyped'
    BY <1>1, <2>3 DEF SettingsInv, SettingsTyped, CacheTyped, Accounts!InView
  <2>6. ASSUME NEW k \in DOMAIN cache
        PROVE  Due(k)' \/ k \in missed' \/ Tells(cache'[k], k \in Accounts!InView, Accounts!Holds(k))
    <3>1. Due(k) \/ Told(k, Accounts!InView, Accounts!Holds(k))
      BY DEF SettingsInv, SettingsTell
    <3> QED
      BY <2>2, <2>3, <3>1 DEF Told
  <2>7. SettingsTell'
    BY <1>1, <2>3, <2>4, <2>6 DEF SettingsTell, Told, Accounts!InView
  <2> QED
    BY <2>5, <2>7 DEF SettingsInv
<1> QED
  BY <1>1, <1>2, <1>3

LEMMA SectionKeepsSettings ==
  ASSUME SentTyped, SettingsInv, NEW s \in Accounts!Sections, Accounts!PickSection(s)
  PROVE  SettingsInv'
<1>1. /\ section' = s /\ sent' = {[m EXCEPT !.here = FALSE] : m \in sent}
      /\ UNCHANGED <<missed, members, invites, policy, git, tokens>>
  BY DEF Accounts!PickSection, Accounts!dbVars
<1>2. /\ Page!Turn(Accounts!InView \ Accounts!KeysOf(s), Accounts!KeysOf(s))
      /\ CacheTyped(Accounts!InView)
  BY DEF Accounts!PickSection, Accounts!Turn, Accounts!Observed, Accounts!Left, Accounts!Asked, Accounts!Entry,
         Accounts!NoEntry, Page!Turn, Page!Observed, Page!Left, Page!Asked, Page!Entry, Page!NoEntry,
         SettingsInv, SettingsTyped
<1>3. Accounts!InView' = Accounts!KeysOf(s) /\ Accounts!KeysOf(s) \subseteq Accounts!AllKeys
  BY <1>1 DEF Accounts!InView, Accounts!AllKeys
<1>4. \A k : Due(k) => Due(k)'
  <2> SUFFICES ASSUME NEW k, NEW m \in sent, m.stage = "done", k \in Accounts!Refreshed(m.do)
               PROVE  Due(k)'
    BY DEF Due
  <2>1. m \in Requests
    BY DEF SentTyped
  <2>2. [m EXCEPT !.here = FALSE].do = m.do /\ [m EXCEPT !.here = FALSE].stage = m.stage
    BY <2>1 DEF Requests
  <2> QED
    BY <1>1, <2>2 DEF Due
<1>5. \A k : Accounts!Holds(k)' = Accounts!Holds(k)
  BY <1>1 DEF Accounts!Holds
<1> DEFINE new == Accounts!KeysOf(s)
<1>6. /\ DOMAIN cache' = DOMAIN cache \cup new
      /\ \A k \in DOMAIN cache' : EntryTyped(cache'[k], k \in new)
      /\ \A k \in DOMAIN cache : \A v :
           Tells(cache[k], k \in Accounts!InView, v) => Tells(cache'[k], k \in new, v)
      /\ \A k \in DOMAIN cache' \ DOMAIN cache : \A v : Tells(cache'[k], k \in new, v)
  <2>1. PICK old, looked : old = looked \ new /\ looked = Accounts!InView
    OBVIOUS
  <2>2. old \subseteq looked /\ looked \subseteq old \cup new
    BY <2>1
  <2> QED
    BY <1>1, <1>2, <2>1, <2>2, TurnTells
<1>7. SettingsTyped'
  BY <1>1, <1>3, <1>6 DEF SettingsInv, SettingsTyped, CacheTyped
<1>8. ASSUME NEW k \in DOMAIN cache'
      PROVE  Due(k)' \/ k \in missed' \/ Tells(cache'[k], k \in new, Accounts!Holds(k))
  <2>1. CASE k \in DOMAIN cache
    <3>1. Due(k) \/ Told(k, Accounts!InView, Accounts!Holds(k))
      BY <2>1 DEF SettingsInv, SettingsTell
    <3> QED
      BY <1>1, <1>4, <1>6, <2>1, <3>1 DEF Told
  <2>2. CASE k \notin DOMAIN cache
    BY <1>6, <2>2
  <2> QED
    BY <2>1, <2>2
<1>9. SettingsTell'
  BY <1>3, <1>5, <1>8 DEF SettingsTell, Told
<1> QED
  BY <1>7, <1>9 DEF SettingsInv

LEMMA BackgroundKeepsSettings ==
  ASSUME SettingsInv, Accounts!Background
  PROVE  SettingsInv'
<1>1. UNCHANGED <<section, sent, members, invites, policy, git, tokens>>
  BY DEF Accounts!Background, Accounts!dbVars
<1>2. PICK k \in DOMAIN cache :
        \/ Page!ServeRead(k, Accounts!Holds(k)) \/ Page!Answer(k) \/ Page!Expire(k, Accounts!InView)
        \/ Page!FailRead(k)
  <2>1. \A k : Accounts!Read(k) # Missing => Accounts!Read(k) = Accounts!Holds(k)
    BY DEF Accounts!Read
  <2>2. \E k \in DOMAIN cache :
          \/ Accounts!Read(k) # Missing /\ Page!ServeRead(k, Accounts!Read(k))
          \/ Page!Answer(k) \/ Page!Expire(k, Accounts!InView) \/ Page!FailRead(k)
    BY DEF Accounts!Background, Accounts!Reads, Accounts!ServeRead, Accounts!Answer, Accounts!Expire,
           Accounts!ReadAs, Accounts!Answered, Accounts!Expired, Accounts!FailRead, Accounts!Left,
           Page!ServeRead, Page!Answer, Page!Expire, Page!ReadAs, Page!Answered, Page!Expired,
           Page!FailRead, Page!Left
  <2> QED
    BY <2>1, <2>2
<1>3. PICK v : v = Accounts!Holds(k)
  OBVIOUS
<1>4. /\ DOMAIN cache' = DOMAIN cache /\ missed \ {k} \subseteq missed'
      /\ \A j \in DOMAIN cache' : EntryTyped(cache'[j], j \in Accounts!InView)
      /\ \A j \in DOMAIN cache \ {k} : cache'[j] = cache[j]
      /\ \/ Tells(cache'[k], k \in Accounts!InView, v)
         \/ k \in missed'
         \/ /\ UNCHANGED missed
            /\ \A w : Tells(cache[k], k \in Accounts!InView, w) => Tells(cache'[k], k \in Accounts!InView, w)
  <2>1. CacheTyped(Accounts!InView)
    BY DEF SettingsInv, SettingsTyped
  <2> QED
    BY <1>2, <1>3, <2>1, ReadsTell
<1>5. \A j : Accounts!Holds(j)' = Accounts!Holds(j) /\ (Due(j) => Due(j)')
  BY <1>1 DEF Accounts!Holds, Due
<1>6. SettingsTyped'
  BY <1>1, <1>4 DEF SettingsInv, SettingsTyped, CacheTyped, Accounts!InView
<1>7. ASSUME NEW j \in DOMAIN cache
      PROVE  Due(j)' \/ j \in missed' \/ Tells(cache'[j], j \in Accounts!InView, Accounts!Holds(j))
  <2>1. Due(j) \/ Told(j, Accounts!InView, Accounts!Holds(j))
    BY DEF SettingsInv, SettingsTell
  <2>2. CASE j = k
    BY <1>3, <1>4, <1>5, <2>1, <2>2 DEF Told
  <2>3. CASE j # k
    BY <1>4, <1>5, <2>1, <2>3 DEF Told
  <2> QED
    BY <2>2, <2>3
<1>8. SettingsTell'
  BY <1>1, <1>4, <1>5, <1>7 DEF SettingsTell, Told, Accounts!InView
<1> QED
  BY <1>6, <1>8 DEF SettingsInv

LEMMA SettingsInvStep ==
  ASSUME page = "accounts", SecretsInv, SettingsInv, [WebNext]_webPagesVars
  PROVE  SettingsInv'
<1>0. SentTyped
  BY DEF SecretsInv
<1>1. CASE AccountsStep
  <2>1. Accounts!AccNext
    BY <1>1 DEF AccountsStep
  <2>2. ASSUME NEW a, NEW p, NEW c, Accounts!Register(a, p, c) \/ Accounts!Check(a)
        PROVE  SettingsInv'
    BY <2>2, SettingsUntouched
       DEF Accounts!Register, Accounts!Check, Accounts!cacheVars, Accounts!dbVars, Due
  <2>3. CASE Accounts!OpenDialog \/ Accounts!CloseDialog
    BY <2>3, SettingsUntouched
       DEF Accounts!OpenDialog, Accounts!CloseDialog, Accounts!cacheVars, Accounts!dbVars, Due
  <2>4. ASSUME NEW do, NEW arg, Accounts!Click(do, arg)
        PROVE  SettingsInv'
    BY <2>4, SettingsUntouched DEF Accounts!Click, Accounts!cacheVars, Accounts!dbVars, Due
  <2> QED
    BY <1>0, <2>1, <2>2, <2>3, <2>4, JoinKeepsSettings, OthersKeepSettings, ServeKeepsSettings, FailKeepsSettings,
       HearKeepsSettings, SectionKeepsSettings, BackgroundKeepsSettings DEF Accounts!AccNext
<1>2. CASE UNCHANGED <<accountsVars, cache, missed, sent>>
  BY <1>2, SettingsUntouched DEF accountsVars, Due
<1>3. SessionStep \/ BackupStep \/ TreeStep \/ DagStep \/ UNCHANGED webPagesVars
        => UNCHANGED <<accountsVars, cache, missed, sent>>
  BY DEF SessionStep, BackupStep, TreeStep, DagStep, webPagesVars, sharedVars
<1>4. ~CatalogsStep
  BY DEF CatalogsStep
<1> QED
  BY <1>1, <1>2, <1>3, <1>4 DEF WebNext

(* When nothing is under way, the settings show what the changes made in   *)
(* them have led to, whoever else changes the same, in whatever order the  *)
(* sections are visited and the answers come (the sections of              *)
(* components/settings; the exceptions are named by Accounts).             *)
THEOREM SettingsShowChanges == WebSpec => []OwnChangesShown
<1> DEFINE Inv == page = "accounts" => SecretsInv /\ SettingsInv
<1>1. WebInit => Inv
  BY SecretsInvInit, SettingsInvInit
<1>2. Inv /\ [WebNext]_webPagesVars => Inv'
  BY SecretsInvStep, SettingsInvStep, PageStays
<1>3. Inv => OwnChangesShown
  <2> SUFFICES ASSUME SettingsInv, sent = {}, Accounts!Idle(Accounts!InView), NEW k \in Accounts!InView
               PROVE  k \in missed \/ Accounts!Entry(k).data = Accounts!Holds(k)
    BY DEF OwnChangesShown, Accounts!OwnChangesShown
  <2>1. k \in DOMAIN cache /\ ~Due(k) /\ Accounts!Entry(k) = cache[k] /\ cache[k].stage = "idle"
    BY DEF SettingsInv, SettingsTyped, Due, Accounts!Idle, Accounts!Entry
  <2>2. Told(k, Accounts!InView, Accounts!Holds(k))
    BY <2>1 DEF SettingsInv, SettingsTell
  <2> QED
    BY <2>1, <2>2 DEF Told, Tells
<1> QED
  BY <1>1, <1>2, <1>3, PTL DEF WebSpec

-----------------------------------------------------------------------------
(* The pages of the catalogs *)

\* keys that the pages may read
Proper(k) ==
  \/ k[1] = "list" /\ k \in Catalogs!ListKeys
  \/ k[1] = "slug" /\ k[2] \in Slugs /\ k = <<"slug", k[2]>>
  \/ k[1] \in {"id", "file", "runs"} /\ k = <<k[1], k[2]>>

LookTyped(l) ==
  l = [key |-> l.key, mode |-> l.mode, runs |-> l.runs, on |-> l.on] /\ Proper(l.key)

ChangesTyped ==
  \A m \in sent : m = [do |-> m.do, id |-> m.id, src |-> m.src, stage |-> m.stage, here |-> m.here]

\* a callback that is still to come will invalidate it
Awaited(k) ==
  \/ \E m \in sent : m.stage = "done" /\ k \in Catalogs!Refreshed(m.do, m.id)
  \/ importing.stage \in {"committed", "done"} /\ k \in Catalogs!ListKeys

CatalogsTyped ==
  /\ LookTyped(look) /\ template \in 1..2 /\ ChangesTyped
  /\ \A k \in DOMAIN cache : Proper(k)
  /\ CacheTyped(Catalogs!InView)

CatalogsTell ==
  \A k \in DOMAIN cache : Awaited(k) \/ Told(k, Catalogs!InView, Catalogs!Read(k))

CatalogsInv == CatalogsTyped /\ CatalogsTell

LEMMA LookingProper ==
  ASSUME NEW l, Proper(l.key), NEW k \in Catalogs!Looking(l)
  PROVE  Proper(k)
<1>1. CASE k = l.key
  BY <1>1
<1>2. CASE k \in {"file", "runs"} \X l.on
  <2>1. k[1] \in {"file", "runs"} /\ k = <<k[1], k[2]>>
    BY <1>2
  <2> QED
    BY <2>1 DEF Proper
<1> QED
  BY <1>1, <1>2 DEF Catalogs!Looking

LEMMA CatalogsInvInit == WebInit => CatalogsInv
<1> SUFFICES ASSUME Catalogs!CpInit PROVE CatalogsInv
  BY DEF WebInit
<1>1. /\ sent = {} /\ DOMAIN cache = {} /\ template = 1
      /\ look \in [key : {<<"list", "all">>, <<"id", 0>>, <<"id", 1>>}, mode : {"readme"}, runs : {FALSE}, on : {{}}]
  BY DEF Catalogs!CpInit
<1>2. <<"list", "all">> \in Catalogs!ListKeys
  BY DEF Catalogs!ListKeys, Catalogs!Searches
<1>3. look.key \in {<<"list", "all">>, <<"id", 0>>, <<"id", 1>>}
  BY <1>1
<1>4. Proper(look.key)
  BY <1>2, <1>3 DEF Proper
<1>5. look = [key |-> look.key, mode |-> look.mode, runs |-> look.runs, on |-> look.on]
  BY <1>1
<1> QED
  BY <1>1, <1>4, <1>5 DEF CatalogsInv, CatalogsTyped, CatalogsTell, LookTyped, ChangesTyped, CacheTyped

\* what the pages show changes only if they will be told, or never are
LEMMA ServerKeepsCatalogs ==
  ASSUME CatalogsInv, UNCHANGED <<cache, look>>, missed \subseteq missed', ChangesTyped', template' \in 1..2,
         \A k : Awaited(k) => Awaited(k)',
         \A k : Proper(k) => Catalogs!Read(k)' = Catalogs!Read(k) \/ k \in missed' \/ Awaited(k)'
  PROVE  CatalogsInv'
<1>0. Catalogs!InView' = Catalogs!InView
  BY DEF Catalogs!InView
<1>1. CatalogsTyped'
  BY <1>0 DEF CatalogsInv, CatalogsTyped, CacheTyped
<1>2. ASSUME NEW k \in DOMAIN cache
      PROVE  Awaited(k)' \/ k \in missed' \/ Tells(cache[k], k \in Catalogs!InView, Catalogs!Read(k)')
  <2>1. Proper(k) /\ (Awaited(k) \/ Told(k, Catalogs!InView, Catalogs!Read(k)))
    BY DEF CatalogsInv, CatalogsTyped, CatalogsTell
  <2>2. CASE Catalogs!Read(k)' = Catalogs!Read(k)
    BY <2>1, <2>2 DEF Told
  <2> QED
    BY <2>1, <2>2
<1>3. CatalogsTell'
  BY <1>0, <1>2 DEF CatalogsTell, Told
<1> QED
  BY <1>1, <1>3 DEF CatalogsInv

\* as long as db and template stay, the same is read
LEMMA ReadStays ==
  ASSUME UNCHANGED <<db, template>>
  PROVE  \A k : Catalogs!Read(k)' = Catalogs!Read(k)
BY DEF Catalogs!Read, Catalogs!SlugOf, Catalogs!Existing

LEMMA CatalogsUntouched ==
  ASSUME CatalogsInv, UNCHANGED <<cache, missed, look, db, template>>, ChangesTyped',
         \A k : Awaited(k) => Awaited(k)'
  PROVE  CatalogsInv'
<1>1. template' \in 1..2
  BY DEF CatalogsInv, CatalogsTyped
<1> QED
  BY <1>1, ReadStays, ServerKeepsCatalogs

LEMMA InvalidateKeepsCatalogs ==
  ASSUME CatalogsInv, NEW tagged, Catalogs!Invalidate(Catalogs!InView, tagged),
         UNCHANGED <<look, db, template>>, ChangesTyped',
         \A k : Awaited(k) => Awaited(k)' \/ k \in tagged
  PROVE  CatalogsInv'
<1>0. Catalogs!InView' = Catalogs!InView
  BY DEF Catalogs!InView
<1>1. Page!Invalidate(Catalogs!InView, tagged) /\ CacheTyped(Catalogs!InView)
  BY DEF Catalogs!Invalidate, Catalogs!Invalidated, Catalogs!Overtaken, Catalogs!Asked,
         Page!Invalidate, Page!Invalidated, Page!Overtaken, Page!Asked, CatalogsInv, CatalogsTyped
<1>2. /\ DOMAIN cache' = DOMAIN cache /\ missed \subseteq missed'
      /\ \A k \in DOMAIN cache' : EntryTyped(cache'[k], k \in Catalogs!InView)
      /\ \A k \in DOMAIN cache \cap tagged : \A v : k \in missed' \/ Tells(cache'[k], k \in Catalogs!InView, v)
      /\ \A k \in DOMAIN cache \ tagged : cache'[k] = cache[k]
  BY <1>1, InvalidateTells
<1>3. \A k : Catalogs!Read(k)' = Catalogs!Read(k)
  BY ReadStays
<1>4. CatalogsTyped'
  BY <1>0, <1>2 DEF CatalogsInv, CatalogsTyped, CacheTyped
<1>5. ASSUME NEW k \in DOMAIN cache
      PROVE  Awaited(k)' \/ k \in missed' \/ Tells(cache'[k], k \in Catalogs!InView, Catalogs!Read(k))
  <2>1. Awaited(k) \/ Told(k, Catalogs!InView, Catalogs!Read(k))
    BY DEF CatalogsInv, CatalogsTell
  <2> QED
    BY <1>2, <2>1 DEF Told
<1>6. CatalogsTell'
  BY <1>0, <1>2, <1>3, <1>5 DEF CatalogsTell, Told
<1> QED
  BY <1>4, <1>6 DEF CatalogsInv

LEMMA GotoKeepsCatalogs ==
  ASSUME CatalogsInv, NEW l, LookTyped(l), Catalogs!Goto(l), UNCHANGED <<missed, db, template>>,
         ChangesTyped', \A k : Awaited(k) => Awaited(k)'
  PROVE  CatalogsInv'
<1> DEFINE new == Catalogs!Looking(l)
<1>0. look' = l /\ Catalogs!InView' = new
  BY DEF Catalogs!Goto, Catalogs!InView
<1>1. Page!Turn(Catalogs!InView, new) /\ CacheTyped(Catalogs!InView)
  BY DEF Catalogs!Goto, Catalogs!Turn, Catalogs!Observed, Catalogs!Left, Catalogs!Asked, Catalogs!Entry,
         Catalogs!NoEntry, Page!Turn, Page!Observed, Page!Left, Page!Asked, Page!Entry, Page!NoEntry,
         CatalogsInv, CatalogsTyped
<1>2. \A k \in new : Proper(k)
  BY LookingProper DEF LookTyped
<1> HIDE DEF new
<1>3. /\ DOMAIN cache' = DOMAIN cache \cup new
      /\ \A k \in DOMAIN cache' : EntryTyped(cache'[k], k \in new)
      /\ \A k \in DOMAIN cache : \A v :
           Tells(cache[k], k \in Catalogs!InView, v) => Tells(cache'[k], k \in new, v)
      /\ \A k \in DOMAIN cache' \ DOMAIN cache : \A v : Tells(cache'[k], k \in new, v)
  BY <1>1, TurnTells
<1>4. \A k : Catalogs!Read(k)' = Catalogs!Read(k)
  BY ReadStays
<1>5. CatalogsTyped'
  BY <1>0, <1>2, <1>3 DEF CatalogsInv, CatalogsTyped, CacheTyped
<1>6. ASSUME NEW k \in DOMAIN cache'
      PROVE  Awaited(k)' \/ k \in missed' \/ Tells(cache'[k], k \in new, Catalogs!Read(k))
  <2>1. CASE k \in DOMAIN cache
    <3>1. Awaited(k) \/ Told(k, Catalogs!InView, Catalogs!Read(k))
      BY <2>1 DEF CatalogsInv, CatalogsTell
    <3> QED
      BY <1>3, <2>1, <3>1 DEF Told
  <2>2. CASE k \notin DOMAIN cache
    BY <1>3, <2>2
  <2> QED
    BY <2>1, <2>2
<1>7. CatalogsTell'
  BY <1>0, <1>4, <1>6 DEF CatalogsTell, Told
<1> QED
  BY <1>5, <1>7 DEF CatalogsInv

LEMMA BackgroundKeepsCatalogs ==
  ASSUME CatalogsInv, Catalogs!Background
  PROVE  CatalogsInv'
<1>1. UNCHANGED <<look, sent, importing, db, template>>
  BY DEF Catalogs!Background, Catalogs!dbVars, Catalogs!importVars
<1>2. PICK k \in DOMAIN cache :
        \/ Page!ServeRead(k, Catalogs!Read(k)) \/ Page!Answer(k) \/ Page!Expire(k, Catalogs!InView)
        \/ Page!FailRead(k)
        \/ cache' = [cache EXCEPT ![k] = Page!NoEntry] /\ missed' = missed \cup {k}
  BY DEF Catalogs!Background, Catalogs!Lose, Catalogs!ServeRead, Catalogs!Answer, Catalogs!Expire,
         Catalogs!ReadAs, Catalogs!Answered, Catalogs!Expired, Catalogs!FailRead, Catalogs!Left,
         Catalogs!NoEntry, Page!ServeRead, Page!Answer, Page!Expire, Page!ReadAs, Page!Answered,
         Page!Expired, Page!FailRead, Page!Left, Page!NoEntry
<1>3. PICK v : v = Catalogs!Read(k)
  OBVIOUS
<1>4. /\ DOMAIN cache' = DOMAIN cache /\ missed \ {k} \subseteq missed'
      /\ \A j \in DOMAIN cache' : EntryTyped(cache'[j], j \in Catalogs!InView)
      /\ \A j \in DOMAIN cache \ {k} : cache'[j] = cache[j]
      /\ \/ Tells(cache'[k], k \in Catalogs!InView, v)
         \/ k \in missed'
         \/ /\ UNCHANGED missed
            /\ \A w : Tells(cache[k], k \in Catalogs!InView, w) => Tells(cache'[k], k \in Catalogs!InView, w)
  <2>1. CacheTyped(Catalogs!InView)
    BY DEF CatalogsInv, CatalogsTyped
  <2>2. CASE cache' = [cache EXCEPT ![k] = Page!NoEntry] /\ missed' = missed \cup {k}
    <3>1. EntryTyped(Page!NoEntry, k \in Catalogs!InView)
      BY DEF EntryTyped, Written, Page!NoEntry
    <3> QED
      BY <2>1, <2>2, <3>1 DEF CacheTyped
  <2> QED
    BY <1>2, <1>3, <2>1, <2>2, ReadsTell
<1>5. \A j : Catalogs!Read(j)' = Catalogs!Read(j) /\ (Awaited(j) => Awaited(j)')
  BY <1>1, ReadStays DEF Awaited
<1>0. Catalogs!InView' = Catalogs!InView
  BY <1>1 DEF Catalogs!InView
<1>6. CatalogsTyped'
  BY <1>0, <1>1, <1>4 DEF CatalogsInv, CatalogsTyped, CacheTyped, ChangesTyped
<1>7. ASSUME NEW j \in DOMAIN cache
      PROVE  Awaited(j)' \/ j \in missed' \/ Tells(cache'[j], j \in Catalogs!InView, Catalogs!Read(j))
  <2>1. Awaited(j) \/ Told(j, Catalogs!InView, Catalogs!Read(j))
    BY DEF CatalogsInv, CatalogsTell
  <2>2. CASE j = k
    BY <1>3, <1>4, <1>5, <2>1, <2>2 DEF Told
  <2>3. CASE j # k
    BY <1>4, <1>5, <2>1, <2>3 DEF Told
  <2> QED
    BY <2>2, <2>3
<1>8. CatalogsTell'
  BY <1>0, <1>4, <1>5, <1>7 DEF CatalogsTell, Told
<1> QED
  BY <1>6, <1>8 DEF CatalogsInv

\* a change of the catalogs S, of id i, outdates no other key
LEMMA CatalogsChange ==
  ASSUME NEW S \in SUBSET Slugs, NEW i, DOMAIN db = Slugs, DOMAIN db' = Slugs,
         \A t \in Slugs \ S : db'[t] = db[t],
         \A t \in S : (db[t] # Missing => db[t].id = i) /\ (db'[t] # Missing => db'[t].id = i),
         UNCHANGED template, NEW k, Proper(k), \A s \in S : k \notin Catalogs!Concerned(i, s)
  PROVE  Catalogs!Read(k)' = Catalogs!Read(k)
<1>0. CASE S = {}
  <2>1. /\ Catalogs!Existing' = Catalogs!Existing /\ Catalogs!SlugOf(k[2])' = Catalogs!SlugOf(k[2])
        /\ Catalogs!SlugOf(k[2]) \subseteq Slugs /\ Catalogs!Existing \subseteq Slugs
    BY <1>0 DEF Catalogs!Existing, Catalogs!SlugOf
  <2>2. CASE k[1] = "list"
    BY <1>0, <2>1, <2>2 DEF Catalogs!Read
  <2>3. CASE k[1] = "slug" /\ k[2] \in Slugs
    BY <1>0, <2>3 DEF Catalogs!Read
  <2>4. CASE k[1] \in {"id", "file", "runs"}
    <3>1. Catalogs!SlugOf(k[2]) # {} => (CHOOSE s \in Catalogs!SlugOf(k[2]) : TRUE) \in Slugs
      BY <2>1
    <3> QED
      BY <1>0, <2>1, <2>4, <3>1 DEF Catalogs!Read
  <2> QED
    BY <2>2, <2>3, <2>4 DEF Proper
<1>1. CASE S # {} /\ k[1] = "slug" /\ k[2] \in Slugs /\ k = <<"slug", k[2]>>
  <2>1. k[2] \notin S
    BY <1>1 DEF Catalogs!Concerned
  <2>2. Catalogs!Read(k) = db[k[2]] /\ Catalogs!Read(k)' = db'[k[2]]
    BY <1>1 DEF Catalogs!Read
  <2> QED
    BY <1>1, <2>1, <2>2
<1>2. CASE S # {} /\ k[1] \in {"id", "file", "runs"} /\ k = <<k[1], k[2]>>
  <2> DEFINE first(T) == CHOOSE t \in T : TRUE
             was == Catalogs!SlugOf(k[2])
             old == IF k[2] = 0 THEN Catalogs!AsCatalog(template)
                    ELSE IF was = {} THEN Missing ELSE db[first(was)]
             new == IF k[2] = 0 THEN Catalogs!AsCatalog(template')
                    ELSE IF was' = {} THEN Missing ELSE db'[first(was')]
             read(c) == IF k[1] = "id" THEN c
                        ELSE IF c = Missing THEN Missing ELSE IF k[1] = "file" THEN c.files ELSE c.runs
  <2>1. Catalogs!Read(k) = read(old)
    BY <1>2 DEF Catalogs!Read
  <2>2. Catalogs!Read(k)' = read(new)
    BY <1>2 DEF Catalogs!Read
  <2>3. k[2] # i
    BY <1>2 DEF Catalogs!Concerned
  <2>4. was' = was /\ \A t \in was : t \in Slugs \ S
    BY <2>3 DEF Catalogs!SlugOf, Catalogs!Existing
  <2>5. was # {} => first(was) \in was
    OBVIOUS
  <2> HIDE DEF first, was, read
  <2>6. new = old
    BY <2>4, <2>5
  <2> QED
    BY <2>1, <2>2, <2>6
<1>3. CASE S # {} /\ k \in Catalogs!ListKeys
  BY <1>3 DEF Catalogs!Concerned
<1> QED
  BY <1>0, <1>1, <1>2, <1>3 DEF Proper

\* what callbacks do not refresh of it they neglect
LEMMA ConcernedIsRefreshed ==
  ASSUME NEW do, do # "pull", NEW i, NEW s
  PROVE  Catalogs!Concerned(i, s) \subseteq Catalogs!Neglected(do, i, s) \cup Catalogs!Refreshed(do, i)
BY DEF Catalogs!Neglected, Catalogs!Refreshed

\* the template's files are all that a pull changes
LEMMA TemplateChanges ==
  ASSUME CatalogsInv, DOMAIN db = Slugs, DOMAIN db' = Slugs, \A s \in Slugs : db'[s] = db[s], template' \in 1..2,
         NEW k, Proper(k), k \notin {<<"id", 0>>, <<"file", 0>>}
  PROVE  Catalogs!Read(k)' = Catalogs!Read(k)
<1>0. /\ UNCHANGED <<Catalogs!Existing, Catalogs!SlugOf(k[2])>>
      /\ Catalogs!SlugOf(k[2]) \subseteq Slugs /\ Catalogs!Existing \subseteq Slugs
      /\ Catalogs!SlugOf(k[2]) # {} => (CHOOSE s \in Catalogs!SlugOf(k[2]) : TRUE) \in Slugs
  BY DEF Catalogs!Existing, Catalogs!SlugOf
<1>1. CASE k[1] = "list"
  BY <1>0, <1>1 DEF Catalogs!Read
<1>2. CASE k[1] = "slug" /\ k[2] \in Slugs
  BY <1>2 DEF Catalogs!Read
<1>3. CASE k[1] \in {"id", "file", "runs"} /\ k = <<k[1], k[2]>> /\ k[2] # 0
  BY <1>0, <1>3 DEF Catalogs!Read
<1>4. CASE k[1] = "runs" /\ k[2] = 0
  <2>1. \A v \in 1..2 : Catalogs!AsCatalog(v) # Missing /\ Catalogs!AsCatalog(v).runs = 0
    BY PagesAssumption DEF PagesAssumption, Catalogs!CatalogPagesAssumption, Catalogs!AsCatalog
  <2>2. template \in 1..2
    BY DEF CatalogsInv, CatalogsTyped
  <2>3. Catalogs!Read(k) = 0 /\ Catalogs!Read(k)' = 0
    BY <1>4, <2>1, <2>2 DEF Catalogs!Read
  <2> QED
    BY <2>3
<1> QED
  BY <1>1, <1>2, <1>3, <1>4 DEF Proper

\* what a request of the page outdates
LEMMA AppliedOutdates ==
  ASSUME ImportInv, CatalogsInv, NEW m, Catalogs!Apply(m)
  PROVE  /\ template' \in 1..2
         /\ \A k : Proper(k) =>
              \/ Catalogs!Read(k)' = Catalogs!Read(k)
              \/ m.do = "pull" /\ k \in Catalogs!Refreshed("pull", m.id)
              \/ m.do # "pull" /\ \E s \in Catalogs!SlugOf(m.id) : k \in Catalogs!Concerned(m.id, s)
<1>0. RecordsTyped /\ template \in 1..2 /\ DOMAIN db = Slugs
  BY DEF ImportInv, ImportTyped, RecordsTyped, CatalogsInv, CatalogsTyped
<1>1. /\ RecordsTyped' /\ (m.do = "pull" => \A s \in Slugs : db'[s] = db[s])
      /\ \A s \in Slugs \ Catalogs!SlugOf(m.id) : db'[s] = db[s]
      /\ \A s \in Slugs : db'[s] # Missing => db[s] # Missing /\ db'[s].id = db[s].id
  BY <1>0, Applied
<1>2. template' = IF m.do = "pull" THEN 2 ELSE template
  BY DEF Catalogs!Apply
<1>3. template' \in 1..2 /\ DOMAIN db' = Slugs
  BY <1>0, <1>1, <1>2 DEF RecordsTyped
<1>4. ASSUME m.do = "pull", NEW k, Proper(k)
      PROVE  Catalogs!Read(k)' = Catalogs!Read(k) \/ k \in Catalogs!Refreshed("pull", m.id)
  <2>1. Catalogs!Refreshed("pull", m.id) = {<<"id", 0>>, <<"file", 0>>}
    BY DEF Catalogs!Refreshed
  <2> QED
    BY <1>0, <1>1, <1>3, <1>4, <2>1, TemplateChanges
<1>5. ASSUME m.do # "pull", NEW k, Proper(k), \A s \in Catalogs!SlugOf(m.id) : k \notin Catalogs!Concerned(m.id, s)
      PROVE  Catalogs!Read(k)' = Catalogs!Read(k)
  <2>1. PICK S : S = Catalogs!SlugOf(m.id)
    OBVIOUS
  <2>2. S \in SUBSET Slugs /\ \A t \in S : db[t] # Missing /\ db[t].id = m.id
    BY <2>1 DEF Catalogs!SlugOf, Catalogs!Existing
  <2>3. PICK i : i = m.id
    OBVIOUS
  <2>4. /\ \A t \in Slugs \ S : db'[t] = db[t]
        /\ \A t \in S : (db[t] # Missing => db[t].id = i) /\ (db'[t] # Missing => db'[t].id = i)
        /\ UNCHANGED template /\ \A s \in S : k \notin Catalogs!Concerned(i, s)
    BY <1>1, <1>2, <1>5, <2>1, <2>2, <2>3
  <2> QED
    BY <1>0, <1>3, <1>5, <2>2, <2>4, CatalogsChange
<1> QED
  BY <1>3, <1>4, <1>5

\* a request that has been answered goes on as another
LEMMA AnsweredTyped ==
  ASSUME CatalogsInv, NEW m \in sent, m.stage = "sent", NEW stage, Catalogs!AnsweredAs(m, stage)
  PROVE  /\ ChangesTyped' /\ UNCHANGED <<cache, look, importing>>
         /\ \A k : Awaited(k) => Awaited(k)'
         /\ stage = "done" => \A k \in Catalogs!Refreshed(m.do, m.id) : Awaited(k)'
<1>1. PICK n : n = [m EXCEPT !.stage = stage]
  OBVIOUS
<1>2. sent' = (sent \ {m}) \cup {n} /\ UNCHANGED <<cache, look, importing>>
  BY <1>1 DEF Catalogs!AnsweredAs
<1>3. m = [do |-> m.do, id |-> m.id, src |-> m.src, stage |-> m.stage, here |-> m.here]
  BY DEF CatalogsInv, CatalogsTyped, ChangesTyped
<1>4. /\ n.do = m.do /\ n.id = m.id /\ n.stage = stage
      /\ n = [do |-> n.do, id |-> n.id, src |-> n.src, stage |-> n.stage, here |-> n.here]
  BY <1>1, <1>3
<1>5. ChangesTyped'
  BY <1>2, <1>4 DEF CatalogsInv, CatalogsTyped, ChangesTyped
<1>6. \A k : Awaited(k) => Awaited(k)'
  BY <1>2 DEF Awaited
<1>7. stage = "done" => \A k \in Catalogs!Refreshed(m.do, m.id) : Awaited(k)'
  BY <1>2, <1>4 DEF Awaited
<1> QED
  BY <1>2, <1>5, <1>6, <1>7

LEMMA ServeKeepsCatalogs ==
  ASSUME ImportInv, CatalogsInv, NEW m, Catalogs!Serve(m)
  PROVE  CatalogsInv'
<1>0. m \in sent /\ m.stage = "sent"
  BY DEF Catalogs!Serve
<1>1. CASE /\ Catalogs!Apply(m) /\ Catalogs!AnsweredAs(m, "done")
           /\ missed' = missed \cup UNION {Catalogs!Neglected(m.do, m.id, s) : s \in Catalogs!SlugOf(m.id)}
  <2>1. /\ ChangesTyped' /\ UNCHANGED <<cache, look>> /\ \A k : Awaited(k) => Awaited(k)'
        /\ \A k \in Catalogs!Refreshed(m.do, m.id) : Awaited(k)'
    BY <1>0, <1>1, AnsweredTyped
  <2>2. /\ template' \in 1..2
        /\ \A k : Proper(k) =>
             \/ Catalogs!Read(k)' = Catalogs!Read(k)
             \/ m.do = "pull" /\ k \in Catalogs!Refreshed("pull", m.id)
             \/ m.do # "pull" /\ \E s \in Catalogs!SlugOf(m.id) : k \in Catalogs!Concerned(m.id, s)
    BY <1>1, AppliedOutdates
  <2>3. ASSUME NEW k, m.do # "pull", NEW s \in Catalogs!SlugOf(m.id), k \in Catalogs!Concerned(m.id, s)
        PROVE  k \in missed' \/ Awaited(k)'
    <3>1. k \in Catalogs!Neglected(m.do, m.id, s) \cup Catalogs!Refreshed(m.do, m.id)
      BY <2>3, ConcernedIsRefreshed
    <3> QED
      BY <1>1, <2>1, <3>1
  <2>4. \A k : Proper(k) => Catalogs!Read(k)' = Catalogs!Read(k) \/ k \in missed' \/ Awaited(k)'
    BY <2>1, <2>2, <2>3
  <2> QED
    BY <1>1, <2>1, <2>2, <2>4, ServerKeepsCatalogs
<1>2. CASE Catalogs!AnsweredAs(m, "failed") /\ UNCHANGED <<db, template, missed>>
  BY <1>0, <1>2, AnsweredTyped, CatalogsUntouched
<1> QED
  BY <1>1, <1>2 DEF Catalogs!Serve

(* A failure that is heard after its COMMIT is one of the exceptions. *)
LEMMA FailKeepsCatalogs ==
  ASSUME ImportInv, CatalogsInv, NEW m, Catalogs!Fail(m)
  PROVE  CatalogsInv'
<1>0. m \in sent /\ m.stage = "sent" /\ Catalogs!AnsweredAs(m, "failed")
  BY DEF Catalogs!Fail
<1>1. ChangesTyped' /\ UNCHANGED <<cache, look>> /\ \A k : Awaited(k) => Awaited(k)'
  BY <1>0, AnsweredTyped
<1>2. CASE Catalogs!Apply(m) /\ ~UNCHANGED <<db, template, missed>>
  <2>1. missed' = missed \cup IF m.do = "pull" THEN Catalogs!Refreshed("pull", 0)
                             ELSE UNION {Catalogs!Concerned(m.id, s) : s \in Catalogs!SlugOf(m.id)}
    BY <1>2 DEF Catalogs!Fail
  <2>2. Catalogs!Refreshed("pull", m.id) = Catalogs!Refreshed("pull", 0)
    BY DEF Catalogs!Refreshed
  <2>3. /\ template' \in 1..2
        /\ \A k : Proper(k) =>
             \/ Catalogs!Read(k)' = Catalogs!Read(k)
             \/ m.do = "pull" /\ k \in Catalogs!Refreshed("pull", m.id)
             \/ m.do # "pull" /\ \E s \in Catalogs!SlugOf(m.id) : k \in Catalogs!Concerned(m.id, s)
    BY <1>2, AppliedOutdates
  <2>4. missed \subseteq missed' /\ \A k : Proper(k) => Catalogs!Read(k)' = Catalogs!Read(k) \/ k \in missed'
    BY <2>1, <2>2, <2>3
  <2> QED
    BY <1>1, <2>3, <2>4, ServerKeepsCatalogs
<1>3. CASE UNCHANGED <<db, template, missed>>
  BY <1>1, <1>3, CatalogsUntouched
<1> QED
  BY <1>2, <1>3 DEF Catalogs!Fail

LEMMA WriteKeepsCatalogs ==
  ASSUME ImportInv, CatalogsInv, Catalogs!WriteImport
  PROVE  CatalogsInv'
<1>1. PICK i, s : i = db'[importing.slug].id /\ s = importing.slug
  OBVIOUS
<1>2. /\ importing.stage = "checked" /\ Catalogs!Sourced(s, importing.url)
      /\ importing' = [importing EXCEPT !.stage = "committed", !.id = i]
      /\ missed' = missed \cup Catalogs!Neglected("import", i, s)
      /\ UNCHANGED <<cache, look, sent, template>>
  BY <1>1 DEF Catalogs!WriteImport, Catalogs!ImportOnly
<1>3. RecordsTyped /\ s \in Slugs /\ DOMAIN db = Slugs /\ importing'.stage = "committed"
  BY <1>1, <1>2 DEF ImportInv, ImportTyped, RecordsTyped, ImportRecord
<1>4. /\ DOMAIN db' = Slugs /\ \A t \in Slugs \ {s} : db'[t] = db[t]
      /\ (db[s] # Missing => db[s].id = i) /\ db'[s].id = i
  BY <1>1, <1>2, <1>3, SourcedRecords DEF RecordsTyped
<1>5. (\A k : Awaited(k) => Awaited(k)') /\ \A k \in Catalogs!ListKeys : Awaited(k)'
  BY <1>2, <1>3 DEF Awaited
<1>6. \A k : Proper(k) => Catalogs!Read(k)' = Catalogs!Read(k) \/ k \in missed' \/ Awaited(k)'
  <2> SUFFICES ASSUME NEW k, Proper(k) PROVE Catalogs!Read(k)' = Catalogs!Read(k) \/ k \in missed' \/ Awaited(k)'
    OBVIOUS
  <2>1. CASE k \in Catalogs!Concerned(i, s)
    <3>1. k \in Catalogs!Neglected("import", i, s) \cup Catalogs!ListKeys
      BY <2>1, ConcernedIsRefreshed DEF Catalogs!Refreshed
    <3> QED
      BY <1>2, <1>5, <3>1
  <2>2. CASE k \notin Catalogs!Concerned(i, s)
    <3>1. PICK S \in SUBSET Slugs : S = {s}
      BY <1>3
    <3> QED
      BY <1>2, <1>3, <1>4, <2>2, <3>1, CatalogsChange
  <2> QED
    BY <2>1, <2>2
<1>7. ChangesTyped' /\ template' \in 1..2 /\ missed \subseteq missed'
  BY <1>2 DEF CatalogsInv, CatalogsTyped, ChangesTyped
<1> QED
  BY <1>2, <1>5, <1>6, <1>7, ServerKeepsCatalogs

(* The files of an import, or its failure: the callback that will come     *)
(* refreshes the lists, or none does.                                      *)
LEMMA EndsKeepCatalogs ==
  ASSUME ImportInv, CatalogsInv, Catalogs!WriteFiles \/ Catalogs!FailImport
  PROVE  CatalogsInv'
<1>1. PICK i, s : i = importing.id /\ s = importing.slug
  OBVIOUS
<1>2. /\ UNCHANGED <<cache, look, sent, template>> /\ ImportRecord(importing) /\ s \in Slugs
      /\ RecordsTyped /\ DOMAIN db = Slugs
  BY <1>1 DEF Catalogs!WriteFiles, Catalogs!FailImport, Catalogs!ImportOnly, ImportInv, ImportTyped, RecordsTyped
<1>3. ChangesTyped' /\ template' \in 1..2
  BY <1>2 DEF CatalogsInv, CatalogsTyped, ChangesTyped
<1>4. ASSUME NEW k, Proper(k), UNCHANGED db \/ (Catalogs!Present /\ Catalogs!FilesWritten),
             k \notin Catalogs!Concerned(i, s)
      PROVE  Catalogs!Read(k)' = Catalogs!Read(k)
  <2>1. CASE UNCHANGED db
    BY <1>2, <2>1, ReadStays
  <2>2. CASE Catalogs!Present /\ Catalogs!FilesWritten
    <3>1. db[s] # Missing /\ db[s].id = i /\ db' = [db EXCEPT ![s].files = importing.url]
      BY <1>1, <2>2 DEF Catalogs!Present, Catalogs!FilesWritten, Catalogs!SlugOf, Catalogs!Existing
    <3>2. /\ DOMAIN db' = Slugs /\ \A t \in Slugs \ {s} : db'[t] = db[t]
          /\ db'[s].id = i
      BY <1>2, <3>1, FilesRecords DEF RecordsTyped
    <3>3. PICK S \in SUBSET Slugs : S = {s}
      BY <1>2
    <3> QED
      BY <1>2, <1>4, <3>1, <3>2, <3>3, CatalogsChange
  <2> QED
    BY <1>4, <2>1, <2>2
<1>5. CASE Catalogs!WriteFiles
  <2>1. /\ importing.stage = "committed" /\ importing' = [importing EXCEPT !.stage = "done"]
        /\ missed' = missed \cup Catalogs!Neglected("import", i, s)
        /\ Catalogs!Present /\ Catalogs!FilesWritten
    BY <1>1, <1>5 DEF Catalogs!WriteFiles, Catalogs!At
  <2>2. importing'.stage = "done"
    BY <1>2, <2>1 DEF ImportRecord
  <2>3. (\A k : Awaited(k) => Awaited(k)') /\ \A k \in Catalogs!ListKeys : Awaited(k)'
    BY <1>2, <2>2 DEF Awaited
  <2>4. ASSUME NEW k, Proper(k)
        PROVE  Catalogs!Read(k)' = Catalogs!Read(k) \/ k \in missed' \/ Awaited(k)'
    <3>1. CASE k \in Catalogs!Concerned(i, s)
      <4>1. k \in Catalogs!Neglected("import", i, s) \cup Catalogs!ListKeys
        BY <3>1, ConcernedIsRefreshed DEF Catalogs!Refreshed
      <4> QED
        BY <2>1, <2>3, <4>1
    <3>2. CASE k \notin Catalogs!Concerned(i, s)
      BY <1>4, <2>1, <2>4, <3>2
    <3> QED
      BY <3>1, <3>2
  <2> QED
    BY <1>2, <1>3, <2>1, <2>3, <2>4, ServerKeepsCatalogs
<1>6. CASE Catalogs!FailImport
  <2>1. /\ importing.stage \in {"sent", "checked", "committed"} /\ importing' = [importing EXCEPT !.stage = "failed"]
        /\ UNCHANGED db \/ (Catalogs!Present /\ Catalogs!FilesWritten)
        /\ IF importing.stage = "committed" THEN missed' = missed \cup Catalogs!Concerned(i, s)
             ELSE UNCHANGED <<db, missed>>
    BY <1>1, <1>6 DEF Catalogs!FailImport, Catalogs!At
  <2>2. CASE importing.stage = "committed"
    <3>1. \A k \in Catalogs!ListKeys : k \in missed'
      BY <2>1, <2>2 DEF Catalogs!Concerned
    <3>2. ASSUME NEW k \in DOMAIN cache
          PROVE  Awaited(k)' \/ k \in missed' \/ Tells(cache[k], k \in Catalogs!InView, Catalogs!Read(k)')
      <4>1. Proper(k) /\ (Awaited(k) \/ Told(k, Catalogs!InView, Catalogs!Read(k)))
        BY DEF CatalogsInv, CatalogsTyped, CatalogsTell
      <4>2. Awaited(k) => Awaited(k)' \/ k \in missed'
        BY <1>2, <3>1 DEF Awaited
      <4>3. Catalogs!Read(k)' = Catalogs!Read(k) \/ k \in missed'
        BY <1>4, <2>1, <2>2, <4>1
      <4> QED
        BY <2>1, <2>2, <4>1, <4>2, <4>3 DEF Told
    <3>3. Catalogs!InView' = Catalogs!InView
      BY <1>2 DEF Catalogs!InView
    <3>4. CatalogsTyped'
      BY <1>2, <1>3, <3>3 DEF CatalogsInv, CatalogsTyped, CacheTyped
    <3>5. CatalogsTell'
      BY <1>2, <3>2, <3>3 DEF CatalogsTell, Told
    <3> QED
      BY <3>4, <3>5 DEF CatalogsInv
  <2>3. CASE importing.stage # "committed"
    <3>1. \A k : Awaited(k) => Awaited(k)'
      BY <1>2, <2>1, <2>3 DEF Awaited
    <3> QED
      BY <1>2, <1>3, <2>1, <2>3, <3>1, CatalogsUntouched
  <2> QED
    BY <2>2, <2>3
<1> QED
  BY <1>5, <1>6

LEMMA OthersKeepCatalogs ==
  ASSUME ImportInv, CatalogsInv, NEW s \in Slugs, Catalogs!Others(s)
  PROVE  CatalogsInv'
<1>1. PICK i : i = IF db[s] = Missing THEN ids' ELSE db[s].id
  OBVIOUS
<1>2. /\ missed' = missed \cup Catalogs!Concerned(i, s)
      /\ UNCHANGED <<cache, look, sent, template, importing>>
  BY <1>1 DEF Catalogs!Others
<1>3. RecordsTyped /\ DOMAIN db = Slugs
  BY DEF ImportInv, ImportTyped, RecordsTyped
<1>4. /\ DOMAIN db' = Slugs /\ \A t \in Slugs \ {s} : db'[t] = db[t]
      /\ (db[s] # Missing => db[s].id = i) /\ (db'[s] # Missing => db'[s].id = i)
  BY <1>1, <1>3, OthersRecords DEF RecordsTyped
<1>5. \A k : Awaited(k) => Awaited(k)'
  BY <1>2 DEF Awaited
<1>6. \A k : Proper(k) => Catalogs!Read(k)' = Catalogs!Read(k) \/ k \in missed'
  <2>1. PICK S \in SUBSET Slugs : S = {s}
    OBVIOUS
  <2> QED
    BY <1>2, <1>3, <1>4, <2>1, CatalogsChange
<1>7. ChangesTyped' /\ template' \in 1..2
  BY <1>2 DEF CatalogsInv, CatalogsTyped, ChangesTyped
<1> QED
  BY <1>2, <1>5, <1>6, <1>7, ServerKeepsCatalogs

LEMMA HearKeepsCatalogs ==
  ASSUME CatalogsInv, NEW m, Catalogs!Hear(m)
  PROVE  CatalogsInv'
<1>1. /\ m \in sent /\ m.stage \in {"done", "failed"} /\ sent' = sent \ {m}
      /\ UNCHANGED <<look, importing, db, template>>
  BY DEF Catalogs!Hear, Catalogs!dbVars, Catalogs!importVars
<1>2. ChangesTyped'
  BY <1>1 DEF CatalogsInv, CatalogsTyped, ChangesTyped
<1>3. CASE m.stage = "done"
  <2>1. Catalogs!Invalidate(Catalogs!InView, Catalogs!Refreshed(m.do, m.id))
    BY <1>3 DEF Catalogs!Hear
  <2>2. \A k : Awaited(k) => Awaited(k)' \/ k \in Catalogs!Refreshed(m.do, m.id)
    BY <1>1 DEF Awaited
  <2> QED
    BY <1>1, <1>2, <2>1, <2>2, InvalidateKeepsCatalogs
<1>4. CASE m.stage = "failed"
  <2>1. UNCHANGED <<cache, missed>>
    BY <1>4 DEF Catalogs!Hear, Catalogs!cacheVars
  <2>2. \A k : Awaited(k) => Awaited(k)'
    BY <1>1, <1>4 DEF Awaited
  <2> QED
    BY <1>1, <1>2, <2>1, <2>2, CatalogsUntouched
<1> QED
  BY <1>1, <1>3, <1>4

LEMMA HearImportKeepsCatalogs ==
  ASSUME CatalogsInv, Catalogs!HearImport
  PROVE  CatalogsInv'
<1>1. UNCHANGED <<look, sent, db, template>> /\ importing.stage # "committed"
  BY DEF Catalogs!HearImport, Catalogs!dbVars
<1>2. ChangesTyped'
  BY <1>1 DEF CatalogsInv, CatalogsTyped, ChangesTyped
<1>3. CASE importing.stage = "done"
  <2>1. Catalogs!Refreshed("import", 0) = Catalogs!ListKeys
    BY DEF Catalogs!Refreshed
  <2>2. Catalogs!Invalidate(Catalogs!InView, Catalogs!ListKeys)
    BY <1>3, <2>1 DEF Catalogs!HearImport
  <2>3. \A k : Awaited(k) => Awaited(k)' \/ k \in Catalogs!ListKeys
    BY <1>1 DEF Awaited
  <2> QED
    BY <1>1, <1>2, <2>2, <2>3, InvalidateKeepsCatalogs
<1>4. CASE importing.stage # "done"
  <2>1. UNCHANGED <<cache, missed>>
    BY <1>4 DEF Catalogs!HearImport, Catalogs!cacheVars
  <2>2. \A k : Awaited(k) => Awaited(k)'
    BY <1>1, <1>4 DEF Awaited
  <2> QED
    BY <1>1, <1>2, <2>1, <2>2, CatalogsUntouched
<1> QED
  BY <1>3, <1>4

(* Moving about leaves the callbacks that are still to come. *)
LEMMA MovesKeepCatalogs ==
  ASSUME CatalogsInv, NEW l, LookTyped(l), Catalogs!Goto(l), Catalogs!Still
  PROVE  CatalogsInv'
<1>1. UNCHANGED <<missed, db, template, sent, importing>>
  BY DEF Catalogs!Still, Catalogs!dbVars, Catalogs!importVars
<1>2. ChangesTyped' /\ \A k : Awaited(k) => Awaited(k)'
  BY <1>1 DEF CatalogsInv, CatalogsTyped, ChangesTyped, Awaited
<1> QED
  BY <1>1, <1>2, GotoKeepsCatalogs

LEMMA PageStepsKeepCatalogs ==
  ASSUME CatalogsInv,
         \/ \E q \in Catalogs!Searches : Catalogs!Search(q)
         \/ Catalogs!ShowReadme \/ Catalogs!ShowDag \/ Catalogs!ShowRuns
         \/ Catalogs!OpenFile \/ Catalogs!CloseFiles \/ Catalogs!Rendered
  PROVE  CatalogsInv'
<1>0. LookTyped(look)
  BY DEF CatalogsInv, CatalogsTyped
<1>1. ASSUME NEW l, NEW x,
             \/ l = [look EXCEPT !.mode = x] \/ l = [look EXCEPT !.runs = x] \/ l = [look EXCEPT !.on = x]
             \/ l = [look EXCEPT !.key = x] /\ Proper(x)
      PROVE  LookTyped(l)
  <2>1. l.key = look.key \/ (l.key = x /\ Proper(x))
    BY <1>0, <1>1 DEF LookTyped
  <2>2. Proper(l.key)
    BY <1>0, <2>1 DEF LookTyped
  <2>3. l = [key |-> l.key, mode |-> l.mode, runs |-> l.runs, on |-> l.on]
    BY <1>0, <1>1 DEF LookTyped
  <2> QED
    BY <2>2, <2>3 DEF LookTyped
<1>2. ASSUME NEW q \in Catalogs!Searches, Catalogs!Search(q)
      PROVE  CatalogsInv'
  <2>1. Proper(<<"list", q>>)
    BY DEF Proper, Catalogs!ListKeys
  <2>2. LookTyped([look EXCEPT !.key = <<"list", q>>])
    BY <1>1, <2>1
  <2> QED
    BY <1>2, <2>2, MovesKeepCatalogs DEF Catalogs!Search
<1>3. ASSUME NEW l, LookTyped(l), Catalogs!Turned(l)
      PROVE  CatalogsInv'
    BY <1>3, MovesKeepCatalogs DEF Catalogs!Turned
<1>4. ASSUME NEW x, Catalogs!PickMode(x)
      PROVE  CatalogsInv'
  BY <1>1, <1>3, <1>4 DEF Catalogs!PickMode
<1>5. CASE Catalogs!ShowRuns
  BY <1>1, <1>3, <1>5 DEF Catalogs!ShowRuns
<1>6. CASE Catalogs!Rendered
  BY <1>1, <1>6, MovesKeepCatalogs DEF Catalogs!Rendered
<1> QED
  BY <1>2, <1>4, <1>5, <1>6
     DEF Catalogs!ShowReadme, Catalogs!ShowDag, Catalogs!OpenFile, Catalogs!CloseFiles

LEMMA OpenKeepsCatalogs ==
  ASSUME ImportInv, CatalogsInv, NEW key \in Catalogs!Pages, Catalogs!Open(key)
  PROVE  CatalogsInv'
<1> DEFINE l == [key |-> key, mode |-> "readme", runs |-> FALSE, on |-> {}]
<1>1. /\ Catalogs!Goto(l) /\ UNCHANGED <<missed, db, template>>
      /\ sent' = {[m EXCEPT !.here = FALSE] : m \in sent}
      /\ importing' = [importing EXCEPT !.here = FALSE]
  BY DEF Catalogs!Open, Catalogs!dbVars
<1>2. Proper(key)
  <2>1. CASE key = <<"list", "all">>
    BY <2>1 DEF Proper, Catalogs!ListKeys, Catalogs!Searches
  <2>2. ASSUME NEW x, key = <<"id", x>>
        PROVE  Proper(key)
    BY <2>2 DEF Proper
  <2>3. ASSUME NEW x \in Slugs, key = <<"slug", x>>
        PROVE  Proper(key)
    BY <2>3 DEF Proper
  <2> QED
    BY <2>1, <2>2, <2>3 DEF Catalogs!Pages
<1>3. LookTyped(l)
  BY <1>2 DEF LookTyped
<1> HIDE DEF l
<1>4. ASSUME NEW m \in sent, NEW n, n = [m EXCEPT !.here = FALSE]
      PROVE  /\ n.do = m.do /\ n.id = m.id /\ n.stage = m.stage
             /\ n = [do |-> n.do, id |-> n.id, src |-> n.src, stage |-> n.stage, here |-> n.here]
  <2>1. m = [do |-> m.do, id |-> m.id, src |-> m.src, stage |-> m.stage, here |-> m.here]
    BY DEF CatalogsInv, CatalogsTyped, ChangesTyped
  <2> QED
    BY <1>4, <2>1
<1>5. ChangesTyped'
  BY <1>1, <1>4 DEF ChangesTyped
<1>6. importing'.stage = importing.stage
  <2>1. ImportRecord(importing)
    BY DEF ImportInv, ImportTyped
  <2> QED
    BY <1>1, <2>1 DEF ImportRecord
<1>7. \A k : Awaited(k) => Awaited(k)'
  <2> SUFFICES ASSUME NEW k, NEW m \in sent, m.stage = "done", k \in Catalogs!Refreshed(m.do, m.id)
               PROVE  Awaited(k)'
    BY <1>6 DEF Awaited
  <2>1. PICK n \in sent' : n = [m EXCEPT !.here = FALSE]
    BY <1>1
  <2>2. n.do = m.do /\ n.id = m.id /\ n.stage = m.stage
    BY <1>4, <2>1
  <2> QED
    BY <2>1, <2>2 DEF Awaited
<1> QED
  BY <1>1, <1>3, <1>5, <1>7, GotoKeepsCatalogs

LEMMA CatalogsInvStep ==
  ASSUME page = "catalogs", ImportInv, CatalogsInv, [WebNext]_webPagesVars
  PROVE  CatalogsInv'
<1>1. CASE CatalogsStep
  <2>1. Catalogs!CpNext
    BY <1>1 DEF CatalogsStep
  <2>2. ASSUME \/ \E i \in Catalogs!Ids : Catalogs!OpenEdit(i) \/ Catalogs!OpenDelete(i)
               \/ \E u \in Urls : Catalogs!Type(u)
               \/ Catalogs!Cancel \/ Catalogs!OpenImport \/ Catalogs!CancelImport
               \/ \E u \in Urls : Catalogs!TypeUrl(u)
        PROVE  CatalogsInv'
    <3>1. UNCHANGED <<cache, missed, look, db, template, sent, importing>>
      BY <2>2 DEF Catalogs!OpenEdit, Catalogs!OpenDelete, Catalogs!Type, Catalogs!Cancel, Catalogs!OpenImport,
             Catalogs!CancelImport, Catalogs!TypeUrl, Catalogs!cacheVars, Catalogs!dbVars, Catalogs!importVars
    <3> QED
      BY <3>1, CatalogsUntouched DEF CatalogsInv, CatalogsTyped, ChangesTyped, Awaited
  <2>3. ASSUME Catalogs!Save \/ Catalogs!Delete \/ Catalogs!Pull
        PROVE  CatalogsInv'
    <3>1. PICK do, i, v : Catalogs!Send(do, i, v)
      BY <2>3 DEF Catalogs!Save, Catalogs!Delete, Catalogs!Pull
    <3>2. /\ UNCHANGED <<cache, missed, look, db, template, importing>>
          /\ sent' = sent \cup {[do |-> do, id |-> i, src |-> v, stage |-> "sent", here |-> TRUE]}
      BY <3>1 DEF Catalogs!Send, Catalogs!cacheVars, Catalogs!dbVars, Catalogs!importVars
    <3>3. ChangesTyped' /\ \A k : Awaited(k) => Awaited(k)'
      BY <3>2 DEF CatalogsInv, CatalogsTyped, ChangesTyped, Awaited
    <3> QED
      BY <3>2, <3>3, CatalogsUntouched
  <2>4. ASSUME \/ \E s \in Slugs : Catalogs!Import(s, FALSE) \/ Catalogs!Import(s, TRUE)
               \/ /\ Catalogs!CheckImport
                  /\ UNCHANGED <<cache, missed, look, db, template, sent>>
        PROVE  CatalogsInv'
    <3>1. /\ UNCHANGED <<cache, missed, look, db, template, sent>>
          /\ importing.stage \notin {"committed", "done"}
      BY <2>4 DEF Catalogs!Import, Catalogs!CheckImport, Catalogs!cacheVars, Catalogs!dbVars
    <3>2. ChangesTyped' /\ \A k : Awaited(k) => Awaited(k)'
      BY <3>1 DEF CatalogsInv, CatalogsTyped, ChangesTyped, Awaited
    <3> QED
      BY <3>1, <3>2, CatalogsUntouched
  <2>5. CASE Catalogs!ImportStep
    BY <2>4, <2>5, WriteKeepsCatalogs, EndsKeepCatalogs
       DEF Catalogs!ImportStep, Catalogs!cacheVars, Catalogs!dbVars
  <2>6. CASE Catalogs!Background
    BY <2>6, BackgroundKeepsCatalogs
  <2> QED
    BY <2>1, <2>2, <2>3, <2>4, <2>5, <2>6, OpenKeepsCatalogs, PageStepsKeepCatalogs, ServeKeepsCatalogs,
       FailKeepsCatalogs, HearKeepsCatalogs, HearImportKeepsCatalogs, OthersKeepCatalogs DEF Catalogs!CpNext
<1>2. CASE UNCHANGED <<catalogsVars, cache, missed, sent>>
  BY <1>2, CatalogsUntouched
     DEF catalogsVars, CatalogsInv, CatalogsTyped, ChangesTyped, Awaited
<1>3. SessionStep \/ BackupStep \/ TreeStep \/ DagStep \/ UNCHANGED webPagesVars
        => UNCHANGED <<catalogsVars, cache, missed, sent>>
  BY DEF SessionStep, BackupStep, TreeStep, DagStep, webPagesVars, sharedVars
<1>4. ~AccountsStep
  BY DEF AccountsStep
<1> QED
  BY <1>1, <1>2, <1>3, <1>4 DEF WebNext

(* When nothing is under way, the pages of catalogs show what the changes  *)
(* made on them have led to, for any number of catalogs, whoever else      *)
(* changes them, and through any dialogs, searches and pages on the way    *)
(* (CatalogList.tsx and the pages of a catalog; the exceptions are named   *)
(* by CatalogPages).                                                       *)
THEOREM CatalogPagesAreRight == WebSpec => []CatalogsShown
<1> DEFINE Inv == ImportInv /\ (page = "catalogs" => CatalogsInv)
<1>1. WebInit => Inv
  BY ImportInvInit, CatalogsInvInit
<1>2. Inv /\ [WebNext]_webPagesVars => Inv'
  BY ImportInvStep, CatalogsInvStep, PageStays
<1>3. Inv => CatalogsShown
  <2> SUFFICES ASSUME CatalogsInv, sent = {}, importing.stage = "idle", Catalogs!Idle(Catalogs!InView),
                      NEW k \in Catalogs!InView \cap DOMAIN cache
               PROVE  k \in missed \/ Catalogs!Entry(k).data = Catalogs!Read(k)
    BY DEF CatalogsShown, Catalogs!CatalogsShown
  <2>1. ~Awaited(k) /\ Catalogs!Entry(k) = cache[k] /\ cache[k].stage = "idle"
    BY DEF Awaited, Catalogs!Idle, Catalogs!Entry
  <2>2. Told(k, Catalogs!InView, Catalogs!Read(k))
    BY <2>1 DEF CatalogsInv, CatalogsTell
  <2> QED
    BY <2>1, <2>2 DEF Told, Tells
<1> QED
  BY <1>1, <1>2, <1>3, PTL DEF WebSpec

-----------------------------------------------------------------------------
(* The types of the pages.  Each page has its own, and some are kept only  *)
(* with what was proved of it above.                                       *)

LEMMA SessionTyped == SessionProofs!WsInv => Session!WsTypeOK
BY DEF SessionProofs!WsInv, SessionProofs!WebTypes, SessionProofs!TabsOf, SessionProofs!CliTypes,
       SessionProofs!Locked, Session!WsTypeOK

-----------------------------------------------------------------------------
(* The types of the backup *)

\* a run, or none
RunOrNone(n) == n \in 0..MaxRuns

StatusTyped(s) == RunOrNone(s.run) /\ s.is \in {"none", "running", "success", "error"}

\* what was read is no newer than what was written
VersionsKnown ==
  /\ work <= edits /\ export.read <= edits
  /\ \A r \in Backup!Runs : runs[r].read <= edits

StatusesTyped ==
  /\ StatusTyped(status) /\ StatusTyped(seen) /\ StatusTyped(result)
  /\ \A r \in Backup!Runs : StatusTyped(clicks[r].read)

\* a handler polls only after its request was answered, and not too often
HandlersTyped ==
  /\ mounted # 0 => mounted \in Backup!Runs /\ Backup!Asking(mounted)
  /\ \A r \in Backup!Runs :
       /\ clicks[r].polls <= MaxPolls
       /\ clicks[r].at \in {"posting", "accepted", "waiting"} => clicks[r].polls < MaxPolls
       /\ clicks[r].at \in {"accepted", "waiting", "answered"} => runs[r].stage # "none"
  /\ toast \in {"none", "loading", "success", "error", "warning"}

BackupLimits == VersionsKnown /\ StatusesTyped /\ HandlersTyped

LEMMA BackupConstants == MaxRuns \in Nat \ {0} /\ MaxPolls \in Nat \ {0}
BY PagesAssumption DEF PagesAssumption, Backup!BackupAssumption

LEMMA BackupLimitsInit == WebInit => BackupLimits
BY BackupConstants
   DEF WebInit, Backup!GbInit, BackupLimits, VersionsKnown, StatusesTyped, StatusTyped, RunOrNone,
       HandlersTyped, Backup!Unknown, Backup!NoRun, Backup!NoClick

\* steps that no handler takes, and that do not take back a run
LEMMA HandlersStay ==
  ASSUME HandlersTyped, UNCHANGED <<clicks, mounted, toast>>,
         \A r \in Backup!Runs : runs[r].stage # "none" => runs'[r].stage # "none"
  PROVE  HandlersTyped'
BY DEF HandlersTyped, Backup!Asking

LEMMA TaskLimits ==
  ASSUME BackupInv, BackupLimits, NEW r \in Backup!Runs,
         \/ Backup!Task(r) \/ Backup!WriteFails(r) \/ Backup!RunFails(r) \/ Backup!Drop(r)
         \/ Backup!StartOther(r)
  PROVE  BackupLimits'
<1>1. /\ UNCHANGED <<edits, export, clicks, mounted, seen, result, toast>>
      /\ BackupTypes
  BY DEF BackupInv, Backup!Task, Backup!pageVars, Backup!Begin, Backup!Clear, Backup!ReadRows,
         Backup!Write, Backup!Push, Backup!Finish, Backup!WriteFails, Backup!RunFails, Backup!Drop,
         Backup!StartOther
<1>2. /\ \A q \in Backup!Runs \ {r} : runs'[q] = runs[q]
      /\ runs'[r].stage # "none" /\ runs'[r].read \in {0, edits, runs[r].read}
      /\ work' \in {0, work, runs[r].read}
  BY <1>1
     DEF BackupTypes, Backup!Task, Backup!Begin, Backup!Clear, Backup!ReadRows, Backup!Write,
         Backup!Push, Backup!Finish, Backup!WriteFails, Backup!RunFails, Backup!Drop,
         Backup!StartOther, Backup!At, Backup!Ended, Backup!NoRun
<1>3. status' = status \/ (status'.run = r /\ status'.is \in {"running", "success", "error"})
  <2>1. CASE Backup!Begin(r)
    BY <2>1 DEF Backup!Begin, Backup!Is
  <2>2. CASE Backup!Finish(r)
    <3>1. runs'[r].stage \in {"success", "error"} /\ status' = [run |-> r, is |-> runs'[r].stage]
      BY <1>1, <2>2 DEF BackupTypes, Backup!Finish, Backup!Is
    <3> QED
      BY <3>1
  <2> QED
    BY <2>1, <2>2
       DEF Backup!Task, Backup!Clear, Backup!ReadRows, Backup!Write, Backup!Push,
           Backup!WriteFails, Backup!RunFails, Backup!Drop, Backup!StartOther
<1>4. VersionsKnown'
  BY <1>1, <1>2 DEF BackupLimits, VersionsKnown, BackupTypes
<1>5. StatusesTyped'
  BY <1>1, <1>3, BackupConstants DEF BackupLimits, StatusesTyped, StatusTyped, RunOrNone, Backup!Runs
<1>6. HandlersTyped'
  BY <1>1, <1>2, HandlersStay DEF BackupLimits
<1> QED
  BY <1>4, <1>5, <1>6 DEF BackupLimits

LEMMA OtherLimits ==
  ASSUME BackupInv, BackupLimits,
         Backup!Edit \/ Backup!Export \/ Backup!Crash \/ Backup!Reopen \/ Backup!Refetch
  PROVE  BackupLimits'
<1>1. CASE Backup!Edit \/ Backup!Export
  <2>1. /\ UNCHANGED <<status, runs, clicks, mounted, seen, result, toast>>
        /\ edits' \in {edits, edits + 1} /\ export'.read \in {0, edits, export.read}
        /\ work' \in {0, work, export.read}
    BY <1>1 DEF Backup!Edit, Backup!Export, Backup!pageVars, BackupInv, BackupTypes
  <2>2. VersionsKnown'
    BY <2>1 DEF BackupLimits, VersionsKnown, BackupInv, BackupTypes
  <2>3. StatusesTyped'
    BY <2>1 DEF BackupLimits, StatusesTyped
  <2>4. HandlersTyped'
    BY <2>1, HandlersStay DEF BackupLimits
  <2> QED
    BY <2>2, <2>3, <2>4 DEF BackupLimits
<1>2. CASE Backup!Crash
  <2>1. /\ UNCHANGED <<edits, work, status, mounted, seen, result, toast>>
        /\ export'.read = 0
    BY <1>2 DEF Backup!Crash
  <2>2. ASSUME NEW r \in Backup!Runs
        PROVE  /\ runs'[r].read \in {0, runs[r].read} /\ (runs[r].stage # "none" => runs'[r].stage # "none")
               /\ clicks'[r].read = clicks[r].read /\ clicks'[r].polls = clicks[r].polls
               /\ clicks'[r].at \in {clicks[r].at, "failed"}
               /\ clicks'[r].at \notin {"posting", "accepted", "waiting"}
               /\ clicks[r].at \in {"posting", "accepted", "waiting"} => clicks'[r].at = "failed"
               /\ clicks[r].at \notin {"posting", "accepted", "waiting"} => clicks'[r].at = clicks[r].at
    BY <1>2, <2>2 DEF Backup!Crash, Backup!NoRun, BackupInv, BackupTypes
  <2>3. VersionsKnown'
    BY <2>1, <2>2 DEF BackupLimits, VersionsKnown, BackupInv, BackupTypes
  <2>4. StatusesTyped'
    BY <2>1, <2>2 DEF BackupLimits, StatusesTyped
  <2>5. HandlersTyped'
    BY <2>1, <2>2 DEF BackupLimits, HandlersTyped, Backup!Asking
  <2> QED
    BY <2>3, <2>4, <2>5 DEF BackupLimits
<1>3. CASE Backup!Reopen \/ Backup!Refetch
  <2>1. /\ UNCHANGED <<edits, work, export, status, runs, clicks, toast>>
        /\ seen' = status /\ mounted' \in {0, mounted} /\ result' \in {result, Backup!Unknown}
    BY <1>3 DEF Backup!Reopen, Backup!Refetch, Backup!serverVars
  <2>2. VersionsKnown'
    BY <2>1 DEF BackupLimits, VersionsKnown
  <2>3. StatusesTyped'
    BY <2>1, BackupConstants DEF BackupLimits, StatusesTyped, StatusTyped, RunOrNone, Backup!Unknown
  <2>4. HandlersTyped'
    BY <2>1 DEF BackupLimits, HandlersTyped, Backup!Asking
  <2> QED
    BY <2>2, <2>3, <2>4 DEF BackupLimits
<1> QED
  BY <1>1, <1>2, <1>3

(* A handler's step: its click changes, and it may be the last of it.      *)
LEMMA HandlerLimits ==
  ASSUME BackupInv, BackupLimits, NEW r \in Backup!Runs,
         \/ Backup!Click(r) \/ Backup!Accept(r) \/ Backup!Refuse(r) \/ Backup!Handler(r)
  PROVE  BackupLimits'
<1>0. BackupTypes /\ UNCHANGED <<edits, work, export, seen>>
  BY DEF BackupInv, Backup!Click, Backup!Accept, Backup!Refuse, Backup!Handler, Backup!HearFailure,
         Backup!Poll, Backup!HearPoll, Backup!serverVars
<1>1. /\ \A q \in Backup!Runs \ {r} : clicks'[q] = clicks[q] /\ runs'[q] = runs[q]
      /\ runs'[r].read = runs[r].read
      /\ runs[r].stage # "none" => runs'[r].stage # "none"
  BY <1>0
     DEF BackupTypes, Backup!Click, Backup!Accept, Backup!Refuse, Backup!Handler,
         Backup!HearFailure, Backup!Poll, Backup!HearPoll, Backup!Over, Backup!serverVars,
         Backup!At
<1> DEFINE Fine ==
             /\ StatusTyped(status') /\ StatusTyped(result') /\ StatusTyped(clicks'[r].read)
             /\ toast' \in {"none", "loading", "success", "error", "warning"}
             /\ clicks'[r].polls <= MaxPolls
             /\ clicks'[r].at \in {"posting", "accepted", "waiting"} => clicks'[r].polls < MaxPolls
             /\ clicks'[r].at \in {"accepted", "waiting", "answered"} => runs'[r].stage # "none"
             /\ mounted' \in {0, r, mounted}
             /\ mounted' = r => clicks'[r].at \in {"posting", "accepted", "waiting", "answered", "failed"}
<1>2. /\ r \in 1..MaxRuns /\ r # 0 /\ \A n \in {0, r} : RunOrNone(n)
      /\ clicks[r] = [at |-> clicks[r].at, polls |-> clicks[r].polls,
                      edits |-> clicks[r].edits, read |-> clicks[r].read]
      /\ clicks[r].polls \in Nat /\ r \in DOMAIN clicks /\ r \in DOMAIN runs
  BY <1>0, BackupConstants DEF BackupTypes, Backup!Runs, RunOrNone
<1>3. /\ StatusTyped(status) /\ StatusTyped(result) /\ StatusTyped(clicks[r].read)
      /\ toast \in {"none", "loading", "success", "error", "warning"}
      /\ clicks[r].polls <= MaxPolls
      /\ clicks[r].at \in {"posting", "accepted", "waiting"} => clicks[r].polls < MaxPolls
      /\ clicks[r].at \in {"accepted", "waiting", "answered"} => runs[r].stage # "none"
      /\ mounted = r => clicks[r].at \in {"posting", "accepted", "waiting", "answered", "failed"}
  BY <1>2 DEF BackupLimits, StatusesTyped, HandlersTyped, Backup!Asking
<1>4. Fine
  <2>1. CASE Backup!Click(r)
    <3>1. /\ clicks'[r] = [Backup!NoClick EXCEPT !.at = "posting", !.edits = edits]
          /\ mounted' = r /\ result' = Backup!Unknown /\ toast' = "loading" /\ UNCHANGED status
      BY <1>2, <2>1 DEF Backup!Click, Backup!serverVars
    <3>2. clicks'[r].at = "posting" /\ clicks'[r].polls = 0 /\ clicks'[r].read = Backup!Unknown
      BY <3>1 DEF Backup!NoClick
    <3> QED
      BY <1>2, <1>3, <3>1, <3>2, BackupConstants DEF Backup!Unknown, StatusTyped
  <2>2. CASE Backup!Accept(r)
    <3>1. /\ clicks' = [clicks EXCEPT ![r].at = "accepted"] /\ clicks[r].at = "posting"
          /\ runs'[r].stage = "queued" /\ status' \in {status, [run |-> r, is |-> "running"]}
          /\ UNCHANGED <<mounted, result, toast>>
      BY <1>0, <2>2 DEF Backup!Accept, Backup!At, Backup!Is, BackupTypes
    <3>2. clicks'[r].at = "accepted" /\ clicks'[r].polls = clicks[r].polls /\ clicks'[r].read = clicks[r].read
      BY <1>0, <3>1 DEF BackupTypes
    <3> QED
      BY <1>2, <1>3, <3>1, <3>2 DEF StatusTyped
  <2>3. CASE Backup!Refuse(r)
    <3>1. clicks'[r].at = "failed" /\ clicks'[r].polls = clicks[r].polls /\ clicks'[r].read = clicks[r].read
      BY <1>0, <2>3 DEF Backup!Refuse, BackupTypes
    <3> QED
      BY <1>2, <1>3, <2>3, <3>1 DEF Backup!Refuse, Backup!serverVars
  <2>4. CASE Backup!HearFailure(r)
    BY <1>2, <1>3, <2>4, BackupConstants
       DEF Backup!HearFailure, Backup!Unmount, Backup!Result, Backup!Is, Backup!NoClick,
           Backup!Unknown, StatusTyped, Backup!serverVars
  <2>5. CASE Backup!Poll(r)
    <3>1. /\ clicks'[r].at = "answered" /\ clicks'[r].polls = clicks[r].polls + 1 /\ clicks'[r].read = status
          /\ clicks[r].at \in {"accepted", "waiting"}
      BY <1>0, <2>5 DEF Backup!Poll, BackupTypes
    <3> QED
      BY <1>2, <1>3, <2>5, <3>1, BackupConstants DEF Backup!Poll, Backup!serverVars
  <2>6. CASE Backup!HearPoll(r)
    <3>1. clicks[r].at = "answered" /\ UNCHANGED <<status, runs>>
      BY <2>6 DEF Backup!HearPoll, Backup!serverVars
    <3>2. CASE Backup!Over(r)
      <4>1. /\ clicks'[r].at = "over" /\ clicks'[r].polls = 0 /\ clicks'[r].read = [run |-> 0, is |-> "none"]
            /\ mounted' = IF mounted = r THEN 0 ELSE mounted
        BY <1>2, <3>2 DEF Backup!Over, Backup!Unmount, Backup!NoClick, Backup!Unknown
      <4>2. StatusTyped(result') /\ toast' \in {"none", "loading", "success", "error", "warning"}
        BY <1>2, <1>3, <2>6 DEF Backup!HearPoll, Backup!Result, Backup!Is, StatusTyped
      <4> QED
        BY <1>2, <1>3, <3>1, <4>1, <4>2, BackupConstants DEF StatusTyped
    <3>3. CASE /\ clicks[r].polls < MaxPolls /\ UNCHANGED <<mounted, result, toast>>
               /\ clicks' = [clicks EXCEPT ![r].at = "waiting", ![r].read = Backup!Unknown]
      <4>1. clicks'[r].at = "waiting" /\ clicks'[r].polls = clicks[r].polls /\ clicks'[r].read = Backup!Unknown
        BY <1>0, <3>3 DEF BackupTypes
      <4> QED
        BY <1>2, <1>3, <3>1, <3>3, <4>1 DEF StatusTyped, Backup!Unknown
    <3> QED
      BY <2>6, <3>2, <3>3 DEF Backup!HearPoll
  <2> QED
    BY <2>1, <2>2, <2>3, <2>4, <2>5, <2>6 DEF Backup!Handler
<1>5. VersionsKnown'
  BY <1>0, <1>1 DEF BackupLimits, VersionsKnown
<1>6. StatusesTyped'
  BY <1>0, <1>1, <1>4 DEF BackupLimits, StatusesTyped
<1>7. HandlersTyped'
  BY <1>1, <1>2, <1>4 DEF BackupLimits, HandlersTyped, Backup!Asking
<1> QED
  BY <1>5, <1>6, <1>7 DEF BackupLimits

LEMMA BackupLimitsStep == BackupInv /\ BackupLimits /\ [WebNext]_webPagesVars => BackupLimits'
<1> SUFFICES ASSUME BackupInv, BackupLimits, [WebNext]_webPagesVars PROVE BackupLimits'
  OBVIOUS
<1>1. CASE BackupStep
  BY <1>1, TaskLimits, OtherLimits, HandlerLimits DEF BackupStep, Backup!GbNext
<1>2. CASE UNCHANGED backupVars
  BY <1>2
     DEF backupVars, BackupLimits, VersionsKnown, StatusesTyped, HandlersTyped, Backup!Asking
<1>3. SessionStep \/ AccountsStep \/ TreeStep \/ DagStep \/ CatalogsStep \/ UNCHANGED webPagesVars
        => UNCHANGED backupVars
  BY DEF SessionStep, AccountsStep, TreeStep, DagStep, CatalogsStep, webPagesVars
<1> QED
  BY <1>1, <1>2, <1>3 DEF WebNext

LEMMA BackupTyped == BackupInv /\ BackupLimits => Backup!GbTypeOK
BY DEF BackupInv, BackupTypes, BackupLimits, VersionsKnown, StatusesTyped, StatusTyped, RunOrNone,
       HandlersTyped, Backup!GbTypeOK

-----------------------------------------------------------------------------
(* The types of the outputs *)

\* the tree, and what comes for it, holds paths that are on the disk
TreeOfDisk ==
  /\ disk \subseteq Paths /\ full \in BOOLEAN
  /\ \A p \in DOMAIN listed : listed[p] \subseteq disk
  /\ \A p \in DOMAIN loads : loads[p].list \subseteq disk
  /\ selected # <<>> => Tree!InTree(selected)

LEMMA TreeOfDiskInit == WebInit => TreeOfDisk
BY PagesAssumption
   DEF PagesAssumption, Tree!PathsAssumption, WebInit, Tree!RtInit, TreeOfDisk

LEMMA TreeOfDiskNext ==
  ASSUME TreeInv, TreeOfDisk, Tree!RtNext
  PROVE  TreeOfDisk'
<1>1. CASE Tree!NewRoot
  <2>1. /\ UNCHANGED <<disk, loads, full>> /\ selected' = <<>>
        /\ listed' = [p \in {<<>>} |-> Tree!Listing(p)]
    BY <1>1 DEF Tree!NewRoot
  <2>2. \A p \in DOMAIN listed' : listed'[p] \subseteq disk
    BY <2>1 DEF Tree!Listing
  <2> QED
    BY <2>1, <2>2 DEF TreeOfDisk
<1>2. CASE Tree!Fullscreen
  BY <1>2 DEF Tree!Fullscreen, TreeOfDisk, Tree!InTree
<1>3. ASSUME NEW p \in Paths, Tree!RunWrites(p)
      PROVE  TreeOfDisk'
  <2>1. disk \subseteq disk' /\ UNCHANGED <<listed, loads, selected, full>>
    BY <1>3 DEF Tree!RunWrites, Tree!treeVars
  <2>2. disk' \subseteq Paths
    BY <1>3, PagesAssumption DEF PagesAssumption, Tree!PathsAssumption, TreeOfDisk, Tree!RunWrites
  <2> QED
    BY <2>1, <2>2 DEF TreeOfDisk, Tree!InTree
<1>4. ASSUME NEW p \in Paths, Tree!Expand(p)
      PROVE  TreeOfDisk'
  <2>1. UNCHANGED <<disk, listed, selected, full>>
    BY <1>4 DEF Tree!Expand
  <2>2. \/ UNCHANGED loads
        \/ loads' = [q \in DOMAIN loads \cup {p} |->
                       IF q = p THEN [is |-> "asked", list |-> {}] ELSE loads[q]]
    BY <1>4 DEF Tree!Expand
  <2>3. \A q \in DOMAIN loads' : loads'[q].list \subseteq disk
    BY <2>2 DEF TreeOfDisk
  <2> QED
    BY <2>1, <2>3 DEF TreeOfDisk, Tree!InTree
<1>5. ASSUME NEW p \in Paths, Tree!Collapse(p)
      PROVE  TreeOfDisk'
  BY <1>5 DEF Tree!Collapse, TreeOfDisk, Tree!InTree
<1>6. ASSUME NEW p \in Paths, Tree!ServeList(p)
      PROVE  TreeOfDisk'
  <2>1. /\ UNCHANGED <<disk, listed, selected, full>>
        /\ p \in DOMAIN loads /\ loads[p] = [is |-> loads[p].is, list |-> loads[p].list]
    BY <1>6 DEF Tree!ServeList, Tree!Asked, TreeInv, TreeTyped
  <2>2. \/ loads' = [loads EXCEPT ![p] = [is |-> "answer", list |-> Tree!Listing(p)]]
        \/ loads' = [loads EXCEPT ![p] = [is |-> "failed", list |-> loads[p].list]]
    <3>1. [loads[p] EXCEPT !.is = "failed"] = [is |-> "failed", list |-> loads[p].list]
      BY <2>1
    <3> QED
      BY <1>6, <3>1 DEF Tree!ServeList
  <2>3. \A q \in DOMAIN loads' : loads'[q].list \subseteq disk
    BY <2>1, <2>2 DEF TreeOfDisk, Tree!Listing
  <2> QED
    BY <2>1, <2>3 DEF TreeOfDisk, Tree!InTree
<1>7. ASSUME NEW p \in Paths, Tree!HearList(p)
      PROVE  TreeOfDisk'
  <2>1. /\ UNCHANGED <<disk, selected, full>> /\ p \in DOMAIN loads
        /\ p \notin DOMAIN listed
        /\ loads' = [q \in DOMAIN loads \ {p} |-> loads[q]]
    BY <1>7, FoldersAreNotTheRoot
       DEF Tree!HearList, Tree!Asked, Tree!Without, TreeInv, TreeTyped, AskedOnce, ListedAsGot
  <2>2. /\ DOMAIN listed \subseteq DOMAIN listed'
        /\ \A q \in DOMAIN listed : listed'[q] = listed[q]
        /\ \A q \in DOMAIN listed' \ DOMAIN listed : listed'[q] = loads[p].list
    BY <1>7, <2>1 DEF Tree!HearList, Tree!UpdateTree, Tree!With
  <2>3. \A q : Tree!InTree(q) => Tree!InTree(q)'
    BY <2>2 DEF Tree!InTree
  <2> QED
    BY <2>1, <2>2, <2>3 DEF TreeOfDisk
<1>8. ASSUME NEW p \in Paths, Tree!Select(p)
      PROVE  TreeOfDisk'
  BY <1>8 DEF Tree!Select, TreeOfDisk, Tree!InTree
<1> QED
  BY <1>1, <1>2, <1>3, <1>4, <1>5, <1>6, <1>7, <1>8 DEF Tree!RtNext

LEMMA TreeOfDiskStep == TreeInv /\ TreeOfDisk /\ [WebNext]_webPagesVars => TreeOfDisk'
<1> SUFFICES ASSUME TreeInv, TreeOfDisk, [WebNext]_webPagesVars PROVE TreeOfDisk'
  OBVIOUS
<1>1. CASE TreeStep
  BY <1>1, TreeOfDiskNext DEF TreeStep
<1>2. CASE UNCHANGED treeVars
  BY <1>2 DEF treeVars, TreeOfDisk, Tree!InTree
<1>3. SessionStep \/ AccountsStep \/ BackupStep \/ DagStep \/ CatalogsStep \/ UNCHANGED webPagesVars
        => UNCHANGED treeVars
  BY DEF SessionStep, AccountsStep, BackupStep, DagStep, CatalogsStep, webPagesVars
<1> QED
  BY <1>1, <1>2, <1>3 DEF WebNext

LEMMA OutputsTyped == TreeInv /\ TreeOfDisk => Tree!RtTypeOK
BY DEF TreeInv, TreeTyped, ListedAsGot, TreeOfDisk, Tree!RtTypeOK

-----------------------------------------------------------------------------
(* The types of the picture *)

Phases == {"closed", "boot", "polling", "ready", "error"}
Component == [phase : Phases, tries : 0..MaxPolls, forced : BOOLEAN]
Asking == [at : {"preview", "post", "there", "queued", "wait", "svg", "svg once", "sweep"},
           live : BOOLEAN, forced : BOOLEAN]

OneLive(S) == \A a, b \in S : a.live /\ b.live => a = b

FilesTyped ==
  /\ svg \in {"none", "half", "whole"} /\ {image, err, busy, swept, lost} \subseteq BOOLEAN
  /\ job \in {"none", "queued", "cleared", "drawing", "written"}
  /\ card \in {"closed", "preview", "svg", "ready", "error"}

ViewsTyped ==
  /\ view \in [Viewers -> Component]
  /\ asks \in [Viewers -> SUBSET Asking]
  /\ \A v \in Viewers : OneLive(asks[v])

PictureTypes == FilesTyped /\ ViewsTyped

LEMMA DagConstants == MaxPolls \in Nat \ {0}
BY PagesAssumption DEF PagesAssumption, Dag!DagAssumption

LEMMA PictureTypesInit == WebInit => PictureTypes
<1> SUFFICES ASSUME Dag!DagInit PROVE PictureTypes
  BY DEF WebInit
<1>1. FilesTyped
  BY DEF Dag!DagInit, FilesTyped
<1>2. [phase |-> "closed", tries |-> 0, forced |-> FALSE] \in Component
  BY DagConstants DEF Component, Phases
<1>3. ViewsTyped
  BY <1>2 DEF Dag!DagInit, ViewsTyped, OneLive
<1> QED
  BY <1>1, <1>3 DEF PictureTypes

\* an effect of v, which is the one that lives, goes on as b, or is over
LEMMA AskGoesOn ==
  ASSUME ViewsTyped, NEW v \in Viewers, NEW a \in asks[v], NEW b \in Asking, b.live => a.live,
         NEW S, S \subseteq (asks[v] \ {a}) \cup {b}
  PROVE  S \in SUBSET Asking /\ OneLive(S)
BY DEF ViewsTyped, OneLive

LEMMA AskWith ==
  ASSUME NEW a \in Asking, NEW at \in {"preview", "post", "there", "queued", "wait", "svg", "svg once", "sweep"}
  PROVE  [a EXCEPT !.at = at] \in Asking /\ [a EXCEPT !.at = at].live = a.live
BY DEF Asking

LEMMA AskDies ==
  ASSUME NEW a \in Asking
  PROVE  [a EXCEPT !.live = FALSE] \in Asking /\ ~[a EXCEPT !.live = FALSE].live
BY DEF Asking

LEMMA EffectTyped ==
  ASSUME ViewsTyped, NEW v \in Viewers, NEW forced \in BOOLEAN, NEW old \in SUBSET asks[v],
         Dag!Effect(v, forced, old)
  PROVE  ViewsTyped'
<1> DEFINE Dead == {[a EXCEPT !.live = FALSE] : a \in {b \in old : b.at # "wait"}}
           new == [at |-> IF variant = "catalog" THEN "preview" ELSE "post", live |-> TRUE, forced |-> forced]
<1>1. /\ asks' = [asks EXCEPT ![v] = Dead \cup {new}]
      /\ view' = [view EXCEPT ![v] = [phase |-> "boot", tries |-> 0, forced |-> forced]]
  BY DEF Dag!Effect
<1>2. \A b \in Dead : b \in Asking /\ ~b.live
  <2>1. \A a \in old : a \in Asking
    BY DEF ViewsTyped
  <2> QED
    BY <2>1, AskDies
<1>3. new \in Asking
  BY DEF Asking
<1> HIDE DEF Dead, new
<1>4. OneLive(Dead \cup {new}) /\ Dead \cup {new} \in SUBSET Asking
  BY <1>2, <1>3 DEF OneLive
<1>5. [phase |-> "boot", tries |-> 0, forced |-> forced] \in Component
  BY DagConstants DEF Component, Phases
<1> QED
  BY <1>1, <1>4, <1>5 DEF ViewsTyped

LEMMA OverTyped ==
  ASSUME ViewsTyped, NEW v \in Viewers, NEW a \in asks[v], Dag!Over(v, a)
  PROVE  asks' \in [Viewers -> SUBSET Asking] /\ \A w \in Viewers : OneLive(asks'[w])
BY DEF ViewsTyped, Dag!Over, OneLive

LEMMA GoesOnTyped ==
  ASSUME ViewsTyped, NEW v \in Viewers, NEW a \in asks[v],
         NEW at \in {"preview", "post", "there", "queued", "wait", "svg", "svg once", "sweep"},
         Dag!GoesOn(v, a, at)
  PROVE  asks' \in [Viewers -> SUBSET Asking] /\ \A w \in Viewers : OneLive(asks'[w])
<1> DEFINE b == [a EXCEPT !.at = at]
           S == (asks[v] \ {a}) \cup (IF a.live THEN {b} ELSE {})
<1>1. b \in Asking /\ b.live = a.live
  BY AskWith DEF ViewsTyped
<1>2. asks' = [asks EXCEPT ![v] = S]
  BY DEF Dag!GoesOn, ViewsTyped
<1> HIDE DEF b
<1>3. S \in SUBSET Asking /\ OneLive(S)
  <2>1. S \subseteq (asks[v] \ {a}) \cup {b}
    OBVIOUS
  <2> HIDE DEF S
  <2> QED
    BY <1>1, <2>1, AskGoesOn
<1> HIDE DEF S
<1> QED
  BY <1>2, <1>3 DEF ViewsTyped

LEMMA PhaseTyped ==
  ASSUME ViewsTyped, NEW v \in Viewers, NEW phase \in Phases, Dag!Phase(v, phase) \/ UNCHANGED view
  PROVE  view' \in [Viewers -> Component]
BY DEF ViewsTyped, Dag!Phase, Component

LEMMA FailedTyped ==
  ASSUME ViewsTyped, NEW v \in Viewers, NEW a \in asks[v], Dag!Failed(v, a)
  PROVE  ViewsTyped'
<1>1. Dag!Over(v, a) /\ (Dag!Phase(v, "error") \/ UNCHANGED view) /\ "error" \in Phases
  BY DEF Dag!Failed, Phases
<1> QED
  BY <1>1, OverTyped, PhaseTyped DEF ViewsTyped

LEMMA ShownTyped ==
  ASSUME ViewsTyped, NEW v \in Viewers, NEW a \in asks[v], Dag!Shown(v, a)
  PROVE  ViewsTyped'
<1>1. CASE Dag!Effect(v, FALSE, asks[v] \ {a})
  BY <1>1, EffectTyped
<1>2. CASE Dag!Phase(v, "ready") /\ Dag!Over(v, a)
  BY <1>2, OverTyped, PhaseTyped DEF ViewsTyped, Phases
<1> QED
  BY <1>1, <1>2 DEF Dag!Shown

LEMMA PageTyped ==
  ASSUME ViewsTyped, NEW v \in Viewers,
         \/ Dag!OpenDag(v) \/ Dag!CloseDag(v) \/ Dag!Retry(v) \/ Dag!Regenerate(v) \/ Dag!Viewer(v)
         \/ \E a \in asks[v] : Dag!Fault(v, a)
  PROVE  ViewsTyped'
<1>1. CASE Dag!OpenDag(v) \/ Dag!Retry(v) \/ Dag!Regenerate(v)
  <2>1. view[v].forced \in BOOLEAN
    BY DEF ViewsTyped, Component
  <2> QED
    BY <1>1, <2>1, EffectTyped DEF Dag!OpenDag, Dag!Retry, Dag!Regenerate
<1>2. CASE Dag!CloseDag(v)
  <2> DEFINE Dead == {[a EXCEPT !.live = FALSE] : a \in {b \in asks[v] : b.at = "post"}}
  <2>1. /\ asks' = [asks EXCEPT ![v] = Dead]
        /\ view' = [view EXCEPT ![v] = [phase |-> "closed", tries |-> 0, forced |-> FALSE]]
    BY <1>2 DEF Dag!CloseDag, ViewsTyped
  <2>2. \A b \in Dead : b \in Asking /\ ~b.live
    <3>1. \A a \in asks[v] : a \in Asking
      BY DEF ViewsTyped
    <3> QED
      BY <3>1, AskDies
  <2> HIDE DEF Dead
  <2>3. OneLive(Dead) /\ Dead \in SUBSET Asking
    BY <2>2 DEF OneLive
  <2>4. [phase |-> "closed", tries |-> 0, forced |-> FALSE] \in Component
    BY DagConstants DEF Component, Phases
  <2> QED
    BY <2>1, <2>3, <2>4 DEF ViewsTyped
<1>3. ASSUME NEW a \in asks[v], Dag!Fault(v, a)
      PROVE  ViewsTyped'
  BY <1>3, FailedTyped DEF Dag!Fault
<1>4. ASSUME NEW a \in asks[v], Dag!Preview(v, a)
      PROVE  ViewsTyped'
  BY <1>4, ShownTyped, GoesOnTyped DEF Dag!Preview, ViewsTyped
<1>5. ASSUME NEW a \in asks[v], Dag!HearPost(v, a)
      PROVE  ViewsTyped'
  <2>1. /\ Dag!GoesOn(v, a, "svg once") \/ Dag!GoesOn(v, a, "wait")
        /\ Dag!Phase(v, "polling") \/ UNCHANGED view
    BY <1>5 DEF Dag!HearPost
  <2> QED
    BY <2>1, GoesOnTyped, PhaseTyped DEF ViewsTyped, Phases
<1>6. ASSUME NEW a \in asks[v], Dag!Poll(v, a)
      PROVE  ViewsTyped'
  <2>1. CASE view[v].tries = MaxPolls /\ Dag!Failed(v, a)
    BY <2>1, FailedTyped
  <2>2. CASE /\ view[v].tries # MaxPolls /\ Dag!GoesOn(v, a, "svg")
             /\ view' = [view EXCEPT ![v].tries = @ + 1]
    <3>1. view' \in [Viewers -> Component]
      BY <2>2, DagConstants DEF ViewsTyped, Component
    <3> QED
      BY <2>2, <3>1, GoesOnTyped DEF ViewsTyped
  <2> QED
    BY <1>6, <2>1, <2>2 DEF Dag!Poll
<1>7. ASSUME NEW a \in asks[v], Dag!LoadSvg(v, a)
      PROVE  ViewsTyped'
  <2>1. \/ Dag!Shown(v, a) \/ Dag!Failed(v, a)
        \/ Dag!Phase(v, "error") /\ Dag!Over(v, a)
        \/ Dag!GoesOn(v, a, "wait") /\ UNCHANGED view
    BY <1>7 DEF Dag!LoadSvg
  <2> QED
    BY <2>1, ShownTyped, FailedTyped, OverTyped, PhaseTyped, GoesOnTyped DEF ViewsTyped, Phases
<1> QED
  BY <1>1, <1>2, <1>3, <1>4, <1>5, <1>6, <1>7 DEF Dag!Viewer

LEMMA PostTyped ==
  ASSUME PictureTypes, NEW v \in Viewers, NEW a \in asks[v],
         Dag!PostLooks(v, a) \/ Dag!PostSweeps(v, a)
  PROVE  PictureTypes'
<1>1. FilesTyped'
  BY DEF PictureTypes, FilesTyped, Dag!PostLooks, Dag!PostSweeps, Dag!Sweep
<1>2. CASE Dag!PostLooks(v, a)
  <2> DEFINE at == IF svg # "none" /\ ~(a.forced /\ variant = "catalog") THEN "there" ELSE "sweep"
             b == [a EXCEPT !.at = at]
             S == (asks[v] \ {a}) \cup {b}
  <2>1. b \in Asking /\ b.live = a.live
    BY AskWith DEF PictureTypes, ViewsTyped
  <2>2. asks' = [asks EXCEPT ![v] = S] /\ UNCHANGED view
    BY <1>2 DEF Dag!PostLooks, PictureTypes, ViewsTyped
  <2> HIDE DEF b
  <2>3. S \in SUBSET Asking /\ OneLive(S)
    BY <2>1, AskGoesOn DEF PictureTypes
  <2> HIDE DEF S
  <2> QED
    BY <1>1, <2>2, <2>3 DEF PictureTypes, ViewsTyped
<1>3. CASE Dag!PostSweeps(v, a)
  <2>1. CASE Dag!Failed(v, a)
    BY <1>1, <2>1, FailedTyped DEF PictureTypes
  <2>2. CASE asks' = [asks EXCEPT ![v] = (@ \ {a}) \cup {[a EXCEPT !.at = "queued"]}] /\ UNCHANGED view
    <3> DEFINE b == [a EXCEPT !.at = "queued"]
               S == (asks[v] \ {a}) \cup {b}
    <3>1. b \in Asking /\ b.live = a.live
      BY AskWith DEF PictureTypes, ViewsTyped
    <3>2. asks' = [asks EXCEPT ![v] = S] /\ UNCHANGED view
      BY <2>2 DEF PictureTypes, ViewsTyped
    <3> HIDE DEF b
    <3>3. S \in SUBSET Asking /\ OneLive(S)
      BY <3>1, AskGoesOn DEF PictureTypes
    <3> HIDE DEF S
    <3> QED
      BY <1>1, <3>2, <3>3 DEF PictureTypes, ViewsTyped
  <2> QED
    BY <1>3, <2>1, <2>2 DEF Dag!PostSweeps
<1> QED
  BY <1>2, <1>3

LEMMA PictureTypesStep == PictureTypes /\ [WebNext]_webPagesVars => PictureTypes'
<1> SUFFICES ASSUME PictureTypes, [WebNext]_webPagesVars PROVE PictureTypes'
  OBVIOUS
<1>1. CASE DagStep
  <2>1. Dag!DagNext
    BY <1>1 DEF DagStep
  <2>2. ASSUME NEW v \in Viewers,
               \/ Dag!OpenDag(v) \/ Dag!CloseDag(v) \/ Dag!Retry(v) \/ Dag!Regenerate(v) \/ Dag!Viewer(v)
               \/ \E a \in asks[v] : Dag!Fault(v, a)
        PROVE  PictureTypes'
    <3>1. UNCHANGED <<svg, image, err, busy, job, card, swept, lost>>
      BY <2>2
         DEF Dag!OpenDag, Dag!CloseDag, Dag!Retry, Dag!Regenerate, Dag!Viewer, Dag!Fault,
             Dag!Preview, Dag!HearPost, Dag!Poll, Dag!LoadSvg, Dag!Same, Dag!dagFiles
    <3> QED
      BY <2>2, <3>1, PageTyped DEF PictureTypes, FilesTyped
  <2>3. CASE \/ Dag!ClickCard \/ Dag!CardLoads \/ Dag!Upload \/ Dag!JobClears \/ Dag!JobDraws
             \/ Dag!JobWrites \/ Dag!JobDies \/ Dag!JobEnds
    BY <2>3
       DEF PictureTypes, FilesTyped, ViewsTyped, Dag!ClickCard, Dag!CardLoads, Dag!Upload,
           Dag!JobClears, Dag!JobDraws, Dag!JobWrites, Dag!JobDies, Dag!JobEnds, Dag!Sweep,
           Dag!dagFiles
  <2>4. CASE Dag!RestartServer
    <3>1. FilesTyped'
      BY <2>4 DEF PictureTypes, FilesTyped, Dag!RestartServer, Dag!dagFiles
    <3>2. asks' \in [Viewers -> SUBSET Asking] /\ \A v \in Viewers : OneLive(asks'[v])
      BY <2>4 DEF PictureTypes, ViewsTyped, Dag!RestartServer, OneLive
    <3>3. view' \in [Viewers -> Component]
      <4>1. \A v \in Viewers : view[v] \in Component /\ [view[v] EXCEPT !.phase = "error"] \in Component
        BY DEF PictureTypes, ViewsTyped, Component, Phases
      <4> QED
        BY <2>4, <4>1 DEF Dag!RestartServer
    <3> QED
      BY <3>1, <3>2, <3>3 DEF PictureTypes, ViewsTyped
  <2> QED
    BY <2>1, <2>2, <2>3, <2>4, PostTyped DEF Dag!DagNext
<1>2. CASE UNCHANGED dagVars
  BY <1>2 DEF dagVars, PictureTypes, FilesTyped, ViewsTyped
<1>3. SessionStep \/ AccountsStep \/ BackupStep \/ TreeStep \/ CatalogsStep \/ UNCHANGED webPagesVars
        => UNCHANGED dagVars
  BY DEF SessionStep, AccountsStep, BackupStep, TreeStep, CatalogsStep, webPagesVars
<1> QED
  BY <1>1, <1>2, <1>3 DEF WebNext

LEMMA PicturesTyped == DagInv /\ PictureTypes => Dag!DagTypeOK
BY DEF DagInv, JobIsKnown, PictureTypes, FilesTyped, ViewsTyped, Component, Phases, OneLive, Dag!DagTypeOK

-----------------------------------------------------------------------------
(* The types of the accounts *)

ValuesTyped ==
  /\ members \in [People -> {"none", "user", "admin"}]
  /\ policy \in [public : BOOLEAN, smtp : Values] /\ git \in Values
  /\ tokens \subseteq 1..made /\ made \in 0..MaxTokens

\* the argument of a request becomes a secret only with the answer
ArgsTyped == \A m \in sent : m.stage = "sent" => m.arg \in Accounts!Args(m.do)

AccountsLimits == ValuesTyped /\ ArgsTyped

LEMMA AccountsConstants == Me \in People /\ Values # {} /\ MaxTokens \in Nat \ {0}
BY PagesAssumption DEF PagesAssumption, Accounts!AccountsAssumption

LEMMA AccountsLimitsInit == WebInit => AccountsLimits
<1> SUFFICES ASSUME Accounts!AccInit PROVE AccountsLimits
  BY DEF WebInit
<1>1. git \in Values /\ policy = [public |-> FALSE, smtp |-> git]
  BY AccountsConstants DEF Accounts!AccInit
<1> QED
  BY <1>1, AccountsConstants DEF Accounts!AccInit, AccountsLimits, ValuesTyped, ArgsTyped

LEMMA AccountsLimitsStay ==
  ASSUME AccountsLimits, UNCHANGED <<members, policy, git, tokens, made, sent>>
  PROVE  AccountsLimits'
BY DEF AccountsLimits, ValuesTyped, ArgsTyped

\* what a change does to the database
LEMMA ApplyTyped ==
  ASSUME ValuesTyped, NEW m, m.do \in Accounts!Mine \cup Accounts!Elsewhere,
         m.arg \in Accounts!Args(m.do), Accounts!Applies(m), Accounts!Apply(m)
  PROVE  ValuesTyped'
<1>1. members' \in [People -> {"none", "user", "admin"}]
  <2>1. CASE m.do = "set admin"
    <3>1. m.arg \in [user : People, to : BOOLEAN]
      BY <2>1 DEF Accounts!Args
    <3>2. m.arg.user \in People
      BY <3>1
    <3> QED
      BY <2>1, <3>2 DEF ValuesTyped, Accounts!Apply
  <2>2. CASE m.do = "delete user"
    BY <2>2 DEF ValuesTyped, Accounts!Apply, Accounts!Args
  <2>3. CASE m.do \notin {"set admin", "delete user"}
    BY <2>3 DEF ValuesTyped, Accounts!Apply
  <2> QED
    BY <2>1, <2>2, <2>3
<1>2. policy' \in [public : BOOLEAN, smtp : Values]
  BY DEF ValuesTyped, Accounts!Apply, Accounts!Args
<1>3. git' \in Values
  BY DEF ValuesTyped, Accounts!Apply, Accounts!Args
<1>4. tokens' \subseteq 1..made' /\ made' \in 0..MaxTokens
  <2>1. CASE m.do \in {"create token", "create token here"}
    <3>1. made < MaxTokens /\ made' = made + 1 /\ tokens' = tokens \cup {made'}
      BY <2>1 DEF Accounts!Applies, Accounts!Apply
    <3> QED
      BY <3>1, AccountsConstants DEF ValuesTyped
  <2>2. CASE m.do \notin {"create token", "create token here"}
    <3>1. made' = made /\ tokens' \subseteq tokens
      BY <2>2 DEF Accounts!Apply
    <3> QED
      BY <3>1 DEF ValuesTyped
  <2> QED
    BY <2>1, <2>2
<1> QED
  BY <1>1, <1>2, <1>3, <1>4 DEF ValuesTyped

LEMMA ServeKeepsLimits ==
  ASSUME SentTyped, AccountsLimits, NEW m, Accounts!Serve(m) \/ Accounts!Fail(m)
  PROVE  AccountsLimits'
<1>1. m \in sent /\ m.stage = "sent" /\ m \in Requests
  BY DEF Accounts!Serve, Accounts!Fail, SentTyped
<1>2. PICK n : sent' = (sent \ {m}) \cup {n} /\ n.stage # "sent"
  <2>1. ASSUME NEW x, NEW s \in {"done", "failed"}, NEW n, n = [m EXCEPT !.stage = s, !.arg = x]
        PROVE  n.stage # "sent"
    BY <1>1, <2>1 DEF Requests
  <2>2. ASSUME NEW n, n = [m EXCEPT !.stage = "failed"]
        PROVE  n.stage # "sent"
    BY <1>1, <2>2 DEF Requests
  <2> QED
    BY <2>1, <2>2 DEF Accounts!Serve, Accounts!Fail
<1>3. ArgsTyped'
  BY <1>2 DEF AccountsLimits, ArgsTyped
<1>4. CASE Accounts!Applies(m) /\ Accounts!Apply(m)
  <2>1. m.arg \in Accounts!Args(m.do) /\ m.do \in Accounts!Mine
    BY <1>1 DEF AccountsLimits, ArgsTyped, Requests
  <2> QED
    BY <1>3, <1>4, <2>1, ApplyTyped DEF AccountsLimits
<1>5. CASE UNCHANGED Accounts!dbVars
  BY <1>3, <1>5 DEF Accounts!dbVars, AccountsLimits, ValuesTyped
<1> QED
  BY <1>4, <1>5 DEF Accounts!Serve, Accounts!Fail

LEMMA AccountsLimitsStep ==
  ASSUME page = "accounts", InvitesInv, SecretsInv, AccountsLimits, [WebNext]_webPagesVars
  PROVE  AccountsLimits'
<1>0. SentTyped
  BY DEF SecretsInv
<1>1. CASE AccountsStep
  <2>1. Accounts!AccNext
    BY <1>1 DEF AccountsStep
  <2>2. ASSUME NEW a, NEW p, NEW c, Accounts!Register(a, p, c) \/ Accounts!Check(a)
        PROVE  AccountsLimits'
    BY <2>2, AccountsLimitsStay DEF Accounts!Register, Accounts!Check, Accounts!dbVars
  <2>3. ASSUME NEW a \in Attempts, Accounts!Join(a)
        PROVE  AccountsLimits'
    <3>1. attempts[a].email \in People
      BY DEF InvitesInv, RegistrationsTyped
    <3>2. \E role \in {"user", "admin"} :
            members' \in {members, [members EXCEPT ![attempts[a].email] = role]}
      BY <2>3 DEF Accounts!Join
    <3>3. members' \in [People -> {"none", "user", "admin"}]
      BY <3>1, <3>2 DEF AccountsLimits, ValuesTyped
    <3> QED
      BY <2>3, <3>3 DEF Accounts!Join, AccountsLimits, ValuesTyped, ArgsTyped
  <2>4. ASSUME NEW s, Accounts!PickSection(s)
        PROVE  AccountsLimits'
    <3>1. sent' = {[m EXCEPT !.here = FALSE] : m \in sent}
          /\ UNCHANGED <<members, policy, git, tokens, made>>
      BY <2>4 DEF Accounts!PickSection, Accounts!dbVars
    <3>2. ASSUME NEW m \in sent, NEW n, n = [m EXCEPT !.here = FALSE]
          PROVE  n.do = m.do /\ n.stage = m.stage /\ n.arg = m.arg
      BY <1>0, <3>2 DEF SentTyped, Requests
    <3> QED
      BY <3>1, <3>2 DEF AccountsLimits, ValuesTyped, ArgsTyped
  <2>5. ASSUME NEW do, NEW arg \in Accounts!Args(do), Accounts!Click(do, arg)
        PROVE  AccountsLimits'
    BY <2>5 DEF Accounts!Click, Accounts!dbVars, AccountsLimits, ValuesTyped, ArgsTyped
  <2>6. ASSUME NEW m, Accounts!Hear(m)
        PROVE  AccountsLimits'
    BY <2>6 DEF Accounts!Hear, Accounts!dbVars, AccountsLimits, ValuesTyped, ArgsTyped
  <2>7. ASSUME NEW p, NEW do \in Accounts!Elsewhere, NEW arg \in Accounts!Args(do),
               Accounts!Others(p, do, arg)
        PROVE  AccountsLimits'
    <3>1. PICK m : m = [do |-> do, by |-> p, arg |-> arg]
      OBVIOUS
    <3>2. Accounts!Applies(m) /\ Accounts!Apply(m) /\ UNCHANGED sent
      BY <2>7, <3>1 DEF Accounts!Others
    <3>3. m.do \in Accounts!Elsewhere /\ m.arg \in Accounts!Args(m.do)
      BY <3>1
    <3>4. ValuesTyped'
      BY <3>2, <3>3, ApplyTyped DEF AccountsLimits
    <3> QED
      BY <3>2, <3>4 DEF AccountsLimits, ArgsTyped
  <2>8. CASE Accounts!OpenDialog \/ Accounts!CloseDialog \/ Accounts!Background
    BY <2>8, AccountsLimitsStay
       DEF Accounts!OpenDialog, Accounts!CloseDialog, Accounts!Background, Accounts!dbVars
  <2> QED
    BY <1>0, <2>1, <2>2, <2>3, <2>4, <2>5, <2>6, <2>7, <2>8, ServeKeepsLimits DEF Accounts!AccNext
<1>2. CASE UNCHANGED <<accountsVars, sent>>
  BY <1>2, AccountsLimitsStay DEF accountsVars
<1>3. SessionStep \/ BackupStep \/ TreeStep \/ DagStep \/ UNCHANGED webPagesVars
        => UNCHANGED <<accountsVars, sent>>
  BY DEF SessionStep, BackupStep, TreeStep, DagStep, webPagesVars, sharedVars
<1>4. ~CatalogsStep
  BY DEF CatalogsStep
<1> QED
  BY <1>1, <1>2, <1>3, <1>4 DEF WebNext

LEMMA AccountsTyped ==
  InvitesInv /\ SecretsInv /\ SettingsInv /\ AccountsLimits => Accounts!AccTypeOK
<1> SUFFICES ASSUME InvitesInv, SecretsInv, SettingsInv, AccountsLimits PROVE Accounts!AccTypeOK
  OBVIOUS
<1>1. invites \in [Codes -> {"unborn", "open", "used", "revoked"}]
  BY DEF InvitesInv, InvitesTyped, States
<1>2. section \in Accounts!Sections /\ dialog \in [open : BOOLEAN, secret : 0..made]
  BY DEF SecretsInv, SecretsTyped, SettingsInv, SettingsTyped
<1>3. \A m \in sent : m.do \in Accounts!Mine /\ m.stage \in {"sent", "done", "failed"}
  BY DEF SecretsInv, SentTyped, Requests
<1>4. \A k \in DOMAIN cache : cache[k].stage # "idle" => k \in Accounts!InView
  BY DEF SettingsInv, SettingsTyped, CacheTyped, EntryTyped
<1> QED
  BY <1>1, <1>2, <1>3, <1>4 DEF AccountsLimits, ValuesTyped, Accounts!AccTypeOK

-----------------------------------------------------------------------------
(* The types of the catalogs *)

Numbered ==
  /\ ids \in 0..MaxIds
  /\ \A s \in Catalogs!Existing :
       db[s].id \in 1..ids /\ db[s].src \in Catalogs!Sources /\ db[s].files \in Catalogs!Sources
  /\ \A s, t \in Catalogs!Existing : db[s].id = db[t].id => s = t

UrlsTyped == form.url \in Urls \cup {NoUrl} /\ (Underway => importing.url \in Urls)

SourcesTyped == edit.src \in Catalogs!Sources /\ \A m \in sent : m.src \in Catalogs!Sources

\* what an answer for key k may be, or none
AnswerTyped(k, d) ==
  d = Missing \/ /\ k[1] = "list" => \A s \in DOMAIN d : d[s].src \in Catalogs!Sources
                 /\ k[1] \in {"slug", "id"} => d.src \in Catalogs!Sources

AnswersTyped ==
  \A k \in DOMAIN cache : AnswerTyped(k, cache[k].data) /\ AnswerTyped(k, cache[k].copy)

DialogsApart ==
  \/ edit = Catalogs!Closed /\ doomed = 0
  \/ edit = Catalogs!Closed /\ ~form.open
  \/ doomed = 0 /\ ~form.open

LooksAtOne ==
  /\ look.key[1] \in {"list", "slug", "id"}
  /\ look.on = {} \/ \E i : look.on = {i}
  /\ tab # Missing => Catalogs!Editing(look)

CatalogsLimits ==
  Numbered /\ UrlsTyped /\ SourcesTyped /\ AnswersTyped /\ DialogsApart /\ LooksAtOne

LEMMA SameSize == \A S : Catalogs!IsFiniteSet(S) = IsFiniteSet(S) /\ Catalogs!Cardinality(S) = Cardinality(S)
<1>1. ASSUME NEW S PROVE Catalogs!IsFiniteSet(S) = IsFiniteSet(S)
  BY DEF Catalogs!IsFiniteSet, IsFiniteSet
<1>2. ASSUME NEW S PROVE Catalogs!Cardinality(S) = Cardinality(S)
  BY DEF Catalogs!Cardinality, Cardinality
<1> QED
  BY <1>1, <1>2

LEMMA CatalogLimitsConstants ==
  /\ Urls # {} /\ Urls \subseteq Catalogs!Sources /\ NoUrl \in Catalogs!Sources /\ MaxIds \in Nat
  /\ IsFiniteSet(Slugs) /\ Cardinality(Slugs) \in Nat /\ Cardinality(Slugs) <= MaxIds
<1>1. /\ Urls # {} /\ Urls \subseteq Catalogs!Sources /\ NoUrl \in Catalogs!Sources /\ MaxIds \in Nat
      /\ Catalogs!IsFiniteSet(Slugs) /\ Catalogs!Cardinality(Slugs) <= MaxIds
  BY PagesAssumption DEF PagesAssumption, Catalogs!CatalogPagesAssumption, Catalogs!Sources
<1>2. IsFiniteSet(Slugs) /\ Cardinality(Slugs) <= MaxIds
  BY <1>1, SameSize
<1> QED
  BY <1>1, <1>2, FS_CardinalityType

\* the catalogs can be numbered at first
LEMMA Numbering ==
  \E n \in [Slugs -> 1..Cardinality(Slugs)] : \A s, t \in Slugs : n[s] = n[t] => s = t
<1> DEFINE c == Cardinality(Slugs)
<1>1. PICK f : f \in Bijection(1..c, Slugs)
  BY CatalogLimitsConstants, FS_CardinalityType DEF ExistsBijection
<1> DEFINE n == [s \in Slugs |-> CHOOSE i \in 1..c : f[i] = s]
<1>2. \A s \in Slugs : \E i \in 1..c : f[i] = s
  BY <1>1 DEF Bijection, Surjection
<1>3. \A s \in Slugs : n[s] \in 1..c /\ f[n[s]] = s
  BY <1>2
<1>4. n \in [Slugs -> 1..c]
  BY <1>3
<1> HIDE DEF n
<1> QED
  BY <1>3, <1>4

LEMMA CatalogsLimitsInit == WebInit => CatalogsLimits
<1> SUFFICES ASSUME Catalogs!CpInit PROVE CatalogsLimits
  BY DEF WebInit
<1>1. /\ edit = Catalogs!Closed /\ doomed = 0 /\ form = Catalogs!NoForm /\ importing = Catalogs!NoImport
      /\ sent = {} /\ DOMAIN cache = {} /\ tab = Missing
      /\ look \in [key : {<<"list", "all">>, <<"id", 0>>, <<"id", 1>>}, mode : {"readme"}, runs : {FALSE}, on : {{}}]
  BY DEF Catalogs!CpInit
<1>2. Numbered
  <2> DEFINE n == CHOOSE n \in [Slugs -> 1..Catalogs!Cardinality(Slugs)] : \A s, t \in Slugs : n[s] = n[t] => s = t
             u == CHOOSE u \in Urls : TRUE
  <2>1. db = [s \in Slugs |-> [id |-> n[s], src |-> u, files |-> u, runs |-> 0]]
        /\ ids = Cardinality(Slugs)
    BY SameSize DEF Catalogs!CpInit
  <2>2. n \in [Slugs -> 1..Cardinality(Slugs)] /\ \A s, t \in Slugs : n[s] = n[t] => s = t
    BY Numbering, SameSize
  <2>3. u \in Urls
    BY CatalogLimitsConstants
  <2> HIDE DEF n, u
  <2> QED
    BY <2>1, <2>2, <2>3, CatalogLimitsConstants DEF Numbered, Catalogs!Existing
<1>3. UrlsTyped /\ SourcesTyped /\ AnswersTyped /\ DialogsApart
  BY <1>1, CatalogLimitsConstants
     DEF UrlsTyped, SourcesTyped, AnswersTyped, DialogsApart, Underway, Catalogs!Closed, Catalogs!NoForm,
         Catalogs!NoImport
<1>4. LooksAtOne
  <2>1. look.key \in {<<"list", "all">>, <<"id", 0>>, <<"id", 1>>} /\ look.on = {}
    BY <1>1
  <2>2. look.key[1] \in {"list", "id"}
    BY <2>1
  <2> QED
    BY <1>1, <2>1, <2>2 DEF LooksAtOne
<1> QED
  BY <1>2, <1>3, <1>4 DEF CatalogsLimits

(* The answers that are kept: no step of the cache makes any up.           *)

Carries(g, e) == g.data \in {e.data, e.copy, Missing} /\ g.copy \in {e.copy, Missing}

Empty(e) == e.data = Missing /\ e.copy = Missing

LEMMA EntriesCarry ==
  ASSUME NEW e, e = Written(e)
  PROVE  /\ Carries(Page!Asked(e), e) /\ Carries(Page!Observed(e), e) /\ Carries(Page!Left(e), e)
         /\ Carries(Page!Answered(e), e) /\ Carries(Page!Expired(e), e)
         /\ \A shown \in BOOLEAN : Carries(Page!Invalidated(e, shown), e)
         /\ \A v : Page!ReadAs(e, v).data = e.data /\ Page!ReadAs(e, v).copy = v
<1>1. ASSUME NEW g, g = [e EXCEPT !.fresh = FALSE, !.stage = "sent", !.copy = Missing]
      PROVE  g.data = e.data /\ g.copy = Missing
  BY <1>1 DEF Written
<1>2. ASSUME NEW g, g = [e EXCEPT !.stage = "idle", !.copy = Missing]
      PROVE  g.data = e.data /\ g.copy = Missing
  BY <1>2 DEF Written
<1>3. ASSUME NEW g, g = [e EXCEPT !.fresh = FALSE]
      PROVE  g.data = e.data /\ g.copy = e.copy
  BY <1>3 DEF Written
<1>4. ASSUME NEW v, NEW g, g = [e EXCEPT !.stage = "read", !.copy = v]
      PROVE  g.data = e.data /\ g.copy = v
  BY <1>4 DEF Written
<1>5. /\ Carries(Page!Asked(e), e) /\ Carries(Page!Left(e), e) /\ Carries(Page!Expired(e), e)
      /\ Carries(Page!Answered(e), e) /\ Carries(e, e)
  <2>1. Page!Asked(e).data = e.data /\ Page!Asked(e).copy = Missing
    BY <1>1 DEF Page!Asked
  <2>2. Page!Left(e).data = e.data /\ Page!Left(e).copy = Missing
    BY <1>2 DEF Page!Left
  <2>3. Page!Expired(e).data = e.data /\ Page!Expired(e).copy = e.copy
    BY <1>3 DEF Page!Expired
  <2>4. Page!Answered(e).data = e.copy /\ Page!Answered(e).copy = Missing
    BY DEF Page!Answered
  <2> QED
    BY <2>1, <2>2, <2>3, <2>4 DEF Carries
<1>6. \A v : Page!ReadAs(e, v).data = e.data /\ Page!ReadAs(e, v).copy = v
  BY <1>4 DEF Page!ReadAs
<1>7. Page!Observed(e) \in {e, Page!Asked(e)}
  BY DEF Page!Observed
<1>8. \A shown \in BOOLEAN : Page!Invalidated(e, shown) \in {Page!Expired(e), e, Page!Asked(e)}
  BY DEF Page!Invalidated, Page!Expired
<1> QED
  BY <1>7, <1>8, <1>5, <1>6

LEMMA TurnCarries ==
  ASSUME NEW old, NEW new, CacheTyped(old), Page!Turn(old, new)
  PROVE  \A k \in DOMAIN cache' : Empty(cache'[k]) \/ (k \in DOMAIN cache /\ Carries(cache'[k], cache[k]))
<1>1. /\ DOMAIN cache' = DOMAIN cache \cup new
      /\ \A k \in new \ (old \cap DOMAIN cache) : cache'[k] = Page!Observed(Page!Entry(k))
      /\ \A k \in DOMAIN cache \ new : cache'[k] = IF k \in old THEN Page!Left(cache[k]) ELSE cache[k]
      /\ \A k \in new \cap old \cap DOMAIN cache : cache'[k] = cache[k]
  BY DEF Page!Turn
<1>2. ASSUME NEW k \in DOMAIN cache
      PROVE  Carries(cache'[k], cache[k])
  <2>1. cache[k] = Written(cache[k])
    BY DEF CacheTyped, EntryTyped
  <2>2. cache'[k] \in {Page!Observed(cache[k]), Page!Left(cache[k]), cache[k]}
    BY <1>1 DEF Page!Entry
  <2>3. Carries(cache[k], cache[k])
    BY DEF Carries
  <2> QED
    BY <2>1, <2>2, <2>3, EntriesCarry
<1>3. ASSUME NEW k \in new \ DOMAIN cache
      PROVE  Empty(cache'[k])
  <2>1. cache'[k] = Page!Observed(Page!NoEntry)
    BY <1>1 DEF Page!Entry
  <2>2. Page!NoEntry = Written(Page!NoEntry) /\ Empty(Page!NoEntry)
    BY DEF Page!NoEntry, Written, Empty
  <2> QED
    BY <2>1, <2>2, EntriesCarry DEF Carries, Empty
<1> QED
  BY <1>1, <1>2, <1>3

LEMMA InvalidateCarries ==
  ASSUME NEW looked, NEW tagged, CacheTyped(looked), Page!Invalidate(looked, tagged)
  PROVE  DOMAIN cache' = DOMAIN cache /\ \A k \in DOMAIN cache : Carries(cache'[k], cache[k])
<1>1. /\ DOMAIN cache' = DOMAIN cache
      /\ \A k \in DOMAIN cache :
           cache'[k] = IF k \in tagged THEN Page!Invalidated(cache[k], k \in looked) ELSE cache[k]
  BY DEF Page!Invalidate
<1>2. ASSUME NEW k \in DOMAIN cache
      PROVE  Carries(cache'[k], cache[k])
  <2>1. cache[k] = Written(cache[k]) /\ (k \in looked) \in BOOLEAN
    BY DEF CacheTyped, EntryTyped
  <2>2. Carries(cache[k], cache[k])
    BY DEF Carries
  <2> QED
    BY <1>1, <2>1, <2>2, EntriesCarry
<1> QED
  BY <1>1, <1>2

LEMMA ReadsCarry ==
  ASSUME NEW looked, CacheTyped(looked), NEW k \in DOMAIN cache, NEW v,
         Page!ServeRead(k, v) \/ Page!Answer(k) \/ Page!Expire(k, looked) \/ Page!FailRead(k)
  PROVE  /\ DOMAIN cache' = DOMAIN cache /\ \A j \in DOMAIN cache \ {k} : cache'[j] = cache[j]
         /\ \/ Carries(cache'[k], cache[k])
            \/ cache'[k].data = cache[k].data /\ cache'[k].copy = v
<1>1. cache[k] = Written(cache[k])
  BY DEF CacheTyped, EntryTyped
<1>2. /\ DOMAIN cache' = DOMAIN cache /\ \A j \in DOMAIN cache \ {k} : cache'[j] = cache[j]
      /\ cache'[k] \in {Page!ReadAs(cache[k], v), Page!Answered(cache[k]), Page!Expired(cache[k]),
                         Page!Left(cache[k])}
  BY DEF Page!ServeRead, Page!Answer, Page!Expire, Page!FailRead
<1> QED
  BY <1>1, <1>2, EntriesCarry

\* what the server answers
LEMMA ReadTyped ==
  ASSUME ImportInv, Numbered, NEW k, Proper(k)
  PROVE  AnswerTyped(k, Catalogs!Read(k))
<1>1. CASE k[1] = "list"
  <2>1. Catalogs!Read(k) = [s \in {t \in Catalogs!Existing : k[2] \in {t, "all"}} |-> db[s]]
    BY <1>1 DEF Catalogs!Read
  <2> QED
    BY <1>1, <2>1 DEF AnswerTyped, Numbered
<1>2. CASE k[1] = "slug"
  <2>1. Catalogs!Read(k) = db[k[2]] /\ k[2] \in Slugs
    BY <1>2 DEF Catalogs!Read, Proper
  <2> QED
    BY <1>2, <2>1 DEF AnswerTyped, Numbered, Catalogs!Existing
<1>3. CASE k[1] = "id"
  <2> DEFINE S == Catalogs!SlugOf(k[2])
             first == CHOOSE s \in S : TRUE
  <2>1. \/ Catalogs!Read(k) = Catalogs!AsCatalog(template)
        \/ Catalogs!Read(k) = Missing
        \/ S # {} /\ Catalogs!Read(k) = db[first]
    BY <1>3 DEF Catalogs!Read
  <2>2. S # {} => first \in S
    OBVIOUS
  <2>3. S # {} => first \in Catalogs!Existing
    BY <2>2 DEF Catalogs!SlugOf
  <2>4. Catalogs!AsCatalog(template).src = NoUrl
    BY DEF Catalogs!AsCatalog
  <2> HIDE DEF first, S
  <2> QED
    BY <1>3, <2>1, <2>3, <2>4, CatalogLimitsConstants DEF AnswerTyped, Numbered
<1>4. CASE k[1] \in {"file", "runs"}
  BY <1>4 DEF AnswerTyped
<1> QED
  BY <1>1, <1>2, <1>3, <1>4 DEF Proper

\* what is carried over stays what it was
LEMMA CarriedTyped ==
  ASSUME AnswersTyped, NEW k \in DOMAIN cache, NEW g, Carries(g, cache[k])
  PROVE  AnswerTyped(k, g.data) /\ AnswerTyped(k, g.copy)
BY DEF AnswersTyped, AnswerTyped, Carries

LEMMA TurnKeepsAnswers ==
  ASSUME CatalogsInv, AnswersTyped, NEW new, Catalogs!Turn(Catalogs!InView, new)
  PROVE  AnswersTyped'
<1>1. Page!Turn(Catalogs!InView, new) /\ CacheTyped(Catalogs!InView)
  BY DEF Catalogs!Turn, Catalogs!Observed, Catalogs!Left, Catalogs!Asked, Catalogs!Entry,
         Catalogs!NoEntry, Page!Turn, Page!Observed, Page!Left, Page!Asked, Page!Entry, Page!NoEntry,
         CatalogsInv, CatalogsTyped
<1>2. \A k \in DOMAIN cache' : Empty(cache'[k]) \/ (k \in DOMAIN cache /\ Carries(cache'[k], cache[k]))
  BY <1>1, TurnCarries
<1>3. \A k \in DOMAIN cache' : AnswerTyped(k, cache'[k].data) /\ AnswerTyped(k, cache'[k].copy)
  BY <1>2, CarriedTyped DEF Empty, AnswerTyped
<1> QED
  BY <1>3 DEF AnswersTyped, AnswerTyped

LEMMA InvalidateKeepsAnswers ==
  ASSUME CatalogsInv, AnswersTyped, NEW tagged, Catalogs!Invalidate(Catalogs!InView, tagged)
  PROVE  AnswersTyped'
<1>1. Page!Invalidate(Catalogs!InView, tagged) /\ CacheTyped(Catalogs!InView)
  BY DEF Catalogs!Invalidate, Catalogs!Invalidated, Catalogs!Overtaken, Catalogs!Asked,
         Page!Invalidate, Page!Invalidated, Page!Overtaken, Page!Asked, CatalogsInv, CatalogsTyped
<1>2. DOMAIN cache' = DOMAIN cache /\ \A k \in DOMAIN cache : Carries(cache'[k], cache[k])
  BY <1>1, InvalidateCarries
<1>3. \A k \in DOMAIN cache' : AnswerTyped(k, cache'[k].data) /\ AnswerTyped(k, cache'[k].copy)
  BY <1>2, CarriedTyped
<1> QED
  BY <1>3 DEF AnswersTyped, AnswerTyped

LEMMA ReadsKeepAnswers ==
  ASSUME ImportInv, CatalogsInv, Numbered, AnswersTyped, Catalogs!Background
  PROVE  AnswersTyped'
<1>1. PICK k \in DOMAIN cache :
        \/ Page!ServeRead(k, Catalogs!Read(k)) \/ Page!Answer(k) \/ Page!Expire(k, Catalogs!InView)
        \/ Page!FailRead(k)
        \/ cache' = [cache EXCEPT ![k] = Page!NoEntry]
  BY DEF Catalogs!Background, Catalogs!Lose, Catalogs!ServeRead, Catalogs!Answer, Catalogs!Expire,
         Catalogs!ReadAs, Catalogs!Answered, Catalogs!Expired, Catalogs!FailRead, Catalogs!Left,
         Catalogs!NoEntry, Page!ServeRead, Page!Answer, Page!Expire, Page!ReadAs, Page!Answered,
         Page!Expired, Page!FailRead, Page!Left, Page!NoEntry
<1>2. PICK v : v = Catalogs!Read(k)
  OBVIOUS
<1>3. AnswerTyped(k, v) /\ CacheTyped(Catalogs!InView)
  BY <1>2, ReadTyped DEF CatalogsInv, CatalogsTyped
<1>4. /\ DOMAIN cache' = DOMAIN cache /\ \A j \in DOMAIN cache \ {k} : cache'[j] = cache[j]
      /\ \/ Carries(cache'[k], cache[k])
         \/ cache'[k].data = cache[k].data /\ cache'[k].copy = v
  <2>1. CASE cache' = [cache EXCEPT ![k] = Page!NoEntry]
    <3>1. Page!NoEntry.data = Missing /\ Page!NoEntry.copy = Missing
      BY DEF Page!NoEntry
    <3> QED
      BY <2>1, <3>1 DEF Carries
  <2> QED
    BY <1>1, <1>2, <1>3, <2>1, ReadsCarry
<1>5. \A j \in DOMAIN cache' : AnswerTyped(j, cache'[j].data) /\ AnswerTyped(j, cache'[j].copy)
  BY <1>3, <1>4, CarriedTyped DEF AnswersTyped
<1> QED
  BY <1>5 DEF AnswersTyped, AnswerTyped

\* a catalog that is changed keeps its number; a new one gets the next
LEMMA ChangedNumbered ==
  ASSUME Numbered, DOMAIN db = Slugs, DOMAIN db' = Slugs, NEW s \in Slugs,
         \A t \in Slugs \ {s} : db'[t] = db[t],
         db'[s] # Missing => db'[s].src \in Catalogs!Sources /\ db'[s].files \in Catalogs!Sources,
         \/ UNCHANGED ids /\ (db'[s] # Missing => db[s] # Missing /\ db'[s].id = db[s].id)
         \/ ids < MaxIds /\ ids' = ids + 1 /\ db'[s].id = ids'
  PROVE  Numbered'
<1>1. /\ \A t \in Catalogs!Existing :
           /\ t \in Slugs /\ db[t].id \in 1..ids
           /\ db[t].src \in Catalogs!Sources /\ db[t].files \in Catalogs!Sources
      /\ \A t, u \in Catalogs!Existing : db[t].id = db[u].id => t = u
      /\ ids \in 0..MaxIds /\ MaxIds \in Nat
  BY CatalogLimitsConstants DEF Numbered, Catalogs!Existing
<1>2. \A t \in Catalogs!Existing' \ {s} : t \in Catalogs!Existing /\ db'[t] = db[t]
  BY DEF Catalogs!Existing
<1>3. CASE UNCHANGED ids /\ (db'[s] # Missing => db[s] # Missing /\ db'[s].id = db[s].id)
  <2>1. s \in Catalogs!Existing' => s \in Catalogs!Existing /\ db'[s].id = db[s].id
    BY <1>3 DEF Catalogs!Existing
  <2>2. \A t \in Catalogs!Existing' : t \in Catalogs!Existing /\ db'[t].id = db[t].id
    BY <1>2, <2>1
  <2>3. \A t \in Catalogs!Existing' : db'[t].src \in Catalogs!Sources /\ db'[t].files \in Catalogs!Sources
    BY <1>1, <1>2 DEF Catalogs!Existing
  <2> QED
    BY <1>1, <1>3, <2>2, <2>3 DEF Numbered
<1>4. CASE ids < MaxIds /\ ids' = ids + 1 /\ db'[s].id = ids'
  <2>1. \A t \in Catalogs!Existing' \ {s} : db'[t].id \in 1..ids
    BY <1>1, <1>2
  <2>2. \A t \in Catalogs!Existing' : db'[t].src \in Catalogs!Sources /\ db'[t].files \in Catalogs!Sources
    BY <1>1, <1>2 DEF Catalogs!Existing
  <2>3. \A t \in Catalogs!Existing' : db'[t].id \in 1..ids'
    BY <1>1, <1>4, <2>1
  <2>4. ASSUME NEW t \in Catalogs!Existing', NEW u \in Catalogs!Existing', db'[t].id = db'[u].id
        PROVE  t = u
    <3>1. CASE t # s /\ u # s
      BY <1>1, <1>2, <2>4, <3>1
    <3>2. CASE t = s \/ u = s
      BY <1>1, <1>4, <2>1, <2>4, <3>2
    <3> QED
      BY <3>1, <3>2
  <2> QED
    BY <1>1, <1>4, <2>2, <2>3, <2>4 DEF Numbered
<1> QED
  BY <1>3, <1>4

LEMMA SourcedNumbered ==
  ASSUME ImportInv, Numbered, NEW s \in Slugs, NEW u \in Urls, Catalogs!Sourced(s, u)
  PROVE  Numbered'
<1>1. /\ RecordsTyped /\ RecordsTyped' /\ \A t \in Slugs \ {s} : db'[t] = db[t]
      /\ db'[s].id = (IF db[s] = Missing THEN ids' ELSE db[s].id)
      /\ db'[s].src = u
      /\ db'[s].files = (IF db[s] = Missing THEN NoUrl ELSE db[s].files)
  BY SourcedRecords DEF ImportInv, ImportTyped
<1>2. IF db[s] # Missing THEN UNCHANGED ids ELSE ids < MaxIds /\ ids' = ids + 1
  BY DEF Catalogs!Sourced
<1>3. db[s] # Missing => db[s].files \in Catalogs!Sources
  BY DEF Numbered, Catalogs!Existing
<1> QED
  BY <1>1, <1>2, <1>3, CatalogLimitsConstants, ChangedNumbered DEF RecordsTyped

LEMMA FilesNumbered ==
  ASSUME ImportInv, Numbered, NEW s \in Slugs, db[s] # Missing, NEW u \in Urls,
         db' = [db EXCEPT ![s].files = u], UNCHANGED ids
  PROVE  Numbered'
<1>1. /\ RecordsTyped /\ RecordsTyped' /\ \A t \in Slugs \ {s} : db'[t] = db[t]
      /\ db'[s].id = db[s].id /\ db'[s].src = db[s].src /\ db'[s].files = u
  BY FilesRecords DEF ImportInv, ImportTyped
<1>2. db[s].src \in Catalogs!Sources
  BY DEF Numbered, Catalogs!Existing
<1> QED
  BY <1>1, <1>2, CatalogLimitsConstants, ChangedNumbered DEF RecordsTyped

\* some catalogs are deleted, or given another source
LEMMA AppliedNumbered ==
  ASSUME ImportInv, Numbered, NEW m, m.src \in Catalogs!Sources, Catalogs!Apply(m), UNCHANGED ids
  PROVE  Numbered'
<1>1. \A s \in Slugs : db'[s] # Missing =>
        /\ db[s] # Missing /\ db'[s].id = db[s].id /\ db'[s].files = db[s].files
        /\ db'[s].src \in {db[s].src, m.src}
  BY Applied DEF ImportInv, ImportTyped
<1>2. \A s \in Catalogs!Existing' :
        /\ s \in Catalogs!Existing /\ db'[s].id = db[s].id /\ db'[s].files = db[s].files
        /\ db'[s].src \in {db[s].src, m.src}
  BY <1>1 DEF Catalogs!Existing
<1> QED
  BY <1>2 DEF Numbered

LEMMA ServeNumbered ==
  ASSUME ImportInv, Numbered, NEW m, m.src \in Catalogs!Sources, Catalogs!Serve(m) \/ Catalogs!Fail(m)
  PROVE  Numbered'
<1>1. UNCHANGED ids
  BY DEF Catalogs!Serve, Catalogs!Fail, Catalogs!AnsweredAs
<1>2. CASE UNCHANGED db
  BY <1>1, <1>2 DEF Numbered, Catalogs!Existing
<1>3. CASE Catalogs!Apply(m)
  BY <1>1, <1>3, AppliedNumbered
<1> QED
  BY <1>2, <1>3 DEF Catalogs!Serve, Catalogs!Fail

LEMMA OthersNumbered ==
  ASSUME ImportInv, Numbered, NEW s \in Slugs, Catalogs!Others(s)
  PROVE  Numbered'
<1>1. CASE \E u \in Urls : Catalogs!Sourced(s, u)
  BY <1>1, SourcedNumbered
<1>2. CASE db[s] # Missing /\ UNCHANGED ids
  <2>1. /\ RecordsTyped /\ RecordsTyped' /\ \A t \in Slugs \ {s} : db'[t] = db[t]
        /\ db'[s] # Missing =>
             /\ db'[s].id = db[s].id
             /\ db'[s].src \in Catalogs!Sources \/ db'[s].src = db[s].src
             /\ db'[s].files \in Catalogs!Sources \/ db'[s].files = db[s].files
    BY <1>2, OthersRecords DEF ImportInv, ImportTyped
  <2>2. db[s].src \in Catalogs!Sources /\ db[s].files \in Catalogs!Sources
    BY <1>2 DEF Numbered, Catalogs!Existing
  <2> QED
    BY <1>2, <2>1, <2>2, ChangedNumbered DEF RecordsTyped
<1> QED
  BY <1>1, <1>2 DEF Catalogs!Others

LEMMA NumberedStep ==
  ASSUME ImportInv, CatalogsLimits, Catalogs!CpNext
  PROVE  Numbered'
<1>0. Numbered /\ UrlsTyped /\ SourcesTyped
  BY DEF CatalogsLimits
<1>1. CASE UNCHANGED <<db, ids>>
  BY <1>0, <1>1 DEF Numbered, Catalogs!Existing
<1>2. CASE Catalogs!WriteImport
  <2>1. importing.slug \in Slugs /\ importing.url \in Urls
    BY <1>0, <1>2 DEF UrlsTyped, Underway, Catalogs!WriteImport, ImportInv, ImportTyped
  <2> QED
    BY <1>0, <1>2, <2>1, SourcedNumbered DEF Catalogs!WriteImport
<1>9. CASE Catalogs!WriteFiles \/ Catalogs!FailImport
  <2>1. importing.slug \in Slugs /\ importing.url \in Urls
    BY <1>0, <1>9
       DEF UrlsTyped, Underway, Catalogs!WriteFiles, Catalogs!FailImport, ImportInv, ImportTyped
  <2>2. /\ UNCHANGED ids
        /\ \/ Catalogs!Present /\ db' = [db EXCEPT ![importing.slug].files = importing.url]
           \/ UNCHANGED db
    BY <1>9 DEF Catalogs!WriteFiles, Catalogs!FailImport, Catalogs!FilesWritten
  <2>3. Catalogs!Present => db[importing.slug] # Missing
    BY DEF Catalogs!Present, Catalogs!SlugOf, Catalogs!Existing
  <2> QED
    BY <1>0, <1>1, <2>1, <2>2, <2>3, FilesNumbered
<1>3. ASSUME NEW m \in sent, Catalogs!Serve(m) \/ Catalogs!Fail(m)
      PROVE  Numbered'
  BY <1>0, <1>3, ServeNumbered DEF SourcesTyped
<1>4. ASSUME NEW s \in Slugs, Catalogs!Others(s)
      PROVE  Numbered'
  BY <1>0, <1>4, OthersNumbered
<1>5. ASSUME \/ \E k \in Catalogs!Pages : Catalogs!Open(k)
             \/ \E q \in Catalogs!Searches : Catalogs!Search(q)
             \/ Catalogs!ShowReadme \/ Catalogs!ShowDag \/ Catalogs!ShowRuns
             \/ Catalogs!OpenFile \/ Catalogs!CloseFiles \/ Catalogs!Rendered
      PROVE  UNCHANGED <<db, ids>>
  BY <1>5 DEF Catalogs!Open, Catalogs!Search, Catalogs!ShowReadme, Catalogs!ShowDag, Catalogs!ShowRuns,
              Catalogs!OpenFile, Catalogs!CloseFiles, Catalogs!Rendered, Catalogs!PickMode,
              Catalogs!Turned, Catalogs!Still, Catalogs!dbVars
<1>6. ASSUME \/ Catalogs!Save \/ Catalogs!Delete \/ Catalogs!Pull \/ Catalogs!Cancel
             \/ \E i \in Catalogs!Ids : Catalogs!OpenEdit(i) \/ Catalogs!OpenDelete(i)
             \/ \E u \in Urls : Catalogs!Type(u)
             \/ \E m \in sent : Catalogs!Hear(m)
      PROVE  UNCHANGED <<db, ids>>
  BY <1>6 DEF Catalogs!Save, Catalogs!Delete, Catalogs!Pull, Catalogs!Send, Catalogs!Cancel,
              Catalogs!OpenEdit, Catalogs!OpenDelete, Catalogs!Type, Catalogs!Hear, Catalogs!dbVars
<1>7. ASSUME \/ Catalogs!OpenImport \/ Catalogs!CancelImport \/ Catalogs!HearImport \/ Catalogs!Background
             \/ Catalogs!CheckImport /\ UNCHANGED Catalogs!dbVars
             \/ \E u \in Urls : Catalogs!TypeUrl(u)
             \/ \E s \in Slugs : Catalogs!Import(s, FALSE) \/ Catalogs!Import(s, TRUE)
      PROVE  UNCHANGED <<db, ids>>
  BY <1>7 DEF Catalogs!OpenImport, Catalogs!CancelImport, Catalogs!HearImport, Catalogs!Background,
              Catalogs!TypeUrl, Catalogs!Import, Catalogs!dbVars
<1>8. CASE Catalogs!ImportStep
  BY <1>1, <1>2, <1>7, <1>8, <1>9 DEF Catalogs!ImportStep
<1> QED
  BY <1>1, <1>3, <1>4, <1>5, <1>6, <1>7, <1>8 DEF Catalogs!CpNext

LEMMA UrlsStep ==
  ASSUME ImportInv, CatalogsLimits, Catalogs!CpNext
  PROVE  UrlsTyped'
<1> DEFINE r == [stage |-> importing.stage, url |-> importing.url, slug |-> importing.slug,
                 force |-> importing.force, old |-> importing.old, here |-> importing.here,
                 id |-> importing.id]
           f == [open |-> form.open, url |-> form.url]
<1>0. UrlsTyped /\ importing = r /\ form = f
  BY DEF CatalogsLimits, ImportInv, ImportTyped, ImportRecord
<1>1. CASE UNCHANGED <<form, importing>>
  BY <1>0, <1>1 DEF UrlsTyped, Underway
<1>2. ASSUME NEW k, Catalogs!Open(k)
      PROVE  UrlsTyped'
  <2>1. form' = Catalogs!NoForm /\ importing' = [r EXCEPT !.here = FALSE]
    BY <1>0, <1>2 DEF Catalogs!Open
  <2>2. form'.url = NoUrl /\ importing'.url = importing.url /\ importing'.stage = importing.stage
    BY <2>1 DEF Catalogs!NoForm
  <2> QED
    BY <1>0, <2>2 DEF UrlsTyped, Underway
<1>3. CASE Catalogs!OpenImport \/ Catalogs!CancelImport \/ \E u \in Urls : Catalogs!TypeUrl(u)
  <2>1. UNCHANGED importing
    BY <1>3 DEF Catalogs!OpenImport, Catalogs!CancelImport, Catalogs!TypeUrl
  <2>2. \/ form' = [f EXCEPT !.open = TRUE] \/ form' \in {form, Catalogs!NoForm}
        \/ \E u \in Urls : form' = [f EXCEPT !.url = u]
    BY <1>0, <1>3 DEF Catalogs!OpenImport, Catalogs!CancelImport, Catalogs!TypeUrl
  <2>3. form'.url \in Urls \cup {NoUrl}
    BY <1>0, <2>2 DEF UrlsTyped, Catalogs!NoForm
  <2> QED
    BY <1>0, <2>1, <2>3 DEF UrlsTyped, Underway
<1>4. ASSUME NEW s, NEW force, Catalogs!Import(s, force)
      PROVE  UrlsTyped'
  BY <1>0, <1>4 DEF Catalogs!Import, UrlsTyped
<1>5. CASE Catalogs!ImportStep
  <2>1. UNCHANGED form /\ importing.stage # "idle"
    BY <1>5 DEF Catalogs!ImportStep, Catalogs!CheckImport, Catalogs!WriteImport, Catalogs!WriteFiles,
                Catalogs!FailImport, Catalogs!ImportOnly
  <2>2. importing'.url = importing.url
    <3>1. CASE Catalogs!CheckImport
      <4>1. \/ importing' = [r EXCEPT !.stage = "conflict", !.old = db[importing.slug].src]
            \/ importing' = [r EXCEPT !.stage = "checked"]
        BY <1>0, <3>1 DEF Catalogs!CheckImport, Catalogs!At
      <4> QED
        BY <4>1
    <3>2. CASE Catalogs!WriteImport
      <4>1. importing' = [r EXCEPT !.stage = "committed", !.id = db'[importing.slug].id]
        BY <1>0, <3>2 DEF Catalogs!WriteImport
      <4> QED
        BY <4>1
    <3>3. CASE Catalogs!WriteFiles \/ Catalogs!FailImport
      <4>1. importing' = [r EXCEPT !.stage = "done"] \/ importing' = [r EXCEPT !.stage = "failed"]
        BY <1>0, <3>3 DEF Catalogs!WriteFiles, Catalogs!FailImport, Catalogs!At
      <4> QED
        BY <4>1
    <3> QED
      BY <1>5, <3>1, <3>2, <3>3 DEF Catalogs!ImportStep
  <2> QED
    BY <1>0, <2>1, <2>2 DEF UrlsTyped, Underway
<1>6. CASE Catalogs!HearImport
  <2>1. importing' = Catalogs!NoImport /\ form' \in {form, Catalogs!NoForm}
    BY <1>6 DEF Catalogs!HearImport
  <2> QED
    BY <1>0, <2>1 DEF UrlsTyped, Underway, Catalogs!NoImport, Catalogs!NoForm
<1>7. ASSUME \/ \E q \in Catalogs!Searches : Catalogs!Search(q)
             \/ Catalogs!ShowReadme \/ Catalogs!ShowDag \/ Catalogs!ShowRuns
             \/ Catalogs!OpenFile \/ Catalogs!CloseFiles \/ Catalogs!Rendered
      PROVE  UNCHANGED <<form, importing>>
  BY <1>7 DEF Catalogs!Search, Catalogs!ShowReadme, Catalogs!ShowDag, Catalogs!ShowRuns,
              Catalogs!OpenFile, Catalogs!CloseFiles, Catalogs!Rendered, Catalogs!PickMode,
              Catalogs!Turned, Catalogs!Still, Catalogs!importVars
<1>8. ASSUME \/ Catalogs!Save \/ Catalogs!Delete \/ Catalogs!Pull \/ Catalogs!Cancel \/ Catalogs!Background
             \/ \E i \in Catalogs!Ids : Catalogs!OpenEdit(i) \/ Catalogs!OpenDelete(i)
             \/ \E u \in Urls : Catalogs!Type(u)
             \/ \E m \in sent : Catalogs!Serve(m) \/ Catalogs!Fail(m) \/ Catalogs!Hear(m)
             \/ \E s \in Slugs : Catalogs!Others(s)
      PROVE  UNCHANGED <<form, importing>>
  BY <1>8 DEF Catalogs!Save, Catalogs!Delete, Catalogs!Pull, Catalogs!Send, Catalogs!Cancel,
              Catalogs!Background, Catalogs!OpenEdit, Catalogs!OpenDelete, Catalogs!Type,
              Catalogs!Serve, Catalogs!Fail, Catalogs!AnsweredAs, Catalogs!Hear, Catalogs!Others,
              Catalogs!importVars
<1> QED
  BY <1>1, <1>2, <1>3, <1>4, <1>5, <1>6, <1>7, <1>8 DEF Catalogs!CpNext

LEMMA AnswersStep ==
  ASSUME ImportInv, CatalogsInv, CatalogsLimits, Catalogs!CpNext
  PROVE  AnswersTyped'
<1>0. Numbered /\ AnswersTyped
  BY DEF CatalogsLimits
<1>1. CASE UNCHANGED cache
  BY <1>0, <1>1 DEF AnswersTyped, AnswerTyped
<1>2. ASSUME NEW l, Catalogs!Goto(l)
      PROVE  AnswersTyped'
  BY <1>0, <1>2, TurnKeepsAnswers DEF Catalogs!Goto
<1>3. CASE Catalogs!Background
  BY <1>0, <1>3, ReadsKeepAnswers
<1>4. ASSUME NEW m, Catalogs!Hear(m)
      PROVE  AnswersTyped'
  BY <1>0, <1>1, <1>4, InvalidateKeepsAnswers DEF Catalogs!Hear, Catalogs!cacheVars
<1>5. CASE Catalogs!HearImport
  BY <1>0, <1>1, <1>5, InvalidateKeepsAnswers DEF Catalogs!HearImport, Catalogs!cacheVars
<1>6. ASSUME \/ \E k \in Catalogs!Pages : Catalogs!Open(k)
             \/ \E q \in Catalogs!Searches : Catalogs!Search(q)
             \/ Catalogs!ShowReadme \/ Catalogs!ShowDag \/ Catalogs!ShowRuns
             \/ Catalogs!OpenFile \/ Catalogs!CloseFiles \/ Catalogs!Rendered
      PROVE  \E l : Catalogs!Goto(l)
  BY <1>6 DEF Catalogs!Open, Catalogs!Search, Catalogs!ShowReadme, Catalogs!ShowDag, Catalogs!ShowRuns,
              Catalogs!OpenFile, Catalogs!CloseFiles, Catalogs!Rendered, Catalogs!PickMode, Catalogs!Turned
<1>7. ASSUME \/ Catalogs!Save \/ Catalogs!Delete \/ Catalogs!Pull \/ Catalogs!Cancel
             \/ \E i \in Catalogs!Ids : Catalogs!OpenEdit(i) \/ Catalogs!OpenDelete(i)
             \/ \E u \in Urls : Catalogs!Type(u)
             \/ \E m \in sent : Catalogs!Serve(m) \/ Catalogs!Fail(m)
             \/ \E s \in Slugs : Catalogs!Others(s)
      PROVE  UNCHANGED cache
  BY <1>7 DEF Catalogs!Save, Catalogs!Delete, Catalogs!Pull, Catalogs!Send, Catalogs!Cancel,
              Catalogs!OpenEdit, Catalogs!OpenDelete, Catalogs!Type, Catalogs!Serve, Catalogs!Fail,
              Catalogs!AnsweredAs, Catalogs!Others, Catalogs!cacheVars
<1>8. ASSUME \/ Catalogs!OpenImport \/ Catalogs!CancelImport \/ Catalogs!ImportStep
             \/ \E u \in Urls : Catalogs!TypeUrl(u)
             \/ \E s \in Slugs : Catalogs!Import(s, FALSE) \/ Catalogs!Import(s, TRUE)
      PROVE  UNCHANGED cache
  BY <1>8 DEF Catalogs!OpenImport, Catalogs!CancelImport, Catalogs!ImportStep, Catalogs!CheckImport,
              Catalogs!WriteImport, Catalogs!WriteFiles, Catalogs!FailImport, Catalogs!ImportOnly,
              Catalogs!TypeUrl, Catalogs!Import, Catalogs!cacheVars
<1> QED
  BY <1>1, <1>2, <1>3, <1>4, <1>5, <1>6, <1>7, <1>8 DEF Catalogs!CpNext

\* what the pages show has a source
LEMMA OfferedTyped ==
  ASSUME AnswersTyped, NEW c \in Catalogs!Offered, LooksAtOne
  PROVE  c.src \in Catalogs!Sources
<1>1. PICK d : d = Catalogs!Shown
  OBVIOUS
<1>2. AnswerTyped(look.key, d)
  BY <1>1 DEF AnswersTyped, AnswerTyped, Catalogs!Shown, Catalogs!Entry, Catalogs!NoEntry
<1>3. \/ look.key[1] = "list" /\ d # Missing /\ \E s \in DOMAIN d : c = d[s]
      \/ look.key[1] # "list" /\ d # Missing /\ c = d
  BY <1>1 DEF Catalogs!Offered, Catalogs!Listed, Catalogs!Listing, Catalogs!Catalog
<1> QED
  BY <1>2, <1>3 DEF AnswerTyped, LooksAtOne

LEMMA SourcesStep ==
  ASSUME CatalogsInv, CatalogsLimits, AnswersTyped', Catalogs!CpNext
  PROVE  SourcesTyped'
<1> DEFINE f == [id |-> edit.id, src |-> edit.src]
<1>0. SourcesTyped /\ AnswersTyped /\ LooksAtOne /\ ChangesTyped
  BY DEF CatalogsLimits, CatalogsInv, CatalogsTyped
<1>c. Catalogs!Closed.src \in Catalogs!Sources /\ NoUrl \in Catalogs!Sources /\ Urls \subseteq Catalogs!Sources
  BY CatalogLimitsConstants DEF Catalogs!Closed
<1>1. CASE UNCHANGED <<edit, sent>>
  BY <1>0, <1>1 DEF SourcesTyped
<1>2. ASSUME NEW m \in sent, NEW n, NEW x, n = [m EXCEPT !.here = FALSE] \/ n = [m EXCEPT !.stage = x]
      PROVE  n.src = m.src
  BY <1>0, <1>2 DEF ChangesTyped
<1>3. ASSUME NEW k, Catalogs!Open(k)
      PROVE  SourcesTyped'
  BY <1>0, <1>c, <1>2, <1>3 DEF Catalogs!Open, SourcesTyped
<1>4. ASSUME NEW i, Catalogs!OpenEdit(i)
      PROVE  SourcesTyped'
  <2>1. PICK c \in Catalogs!Offered : edit' = [id |-> i, src |-> c.src]
    BY <1>4 DEF Catalogs!OpenEdit
  <2>2. edit'.src \in Catalogs!Sources
    BY <1>0, <2>1, OfferedTyped
  <2> QED
    BY <1>0, <1>4, <2>2 DEF Catalogs!OpenEdit, SourcesTyped
<1>5. ASSUME NEW u \in Urls, Catalogs!Type(u)
      PROVE  SourcesTyped'
  <2>1. edit' = [edit EXCEPT !.src = u] /\ UNCHANGED sent
    BY <1>5 DEF Catalogs!Type
  <2>2. edit'.src \in Catalogs!Sources
    BY <1>0, <1>c, <2>1 DEF SourcesTyped
  <2> QED
    BY <1>0, <2>1, <2>2 DEF SourcesTyped
<1>6. CASE Catalogs!Save \/ Catalogs!Delete \/ Catalogs!Pull
  <2>1. PICK v \in Catalogs!Sources : \E do, i : Catalogs!Send(do, i, v)
    BY <1>0, <1>c, <1>6 DEF Catalogs!Save, Catalogs!Delete, Catalogs!Pull, SourcesTyped
  <2> QED
    BY <1>0, <2>1 DEF Catalogs!Send, Catalogs!dialogVars, SourcesTyped
<1>7. ASSUME NEW m \in sent, Catalogs!Serve(m) \/ Catalogs!Fail(m) \/ Catalogs!Hear(m)
      PROVE  SourcesTyped'
  <2>1. edit' \in {edit, Catalogs!Closed}
    BY <1>7 DEF Catalogs!Serve, Catalogs!Fail, Catalogs!AnsweredAs, Catalogs!Hear, Catalogs!dialogVars
  <2>2. \A n \in sent' : n \in sent \/ n.src = m.src
    BY <1>2, <1>7 DEF Catalogs!Serve, Catalogs!Fail, Catalogs!AnsweredAs, Catalogs!Hear
  <2> QED
    BY <1>0, <1>c, <2>1, <2>2 DEF SourcesTyped
<1>8. CASE Catalogs!Cancel
  BY <1>0, <1>c, <1>8 DEF Catalogs!Cancel, SourcesTyped
<1>9. CASE Catalogs!Background
  <2>1. UNCHANGED <<sent, look>> /\ DOMAIN cache' = DOMAIN cache
    BY <1>9
       DEF Catalogs!Background, Catalogs!Lose, Catalogs!ServeRead, Catalogs!Answer, Catalogs!Expire,
           Catalogs!FailRead
  <2> DEFINE d == cache'[look.key].data
  <2>2. \/ UNCHANGED edit
        \/ /\ look.key[1] # "list" /\ look.key \in DOMAIN cache /\ d # Missing
           /\ edit' = [id |-> d.id, src |-> d.src]
    BY <1>9 DEF Catalogs!Background, Catalogs!Listing
  <2>3. ASSUME look.key[1] # "list", look.key \in DOMAIN cache, d # Missing
        PROVE  d.src \in Catalogs!Sources
    <3>1. look.key[1] \in {"slug", "id"}
      BY <1>0, <2>3 DEF LooksAtOne
    <3>2. AnswerTyped(look.key, d)
      BY <2>1, <2>3 DEF AnswersTyped, AnswerTyped
    <3> QED
      BY <2>3, <3>1, <3>2 DEF AnswerTyped
  <2> HIDE DEF d
  <2>4. edit'.src \in Catalogs!Sources
    BY <1>0, <2>2, <2>3 DEF SourcesTyped
  <2> QED
    BY <1>0, <2>1, <2>4 DEF SourcesTyped
<1>10. ASSUME \/ \E q \in Catalogs!Searches : Catalogs!Search(q)
              \/ Catalogs!ShowReadme \/ Catalogs!ShowDag \/ Catalogs!ShowRuns
              \/ Catalogs!OpenFile \/ Catalogs!CloseFiles \/ Catalogs!Rendered
       PROVE  UNCHANGED <<edit, sent>>
  BY <1>10 DEF Catalogs!Search, Catalogs!ShowReadme, Catalogs!ShowDag, Catalogs!ShowRuns,
               Catalogs!OpenFile, Catalogs!CloseFiles, Catalogs!Rendered, Catalogs!PickMode,
               Catalogs!Turned, Catalogs!Still, Catalogs!dialogVars
<1>11. ASSUME \/ Catalogs!OpenImport \/ Catalogs!CancelImport \/ Catalogs!ImportStep \/ Catalogs!HearImport
              \/ \E i \in Catalogs!Ids : Catalogs!OpenDelete(i)
              \/ \E u \in Urls : Catalogs!TypeUrl(u)
              \/ \E s \in Slugs : Catalogs!Import(s, FALSE) \/ Catalogs!Import(s, TRUE) \/ Catalogs!Others(s)
       PROVE  UNCHANGED <<edit, sent>>
  BY <1>11 DEF Catalogs!OpenImport, Catalogs!CancelImport, Catalogs!ImportStep, Catalogs!CheckImport,
               Catalogs!WriteImport, Catalogs!WriteFiles, Catalogs!FailImport, Catalogs!ImportOnly, Catalogs!HearImport, Catalogs!OpenDelete, Catalogs!TypeUrl, Catalogs!Import,
               Catalogs!Others, Catalogs!dialogVars
<1> QED
  BY <1>1, <1>3, <1>4, <1>5, <1>6, <1>7, <1>8, <1>9, <1>10, <1>11 DEF Catalogs!CpNext

LEMMA DialogsStep ==
  ASSUME ImportInv, CatalogsLimits, Catalogs!CpNext
  PROVE  DialogsApart'
<1>0. DialogsApart
  BY DEF CatalogsLimits
<1>1. ASSUME \/ edit' \in {edit, Catalogs!Closed}
             \/ edit.id # 0,
             doomed' \in {doomed, 0},
             form' \in {form, Catalogs!NoForm} \/ (form.open /\ form'.open)
      PROVE  DialogsApart'
  <2>1. form'.open => form.open
    BY <1>1 DEF Catalogs!NoForm
  <2>2. edit.id # 0 => edit # Catalogs!Closed
    BY DEF Catalogs!Closed
  <2> QED
    BY <1>0, <1>1, <2>1, <2>2 DEF DialogsApart
<1>2. CASE (\E i : Catalogs!OpenEdit(i) \/ Catalogs!OpenDelete(i)) \/ Catalogs!OpenImport
  BY <1>2 DEF Catalogs!OpenEdit, Catalogs!OpenDelete, Catalogs!OpenImport, Catalogs!NoDialog,
              Catalogs!importVars, Catalogs!dialogVars, DialogsApart
<1>3. ASSUME NEW k, Catalogs!Open(k)
      PROVE  DialogsApart'
  BY <1>1, <1>3 DEF Catalogs!Open
<1>4. CASE Catalogs!Cancel \/ Catalogs!Background \/ (\E u \in Urls : Catalogs!Type(u))
           \/ (\E m \in sent : Catalogs!Serve(m) \/ Catalogs!Fail(m) \/ Catalogs!Hear(m))
  <2>1. UNCHANGED form /\ doomed' \in {doomed, 0}
    BY <1>4 DEF Catalogs!Cancel, Catalogs!Background, Catalogs!Type, Catalogs!Serve, Catalogs!Fail,
                Catalogs!AnsweredAs, Catalogs!Hear, Catalogs!importVars, Catalogs!dialogVars
  <2>2. edit' \in {edit, Catalogs!Closed} \/ edit.id # 0
    BY <1>4 DEF Catalogs!Cancel, Catalogs!Background, Catalogs!Type, Catalogs!Serve, Catalogs!Fail,
                Catalogs!AnsweredAs, Catalogs!Hear, Catalogs!dialogVars
  <2> QED
    BY <1>1, <2>1, <2>2
<1>5. CASE Catalogs!CancelImport \/ Catalogs!HearImport
  BY <1>1, <1>5 DEF Catalogs!CancelImport, Catalogs!HearImport, Catalogs!dialogVars
<1>6. ASSUME NEW u \in Urls, Catalogs!TypeUrl(u)
      PROVE  DialogsApart'
  <2>1. form' = [form EXCEPT !.url = u] /\ form.open
        /\ form = [open |-> form.open, url |-> form.url]
    BY <1>6 DEF Catalogs!TypeUrl, ImportInv, ImportTyped
  <2>2. form'.open
    BY <2>1
  <2> QED
    BY <1>1, <1>6, <2>1, <2>2 DEF Catalogs!TypeUrl, Catalogs!dialogVars
<1>7. ASSUME \/ \E q \in Catalogs!Searches : Catalogs!Search(q)
             \/ Catalogs!ShowReadme \/ Catalogs!ShowDag \/ Catalogs!ShowRuns
             \/ Catalogs!OpenFile \/ Catalogs!CloseFiles \/ Catalogs!Rendered
             \/ Catalogs!Save \/ Catalogs!Delete \/ Catalogs!Pull
      PROVE  UNCHANGED <<edit, doomed, form>>
  BY <1>7 DEF Catalogs!Search, Catalogs!ShowReadme, Catalogs!ShowDag, Catalogs!ShowRuns,
              Catalogs!OpenFile, Catalogs!CloseFiles, Catalogs!Rendered, Catalogs!PickMode,
              Catalogs!Turned, Catalogs!Still, Catalogs!Save, Catalogs!Delete, Catalogs!Pull, Catalogs!Send,
              Catalogs!dialogVars, Catalogs!importVars
<1>8. ASSUME \/ Catalogs!ImportStep
             \/ \E s \in Slugs : Catalogs!Import(s, FALSE) \/ Catalogs!Import(s, TRUE) \/ Catalogs!Others(s)
      PROVE  UNCHANGED <<edit, doomed, form>>
  BY <1>8 DEF Catalogs!ImportStep, Catalogs!CheckImport, Catalogs!WriteImport, Catalogs!WriteFiles,
              Catalogs!FailImport, Catalogs!ImportOnly, Catalogs!Import, Catalogs!Others, Catalogs!dialogVars
<1> QED
  BY <1>1, <1>2, <1>3, <1>4, <1>5, <1>6, <1>7, <1>8 DEF Catalogs!CpNext

LEMMA LooksStep ==
  ASSUME CatalogsInv, CatalogsLimits, Catalogs!CpNext
  PROVE  LooksAtOne'
<1>0. LooksAtOne /\ look = [key |-> look.key, mode |-> look.mode, runs |-> look.runs, on |-> look.on]
  BY DEF CatalogsLimits, CatalogsInv, CatalogsTyped, LookTyped
<1>1. CASE UNCHANGED <<look, tab>>
  BY <1>0, <1>1 DEF LooksAtOne, Catalogs!Editing
<1>2. ASSUME NEW l, Catalogs!Tab(l) # Missing
      PROVE  Catalogs!Editing(l)
  BY <1>2 DEF Catalogs!Tab
<1>3. ASSUME NEW l, Catalogs!Goto(l), l.key[1] \in {"list", "slug", "id"},
             l.on = {} \/ \E i : l.on = {i}
      PROVE  LooksAtOne'
  <2>1. look' = l /\ tab' = Catalogs!Tab(l)
    BY <1>3 DEF Catalogs!Goto
  <2>2. Catalogs!Editing(l)' = Catalogs!Editing(l) /\ Catalogs!Editing(look)' = Catalogs!Editing(l)
    BY <2>1 DEF Catalogs!Editing
  <2> QED
    BY <1>2, <1>3, <2>1, <2>2 DEF LooksAtOne
<1>4. ASSUME NEW l, NEW x, l = [look EXCEPT !.mode = x] \/ l = [look EXCEPT !.runs = x]
      PROVE  l.key = look.key /\ l.on = look.on
  BY <1>0, <1>4
<1>5. ASSUME NEW k \in Catalogs!Pages, Catalogs!Open(k)
      PROVE  LooksAtOne'
  <2>1. k[1] \in {"list", "slug", "id"}
    BY DEF Catalogs!Pages
  <2> QED
    BY <1>3, <1>5, <2>1 DEF Catalogs!Open
<1>6. ASSUME NEW q, Catalogs!Search(q)
      PROVE  LooksAtOne'
  <2>1. PICK l : l = [look EXCEPT !.key = <<"list", q>>] /\ Catalogs!Goto(l)
    BY <1>6 DEF Catalogs!Search
  <2>2. l.key = <<"list", q>> /\ l.on = look.on
    BY <1>0, <2>1
  <2> QED
    BY <1>0, <1>3, <2>1, <2>2 DEF LooksAtOne
<1>7. CASE Catalogs!ShowReadme \/ Catalogs!ShowDag \/ Catalogs!ShowRuns \/ Catalogs!OpenFile \/ Catalogs!CloseFiles
  <2>1. PICK l, x : (l = [look EXCEPT !.mode = x] \/ l = [look EXCEPT !.runs = x]) /\ Catalogs!Goto(l)
    BY <1>7 DEF Catalogs!ShowReadme, Catalogs!ShowDag, Catalogs!ShowRuns, Catalogs!OpenFile,
                Catalogs!CloseFiles, Catalogs!PickMode, Catalogs!Turned
  <2>2. l.key = look.key /\ l.on = look.on
    BY <1>4, <2>1
  <2> QED
    BY <1>0, <1>3, <2>1, <2>2 DEF LooksAtOne
<1>8. CASE Catalogs!Rendered
  <2>1. PICK l, x : l = [look EXCEPT !.on = x] /\ Catalogs!Goto(l) /\ (x = {} \/ \E i : x = {i})
    BY <1>8 DEF Catalogs!Rendered
  <2>2. l.key = look.key /\ l.on = x
    BY <1>0, <2>1
  <2> QED
    BY <1>0, <1>3, <2>1, <2>2 DEF LooksAtOne
<1>9. CASE Catalogs!Background
  <2>1. UNCHANGED look /\ tab' = Catalogs!Tab(look)
    BY <1>9 DEF Catalogs!Background
  <2> QED
    BY <1>0, <1>2, <2>1 DEF LooksAtOne, Catalogs!Editing
<1>10. ASSUME \/ Catalogs!Save \/ Catalogs!Delete \/ Catalogs!Pull \/ Catalogs!Cancel
              \/ \E i \in Catalogs!Ids : Catalogs!OpenEdit(i) \/ Catalogs!OpenDelete(i)
              \/ \E u \in Urls : Catalogs!Type(u)
              \/ \E m \in sent : Catalogs!Serve(m) \/ Catalogs!Fail(m) \/ Catalogs!Hear(m)
       PROVE  UNCHANGED <<look, tab>>
  BY <1>10 DEF Catalogs!Save, Catalogs!Delete, Catalogs!Pull, Catalogs!Send, Catalogs!Cancel,
               Catalogs!OpenEdit, Catalogs!OpenDelete, Catalogs!Type, Catalogs!Serve, Catalogs!Fail,
               Catalogs!AnsweredAs, Catalogs!Hear
<1>11. ASSUME \/ Catalogs!OpenImport \/ Catalogs!CancelImport \/ Catalogs!ImportStep \/ Catalogs!HearImport
              \/ \E u \in Urls : Catalogs!TypeUrl(u)
              \/ \E s \in Slugs : Catalogs!Import(s, FALSE) \/ Catalogs!Import(s, TRUE) \/ Catalogs!Others(s)
       PROVE  UNCHANGED <<look, tab>>
  BY <1>11 DEF Catalogs!OpenImport, Catalogs!CancelImport, Catalogs!ImportStep, Catalogs!CheckImport,
               Catalogs!WriteImport, Catalogs!WriteFiles, Catalogs!FailImport, Catalogs!ImportOnly,
               Catalogs!HearImport, Catalogs!TypeUrl, Catalogs!Import, Catalogs!Others
<1> QED
  BY <1>1, <1>5, <1>6, <1>7, <1>8, <1>9, <1>10, <1>11 DEF Catalogs!CpNext

LEMMA CatalogsLimitsStep ==
  ASSUME page = "catalogs", ImportInv, CatalogsInv, CatalogsLimits, [WebNext]_webPagesVars
  PROVE  CatalogsLimits'
<1>1. CASE CatalogsStep
  BY <1>1, NumberedStep, UrlsStep, AnswersStep, SourcesStep, DialogsStep, LooksStep
     DEF CatalogsStep, CatalogsLimits
<1>2. CASE UNCHANGED <<catalogsVars, cache, sent>>
  BY <1>2
     DEF catalogsVars, CatalogsLimits, Numbered, Catalogs!Existing, UrlsTyped, Underway, SourcesTyped,
         AnswersTyped, AnswerTyped, DialogsApart, LooksAtOne, Catalogs!Editing
<1>3. SessionStep \/ BackupStep \/ TreeStep \/ DagStep \/ UNCHANGED webPagesVars
        => UNCHANGED <<catalogsVars, cache, sent>>
  BY DEF SessionStep, BackupStep, TreeStep, DagStep, webPagesVars, sharedVars
<1>4. ~AccountsStep
  BY DEF AccountsStep
<1> QED
  BY <1>1, <1>2, <1>3, <1>4 DEF WebNext

LEMMA CatalogsAreTyped == CatalogsInv /\ CatalogsLimits => Catalogs!CpTypeOK
<1> SUFFICES ASSUME CatalogsInv, CatalogsLimits PROVE Catalogs!CpTypeOK
  OBVIOUS
<1>1. \A k \in DOMAIN cache : cache[k].stage # "idle" => k \in Catalogs!InView
  BY DEF CatalogsInv, CatalogsTyped, CacheTyped, EntryTyped
<1>2. Catalogs!Cardinality(look.on) <= 1
  <2>1. Cardinality(look.on) \in {0, 1}
    BY FS_EmptySet, FS_Singleton DEF CatalogsLimits, LooksAtOne
  <2> QED
    BY <2>1, SameSize
<1> QED
  BY <1>1, <1>2
     DEF CatalogsInv, CatalogsTyped, CatalogsLimits, Numbered, DialogsApart, LooksAtOne, Catalogs!CpTypeOK

-----------------------------------------------------------------------------
(* Every page keeps its variables to their kinds: among other things what  *)
(* is asked for is in view, the versions of a backup are no newer than     *)
(* what was edited, a tree holds what is on the disk, no two catalogs have *)
(* the same id, and no two dialogs are open at once (the pages under       *)
(* frontend/src/routes and components, and the endpoints that they call).  *)
THEOREM PagesTyped == WebSpec => []WebTypeOK
<1> DEFINE Backed == BackupInv /\ BackupLimits
           Outputs == TreeInv /\ TreeOfDisk
           Pictures == DagInv /\ PictureTypes
           Settled == InvitesInv /\ (page = "accounts" => SecretsInv /\ SettingsInv /\ AccountsLimits)
           Catalogued == ImportInv /\ (page = "catalogs" => CatalogsInv /\ CatalogsLimits)
           Kept == Backed /\ Outputs /\ Pictures /\ Settled /\ Catalogued
<1>1. WebSpec => []SessionProofs!WsInv
  BY SessionConstants, SessionProofs!WsInvAlways, SessionRuns, PTL
<1>2. WebInit => Kept
  BY BackupInvInit, BackupLimitsInit, TreeInvInit, TreeOfDiskInit, DagInvInit, PictureTypesInit,
     InvitesInvInit, SecretsInvInit, SettingsInvInit, AccountsLimitsInit, ImportInvInit,
     CatalogsInvInit, CatalogsLimitsInit
<1>3. Kept /\ [WebNext]_webPagesVars => Kept'
  <2> SUFFICES ASSUME Kept, [WebNext]_webPagesVars PROVE Kept'
    OBVIOUS
  <2>1. UNCHANGED page
    BY PageStays
  <2>2. Backed' /\ Outputs' /\ Pictures'
    BY BackupInvStep, BackupLimitsStep, TreeInvStep, TreeOfDiskStep, DagInvStep, PictureTypesStep
  <2>3. Settled'
    BY <2>1, InvitesInvStep, SecretsInvStep, SettingsInvStep, AccountsLimitsStep
  <2>4. Catalogued'
    BY <2>1, ImportInvStep, CatalogsInvStep, CatalogsLimitsStep
  <2> QED
    BY <2>2, <2>3, <2>4
<1>4. SessionProofs!WsInv /\ Kept => WebTypeOK
  BY SessionTyped, BackupTyped, OutputsTyped, PicturesTyped, AccountsTyped, CatalogsAreTyped DEF WebTypeOK
<1> QED
  BY <1>1, <1>2, <1>3, <1>4, PTL DEF WebSpec
=============================================================================
