------------------------------- MODULE Accounts -------------------------------
(***************************************************************************)
(* Who may use FlowO: registration, with or without an invitation, and the *)
(* settings pages, on which an administrator changes members, invitations  *)
(* and the policy, and everyone their API tokens and Git remote, while     *)
(* others do the same.                                                     *)
(***************************************************************************)
EXTENDS PageCache, Naturals, FiniteSets

CONSTANTS
  People,     \* e-mail addresses
  Me,         \* who has the pages open, an administrator at first
  Codes,      \* invitations
  NoCode,
  Attempts,   \* registrations
  Values,     \* what may be typed as SMTP host, and as Git remote
  MaxTokens,  \* bound: API tokens that Me makes
  MaxEvents   \* bound: clicks, registrations, and what others do

\* what WebPages assumes of them
AccountsAssumption ==
  /\ Me \in People /\ NoCode \notin Codes
  /\ Values # {} /\ MaxTokens \in Nat \ {0} /\ MaxEvents \in Nat

VARIABLES
  members,   \* "none", "user" or "admin", by address
  invites,   \* "unborn", "open", "used" or "revoked", by code
  policy,    \* [public, smtp]: the row of system_settings
  git,       \* the Git remote of Me
  tokens,    \* API tokens of Me that are valid
  made,      \* tokens 1..made have been made
  attempts,  \* attempts[a]: [stage, email, code]
  section,   \* the section, or page, in view
  sent,      \* requests for changes under way: [do, by, arg, stage, here]
  dialog,    \* the dialog for a new token: [open, secret]
  closed,    \* history: tokens whose secret was shown in a dialog since closed
  events

dbVars == <<members, invites, policy, git, tokens, made>>
accVars == <<cacheVars, dbVars, attempts, section, sent, dialog, closed, events>>

Event == events < MaxEvents /\ events' = events + 1

-----------------------------------------------------------------------------
(* Registration: UserManager.create *)

Register(a, p, c) ==
  /\ Event /\ attempts[a].stage = "none"
  /\ attempts' = [attempts EXCEPT ![a] = [stage |-> "asked", email |-> p, code |-> c]]
  /\ UNCHANGED <<cacheVars, dbVars, section, sent, dialog, closed>>

(* What is read before the password is hashed and the user inserted: the   *)
(* policy, and whether the invitation is unused; nothing is locked.        *)
Check(a) ==
  /\ attempts[a].stage = "asked"
  /\ LET c == attempts[a].code IN
       attempts' = [attempts EXCEPT ![a].stage =
         CASE policy.public -> "open to all"
           [] ~policy.public /\ c # NoCode -> IF invites[c] = "open" THEN "invited" ELSE "failed"
           [] OTHER -> "failed"]
  /\ UNCHANGED <<cacheVars, dbVars, section, sent, dialog, closed, events>>

\* mutant: the invitation is marked as soon as it is found
MarkAndJoin(a) ==
  LET r == attempts[a] IN
  /\ r.stage \in {"open to all", "invited"}
  /\ invites' = IF r.stage = "invited" THEN [invites EXCEPT ![r.code] = "used"] ELSE invites
  /\ IF members[r.email] = "none"
       THEN /\ \E role \in {"user", "admin"} : members' = [members EXCEPT ![r.email] = role]
            /\ attempts' = [attempts EXCEPT ![a].stage = IF r.stage = "invited" THEN "joined" ELSE "done"]
       ELSE UNCHANGED members /\ attempts' = [attempts EXCEPT ![a].stage = "failed"]
  /\ missed' = missed \cup {"users", "invites"}
  /\ UNCHANGED <<cache, policy, git, tokens, made, section, sent, dialog, closed, events>>

(* One COMMIT marks the invitation and inserts the user, or neither: the   *)
(* address is unique, and an invitation revoked meanwhile cannot be marked.*)
(* The role is the one that the request states.                            *)
Join(a) ==
  LET r == attempts[a] IN
  /\ r.stage \in {"open to all", "invited"}
  /\ IF members[r.email] = "none" /\ (r.stage = "invited" => invites[r.code] # "revoked")
       THEN /\ \E role \in {"user", "admin"} : members' = [members EXCEPT ![r.email] = role]
            /\ invites' = IF r.stage = "invited" THEN [invites EXCEPT ![r.code] = "used"] ELSE invites
            /\ attempts' = [attempts EXCEPT ![a].stage = IF r.stage = "invited" THEN "joined" ELSE "done"]
            /\ missed' = missed \cup {"users", "invites"}
       ELSE /\ attempts' = [attempts EXCEPT ![a].stage = "failed"]
            /\ UNCHANGED <<members, invites, missed>>
  /\ UNCHANGED <<cache, policy, git, tokens, made, section, sent, dialog, closed, events>>

-----------------------------------------------------------------------------
(* Changes, by anyone: what the requests do to the database *)

Admin(p) == members[p] = "admin"

AdminChanges == {"set admin", "delete user", "invite", "revoke invitation", "save smtp", "save policy"}

\* endpoints of the administration; the policy's are fields set one by one
Applies(m) ==
  /\ IF m.do \in AdminChanges THEN Admin(m.by) ELSE members[m.by] # "none"
  /\ CASE m.do = "set admin" -> members[m.arg.user] # "none"
       [] m.do = "delete user" -> m.arg # m.by /\ members[m.arg] # "none"
       [] m.do = "invite" -> invites[m.arg] = "unborn"
       [] m.do = "revoke invitation" -> invites[m.arg] \in {"open", "used"}
       [] m.do \in {"create token", "create token here"} -> made < MaxTokens
       [] OTHER -> TRUE

Apply(m) ==
  /\ members' = CASE m.do = "set admin" -> [members EXCEPT ![m.arg.user] = IF m.arg.to THEN "admin" ELSE "user"]
                  [] m.do = "delete user" -> [members EXCEPT ![m.arg] = "none"]
                  [] OTHER -> members
  /\ invites' = CASE m.do = "invite" -> [invites EXCEPT ![m.arg] = "open"]
                  [] m.do = "revoke invitation" -> [invites EXCEPT ![m.arg] = "revoked"]
                  [] OTHER -> invites
  /\ policy' = CASE m.do = "save smtp" -> [policy EXCEPT !.smtp = m.arg]
                 [] m.do = "save policy" -> m.arg
                 [] OTHER -> policy
  /\ git' = IF m.do = "save git" THEN m.arg ELSE git
  /\ made' = IF m.do \in {"create token", "create token here"} THEN made + 1 ELSE made
  /\ tokens' = CASE m.do \in {"create token", "create token here"} -> tokens \cup {made'}
                 [] m.do \in {"revoke token", "revoke token here"} -> tokens \ {m.arg}
                 [] OTHER -> tokens

-----------------------------------------------------------------------------
(* The pages *)

Sections == {"identity", "tokens", "git", "users", "invites", "smtp", "system", "profile"}

\* what each section reads; the profile page keys its tokens by the JWT, too
KeysOf(s) == CASE s = "tokens" -> {"tokens"} [] s = "profile" -> {"my tokens"}
               [] s = "git" -> {"git"} [] s = "users" -> {"users"} [] s = "invites" -> {"invites"}
               [] s \in {"smtp", "system"} -> {"policy"} [] OTHER -> {}

AllKeys == UNION {KeysOf(s) : s \in Sections}

InView == KeysOf(section)

\* what the database holds for key k
Holds(k) == CASE k \in {"tokens", "my tokens"} -> tokens
              [] k = "git" -> git
              [] k = "users" -> members
              [] k = "invites" -> invites
              [] OTHER -> policy

(* Its endpoint refuses who may not read it, who need not be the same as   *)
(* when the page was opened; the page keeps what it shows.  (Who is no     *)
(* member any more is sent to the login page, which is left out here.)     *)
Read(k) ==
  IF IF k \in {"users", "invites", "policy"} THEN Admin(Me) ELSE members[Me] # "none"
    THEN Holds(k) ELSE Missing

Shown == LET k == CHOOSE k \in InView : TRUE IN Entry(k).data

Loaded == InView # {} /\ Shown # Missing

\* what is outdated by a change, and left so by its callback: see Refreshed
Neglected(do) ==
  CASE do = "invite" -> {"invites"} [] do = "save git" -> {"git"}
    [] do \in {"create token here", "revoke token here"} -> {"tokens"}
    [] OTHER -> {}

\* what a change outdates
Concerned(do) ==
  CASE do \in {"set admin", "delete user"} -> {"users"}
    [] do \in {"invite", "revoke invitation"} -> {"invites"}
    [] do \in {"save smtp", "save policy"} -> {"policy"}
    [] do = "save git" -> {"git"}
    [] OTHER -> {"tokens", "my tokens"}

\* mutant: the key is wrapped once more, as in GitSettingsSection
RefreshedWrapped(do) ==
  CASE do \in {"set admin", "revoke invitation", "save smtp", "save policy"} -> AllKeys
    [] do \in {"create token here", "revoke token here"} -> {"my tokens"}
    [] OTHER -> {}

(* What its callback invalidates.  The keys of the invitations and of the  *)
(* Git settings are wrapped once too often, and match nothing; those of    *)
(* the profile page do not match the list of the settings.                 *)
Refreshed(do) ==
  CASE do \in {"set admin", "revoke invitation", "save smtp", "save policy"} -> AllKeys
    [] do = "delete user" -> {"users"}
    [] do \in {"create token", "revoke token"} -> {"tokens", "my tokens"}
    [] do \in {"create token here", "revoke token here"} -> {"my tokens"}
    [] OTHER -> {}

Pending(do) == \E m \in sent : m.do = do /\ m.here

Nowhere == [open |-> FALSE, secret |-> 0]

\* the secret of a dialog that goes away has been shown
Seen == IF dialog.open /\ dialog.secret # 0 THEN {dialog.secret} ELSE {}

(* Another section or page: what was mounted is gone, and its callbacks    *)
(* can no more show anything.                                              *)
PickSection(s) ==
  /\ Event /\ s # section /\ section' = s
  /\ Turn(InView \ KeysOf(s), KeysOf(s))
  /\ sent' = {[m EXCEPT !.here = FALSE] : m \in sent}
  /\ dialog' = Nowhere /\ closed' = closed \cup Seen
  /\ UNCHANGED <<missed, dbVars, attempts>>

(* What the sections offer, given what they show; some of their buttons    *)
(* are disabled while they wait.                                           *)
UsersOffer(do, arg) ==
  /\ section = "users" /\ Loaded
  /\ \/ /\ do = "set admin" /\ Shown[arg.user] # "none"
        /\ arg.to = (Shown[arg.user] # "admin") /\ ~Pending(do)
     \/ do = "delete user" /\ arg # Me /\ Shown[arg] # "none"

InvitationsOffer(do, arg) ==
  /\ section = "invites"
  /\ \/ do = "invite" /\ invites[arg] = "unborn" /\ ~Pending(do)
     \/ do = "revoke invitation" /\ Loaded /\ Shown[arg] \in {"open", "used"}

SMTPOffers(do) == do = "save smtp" /\ section = "smtp" /\ Loaded /\ ~Pending(do)

\* the switch sends the whole row as it was read
AdministrationOffers(do, arg) ==
  do = "save policy" /\ section = "system" /\ Loaded /\ arg = [Shown EXCEPT !.public = ~@]

GitOffers(do) == do = "save git" /\ section = "git" /\ ~Pending(do)

NewToken(do) == dialog.open /\ dialog.secret = 0 /\ ~Pending(do)

TokensOffer(do, arg) ==
  /\ section = "tokens"
  /\ (do = "create token" /\ NewToken(do)) \/ (do = "revoke token" /\ Loaded /\ arg \in Shown)

ProfileOffers(do, arg) ==
  /\ section = "profile"
  /\ (do = "create token here" /\ NewToken(do)) \/ (do = "revoke token here" /\ Loaded /\ arg \in Shown)

Offers(do, arg) ==
  \/ UsersOffer(do, arg) \/ InvitationsOffer(do, arg) \/ SMTPOffers(do) \/ GitOffers(do)
  \/ AdministrationOffers(do, arg) \/ TokensOffer(do, arg) \/ ProfileOffers(do, arg)

Click(do, arg) ==
  /\ Event /\ Offers(do, arg)
  /\ sent' = sent \cup {[do |-> do, by |-> Me, arg |-> arg, stage |-> "sent", here |-> TRUE]}
  /\ UNCHANGED <<cacheVars, dbVars, attempts, section, dialog, closed>>

\* the server handles it
Serve(m) ==
  /\ m \in sent /\ m.stage = "sent"
  /\ IF Applies(m)
       THEN /\ Apply(m)
            /\ sent' = (sent \ {m}) \cup {[m EXCEPT !.stage = "done", !.arg =
                         IF m.do \in {"create token", "create token here"} THEN made' ELSE @]}
            /\ missed' = missed \cup Neglected(m.do)
       ELSE /\ sent' = (sent \ {m}) \cup {[m EXCEPT !.stage = "failed"]}
            /\ UNCHANGED <<dbVars, missed>>
  /\ UNCHANGED <<cache, attempts, section, dialog, closed, events>>

(* It fails, before or after its COMMIT, or its answer is lost: the page   *)
(* hears of a failure, and reads nothing again.                            *)
Fail(m) ==
  /\ Event /\ m \in sent /\ m.stage = "sent"
  /\ \/ Applies(m) /\ Apply(m) /\ missed' = missed \cup Concerned(m.do)
     \/ UNCHANGED <<dbVars, missed>>
  /\ sent' = (sent \ {m}) \cup {[m EXCEPT !.stage = "failed"]}
  /\ UNCHANGED <<cache, attempts, section, dialog, closed>>

\* the callbacks of the section that asked
Hear(m) ==
  /\ m \in sent /\ m.stage \in {"done", "failed"}
  /\ sent' = sent \ {m}
  /\ IF m.stage = "done" THEN Invalidate(InView, Refreshed(m.do)) ELSE UNCHANGED cacheVars
  /\ dialog' = IF m.stage = "done" /\ m.here /\ m.do \in {"create token", "create token here"}
                 THEN [dialog EXCEPT !.secret = m.arg] ELSE dialog
  /\ UNCHANGED <<dbVars, attempts, section, closed, events>>

\* mutant: the dialog is opened as it was left
OpenDialogAsLeft ==
  /\ section \in {"tokens", "profile"} /\ ~dialog.open
  /\ dialog' = [dialog EXCEPT !.open = TRUE]
  /\ UNCHANGED <<cacheVars, dbVars, attempts, section, sent, closed, events>>

\* "New Token" of the settings forgets the secret; the profile page does not
OpenDialog ==
  /\ section \in {"tokens", "profile"} /\ ~dialog.open
  /\ dialog' = [open |-> TRUE, secret |-> IF section = "tokens" THEN 0 ELSE dialog.secret]
  /\ UNCHANGED <<cacheVars, dbVars, attempts, section, sent, closed, events>>

\* it forgets it when the dialog is closed
CloseDialog ==
  /\ dialog.open
  /\ dialog' = [open |-> FALSE, secret |-> IF section = "tokens" THEN dialog.secret ELSE 0]
  /\ closed' = closed \cup Seen
  /\ UNCHANGED <<cacheVars, dbVars, attempts, section, sent, events>>

\* another administrator, or Me elsewhere
Others(p, do, arg) ==
  LET m == [do |-> do, by |-> p, arg |-> arg] IN
  /\ Event /\ Applies(m) /\ Apply(m)
  /\ missed' = missed \cup Concerned(do)
  /\ UNCHANGED <<cache, attempts, section, sent, dialog, closed>>

Background ==
  /\ \/ Reads(InView, Read) /\ UNCHANGED events
     \/ Event /\ \E k \in DOMAIN cache : FailRead(k)
  /\ UNCHANGED <<dbVars, attempts, section, sent, dialog, closed>>

-----------------------------------------------------------------------------
\* the arguments that a change may have
Args(do) ==
  CASE do = "set admin" -> [user : People, to : BOOLEAN]
    [] do = "delete user" -> People
    [] do \in {"invite", "revoke invitation"} -> Codes
    [] do \in {"save smtp", "save git"} -> Values
    [] do = "save policy" -> [public : BOOLEAN, smtp : Values]
    [] do \in {"create token", "create token here"} -> {0}
    [] OTHER -> 1..MaxTokens

Mine == AdminChanges \cup {"save git", "create token", "revoke token",
                           "create token here", "revoke token here"}
Elsewhere == AdminChanges \cup {"revoke token"}

AccInit ==
  /\ members \in {[p \in People |-> IF p = Me THEN "admin" ELSE "none"],
                  [p \in People |-> "admin"]}
  /\ invites = [c \in Codes |-> "unborn"]
  /\ git = (CHOOSE v \in Values : TRUE) /\ policy = [public |-> FALSE, smtp |-> git]
  /\ tokens = {} /\ made = 0
  /\ attempts = [a \in Attempts |-> [stage |-> "none", email |-> Me, code |-> NoCode]]
  /\ section = "identity" /\ sent = {} /\ dialog = Nowhere /\ closed = {}
  /\ cache = [k \in {} |-> NoEntry] /\ missed = {}
  /\ events = 0

AccNext ==
  \/ \E a \in Attempts : \/ \E p \in People, c \in Codes \cup {NoCode} : Register(a, p, c)
                         \/ Check(a) \/ Join(a)
  \/ \E s \in Sections : PickSection(s)
  \/ \E do \in Mine : \E arg \in Args(do) : Click(do, arg)
  \/ \E m \in sent : Serve(m) \/ Fail(m) \/ Hear(m)
  \/ OpenDialog \/ CloseDialog
  \/ \E p \in People, do \in Elsewhere : \E arg \in Args(do) : Others(p, do, arg)
  \/ Background

AccSpec == AccInit /\ [][AccNext]_accVars

-----------------------------------------------------------------------------
(* Properties *)

(* Every variable holds a value of its kind; a secret in the dialog is one *)
(* of a token that was made, and what is asked for is in view.             *)
AccTypeOK ==
  /\ members \in [People -> {"none", "user", "admin"}]
  /\ invites \in [Codes -> {"unborn", "open", "used", "revoked"}]
  /\ policy \in [public : BOOLEAN, smtp : Values] /\ git \in Values
  /\ tokens \subseteq 1..made /\ made \in 0..MaxTokens
  /\ section \in Sections /\ dialog \in [open : BOOLEAN, secret : 0..made]
  /\ \A m \in sent : m.do \in Mine /\ m.stage \in {"sent", "done", "failed"}
  /\ \A k \in DOMAIN cache : cache[k].stage # "idle" => k \in InView

(* A registration that fails costs no invitation, and one that succeeds    *)
(* leaves none that could be used again, whatever other registrations,     *)
(* deletions and revocations come between its steps.                       *)
InvitationKept ==
  /\ \A c \in Codes : invites[c] = "used" => \E a \in Attempts : attempts[a].stage = "joined" /\ attempts[a].code = c
  /\ \A a \in Attempts : attempts[a].stage = "joined" => invites[attempts[a].code] \in {"used", "revoked"}

(* When nothing is under way, a section shows what the changes made on it  *)
(* have led to.  Excepted are what others changed since it was read, the   *)
(* invitations sent and the Git remote saved, which the page never reads   *)
(* again by itself, a change whose failure was heard after its COMMIT, an  *)
(* entry whose last read failed or was refused, as to an administrator who *)
(* is none any more, and an invalidation that met the first request.       *)
OwnChangesShown ==
  (sent = {} /\ Idle(InView)) => \A k \in InView : k \in missed \/ Entry(k).data = Holds(k)

(* The dialogs say that a secret is shown only once: no way of closing and *)
(* opening them, while a token is being made or after, shows it again.     *)
ShownOnce == dialog.open => dialog.secret \notin closed
===============================================================================
