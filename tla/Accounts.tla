----------------------------- MODULE Accounts -----------------------------
(* Signup, e-mail verification, login and password reset (docs/adr/0041). A    *)
(* request is a sequence of awaits, and requests of one user overlap: two tabs, *)
(* a double click, a verification page whose effect runs twice.                *)
EXTENDS Integers, Sequences, FiniteSets

CONSTANTS Emails,      \* normalised addresses of the allowed domain
          Passwords,   \* those long enough; shorter ones are refused at once
          Links,       \* names of AuthToken rows; the name of a spent one is reused
          Requests,    \* slots for requests in flight
          None         \* no link, no password, no user

VARIABLES org,         \* the shared organisation's row exists
          users,       \* user rows by address: status and password
          links,       \* AuthToken rows: state, user, purpose; and whether it was mailed
          live,        \* unrevoked session tokens of a user, each named for its request
          req,         \* requests in flight
          proven,      \* users whose inbox was shown to be theirs: they opened a mailed link
          owed         \* users who were handed a session no later request took away

accountVars == <<org, users, links, live, req, proven, owed>>

Idle == [kind |-> "none", at |-> "done", user |-> None, link |-> None, pw |-> None, seen |-> "none"]
Kinds == {"signup", "verify", "login", "forgot", "reset"}

\* the awaits of each use case, in their order
SignupUseCase == <<"find", "findOrg", "createOrg", "createUser", "createLink", "mail">>
VerifyEmailUseCase == <<"find", "findUser", "markUsed", "activate", "revoke", "session">>
LoginUseCase == <<"find", "revoke", "session">>
RequestPasswordResetUseCase == <<"find", "invalidate", "createLink", "mail">>
ResetPasswordUseCase == <<"find", "findUser", "markUsed", "setPassword", "activate", "revoke", "session">>

\* the route of each
Path(kind) ==
    CASE kind = "signup" -> SignupUseCase
      [] kind = "verify" -> VerifyEmailUseCase
      [] kind = "login"  -> LoginUseCase
      [] kind = "forgot" -> RequestPasswordResetUseCase
      [] kind = "reset"  -> ResetPasswordUseCase
      [] OTHER -> <<>>

Places == {"done", "find", "findOrg", "createOrg", "createUser", "createLink", "mail", "findUser",
           "markUsed", "activate", "setPassword", "invalidate", "revoke", "session"}

AccountsTypeOK ==
    /\ org \in BOOLEAN
    /\ users \in [Emails -> [status : {"none", "pending", "active"}, pw : Passwords \union {None}]]
    /\ links \in [Links -> [state : {"active", "spent"}, user : Emails \union {None},
                            purpose : {"verify", "reset"}, mailed : BOOLEAN]]
    /\ live \in [Emails -> SUBSET Requests]
    /\ req \in [Requests -> [kind : Kinds \union {"none"}, at : Places, user : Emails \union {None},
                             link : Links \union {None}, pw : Passwords \union {None},
                             seen : {"none", "pending", "active"}]]
    /\ proven \subseteq Emails /\ owed \subseteq Emails

\* legacy: rows older than ADR-0041, active and without a password
AccountsInit ==
    /\ \E legacy \in SUBSET Emails :
         /\ org = (legacy # {})
         /\ users = [e \in Emails |-> [status |-> IF e \in legacy THEN "active" ELSE "none",
                                       pw |-> None]]
         /\ proven = legacy
    /\ links = [l \in Links |-> [state |-> "spent", user |-> None, purpose |-> "verify", mailed |-> FALSE]]
    /\ live = [e \in Emails |-> {}]
    /\ req = [r \in Requests |-> Idle]
    /\ owed = {}

-----------------------------------------------------------------------------
(* A request goes from one await to the next, or to its answer                 *)

\* the await after r's current one; "done" after the last
Following(r) ==
    LET path == Path(req[r].kind)
        i == CHOOSE j \in DOMAIN path : path[j] = req[r].at
    IN IF i = Len(path) THEN "done" ELSE path[i + 1]

GoTo(r, place) == req' = [req EXCEPT ![r] = IF place = "done" THEN Idle ELSE [@ EXCEPT !.at = place]]
Continue(r) == GoTo(r, Following(r))
Refuse(r) == GoTo(r, "done")

At(r, place) == req[r].at = place

\* the web pages send an address, a password or the secret of a mailed link
Send(r, kind, e, l, p) ==
    /\ At(r, "done")
    /\ req' = [req EXCEPT ![r] = [Idle EXCEPT !.kind = kind, !.at = "find", !.user = e,
                                              !.link = l, !.pw = p]]
    /\ UNCHANGED <<org, users, links, live, proven, owed>>

Mailed == {l \in Links : links[l].mailed}

SignupPage(r) == \E e \in Emails, p \in Passwords : Send(r, "signup", e, None, p)
LoginPage(r) == \E e \in Emails, p \in Passwords : Send(r, "login", e, None, p)
ForgotPasswordPage(r) == \E e \in Emails : Send(r, "forgot", e, None, None)
VerifyEmailPage(r) == \E l \in Mailed : Send(r, "verify", None, l, None)
ResetPasswordPage(r) == \E l \in Mailed, p \in Passwords : Send(r, "reset", None, l, p)

\* SignupUseCase: findByEmail
FindSignup(r) ==
    /\ At(r, "find") /\ req[r].kind = "signup"
    /\ IF users[req[r].user].status = "none" THEN Continue(r) ELSE Refuse(r)
    /\ UNCHANGED <<org, users, links, live, proven, owed>>

\* findBySlug: an organisation that is there already skips its creation
FindOrg(r) ==
    /\ At(r, "findOrg")
    /\ GoTo(r, IF org THEN "createUser" ELSE "createOrg")
    /\ UNCHANGED <<org, users, links, live, proven, owed>>

\* the unique slug refuses the second of two first signups
CreateOrg(r) ==
    /\ At(r, "createOrg")
    /\ IF org THEN Refuse(r) ELSE Continue(r)
    /\ org' = TRUE
    /\ UNCHANGED <<users, links, live, proven, owed>>

CreateUserDefault(r) ==               \* Mutant: the repository's default status
    LET e == req[r].user IN
      /\ At(r, "createUser")
      /\ IF users[e].status = "none"
         THEN /\ users' = [users EXCEPT ![e] = [status |-> "active", pw |-> req[r].pw]]
              /\ Continue(r)
         ELSE /\ users' = users /\ Refuse(r)
      /\ UNCHANGED <<org, links, live, proven, owed>>

\* the unique address refuses the second of two signups
CreateUser(r) ==
    LET e == req[r].user IN
      /\ At(r, "createUser")
      /\ IF users[e].status = "none"
         THEN /\ users' = [users EXCEPT ![e] = [status |-> "pending", pw |-> req[r].pw]]
              /\ Continue(r)
         ELSE /\ users' = users /\ Refuse(r)
      /\ UNCHANGED <<org, links, live, proven, owed>>

\* RequestPasswordResetUseCase: an unknown address is answered like a known one
FindForgot(r) ==
    /\ At(r, "find") /\ req[r].kind = "forgot"
    /\ IF users[req[r].user].status = "none" THEN Refuse(r) ELSE Continue(r)
    /\ UNCHANGED <<org, users, links, live, proven, owed>>

\* invalidateAllForUser: one UPDATE
Invalidate(r) ==
    /\ At(r, "invalidate")
    /\ links' = [l \in Links |->
                   IF links[l].user = req[r].user /\ links[l].purpose = "reset"
                   THEN [links[l] EXCEPT !.state = "spent"] ELSE links[l]]
    /\ Continue(r)
    /\ UNCHANGED <<org, users, live, proven, owed>>

CreateLink(r) ==
    /\ At(r, "createLink")
    /\ \E l \in Links :
         /\ links[l].state = "spent" /\ \A q \in Requests : req[q].link # l
         /\ links' = [links EXCEPT ![l] =
                        [state |-> "active", user |-> req[r].user, mailed |-> FALSE,
                         purpose |-> IF req[r].kind = "signup" THEN "verify" ELSE "reset"]]
         /\ req' = [req EXCEPT ![r] = [@ EXCEPT !.at = "mail", !.link = l]]
    /\ UNCHANGED <<org, users, live, proven, owed>>

\* the mail server takes the message, or fails, perhaps after having taken it
SendMail(r, taken) ==
    /\ At(r, "mail")
    /\ links' = [links EXCEPT ![req[r].link].mailed = taken]
    /\ Continue(r)
    /\ UNCHANGED <<org, users, live, proven, owed>>

-----------------------------------------------------------------------------
(* Verification, reset and login                                               *)

\* LoginUseCase: every check is made on the row read here
FindLogin(r) ==
    LET row == users[req[r].user] IN
      /\ At(r, "find") /\ req[r].kind = "login"
      /\ IF row.status = "active" /\ row.pw = req[r].pw THEN Continue(r) ELSE Refuse(r)
      /\ UNCHANGED <<org, users, links, live, proven, owed>>

\* findActiveByHash of a link for this purpose
FindLink(r) ==
    LET l == req[r].link IN
      /\ At(r, "find") /\ req[r].kind \in {"verify", "reset"}
      /\ IF links[l].state = "active" /\ links[l].purpose = req[r].kind
         THEN /\ req' = [req EXCEPT ![r] = [@ EXCEPT !.at = "findUser", !.user = links[l].user]]
              /\ proven' = proven \union {links[l].user}
         ELSE /\ proven' = proven /\ Refuse(r)
      /\ UNCHANGED <<org, users, links, live, owed>>

\* findById: ResetPasswordUseCase decides by this row whether it has to activate
FindUser(r) ==
    /\ At(r, "findUser")
    /\ req' = [req EXCEPT ![r] = [@ EXCEPT !.at = Following(r), !.seen = users[req[r].user].status]]
    /\ UNCHANGED <<org, users, links, live, proven, owed>>

MarkUsed(r) ==
    /\ At(r, "markUsed")
    /\ links' = [links EXCEPT ![req[r].link].state = "spent"]
    /\ Continue(r)
    /\ UNCHANGED <<org, users, live, proven, owed>>

SetPassword(r) ==
    /\ At(r, "setPassword")
    /\ users' = [users EXCEPT ![req[r].user].pw = req[r].pw]
    /\ GoTo(r, IF req[r].seen = "active" THEN "revoke" ELSE Following(r))
    /\ UNCHANGED <<org, links, live, proven, owed>>

Activate(r) ==
    /\ At(r, "activate")
    /\ users' = [users EXCEPT ![req[r].user].status = "active"]
    /\ Continue(r)
    /\ UNCHANGED <<org, links, live, proven, owed>>

\* revokeAllByName: one UPDATE
Revoke(r) ==
    /\ At(r, "revoke")
    /\ live' = [live EXCEPT ![req[r].user] = {}]
    /\ Continue(r)
    /\ UNCHANGED <<org, users, links, proven, owed>>

SessionKeepsNone(r) ==                \* Mutant: the old sessions are revoked after the new one is made
    /\ At(r, "session")
    /\ live' = [live EXCEPT ![req[r].user] = {}]
    /\ owed' = owed \union {req[r].user}
    /\ Continue(r)
    /\ UNCHANGED <<org, users, links, proven>>

\* CreateApiTokenUseCase; the answer sets the session cookie
Session(r) ==
    /\ At(r, "session")
    /\ live' = [live EXCEPT ![req[r].user] = @ \union {r}]
    /\ owed' = owed \union {req[r].user}
    /\ Continue(r)
    /\ UNCHANGED <<org, users, links, proven>>

-----------------------------------------------------------------------------
\* the database refuses the statement, or the API process is gone: what was written stays
Fail(r) ==
    /\ ~At(r, "done")
    /\ owed' = IF At(r, "session") THEN owed \ {req[r].user} ELSE owed
    /\ Refuse(r)
    /\ UNCHANGED <<org, users, links, live, proven>>

\* expiresAt has come
Expire(l) ==
    /\ links[l].state = "active"
    /\ links' = [links EXCEPT ![l].state = "spent"]
    /\ UNCHANGED <<org, users, live, req, proven, owed>>

Step(r) == \/ FindSignup(r) \/ FindOrg(r) \/ CreateOrg(r) \/ CreateUser(r)
           \/ FindForgot(r) \/ Invalidate(r) \/ CreateLink(r)
           \/ \E taken \in BOOLEAN : SendMail(r, taken)
           \/ FindLogin(r) \/ FindLink(r) \/ FindUser(r) \/ MarkUsed(r)
           \/ SetPassword(r) \/ Activate(r) \/ Revoke(r) \/ Session(r)

Open(r) == \/ SignupPage(r) \/ LoginPage(r) \/ ForgotPasswordPage(r)
           \/ VerifyEmailPage(r) \/ ResetPasswordPage(r)

AccountsNext ==
    \/ \E r \in Requests : Open(r) \/ Step(r) \/ Fail(r)
    \/ \E l \in Links : Expire(l)

AccountsSpec == AccountsInit /\ [][AccountsNext]_accountVars

-----------------------------------------------------------------------------
\* Nobody gets in before the inbox was shown to be theirs (docs/adr/0041: "Email
\* verification blocks login"), whichever requests overlap or fail half-way.
SessionsAreEarned ==
    /\ \A e \in Emails : users[e].status = "active" => e \in proven
    /\ \A e \in Emails : live[e] # {} => users[e].status = "active"

\* Logins, verifications and resets of one user revoke each other's sessions. When they
\* have all been answered, at least one of the sessions they handed out works.
LastLoginWorks ==
    \A e \in owed :
      \/ live[e] # {}
      \/ \E r \in Requests : At(r, "session") /\ req[r].user = e

-----------------------------------------------------------------------------
(* The inductive invariant                                                     *)

\* an active link is somebody's, and only requests with a link carry its secret
LinksAreOwned ==
    /\ \A l \in Links : links[l].state = "active" => links[l].user \in Emails
    /\ \A r \in Requests : ~At(r, "done") /\ req[r].kind \in {"verify", "reset"} => req[r].link \in Links

Awaits(kind) == {Path(kind)[i] : i \in DOMAIN Path(kind)}

\* a request is at an await of its use case, and knows its user once it has looked up its link
OnItsPath ==
    \A r \in Requests : ~At(r, "done") =>
      /\ req[r].at \in Awaits(req[r].kind)
      /\ ~(At(r, "find") /\ req[r].kind \in {"verify", "reset"}) => req[r].user \in Emails

\* what a request still has to do was earned by what it did: a link opened before anything is
\* written, an active row seen or written before sessions are touched
EarnedSoFar ==
    \A r \in Requests :
      /\ req[r].at \in {"findUser", "markUsed", "activate", "setPassword"} => req[r].user \in proven
      /\ req[r].at \in {"markUsed", "setPassword"} /\ req[r].seen = "active"
           => users[req[r].user].status = "active"
      /\ req[r].at \in {"revoke", "session"} => users[req[r].user].status = "active"

AccountsInv ==
    /\ AccountsTypeOK /\ LinksAreOwned /\ OnItsPath /\ EarnedSoFar
    /\ SessionsAreEarned /\ LastLoginWorks
=============================================================================
