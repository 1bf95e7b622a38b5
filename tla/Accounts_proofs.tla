-------------------------- MODULE Accounts_proofs --------------------------
(***************************************************************************)
(* Proofs about Accounts, for any addresses, passwords, links and number   *)
(* of requests in flight.                                                  *)
(***************************************************************************)
EXTENDS Accounts, TLAPS

\* The place of an await that occurs once on a path is the one CHOOSE finds.
LEMMA PlaceOnPath ==
  ASSUME NEW path, NEW k \in DOMAIN path, \A j \in DOMAIN path : path[j] = path[k] => j = k
  PROVE  (CHOOSE j \in DOMAIN path : path[j] = path[k]) = k
<1> DEFINE P(j) == j \in DOMAIN path /\ path[j] = path[k]
<1>1. P(k)
  OBVIOUS
<1>2. P(CHOOSE j : P(j))
  BY <1>1
<1>3. (CHOOSE j \in DOMAIN path : path[j] = path[k]) = (CHOOSE j : P(j))
  OBVIOUS
<1> QED
  BY <1>2, <1>3

\* The await that follows one is the next on the path of its use case.
LEMMA FollowingOnPath ==
  ASSUME NEW r \in Requests, NEW path, Path(req[r].kind) = path,
         \A i, j \in DOMAIN path : path[i] = path[j] => i = j
  PROVE  \A k \in DOMAIN path :
            At(r, path[k]) => Following(r) = IF k = Len(path) THEN "done" ELSE path[k + 1]
<1> SUFFICES ASSUME NEW k \in DOMAIN path, At(r, path[k])
             PROVE  Following(r) = IF k = Len(path) THEN "done" ELSE path[k + 1]
  OBVIOUS
<1>1. (CHOOSE j \in DOMAIN path : path[j] = path[k]) = k
  BY PlaceOnPath
<1>2. req[r].at = path[k]
  BY DEF At
<1> QED
  BY <1>1, <1>2 DEF Following

-----------------------------------------------------------------------------
(* The awaits of the use cases, one after the other                           *)

\* A signup ends with its mail.
LEMMA AfterSignup ==
  ASSUME NEW r \in Requests, req[r].kind = "signup"
  PROVE  /\ At(r, "find") => Following(r) = "findOrg"
         /\ At(r, "findOrg") => Following(r) = "createOrg"
         /\ At(r, "createOrg") => Following(r) = "createUser"
         /\ At(r, "createUser") => Following(r) = "createLink"
         /\ At(r, "createLink") => Following(r) = "mail"
         /\ At(r, "mail") => Following(r) = "done"
         /\ Awaits(req[r].kind) = {"find", "findOrg", "createOrg", "createUser", "createLink", "mail"}
<1> DEFINE path == <<"find", "findOrg", "createOrg", "createUser", "createLink", "mail">>
<1>1. Path(req[r].kind) = path
  BY DEF Path, SignupUseCase
<1>2. \A k \in DOMAIN path :
        At(r, path[k]) => Following(r) = IF k = Len(path) THEN "done" ELSE path[k + 1]
  <2>1. \A i, j \in DOMAIN path : path[i] = path[j] => i = j
    OBVIOUS
  <2> HIDE DEF path
  <2> QED
    BY <1>1, <2>1, FollowingOnPath
<1>3. At(r, path[1]) => Following(r) = path[2]
  BY <1>2
<1>4. At(r, path[2]) => Following(r) = path[3]
  BY <1>2
<1>5. At(r, path[3]) => Following(r) = path[4]
  BY <1>2
<1>6. At(r, path[4]) => Following(r) = path[5]
  BY <1>2
<1>7. At(r, path[5]) => Following(r) = path[6]
  BY <1>2
<1>8. At(r, path[6]) => Following(r) = "done"
  BY <1>2
<1>9. Awaits(req[r].kind) = {"find", "findOrg", "createOrg", "createUser", "createLink", "mail"}
  BY <1>1 DEF Awaits
<1> QED
  BY <1>3, <1>4, <1>5, <1>6, <1>7, <1>8, <1>9

\* A verification activates, revokes, and only then hands out a session.
LEMMA AfterVerify ==
  ASSUME NEW r \in Requests, req[r].kind = "verify"
  PROVE  /\ At(r, "find") => Following(r) = "findUser"
         /\ At(r, "findUser") => Following(r) = "markUsed"
         /\ At(r, "markUsed") => Following(r) = "activate"
         /\ At(r, "activate") => Following(r) = "revoke"
         /\ At(r, "revoke") => Following(r) = "session"
         /\ At(r, "session") => Following(r) = "done"
         /\ Awaits(req[r].kind) = {"find", "findUser", "markUsed", "activate", "revoke", "session"}
<1> DEFINE path == <<"find", "findUser", "markUsed", "activate", "revoke", "session">>
<1>1. Path(req[r].kind) = path
  BY DEF Path, VerifyEmailUseCase
<1>2. \A k \in DOMAIN path :
        At(r, path[k]) => Following(r) = IF k = Len(path) THEN "done" ELSE path[k + 1]
  <2>1. \A i, j \in DOMAIN path : path[i] = path[j] => i = j
    OBVIOUS
  <2> HIDE DEF path
  <2> QED
    BY <1>1, <2>1, FollowingOnPath
<1>3. At(r, path[1]) => Following(r) = path[2]
  BY <1>2
<1>4. At(r, path[2]) => Following(r) = path[3]
  BY <1>2
<1>5. At(r, path[3]) => Following(r) = path[4]
  BY <1>2
<1>6. At(r, path[4]) => Following(r) = path[5]
  BY <1>2
<1>7. At(r, path[5]) => Following(r) = path[6]
  BY <1>2
<1>8. At(r, path[6]) => Following(r) = "done"
  BY <1>2
<1>9. Awaits(req[r].kind) = {"find", "findUser", "markUsed", "activate", "revoke", "session"}
  BY <1>1 DEF Awaits
<1> QED
  BY <1>3, <1>4, <1>5, <1>6, <1>7, <1>8, <1>9

\* A login revokes before it hands out a session.
LEMMA AfterLogin ==
  ASSUME NEW r \in Requests, req[r].kind = "login"
  PROVE  /\ At(r, "find") => Following(r) = "revoke"
         /\ At(r, "revoke") => Following(r) = "session"
         /\ At(r, "session") => Following(r) = "done"
         /\ Awaits(req[r].kind) = {"find", "revoke", "session"}
<1> DEFINE path == <<"find", "revoke", "session">>
<1>1. Path(req[r].kind) = path
  BY DEF Path, LoginUseCase
<1>2. \A k \in DOMAIN path :
        At(r, path[k]) => Following(r) = IF k = Len(path) THEN "done" ELSE path[k + 1]
  <2>1. \A i, j \in DOMAIN path : path[i] = path[j] => i = j
    OBVIOUS
  <2> HIDE DEF path
  <2> QED
    BY <1>1, <2>1, FollowingOnPath
<1>3. At(r, path[1]) => Following(r) = path[2]
  BY <1>2
<1>4. At(r, path[2]) => Following(r) = path[3]
  BY <1>2
<1>5. At(r, path[3]) => Following(r) = "done"
  BY <1>2
<1>6. Awaits(req[r].kind) = {"find", "revoke", "session"}
  BY <1>1 DEF Awaits
<1> QED
  BY <1>3, <1>4, <1>5, <1>6

\* A forgotten password touches no session.
LEMMA AfterForgot ==
  ASSUME NEW r \in Requests, req[r].kind = "forgot"
  PROVE  /\ At(r, "find") => Following(r) = "invalidate"
         /\ At(r, "invalidate") => Following(r) = "createLink"
         /\ At(r, "createLink") => Following(r) = "mail"
         /\ At(r, "mail") => Following(r) = "done"
         /\ Awaits(req[r].kind) = {"find", "invalidate", "createLink", "mail"}
<1> DEFINE path == <<"find", "invalidate", "createLink", "mail">>
<1>1. Path(req[r].kind) = path
  BY DEF Path, RequestPasswordResetUseCase
<1>2. \A k \in DOMAIN path :
        At(r, path[k]) => Following(r) = IF k = Len(path) THEN "done" ELSE path[k + 1]
  <2>1. \A i, j \in DOMAIN path : path[i] = path[j] => i = j
    OBVIOUS
  <2> HIDE DEF path
  <2> QED
    BY <1>1, <2>1, FollowingOnPath
<1>3. At(r, path[1]) => Following(r) = path[2]
  BY <1>2
<1>4. At(r, path[2]) => Following(r) = path[3]
  BY <1>2
<1>5. At(r, path[3]) => Following(r) = path[4]
  BY <1>2
<1>6. At(r, path[4]) => Following(r) = "done"
  BY <1>2
<1>7. Awaits(req[r].kind) = {"find", "invalidate", "createLink", "mail"}
  BY <1>1 DEF Awaits
<1> QED
  BY <1>3, <1>4, <1>5, <1>6, <1>7

\* A reset sets the password before it activates or revokes.
LEMMA AfterReset ==
  ASSUME NEW r \in Requests, req[r].kind = "reset"
  PROVE  /\ At(r, "find") => Following(r) = "findUser"
         /\ At(r, "findUser") => Following(r) = "markUsed"
         /\ At(r, "markUsed") => Following(r) = "setPassword"
         /\ At(r, "setPassword") => Following(r) = "activate"
         /\ At(r, "activate") => Following(r) = "revoke"
         /\ At(r, "revoke") => Following(r) = "session"
         /\ At(r, "session") => Following(r) = "done"
         /\ Awaits(req[r].kind) = {"find", "findUser", "markUsed", "setPassword", "activate",
                                      "revoke", "session"}
<1> DEFINE path == <<"find", "findUser", "markUsed", "setPassword", "activate", "revoke", "session">>
<1>1. Path(req[r].kind) = path
  BY DEF Path, ResetPasswordUseCase
<1>2. \A k \in DOMAIN path :
        At(r, path[k]) => Following(r) = IF k = Len(path) THEN "done" ELSE path[k + 1]
  <2>1. \A i, j \in DOMAIN path : path[i] = path[j] => i = j
    OBVIOUS
  <2> HIDE DEF path
  <2> QED
    BY <1>1, <2>1, FollowingOnPath
<1>3. At(r, path[1]) => Following(r) = path[2]
  BY <1>2
<1>4. At(r, path[2]) => Following(r) = path[3]
  BY <1>2
<1>5. At(r, path[3]) => Following(r) = path[4]
  BY <1>2
<1>6. At(r, path[4]) => Following(r) = path[5]
  BY <1>2
<1>7. At(r, path[5]) => Following(r) = path[6]
  BY <1>2
<1>8. At(r, path[6]) => Following(r) = path[7]
  BY <1>2
<1>9. At(r, path[7]) => Following(r) = "done"
  BY <1>2
<1>10. Awaits(req[r].kind) = {"find", "findUser", "markUsed", "setPassword", "activate",
                              "revoke", "session"}
  BY <1>1 DEF Awaits
<1> QED
  BY <1>3, <1>4, <1>5, <1>6, <1>7, <1>8, <1>9, <1>10

\* No path has an await called "done", and one without a use case has none.
LEMMA KindOfRequest ==
  ASSUME AccountsTypeOK, OnItsPath, NEW r \in Requests, ~At(r, "done")
  PROVE  req[r].kind \in Kinds
<1>1. req[r].kind \in Kinds \union {"none"}
  BY DEF AccountsTypeOK
<1>2. req[r].kind = "none" => Path(req[r].kind) = <<>>
  BY DEF Path
<1>3. req[r].kind = "none" => Awaits(req[r].kind) = {}
  BY <1>2 DEF Awaits
<1> QED
  BY <1>1, <1>3 DEF OnItsPath

\* What the proofs need of a step of a request: where it goes from each await.
LEMMA NextAwait ==
  ASSUME AccountsTypeOK, OnItsPath, NEW r \in Requests
  PROVE  /\ At(r, "findUser") => /\ Following(r) = "markUsed"
                                 /\ req[r].kind \in {"verify", "reset"}
         /\ At(r, "markUsed") => \/ req[r].kind = "verify" /\ Following(r) = "activate"
                                 \/ req[r].kind = "reset" /\ Following(r) = "setPassword"
         /\ At(r, "setPassword") => Following(r) = "activate" /\ req[r].kind = "reset"
         /\ At(r, "activate") => Following(r) = "revoke" /\ req[r].kind \in {"verify", "reset"}
         /\ At(r, "revoke") => /\ Following(r) = "session"
                               /\ req[r].kind \in {"verify", "login", "reset"}
         /\ At(r, "session") => /\ Following(r) = "done"
                                /\ req[r].kind \in {"verify", "login", "reset"}
         /\ At(r, "find") /\ req[r].kind = "signup" => Following(r) = "findOrg"
         /\ At(r, "find") /\ req[r].kind = "forgot" => Following(r) = "invalidate"
         /\ At(r, "find") /\ req[r].kind = "login" => Following(r) = "revoke"
         /\ At(r, "findOrg") => req[r].kind = "signup"
         /\ At(r, "createOrg") => Following(r) = "createUser" /\ req[r].kind = "signup"
         /\ At(r, "createUser") => Following(r) = "createLink" /\ req[r].kind = "signup"
         /\ At(r, "invalidate") => Following(r) = "createLink" /\ req[r].kind = "forgot"
         /\ At(r, "createLink") => req[r].kind \in {"signup", "forgot"}
         /\ At(r, "mail") => Following(r) = "done" /\ req[r].kind \in {"signup", "forgot"}
<1>1. CASE At(r, "done")
  BY <1>1 DEF At
<1>2. CASE ~At(r, "done")
  <2>1. req[r].kind \in {"signup", "verify", "login", "forgot", "reset"}
    BY <1>2, KindOfRequest DEF Kinds
  <2>2. CASE req[r].kind = "signup"
    BY <1>2, <2>2, AfterSignup DEF At, OnItsPath
  <2>3. CASE req[r].kind = "verify"
    BY <1>2, <2>3, AfterVerify DEF At, OnItsPath
  <2>4. CASE req[r].kind = "login"
    BY <1>2, <2>4, AfterLogin DEF At, OnItsPath
  <2>5. CASE req[r].kind = "forgot"
    BY <1>2, <2>5, AfterForgot DEF At, OnItsPath
  <2>6. CASE req[r].kind = "reset"
    BY <1>2, <2>6, AfterReset DEF At, OnItsPath
  <2> QED
    BY <2>1, <2>2, <2>3, <2>4, <2>5, <2>6
<1> QED
  BY <1>1, <1>2

\* Every use case begins with a lookup.
LEMMA FindIsFirst == ASSUME NEW kind \in Kinds PROVE "find" \in Awaits(kind)
<1>1. Path(kind)[1] = "find" /\ 1 \in DOMAIN Path(kind)
  BY DEF Kinds, Path, SignupUseCase, VerifyEmailUseCase, LoginUseCase,
     RequestPasswordResetUseCase, ResetPasswordUseCase
<1> QED
  BY <1>1 DEF Awaits

\* All awaits have a name in Places.
LEMMA AwaitsAreKnown ==
  ASSUME AccountsTypeOK, OnItsPath, NEW r \in Requests, ~At(r, "done")
  PROVE  Awaits(req[r].kind) \subseteq Places
<1>1. req[r].kind \in {"signup", "verify", "login", "forgot", "reset"}
  BY KindOfRequest DEF Kinds
<1> QED
  BY <1>1, AfterSignup, AfterVerify, AfterLogin, AfterForgot, AfterReset DEF Places

\* After the last await of a path comes the answer.
LEMMA Onward ==
  ASSUME AccountsTypeOK, OnItsPath, NEW r \in Requests, ~At(r, "done")
  PROVE  Following(r) = "done" \/ Following(r) \in Awaits(req[r].kind)
<1>1. req[r].kind \in {"signup", "verify", "login", "forgot", "reset"}
  BY KindOfRequest DEF Kinds
<1>2. req[r].at \in Awaits(req[r].kind)
  BY DEF OnItsPath
<1>3. CASE req[r].kind = "signup"
  BY <1>2, <1>3, AfterSignup DEF At
<1>4. CASE req[r].kind = "verify"
  BY <1>2, <1>4, AfterVerify DEF At
<1>5. CASE req[r].kind = "login"
  BY <1>2, <1>5, AfterLogin DEF At
<1>6. CASE req[r].kind = "forgot"
  BY <1>2, <1>6, AfterForgot DEF At
<1>7. CASE req[r].kind = "reset"
  BY <1>2, <1>7, AfterReset DEF At
<1> QED
  BY <1>1, <1>3, <1>4, <1>5, <1>6, <1>7

-----------------------------------------------------------------------------
(* The invariant                                                              *)

RequestRecord == [kind : Kinds \union {"none"}, at : Places, user : Emails \union {None},
                  link : Links \union {None}, pw : Passwords \union {None},
                  seen : {"none", "pending", "active"}]

ReqType == req \in [Requests -> RequestRecord]

HasLink == \A r \in Requests :
             ~At(r, "done") /\ req[r].kind \in {"verify", "reset"} => req[r].link \in Links

\* A request that knows its user goes on along its path, or is answered.
LEMMA Moves ==
  ASSUME AccountsTypeOK, OnItsPath, HasLink, NEW r \in Requests, ~At(r, "done"), req[r].user \in Emails,
         NEW place, place = "done" \/ place \in Awaits(req[r].kind), GoTo(r, place)
  PROVE  /\ ReqType' /\ OnItsPath' /\ HasLink'
         /\ \A q \in Requests : q # r => req'[q] = req[q]
         /\ req'[r] = IF place = "done" THEN Idle ELSE [req[r] EXCEPT !.at = place]
<1>1. place \in Places
  BY AwaitsAreKnown DEF Places
<1>2. Idle \in RequestRecord
  BY DEF Idle, Places, RequestRecord
<1>3. ReqType'
  <2>1. req[r] \in RequestRecord
    BY DEF AccountsTypeOK, RequestRecord
  <2>2. [req[r] EXCEPT !.at = place] \in RequestRecord
    BY <1>1, <2>1 DEF RequestRecord
  <2>3. (IF place = "done" THEN Idle ELSE [req[r] EXCEPT !.at = place]) \in RequestRecord
    BY <1>2, <2>2
  <2>4. req \in [Requests -> RequestRecord]
    BY DEF AccountsTypeOK, RequestRecord
  <2>5. RequestRecord' = RequestRecord
    BY DEF RequestRecord
  <2> QED
    BY <2>3, <2>4, <2>5 DEF ReqType, GoTo
<1>4. \A q \in Requests : q # r => req'[q] = req[q]
  BY DEF AccountsTypeOK, GoTo
<1>5. req'[r] = IF place = "done" THEN Idle ELSE [req[r] EXCEPT !.at = place]
  BY DEF AccountsTypeOK, GoTo
<1>6. OnItsPath'
  <2> SUFFICES ASSUME NEW q \in Requests, ~(At(q, "done"))'
               PROVE  /\ req'[q].at \in Awaits(req'[q].kind)
                      /\ ~(At(q, "find") /\ req[q].kind \in {"verify", "reset"})' => req'[q].user \in Emails
    BY DEF OnItsPath, Awaits, Path, SignupUseCase, VerifyEmailUseCase, LoginUseCase,
       RequestPasswordResetUseCase, ResetPasswordUseCase
  <2>1. CASE q # r
    BY <1>4, <2>1 DEF OnItsPath, At
  <2>2. CASE q = r
    BY <1>5, <2>2 DEF At, Idle, AccountsTypeOK
  <2> QED
    BY <2>1, <2>2
<1>7. HasLink'
  BY <1>4, <1>5 DEF HasLink, At, Idle, AccountsTypeOK
<1> QED
  BY <1>3, <1>4, <1>5, <1>6, <1>7

\* An empty database, or one with accounts from before passwords, satisfies the invariant.
LEMMA InvInit == AccountsInit => AccountsInv
<1> SUFFICES ASSUME AccountsInit PROVE AccountsInv
  OBVIOUS
<1>1. AccountsTypeOK
  BY DEF AccountsInit, AccountsTypeOK, Idle, Places
<1>2. LinksAreOwned /\ OnItsPath /\ EarnedSoFar
  BY DEF AccountsInit, LinksAreOwned, OnItsPath, EarnedSoFar, Idle, At
<1>3. SessionsAreEarned /\ LastLoginWorks
  BY DEF AccountsInit, SessionsAreEarned, LastLoginWorks
<1> QED
  BY <1>1, <1>2, <1>3 DEF AccountsInv

\* The pages send a request for an address, or for a link that was mailed.
LEMMA OpenStep == ASSUME AccountsInv, NEW r \in Requests, Open(r) PROVE AccountsInv'
<1> USE DEF AccountsInv
<1>1. PICK kind \in Kinds, e \in Emails \union {None}, l \in Links \union {None},
           p \in Passwords \union {None} :
        /\ Send(r, kind, e, l, p)
        /\ IF kind \in {"verify", "reset"} THEN l \in Links ELSE e \in Emails
  BY DEF Open, SignupPage, LoginPage, ForgotPasswordPage, VerifyEmailPage, ResetPasswordPage,
     Kinds, Mailed
<1>2. req'[r] = [kind |-> kind, at |-> "find", user |-> e, link |-> l, pw |-> p, seen |-> "none"]
  BY <1>1 DEF Send, Idle, AccountsTypeOK
<1>3. At(r, "done") /\ \A q \in Requests : q # r => req'[q] = req[q]
  BY <1>1 DEF Send, AccountsTypeOK
<1>4. AccountsTypeOK'
  BY <1>1 DEF Send, Idle, AccountsTypeOK, Places
<1>5. LinksAreOwned'
  BY <1>1, <1>2, <1>3 DEF Send, LinksAreOwned, At
<1>6. OnItsPath'
  <2>1. "find" \in Awaits(kind)
    BY FindIsFirst
  <2>2. \A k : Awaits(k)' = Awaits(k)
    BY DEF Awaits, Path, SignupUseCase, VerifyEmailUseCase, LoginUseCase,
       RequestPasswordResetUseCase, ResetPasswordUseCase
  <2> QED
    BY <1>1, <1>2, <1>3, <2>1, <2>2 DEF OnItsPath, At
<1>7. EarnedSoFar'
  BY <1>1, <1>2, <1>3 DEF Send, EarnedSoFar, At
<1>8. SessionsAreEarned' /\ LastLoginWorks'
  BY <1>1, <1>2, <1>3 DEF Send, SessionsAreEarned, LastLoginWorks, At
<1> QED
  BY <1>4, <1>5, <1>6, <1>7, <1>8

\* A step that leaves sessions alone, of a request that is not about to hand one out.
LEMMA StillOwed ==
  ASSUME LastLoginWorks, NEW r \in Requests, ~At(r, "session"), UNCHANGED <<live, owed>>,
         \A q \in Requests : q # r => req'[q] = req[q]
  PROVE  LastLoginWorks'
<1> SUFFICES ASSUME NEW e \in owed, live[e] = {}
             PROVE  \E q \in Requests : req'[q].at = "session" /\ req'[q].user = e
  BY DEF LastLoginWorks, At
<1>1. PICK q \in Requests : At(q, "session") /\ req[q].user = e
  BY DEF LastLoginWorks
<1>2. req'[q] = req[q]
  BY <1>1
<1> QED
  BY <1>1, <1>2 DEF At

LinkRecord == [state : {"active", "spent"}, user : Emails \union {None},
               purpose : {"verify", "reset"}, mailed : BOOLEAN]

\* The lookup of a signup.
LEMMA FindSignupStep == ASSUME AccountsInv, NEW r \in Requests, FindSignup(r) PROVE AccountsInv'
<1> USE DEF AccountsInv
<1>1. /\ At(r, "find") /\ req[r].kind = "signup"
      /\ ~At(r, "done") /\ req[r].user \in Emails /\ HasLink
  BY DEF FindSignup, At, OnItsPath, HasLink, LinksAreOwned
<1> DEFINE place == IF users[req[r].user].status = "none" THEN Following(r) ELSE "done"
<1>2. (place = "done" \/ place \in Awaits(req[r].kind)) /\ GoTo(r, place)
  BY <1>1, Onward, NextAwait DEF FindSignup, Continue, Refuse, At
<1> HIDE DEF place
<1>3. /\ ReqType' /\ OnItsPath' /\ HasLink'
      /\ \A q \in Requests : q # r => req'[q] = req[q]
      /\ req'[r] = IF place = "done" THEN Idle ELSE [req[r] EXCEPT !.at = place]
  BY <1>1, <1>2, Moves
<1>4. AccountsTypeOK'
  BY <1>1, <1>3 DEF AccountsTypeOK, FindSignup, ReqType, RequestRecord
<1>5. LinksAreOwned'
  BY <1>1, <1>3 DEF LinksAreOwned, HasLink, AccountsTypeOK, FindSignup
<1>6. EarnedSoFar'
  BY <1>1, <1>3, NextAwait DEF place, EarnedSoFar, FindSignup, At, Idle, AccountsTypeOK
<1>7. SessionsAreEarned'
  BY <1>1, NextAwait DEF SessionsAreEarned, EarnedSoFar, FindSignup, At, AccountsTypeOK
<1>8. LastLoginWorks'
  <2>1. ~At(r, "session")
    BY <1>1 DEF At
  <2> QED
    BY <1>3, <2>1, StillOwed DEF FindSignup
<1> QED
  BY <1>3, <1>4, <1>5, <1>6, <1>7, <1>8

\* The lookup of the organisation.
LEMMA FindOrgStep == ASSUME AccountsInv, NEW r \in Requests, FindOrg(r) PROVE AccountsInv'
<1> USE DEF AccountsInv
<1>1. /\ At(r, "findOrg") /\ req[r].kind = "signup"
      /\ ~At(r, "done") /\ req[r].user \in Emails /\ HasLink
  BY NextAwait DEF FindOrg, At, OnItsPath, HasLink, LinksAreOwned
<1> DEFINE place == IF org THEN "createUser" ELSE "createOrg"
<1>2. (place = "done" \/ place \in Awaits(req[r].kind)) /\ GoTo(r, place)
  BY <1>1, Onward, NextAwait, AfterSignup DEF FindOrg, Continue, Refuse, At
<1> HIDE DEF place
<1>3. /\ ReqType' /\ OnItsPath' /\ HasLink'
      /\ \A q \in Requests : q # r => req'[q] = req[q]
      /\ req'[r] = IF place = "done" THEN Idle ELSE [req[r] EXCEPT !.at = place]
  BY <1>1, <1>2, Moves
<1>4. AccountsTypeOK'
  BY <1>1, <1>3 DEF AccountsTypeOK, FindOrg, ReqType, RequestRecord
<1>5. LinksAreOwned'
  BY <1>1, <1>3 DEF LinksAreOwned, HasLink, AccountsTypeOK, FindOrg
<1>6. EarnedSoFar'
  BY <1>1, <1>3, NextAwait DEF place, EarnedSoFar, FindOrg, At, Idle, AccountsTypeOK
<1>7. SessionsAreEarned'
  BY <1>1, NextAwait DEF SessionsAreEarned, EarnedSoFar, FindOrg, At, AccountsTypeOK
<1>8. LastLoginWorks'
  <2>1. ~At(r, "session")
    BY <1>1 DEF At
  <2> QED
    BY <1>3, <2>1, StillOwed DEF FindOrg
<1> QED
  BY <1>3, <1>4, <1>5, <1>6, <1>7, <1>8

\* The organisation.
LEMMA CreateOrgStep == ASSUME AccountsInv, NEW r \in Requests, CreateOrg(r) PROVE AccountsInv'
<1> USE DEF AccountsInv
<1>1. /\ At(r, "createOrg")
      /\ ~At(r, "done") /\ req[r].user \in Emails /\ HasLink
  BY DEF CreateOrg, At, OnItsPath, HasLink, LinksAreOwned
<1> DEFINE place == IF org THEN "done" ELSE Following(r)
<1>2. (place = "done" \/ place \in Awaits(req[r].kind)) /\ GoTo(r, place)
  BY <1>1, Onward, NextAwait DEF CreateOrg, Continue, Refuse, At
<1> HIDE DEF place
<1>3. /\ ReqType' /\ OnItsPath' /\ HasLink'
      /\ \A q \in Requests : q # r => req'[q] = req[q]
      /\ req'[r] = IF place = "done" THEN Idle ELSE [req[r] EXCEPT !.at = place]
  BY <1>1, <1>2, Moves
<1>4. AccountsTypeOK'
  BY <1>1, <1>3 DEF AccountsTypeOK, CreateOrg, ReqType, RequestRecord
<1>5. LinksAreOwned'
  BY <1>1, <1>3 DEF LinksAreOwned, HasLink, AccountsTypeOK, CreateOrg
<1>6. EarnedSoFar'
  BY <1>1, <1>3, NextAwait DEF place, EarnedSoFar, CreateOrg, At, Idle, AccountsTypeOK
<1>7. SessionsAreEarned'
  BY <1>1, NextAwait DEF SessionsAreEarned, EarnedSoFar, CreateOrg, At, AccountsTypeOK
<1>8. LastLoginWorks'
  <2>1. ~At(r, "session")
    BY <1>1 DEF At
  <2> QED
    BY <1>3, <2>1, StillOwed DEF CreateOrg
<1> QED
  BY <1>3, <1>4, <1>5, <1>6, <1>7, <1>8

\* A user row is created pending, so that nobody gets in by it.
LEMMA CreateUserStep == ASSUME AccountsInv, NEW r \in Requests, CreateUser(r) PROVE AccountsInv'
<1> USE DEF AccountsInv
<1>1. /\ At(r, "createUser")
      /\ ~At(r, "done") /\ req[r].user \in Emails /\ HasLink
  BY DEF CreateUser, At, OnItsPath, HasLink, LinksAreOwned
<1> DEFINE place == IF users[req[r].user].status = "none" THEN Following(r) ELSE "done"
<1>2. (place = "done" \/ place \in Awaits(req[r].kind)) /\ GoTo(r, place)
  BY <1>1, Onward, NextAwait DEF CreateUser, Continue, Refuse, At
<1> HIDE DEF place
<1>3. /\ ReqType' /\ OnItsPath' /\ HasLink'
      /\ \A q \in Requests : q # r => req'[q] = req[q]
      /\ req'[r] = IF place = "done" THEN Idle ELSE [req[r] EXCEPT !.at = place]
  BY <1>1, <1>2, Moves
<1>4. AccountsTypeOK'
  BY <1>1, <1>3 DEF AccountsTypeOK, CreateUser, ReqType, RequestRecord
<1>5. LinksAreOwned'
  BY <1>1, <1>3 DEF LinksAreOwned, HasLink, AccountsTypeOK, CreateUser
<1>6. EarnedSoFar'
  <2>1. \A e \in Emails : users[e].status = "active" => users'[e].status = "active"
    BY DEF CreateUser, AccountsTypeOK
  <2>2. ~(req'[r].at \in {"findUser", "markUsed", "activate", "setPassword", "revoke", "session"})
    BY <1>1, <1>3, NextAwait DEF place, Idle, At, AccountsTypeOK
  <2>3. \A q \in Requests : req[q].at \in {"markUsed", "setPassword", "revoke", "session"}
                              => req[q].user \in Emails
    BY DEF OnItsPath, At
  <2> QED
    BY <1>3, <2>1, <2>2, <2>3 DEF EarnedSoFar, CreateUser
<1>7. SessionsAreEarned'
  BY <1>1, NextAwait DEF SessionsAreEarned, EarnedSoFar, CreateUser, At, AccountsTypeOK
<1>8. LastLoginWorks'
  <2>1. ~At(r, "session")
    BY <1>1 DEF At
  <2> QED
    BY <1>3, <2>1, StillOwed DEF CreateUser
<1> QED
  BY <1>3, <1>4, <1>5, <1>6, <1>7, <1>8

\* The lookup of a forgotten password.
LEMMA FindForgotStep == ASSUME AccountsInv, NEW r \in Requests, FindForgot(r) PROVE AccountsInv'
<1> USE DEF AccountsInv
<1>1. /\ At(r, "find") /\ req[r].kind = "forgot"
      /\ ~At(r, "done") /\ req[r].user \in Emails /\ HasLink
  BY DEF FindForgot, At, OnItsPath, HasLink, LinksAreOwned
<1> DEFINE place == IF users[req[r].user].status = "none" THEN "done" ELSE Following(r)
<1>2. (place = "done" \/ place \in Awaits(req[r].kind)) /\ GoTo(r, place)
  BY <1>1, Onward, NextAwait DEF FindForgot, Continue, Refuse, At
<1> HIDE DEF place
<1>3. /\ ReqType' /\ OnItsPath' /\ HasLink'
      /\ \A q \in Requests : q # r => req'[q] = req[q]
      /\ req'[r] = IF place = "done" THEN Idle ELSE [req[r] EXCEPT !.at = place]
  BY <1>1, <1>2, Moves
<1>4. AccountsTypeOK'
  BY <1>1, <1>3 DEF AccountsTypeOK, FindForgot, ReqType, RequestRecord
<1>5. LinksAreOwned'
  BY <1>1, <1>3 DEF LinksAreOwned, HasLink, AccountsTypeOK, FindForgot
<1>6. EarnedSoFar'
  BY <1>1, <1>3, NextAwait DEF place, EarnedSoFar, FindForgot, At, Idle, AccountsTypeOK
<1>7. SessionsAreEarned'
  BY <1>1, NextAwait DEF SessionsAreEarned, EarnedSoFar, FindForgot, At, AccountsTypeOK
<1>8. LastLoginWorks'
  <2>1. ~At(r, "session")
    BY <1>1 DEF At
  <2> QED
    BY <1>3, <2>1, StillOwed DEF FindForgot
<1> QED
  BY <1>3, <1>4, <1>5, <1>6, <1>7, <1>8

\* Earlier links are spent.
LEMMA InvalidateStep == ASSUME AccountsInv, NEW r \in Requests, Invalidate(r) PROVE AccountsInv'
<1> USE DEF AccountsInv
<1>1. /\ At(r, "invalidate")
      /\ ~At(r, "done") /\ req[r].user \in Emails /\ HasLink
  BY DEF Invalidate, At, OnItsPath, HasLink, LinksAreOwned
<1> DEFINE place == Following(r)
<1>2. (place = "done" \/ place \in Awaits(req[r].kind)) /\ GoTo(r, place)
  BY <1>1, Onward, NextAwait DEF Invalidate, Continue, Refuse, At
<1> HIDE DEF place
<1>3. /\ ReqType' /\ OnItsPath' /\ HasLink'
      /\ \A q \in Requests : q # r => req'[q] = req[q]
      /\ req'[r] = IF place = "done" THEN Idle ELSE [req[r] EXCEPT !.at = place]
  BY <1>1, <1>2, Moves
<1>4. AccountsTypeOK'
  <2>1. links \in [Links -> LinkRecord]
    BY DEF AccountsTypeOK, LinkRecord
  <2>2. \A l \in Links : [links[l] EXCEPT !.state = "spent"] \in LinkRecord
    BY <2>1 DEF LinkRecord
  <2>3. links' \in [Links -> LinkRecord]
    BY <2>1, <2>2 DEF Invalidate
  <2> QED
    BY <1>1, <1>3, <2>3 DEF AccountsTypeOK, Invalidate, ReqType, RequestRecord, LinkRecord
<1>5. LinksAreOwned'
  BY <1>1, <1>3 DEF LinksAreOwned, HasLink, AccountsTypeOK, Invalidate
<1>6. EarnedSoFar'
  BY <1>1, <1>3, NextAwait DEF place, EarnedSoFar, Invalidate, At, Idle, AccountsTypeOK
<1>7. SessionsAreEarned'
  BY <1>1, NextAwait DEF SessionsAreEarned, EarnedSoFar, Invalidate, At, AccountsTypeOK
<1>8. LastLoginWorks'
  <2>1. ~At(r, "session")
    BY <1>1 DEF At
  <2> QED
    BY <1>3, <2>1, StillOwed DEF Invalidate
<1> QED
  BY <1>3, <1>4, <1>5, <1>6, <1>7, <1>8

\* The mail.
LEMMA SendMailStep ==
  ASSUME AccountsInv, NEW r \in Requests, NEW taken \in BOOLEAN, SendMail(r, taken)
  PROVE  AccountsInv'
<1> USE DEF AccountsInv
<1>1. /\ At(r, "mail")
      /\ ~At(r, "done") /\ req[r].user \in Emails /\ HasLink
  BY DEF SendMail, At, OnItsPath, HasLink, LinksAreOwned
<1> DEFINE place == Following(r)
<1>2. (place = "done" \/ place \in Awaits(req[r].kind)) /\ GoTo(r, place)
  BY <1>1, Onward, NextAwait DEF SendMail, Continue, Refuse, At
<1> HIDE DEF place
<1>3. /\ ReqType' /\ OnItsPath' /\ HasLink'
      /\ \A q \in Requests : q # r => req'[q] = req[q]
      /\ req'[r] = IF place = "done" THEN Idle ELSE [req[r] EXCEPT !.at = place]
  BY <1>1, <1>2, Moves
<1>4. AccountsTypeOK'
  <2>1. links \in [Links -> LinkRecord]
    BY DEF AccountsTypeOK, LinkRecord
  <2>2. \A l \in Links : [links[l] EXCEPT !.mailed = taken] \in LinkRecord
    BY <2>1 DEF LinkRecord
  <2>3. links' \in [Links -> LinkRecord]
    BY <2>1, <2>2 DEF SendMail
  <2> QED
    BY <1>1, <1>3, <2>3 DEF AccountsTypeOK, SendMail, ReqType, RequestRecord, LinkRecord
<1>5. LinksAreOwned'
  BY <1>1, <1>3 DEF LinksAreOwned, HasLink, AccountsTypeOK, SendMail
<1>6. EarnedSoFar'
  BY <1>1, <1>3, NextAwait DEF place, EarnedSoFar, SendMail, At, Idle, AccountsTypeOK
<1>7. SessionsAreEarned'
  BY <1>1, NextAwait DEF SessionsAreEarned, EarnedSoFar, SendMail, At, AccountsTypeOK
<1>8. LastLoginWorks'
  <2>1. ~At(r, "session")
    BY <1>1 DEF At
  <2> QED
    BY <1>3, <2>1, StillOwed DEF SendMail
<1> QED
  BY <1>3, <1>4, <1>5, <1>6, <1>7, <1>8

\* A login goes on for an active row only.
LEMMA FindLoginStep == ASSUME AccountsInv, NEW r \in Requests, FindLogin(r) PROVE AccountsInv'
<1> USE DEF AccountsInv
<1>1. /\ At(r, "find") /\ req[r].kind = "login"
      /\ ~At(r, "done") /\ req[r].user \in Emails /\ HasLink
  BY DEF FindLogin, At, OnItsPath, HasLink, LinksAreOwned
<1> DEFINE place == IF users[req[r].user].status = "active" /\ users[req[r].user].pw = req[r].pw
                    THEN Following(r) ELSE "done"
<1>2. (place = "done" \/ place \in Awaits(req[r].kind)) /\ GoTo(r, place)
  BY <1>1, Onward, NextAwait DEF FindLogin, Continue, Refuse, At
<1> HIDE DEF place
<1>3. /\ ReqType' /\ OnItsPath' /\ HasLink'
      /\ \A q \in Requests : q # r => req'[q] = req[q]
      /\ req'[r] = IF place = "done" THEN Idle ELSE [req[r] EXCEPT !.at = place]
  BY <1>1, <1>2, Moves
<1>4. AccountsTypeOK'
  BY <1>1, <1>3 DEF AccountsTypeOK, FindLogin, ReqType, RequestRecord
<1>5. LinksAreOwned'
  BY <1>1, <1>3 DEF LinksAreOwned, HasLink, AccountsTypeOK, FindLogin
<1>6. EarnedSoFar'
  BY <1>1, <1>3, NextAwait DEF place, EarnedSoFar, FindLogin, At, Idle, AccountsTypeOK
<1>7. SessionsAreEarned'
  BY <1>1, NextAwait DEF SessionsAreEarned, EarnedSoFar, FindLogin, At, AccountsTypeOK
<1>8. LastLoginWorks'
  <2>1. ~At(r, "session")
    BY <1>1 DEF At
  <2> QED
    BY <1>3, <2>1, StillOwed DEF FindLogin
<1> QED
  BY <1>3, <1>4, <1>5, <1>6, <1>7, <1>8

\* The link is spent.
LEMMA MarkUsedStep == ASSUME AccountsInv, NEW r \in Requests, MarkUsed(r) PROVE AccountsInv'
<1> USE DEF AccountsInv
<1>1. /\ At(r, "markUsed")
      /\ ~At(r, "done") /\ req[r].user \in Emails /\ HasLink
  BY DEF MarkUsed, At, OnItsPath, HasLink, LinksAreOwned
<1> DEFINE place == Following(r)
<1>2. (place = "done" \/ place \in Awaits(req[r].kind)) /\ GoTo(r, place)
  BY <1>1, Onward, NextAwait DEF MarkUsed, Continue, Refuse, At
<1> HIDE DEF place
<1>3. /\ ReqType' /\ OnItsPath' /\ HasLink'
      /\ \A q \in Requests : q # r => req'[q] = req[q]
      /\ req'[r] = IF place = "done" THEN Idle ELSE [req[r] EXCEPT !.at = place]
  BY <1>1, <1>2, Moves
<1>4. AccountsTypeOK'
  <2>1. links \in [Links -> LinkRecord]
    BY DEF AccountsTypeOK, LinkRecord
  <2>2. \A l \in Links : [links[l] EXCEPT !.state = "spent"] \in LinkRecord
    BY <2>1 DEF LinkRecord
  <2>3. links' \in [Links -> LinkRecord]
    BY <2>1, <2>2 DEF MarkUsed
  <2> QED
    BY <1>1, <1>3, <2>3 DEF AccountsTypeOK, MarkUsed, ReqType, RequestRecord, LinkRecord
<1>5. LinksAreOwned'
  BY <1>1, <1>3 DEF LinksAreOwned, HasLink, AccountsTypeOK, MarkUsed
<1>6. EarnedSoFar'
  BY <1>1, <1>3, NextAwait DEF place, EarnedSoFar, MarkUsed, At, Idle, AccountsTypeOK
<1>7. SessionsAreEarned'
  BY <1>1, NextAwait DEF SessionsAreEarned, EarnedSoFar, MarkUsed, At, AccountsTypeOK
<1>8. LastLoginWorks'
  <2>1. ~At(r, "session")
    BY <1>1 DEF At
  <2> QED
    BY <1>3, <2>1, StillOwed DEF MarkUsed
<1> QED
  BY <1>3, <1>4, <1>5, <1>6, <1>7, <1>8

\* The password is set; an account that was seen active goes straight on to the sessions.
LEMMA SetPasswordStep == ASSUME AccountsInv, NEW r \in Requests, SetPassword(r) PROVE AccountsInv'
<1> USE DEF AccountsInv
<1>1. /\ At(r, "setPassword")
      /\ ~At(r, "done") /\ req[r].user \in Emails /\ HasLink
  BY DEF SetPassword, At, OnItsPath, HasLink, LinksAreOwned
<1> DEFINE place == IF req[r].seen = "active" THEN "revoke" ELSE Following(r)
<1>2. (place = "done" \/ place \in Awaits(req[r].kind)) /\ GoTo(r, place)
  BY <1>1, Onward, NextAwait, AfterReset DEF SetPassword, Continue, Refuse, At
<1> HIDE DEF place
<1>3. /\ ReqType' /\ OnItsPath' /\ HasLink'
      /\ \A q \in Requests : q # r => req'[q] = req[q]
      /\ req'[r] = IF place = "done" THEN Idle ELSE [req[r] EXCEPT !.at = place]
  BY <1>1, <1>2, Moves
<1>4. AccountsTypeOK'
  BY <1>1, <1>3 DEF AccountsTypeOK, SetPassword, ReqType, RequestRecord
<1>5. LinksAreOwned'
  BY <1>1, <1>3 DEF LinksAreOwned, HasLink, AccountsTypeOK, SetPassword
<1>6. EarnedSoFar'
  BY <1>1, <1>3, NextAwait DEF place, EarnedSoFar, SetPassword, At, Idle, AccountsTypeOK
<1>7. SessionsAreEarned'
  BY <1>1, NextAwait DEF SessionsAreEarned, EarnedSoFar, SetPassword, At, AccountsTypeOK
<1>8. LastLoginWorks'
  <2>1. ~At(r, "session")
    BY <1>1 DEF At
  <2> QED
    BY <1>3, <2>1, StillOwed DEF SetPassword
<1> QED
  BY <1>3, <1>4, <1>5, <1>6, <1>7, <1>8

\* The account becomes active, for somebody who opened a link.
LEMMA ActivateStep == ASSUME AccountsInv, NEW r \in Requests, Activate(r) PROVE AccountsInv'
<1> USE DEF AccountsInv
<1>1. /\ At(r, "activate")
      /\ ~At(r, "done") /\ req[r].user \in Emails /\ HasLink
  BY DEF Activate, At, OnItsPath, HasLink, LinksAreOwned
<1> DEFINE place == Following(r)
<1>2. (place = "done" \/ place \in Awaits(req[r].kind)) /\ GoTo(r, place)
  BY <1>1, Onward, NextAwait DEF Activate, Continue, Refuse, At
<1> HIDE DEF place
<1>3. /\ ReqType' /\ OnItsPath' /\ HasLink'
      /\ \A q \in Requests : q # r => req'[q] = req[q]
      /\ req'[r] = IF place = "done" THEN Idle ELSE [req[r] EXCEPT !.at = place]
  BY <1>1, <1>2, Moves
<1>4. AccountsTypeOK'
  BY <1>1, <1>3 DEF AccountsTypeOK, Activate, ReqType, RequestRecord
<1>5. LinksAreOwned'
  BY <1>1, <1>3 DEF LinksAreOwned, HasLink, AccountsTypeOK, Activate
<1>6. EarnedSoFar'
  BY <1>1, <1>3, NextAwait DEF place, EarnedSoFar, Activate, At, Idle, AccountsTypeOK
<1>7. SessionsAreEarned'
  BY <1>1, NextAwait DEF SessionsAreEarned, EarnedSoFar, Activate, At, AccountsTypeOK
<1>8. LastLoginWorks'
  <2>1. ~At(r, "session")
    BY <1>1 DEF At
  <2> QED
    BY <1>3, <2>1, StillOwed DEF Activate
<1> QED
  BY <1>3, <1>4, <1>5, <1>6, <1>7, <1>8

\* The sessions are revoked by a request that is about to hand one out.
LEMMA RevokeStep == ASSUME AccountsInv, NEW r \in Requests, Revoke(r) PROVE AccountsInv'
<1> USE DEF AccountsInv
<1>1. /\ At(r, "revoke")
      /\ ~At(r, "done") /\ req[r].user \in Emails /\ HasLink
  BY DEF Revoke, At, OnItsPath, HasLink, LinksAreOwned
<1> DEFINE place == Following(r)
<1>2. (place = "done" \/ place \in Awaits(req[r].kind)) /\ GoTo(r, place)
  BY <1>1, Onward, NextAwait DEF Revoke, Continue, Refuse, At
<1> HIDE DEF place
<1>3. /\ ReqType' /\ OnItsPath' /\ HasLink'
      /\ \A q \in Requests : q # r => req'[q] = req[q]
      /\ req'[r] = IF place = "done" THEN Idle ELSE [req[r] EXCEPT !.at = place]
  BY <1>1, <1>2, Moves
<1>4. AccountsTypeOK'
  BY <1>1, <1>3 DEF AccountsTypeOK, Revoke, ReqType, RequestRecord
<1>5. LinksAreOwned'
  BY <1>1, <1>3 DEF LinksAreOwned, HasLink, AccountsTypeOK, Revoke
<1>6. EarnedSoFar'
  BY <1>1, <1>3, NextAwait DEF place, EarnedSoFar, Revoke, At, Idle, AccountsTypeOK
<1>7. SessionsAreEarned'
  BY <1>1, NextAwait DEF SessionsAreEarned, EarnedSoFar, Revoke, At, AccountsTypeOK
<1>8. LastLoginWorks'
  <2>1. req'[r].at = "session" /\ req'[r].user = req[r].user
    BY <1>1, <1>3, NextAwait DEF place, AccountsTypeOK
  <2> SUFFICES ASSUME NEW e \in owed, live'[e] = {}
               PROVE  \E q \in Requests : req'[q].at = "session" /\ req'[q].user = e
    BY DEF LastLoginWorks, Revoke, At
  <2>2. CASE e = req[r].user
    BY <2>1, <2>2
  <2>3. CASE e # req[r].user
    <3>1. live[e] = {}
      BY <2>3 DEF Revoke, AccountsTypeOK
    <3>2. PICK q \in Requests : At(q, "session") /\ req[q].user = e
      BY <3>1 DEF LastLoginWorks
    <3> QED
      BY <1>3, <2>3, <3>2 DEF At
  <2> QED
    BY <2>2, <2>3
<1> QED
  BY <1>3, <1>4, <1>5, <1>6, <1>7, <1>8

\* A session.
LEMMA SessionStep == ASSUME AccountsInv, NEW r \in Requests, Session(r) PROVE AccountsInv'
<1> USE DEF AccountsInv
<1>1. /\ At(r, "session")
      /\ ~At(r, "done") /\ req[r].user \in Emails /\ HasLink
  BY DEF Session, At, OnItsPath, HasLink, LinksAreOwned
<1> DEFINE place == Following(r)
<1>2. (place = "done" \/ place \in Awaits(req[r].kind)) /\ GoTo(r, place)
  BY <1>1, Onward, NextAwait DEF Session, Continue, Refuse, At
<1> HIDE DEF place
<1>3. /\ ReqType' /\ OnItsPath' /\ HasLink'
      /\ \A q \in Requests : q # r => req'[q] = req[q]
      /\ req'[r] = IF place = "done" THEN Idle ELSE [req[r] EXCEPT !.at = place]
  BY <1>1, <1>2, Moves
<1>4. AccountsTypeOK'
  BY <1>1, <1>3 DEF AccountsTypeOK, Session, ReqType, RequestRecord
<1>5. LinksAreOwned'
  BY <1>1, <1>3 DEF LinksAreOwned, HasLink, AccountsTypeOK, Session
<1>6. EarnedSoFar'
  BY <1>1, <1>3, NextAwait DEF place, EarnedSoFar, Session, At, Idle, AccountsTypeOK
<1>7. SessionsAreEarned'
  BY <1>1, NextAwait DEF SessionsAreEarned, EarnedSoFar, Session, At, AccountsTypeOK
<1>8. LastLoginWorks'
  <2> SUFFICES ASSUME NEW e \in owed', live'[e] = {}
               PROVE  \E q \in Requests : req'[q].at = "session" /\ req'[q].user = e
    BY DEF LastLoginWorks, At
  <2>1. e # req[r].user /\ live[e] = {}
    BY <1>1 DEF Session, AccountsTypeOK
  <2>2. PICK q \in Requests : At(q, "session") /\ req[q].user = e
    BY <2>1 DEF LastLoginWorks, Session
  <2> QED
    BY <1>3, <2>1, <2>2 DEF At
<1> QED
  BY <1>3, <1>4, <1>5, <1>6, <1>7, <1>8

\* A new link is of the request's user.
LEMMA CreateLinkStep == ASSUME AccountsInv, NEW r \in Requests, CreateLink(r) PROVE AccountsInv'
<1> USE DEF AccountsInv
<1>1. /\ At(r, "createLink") /\ ~At(r, "done") /\ req[r].kind \in {"signup", "forgot"}
      /\ req[r].user \in Emails
  BY NextAwait DEF CreateLink, At, OnItsPath
<1>2. PICK l \in Links :
        /\ links' = [links EXCEPT ![l] =
                       [state |-> "active", user |-> req[r].user, mailed |-> FALSE,
                        purpose |-> IF req[r].kind = "signup" THEN "verify" ELSE "reset"]]
        /\ req' = [req EXCEPT ![r] = [@ EXCEPT !.at = "mail", !.link = l]]
  BY DEF CreateLink
<1>3. /\ \A q \in Requests : q # r => req'[q] = req[q]
      /\ req'[r] = [req[r] EXCEPT !.at = "mail", !.link = l]
  BY <1>2 DEF AccountsTypeOK
<1>4. AccountsTypeOK'
  <2>1. [req[r] EXCEPT !.at = "mail", !.link = l] \in RequestRecord
    BY DEF AccountsTypeOK, RequestRecord, Places
  <2>2. req' \in [Requests -> RequestRecord]
    BY <1>2, <2>1 DEF AccountsTypeOK, RequestRecord
  <2>3. [state |-> "active", user |-> req[r].user, mailed |-> FALSE,
         purpose |-> IF req[r].kind = "signup" THEN "verify" ELSE "reset"] \in LinkRecord
    BY <1>1 DEF LinkRecord
  <2>4. links' \in [Links -> LinkRecord]
    BY <1>2, <2>3 DEF AccountsTypeOK, LinkRecord
  <2> QED
    BY <2>2, <2>4 DEF AccountsTypeOK, CreateLink, RequestRecord, LinkRecord
<1>5. LinksAreOwned'
  BY <1>1, <1>2, <1>3 DEF LinksAreOwned, At, AccountsTypeOK
<1>6. OnItsPath'
  <2>1. "mail" \in Awaits(req[r].kind)
    BY <1>1, AfterSignup, AfterForgot
  <2>2. req'[r].kind = req[r].kind /\ req'[r].at = "mail" /\ req'[r].user = req[r].user
    BY <1>1, <1>3 DEF AccountsTypeOK, Idle
  <2> SUFFICES ASSUME NEW q \in Requests, req'[q].at # "done"
               PROVE  /\ req'[q].at \in Awaits(req'[q].kind)
                      /\ ~(req'[q].at = "find" /\ req'[q].kind \in {"verify", "reset"})
                           => req'[q].user \in Emails
    BY DEF OnItsPath, At, Awaits, Path, SignupUseCase, VerifyEmailUseCase, LoginUseCase,
       RequestPasswordResetUseCase, ResetPasswordUseCase
  <2>3. CASE q = r
    BY <1>1, <2>1, <2>2, <2>3
  <2>4. CASE q # r
    BY <1>3, <2>4 DEF OnItsPath, At
  <2> QED
    BY <2>3, <2>4
<1>7. EarnedSoFar'
  BY <1>1, <1>3 DEF EarnedSoFar, CreateLink, AccountsTypeOK
<1>8. SessionsAreEarned'
  BY DEF SessionsAreEarned, CreateLink
<1>9. LastLoginWorks'
  <2>1. ~At(r, "session")
    BY <1>1 DEF At
  <2> QED
    BY <1>3, <2>1, StillOwed DEF CreateLink
<1> QED
  BY <1>4, <1>5, <1>6, <1>7, <1>8, <1>9

\* Whoever opens an active link has the inbox it was sent to.
LEMMA FindLinkStep == ASSUME AccountsInv, NEW r \in Requests, FindLink(r) PROVE AccountsInv'
<1> USE DEF AccountsInv
<1> DEFINE l == req[r].link
           found == links[l].state = "active" /\ links[l].purpose = req[r].kind
           next == [req[r] EXCEPT !.at = "findUser", !.user = links[l].user]
<1>1. /\ At(r, "find") /\ ~At(r, "done") /\ req[r].kind \in {"verify", "reset"} /\ l \in Links
      /\ found => links[l].user \in Emails
  BY DEF FindLink, At, LinksAreOwned
<1>2. req' = [req EXCEPT ![r] = IF found THEN next ELSE Idle]
  BY DEF FindLink, Refuse, GoTo
<1>3. /\ \A q \in Requests : q # r => req'[q] = req[q]
      /\ req'[r] = IF found THEN next ELSE Idle
  BY <1>2 DEF AccountsTypeOK
<1>4. AccountsTypeOK'
  <2>1. found => next \in RequestRecord
    BY <1>1 DEF AccountsTypeOK, RequestRecord, Places
  <2>2. Idle \in RequestRecord
    BY DEF Idle, RequestRecord, Places
  <2>3. req' \in [Requests -> RequestRecord]
    BY <1>2, <2>1, <2>2 DEF AccountsTypeOK, RequestRecord
  <2>4. proven' \subseteq Emails
    BY <1>1 DEF FindLink, AccountsTypeOK
  <2> QED
    BY <2>3, <2>4 DEF AccountsTypeOK, FindLink, RequestRecord
<1>5. LinksAreOwned'
  <2>1. req'[r].at = "done" \/ req'[r].link = l
    BY <1>3 DEF Idle, AccountsTypeOK
  <2>2. links' = links
    BY DEF FindLink
  <2> HIDE DEF found, next
  <2> QED
    BY <1>1, <1>3, <2>1, <2>2 DEF LinksAreOwned, At
<1>6. OnItsPath'
  <2>1. "findUser" \in Awaits(req[r].kind)
    BY <1>1, AfterVerify, AfterReset
  <2>2. \/ found /\ req'[r].kind = req[r].kind /\ req'[r].at = "findUser" /\ req'[r].user = links[l].user
        \/ ~found /\ req'[r].at = "done"
    <3>1. next.kind = req[r].kind /\ next.at = "findUser" /\ next.user = links[l].user
      BY DEF AccountsTypeOK
    <3>2. Idle.at = "done"
      BY DEF Idle
    <3> HIDE DEF found, next
    <3> QED
      BY <1>3, <3>1, <3>2
  <2> SUFFICES ASSUME NEW q \in Requests, req'[q].at # "done"
               PROVE  /\ req'[q].at \in Awaits(req'[q].kind)
                      /\ ~(req'[q].at = "find" /\ req'[q].kind \in {"verify", "reset"})
                           => req'[q].user \in Emails
    BY DEF OnItsPath, At, Awaits, Path, SignupUseCase, VerifyEmailUseCase, LoginUseCase,
       RequestPasswordResetUseCase, ResetPasswordUseCase
  <2>3. CASE q = r
    BY <1>1, <2>1, <2>2, <2>3
  <2>4. CASE q # r
    BY <1>3, <2>4 DEF OnItsPath, At
  <2> QED
    BY <2>3, <2>4
<1>7. EarnedSoFar'
  <2>1. proven \subseteq proven' /\ (found => links[l].user \in proven')
    BY DEF FindLink
  <2>2. found => req'[r].at = "findUser" /\ req'[r].user = links[l].user
    BY <1>3 DEF AccountsTypeOK
  <2>3. ~found => req'[r].at = "done"
    BY <1>3 DEF Idle
  <2> HIDE DEF found, next
  <2> QED
    BY <1>3, <2>1, <2>2, <2>3 DEF EarnedSoFar, FindLink
<1>8. SessionsAreEarned'
  BY DEF SessionsAreEarned, FindLink
<1>9. LastLoginWorks'
  <2>1. ~At(r, "session")
    BY <1>1 DEF At
  <2> QED
    BY <1>3, <2>1, StillOwed DEF FindLink
<1> QED
  BY <1>4, <1>5, <1>6, <1>7, <1>8, <1>9

\* The row is read by which a reset decides whether to activate.
LEMMA FindUserStep == ASSUME AccountsInv, NEW r \in Requests, FindUser(r) PROVE AccountsInv'
<1> USE DEF AccountsInv
<1>1. /\ At(r, "findUser") /\ ~At(r, "done") /\ req[r].user \in Emails
      /\ req[r].kind \in {"verify", "reset"} /\ Following(r) = "markUsed"
  BY NextAwait DEF FindUser, At, OnItsPath
<1> DEFINE next == [req[r] EXCEPT !.at = "markUsed", !.seen = users[req[r].user].status]
<1>2. req' = [req EXCEPT ![r] = next]
  BY <1>1 DEF FindUser
<1>3. /\ \A q \in Requests : q # r => req'[q] = req[q]
      /\ req'[r] = next
  BY <1>2 DEF AccountsTypeOK
<1>4. AccountsTypeOK'
  <2>1. next \in RequestRecord
    BY <1>1 DEF AccountsTypeOK, RequestRecord, Places
  <2>2. req' \in [Requests -> RequestRecord]
    BY <1>2, <2>1 DEF AccountsTypeOK, RequestRecord
  <2> QED
    BY <2>2 DEF AccountsTypeOK, FindUser, RequestRecord
<1>5. LinksAreOwned'
  BY <1>1, <1>3 DEF LinksAreOwned, At, FindUser, AccountsTypeOK
<1>6. OnItsPath'
  <2>1. "markUsed" \in Awaits(req[r].kind)
    BY <1>1, AfterVerify, AfterReset
  <2>2. req'[r].kind = req[r].kind /\ req'[r].at = "markUsed" /\ req'[r].user = req[r].user
    BY <1>1, <1>3 DEF AccountsTypeOK, Idle
  <2> SUFFICES ASSUME NEW q \in Requests, req'[q].at # "done"
               PROVE  /\ req'[q].at \in Awaits(req'[q].kind)
                      /\ ~(req'[q].at = "find" /\ req'[q].kind \in {"verify", "reset"})
                           => req'[q].user \in Emails
    BY DEF OnItsPath, At, Awaits, Path, SignupUseCase, VerifyEmailUseCase, LoginUseCase,
       RequestPasswordResetUseCase, ResetPasswordUseCase
  <2>3. CASE q = r
    BY <1>1, <2>1, <2>2, <2>3
  <2>4. CASE q # r
    BY <1>3, <2>4 DEF OnItsPath, At
  <2> QED
    BY <2>3, <2>4
<1>7. EarnedSoFar'
  BY <1>1, <1>3 DEF EarnedSoFar, FindUser, At, AccountsTypeOK
<1>8. SessionsAreEarned'
  BY DEF SessionsAreEarned, FindUser
<1>9. LastLoginWorks'
  <2>1. ~At(r, "session")
    BY <1>1 DEF At
  <2> QED
    BY <1>3, <2>1, StillOwed DEF FindUser
<1> QED
  BY <1>4, <1>5, <1>6, <1>7, <1>8, <1>9

\* A request that fails leaves what it wrote; its user is not owed a session it never got.
LEMMA FailStep == ASSUME AccountsInv, NEW r \in Requests, Fail(r) PROVE AccountsInv'
<1> USE DEF AccountsInv
<1>1. /\ ~At(r, "done") /\ req' = [req EXCEPT ![r] = Idle]
      /\ \A q \in Requests : q # r => req'[q] = req[q]
      /\ req'[r] = Idle
  BY DEF Fail, Refuse, GoTo, AccountsTypeOK
<1>2. AccountsTypeOK'
  <2>1. Idle \in RequestRecord
    BY DEF Idle, RequestRecord, Places
  <2>2. req' \in [Requests -> RequestRecord]
    BY <1>1, <2>1 DEF AccountsTypeOK, RequestRecord
  <2> QED
    BY <2>2 DEF AccountsTypeOK, Fail, RequestRecord
<1>3. LinksAreOwned'
  BY <1>1 DEF LinksAreOwned, At, Idle, Fail
<1>4. OnItsPath'
  <2>1. \A k : Awaits(k)' = Awaits(k)
    BY DEF Awaits, Path, SignupUseCase, VerifyEmailUseCase, LoginUseCase,
       RequestPasswordResetUseCase, ResetPasswordUseCase
  <2> QED
    BY <1>1, <2>1 DEF OnItsPath, At, Idle
<1>5. EarnedSoFar'
  BY <1>1 DEF EarnedSoFar, Idle, Fail
<1>6. SessionsAreEarned'
  BY DEF SessionsAreEarned, Fail
<1>7. LastLoginWorks'
  <2> SUFFICES ASSUME NEW e \in owed', live[e] = {}
               PROVE  \E q \in Requests : req'[q].at = "session" /\ req'[q].user = e
    BY DEF LastLoginWorks, At, Fail
  <2>1. PICK q \in Requests : At(q, "session") /\ req[q].user = e
    BY DEF LastLoginWorks, Fail
  <2>2. q # r
    BY <2>1 DEF Fail, At
  <2> QED
    BY <1>1, <2>1, <2>2 DEF At
<1> QED
  BY <1>2, <1>3, <1>4, <1>5, <1>6, <1>7

\* A link's time is over.
LEMMA ExpireStep == ASSUME AccountsInv, NEW l \in Links, Expire(l) PROVE AccountsInv'
<1> USE DEF AccountsInv
<1>1. AccountsTypeOK'
  <2>1. [links[l] EXCEPT !.state = "spent"] \in LinkRecord
    BY DEF AccountsTypeOK, LinkRecord
  <2>2. links' \in [Links -> LinkRecord]
    BY <2>1 DEF AccountsTypeOK, LinkRecord, Expire
  <2> QED
    BY <2>2 DEF AccountsTypeOK, LinkRecord, Expire
<1>2. LinksAreOwned'
  BY DEF LinksAreOwned, At, Expire, AccountsTypeOK
<1>3. OnItsPath' /\ EarnedSoFar'
  BY DEF OnItsPath, EarnedSoFar, At, Expire, Awaits, Path, SignupUseCase, VerifyEmailUseCase,
     LoginUseCase, RequestPasswordResetUseCase, ResetPasswordUseCase
<1>4. SessionsAreEarned' /\ LastLoginWorks'
  BY DEF SessionsAreEarned, LastLoginWorks, At, Expire
<1> QED
  BY <1>1, <1>2, <1>3, <1>4

\* The strengthened invariant of accounts is inductive.
THEOREM Inductive == AccountsSpec => []AccountsInv
<1>1. AccountsInv /\ [AccountsNext]_accountVars => AccountsInv'
  <2> SUFFICES ASSUME AccountsInv, [AccountsNext]_accountVars PROVE AccountsInv'
    OBVIOUS
  <2>1. CASE UNCHANGED accountVars
    BY <2>1 DEF accountVars, AccountsInv, AccountsTypeOK, LinksAreOwned, OnItsPath,
       EarnedSoFar, SessionsAreEarned, LastLoginWorks, At, Awaits, Path, SignupUseCase,
       VerifyEmailUseCase, LoginUseCase, RequestPasswordResetUseCase, ResetPasswordUseCase
  <2>2. ASSUME NEW r \in Requests, Step(r) PROVE AccountsInv'
    BY <2>2, FindSignupStep, FindOrgStep, CreateOrgStep, CreateUserStep, FindForgotStep,
       InvalidateStep, CreateLinkStep, SendMailStep, FindLoginStep, FindLinkStep, FindUserStep,
       MarkUsedStep, SetPasswordStep, ActivateStep, RevokeStep, SessionStep DEF Step
  <2>3. ASSUME NEW r \in Requests, Open(r) \/ Fail(r) PROVE AccountsInv'
    BY <2>3, OpenStep, FailStep
  <2>4. ASSUME NEW l \in Links, Expire(l) PROVE AccountsInv'
    BY <2>4, ExpireStep
  <2> QED
    BY <2>1, <2>2, <2>3, <2>4 DEF AccountsNext
<1> QED
  BY <1>1, InvInit, PTL DEF AccountsSpec

\* Nobody gets in before the inbox was shown to be theirs (docs/adr/0041).
THEOREM NobodyGetsInUnproven == AccountsSpec => []SessionsAreEarned
<1>1. AccountsInv => SessionsAreEarned
  BY DEF AccountsInv
<1> QED
  BY <1>1, Inductive, PTL

\* Overlapping logins, verifications and resets do not revoke each other into nothing.
THEOREM SomebodyStaysLoggedIn == AccountsSpec => []LastLoginWorks
<1>1. AccountsInv => LastLoginWorks
  BY DEF AccountsInv
<1> QED
  BY <1>1, Inductive, PTL
=============================================================================
