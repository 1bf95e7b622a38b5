---------------------------- MODULE OneDriveCopy ----------------------------
(* The copy of a staging report in the organisation's OneDrive. Microsoft       *)
(* replaces the refresh token with every use, so each upload has to store the    *)
(* next one; uploads of two qa-automation processes (a deploy) and the callback  *)
(* of a new connection may overlap.                                               *)
EXTENDS FiniteSets

CONSTANTS Uploads,     \* slots for upload() calls in flight
          Tokens,      \* names of refresh tokens; an unused one is given out again
          None

VARIABLES stored,      \* encryptedRefreshToken of the connection row
          valid,       \* the refresh tokens Microsoft accepts (external)
          up,          \* uploads in flight
          callback,    \* the OAuth callback in flight: the token it received
          torn         \* the stored token was spent by an upload that died before storing its successor

vars == <<stored, valid, up, callback, torn>>

Idle == [at |-> "idle", token |-> None]

TypeOK == /\ stored \in Tokens \union {None} /\ valid \subseteq Tokens
          /\ up \in [Uploads -> [at : {"idle", "refresh", "save", "send"}, token : Tokens \union {None}]]
          /\ callback \in Tokens \union {None} /\ torn \in BOOLEAN

Init == /\ stored = None /\ valid = {} /\ up = [u \in Uploads |-> Idle]
        /\ callback = None /\ torn = FALSE

Fresh(t) == t # stored /\ t # callback /\ \A u \in Uploads : up[u].token # t

Go(u, place, t) == up' = [up EXCEPT ![u] = [at |-> place, token |-> t]]
Leave(u) == up' = [up EXCEPT ![u] = Idle]

\* connectionRepository.find; no connection: a silent no-op
FindConnection(u) ==
    /\ up[u] = Idle /\ stored # None
    /\ Go(u, "refresh", stored)
    /\ UNCHANGED <<stored, valid, callback, torn>>

RefreshWithoutSaving(u) ==            \* Mutant: only the access token is kept
    /\ up[u].at = "refresh"
    /\ IF up[u].token \in valid
       THEN \E t \in Tokens : /\ Fresh(t) /\ Go(u, "send", t)
                              /\ valid' = (valid \ {up[u].token}) \union {t}
       ELSE Leave(u) /\ UNCHANGED valid
    /\ UNCHANGED <<stored, callback, torn>>

\* refreshOneDriveAccessToken: Microsoft spends the token, or refuses it (invalid_grant)
Refresh(u) ==
    /\ up[u].at = "refresh"
    /\ IF up[u].token \in valid
       THEN \E t \in Tokens : /\ Fresh(t) /\ Go(u, "save", t)
                              /\ valid' = (valid \ {up[u].token}) \union {t}
       ELSE Leave(u) /\ UNCHANGED valid
    /\ UNCHANGED <<stored, callback, torn>>

\* connectionRepository.upsert, before anything that may fail for other reasons
Save(u) ==
    /\ up[u].at = "save"
    /\ stored' = up[u].token /\ torn' = FALSE
    /\ Go(u, "send", None)
    /\ UNCHANGED <<valid, callback>>

\* ensureOneDriveFolder, uploadToOneDrive, createOneDriveEditLink: a link or undefined,
\* and the report mail goes out either way
Send(u) ==
    /\ up[u].at = "send"
    /\ Leave(u)
    /\ UNCHANGED <<stored, valid, callback, torn>>

\* a failed call is caught, a killed process is not there to care; a refresh whose answer
\* is lost may have spent the token
UploadDies(u) ==
    /\ up[u] # Idle
    /\ valid' \in IF up[u].at = "refresh" THEN {valid, valid \ {up[u].token}} ELSE {valid}
    /\ torn' = (torn \/ stored \notin valid')
    /\ Leave(u)
    /\ UNCHANGED <<stored, callback>>

\* GET onedrive/callback: exchangeOneDriveAuthCode is a grant of its own
CallbackExchanges ==
    /\ callback = None
    /\ \E t \in Tokens : Fresh(t) /\ callback' = t /\ valid' = valid \union {t}
    /\ UNCHANGED <<stored, up, torn>>

\* the upsert after fetchOneDriveAccountEmail, or an error page
CallbackEnds(saved) ==
    /\ callback # None
    /\ IF saved THEN stored' = callback /\ torn' = FALSE ELSE UNCHANGED <<stored, torn>>
    /\ callback' = None
    /\ UNCHANGED <<valid, up>>

Next == \/ \E u \in Uploads : \/ FindConnection(u) \/ Refresh(u) \/ Save(u)
                              \/ Send(u) \/ UploadDies(u)
        \/ CallbackExchanges
        \/ \E saved \in BOOLEAN : CallbackEnds(saved)

Spec == Init /\ [][Next]_vars

-----------------------------------------------------------------------------
\* However uploads overlap with each other and with a new connection, and whatever fails
\* after the refresh, the next run finds a token Microsoft accepts; only an upload that
\* dies between the refresh and the upsert breaks the connection.
ConnectionStaysUsable ==
    stored # None /\ ~torn /\ (\A u \in Uploads : up[u].at # "save") => stored \in valid

-----------------------------------------------------------------------------
(* The inductive invariant that ConnectionStaysUsable rests on                  *)

\* A successor waiting for its upsert is accepted, and nobody else could spend it: neither
\* the row nor the callback nor another upload has the same token.
SuccessorsAreTheirs ==
    \A u \in Uploads : up[u].at = "save" =>
      /\ up[u].token \in valid /\ up[u].token \notin {stored, callback} \ {None}
      /\ \A w \in Uploads \ {u} : up[w].at \in {"refresh", "save"} => up[w].token # up[u].token

\* The token of a new connection is accepted, and no upload has it.
GrantIsTheirs ==
    callback # None =>
      /\ callback \in valid /\ callback # stored
      /\ \A u \in Uploads : up[u].at \in {"refresh", "save"} => up[u].token # callback

\* Whoever spent the stored token is about to store its successor.
SomebodySaves ==
    stored # None /\ ~torn => stored \in valid \/ \E u \in Uploads : up[u].at = "save"

IInv == TypeOK /\ SuccessorsAreTheirs /\ GrantIsTheirs /\ SomebodySaves
=============================================================================
