------------------------------ MODULE Sessions ------------------------------
(***************************************************************************)
(* One signed-in session: the row of the server with the hashes of the     *)
(* secret in use and of the one it replaced, and the phone that holds a    *)
(* refresh token. A refresh is a request of several steps without a        *)
(* transaction: read the row, decide, write it back on the condition that  *)
(* it still has the secret that was read. The phone waits for one refresh  *)
(* at a time, gives up after a timeout, and may be killed before the new   *)
(* token is on disk; a request it no longer waits for goes on.             *)
(*                                                                         *)
(* Secrets are numbered as they are made. "fresh" is the grace window of   *)
(* the last rotation. Access tokens and signing in are left out: a refresh *)
(* may be wanted at any time.                                              *)
(***************************************************************************)
EXTENDS Naturals, FiniteSets

CONSTANTS
    MaxRequests     \* bound: refreshes sent

ASSUME SessionsAssumption == MaxRequests \in Nat

VARIABLES
    session,        \* the row: secret in use, the one before, flags
    secrets,        \* secrets made so far
    requests,       \* requests that reached the server and are not answered
    replies,        \* answers on their way, by request
    sent,           \* refreshes sent so far, the last one's number
    waiting,        \* the refresh the phone waits for, 0 if none
    token,          \* the phone's refresh token, 0 if it has none
    onDisk,         \* the one in the keychain
    signedOut,      \* the user signed out or the session ran out (history)
    missed          \* the grace window ended, or another secret was made,
                    \* while the phone had only the replaced one (history)

phoneVars    == <<waiting, token, onDisk>>
exchangeVars == <<requests, replies, sent>>
sessionVars  == <<session, secrets, exchangeVars, phoneVars, signedOut, missed>>

Secrets == 0..(MaxRequests + 1)
Ids     == 1..MaxRequests
Rows == [current : Secrets, prev : Secrets, fresh : BOOLEAN,
         revoked : BOOLEAN, expired : BOOLEAN]
NotRead == [current |-> 0, prev |-> 0, fresh |-> FALSE,
            revoked |-> FALSE, expired |-> FALSE]

\* What a reply carries: a secret, "no longer accepted" (401), or an error.
Refused == 0
Replies == [id : Ids, secret : Secrets, error : BOOLEAN]

SessionsTypeOK ==
    /\ session \in Rows
    /\ secrets \in Secrets
    /\ requests \subseteq [id : Ids, secret : Secrets, row : Rows]
    /\ replies \subseteq Replies
    /\ sent \in 0..MaxRequests
    /\ waiting \in 0..MaxRequests
    /\ token \in Secrets
    /\ onDisk \in Secrets
    /\ signedOut \in BOOLEAN
    /\ missed \in BOOLEAN

SessionsInit ==
    /\ session = [current |-> 1, prev |-> 0, fresh |-> FALSE,
                  revoked |-> FALSE, expired |-> FALSE]
    /\ secrets = 1
    /\ requests = {}
    /\ replies = {}
    /\ sent = 0
    /\ waiting = 0
    /\ token = 1
    /\ onDisk = 1
    /\ signedOut = FALSE
    /\ missed = FALSE

-----------------------------------------------------------------------------
\* Faulty forms of definitions below, each a slip somebody could make.

\* The whole row is saved, the flag that was read included.
Rotated_WholeRow(r) ==
    [r.row EXCEPT !.current = secrets + 1, !.prev = r.row.current, !.fresh = TRUE]

\* Only the secret in use is good.
Accepted_CurrentOnly(r) == r.secret = r.row.current

-----------------------------------------------------------------------------
(***************************************************************************)
(* The phone                                                               *)
(***************************************************************************)

\* refreshSession: single-flight.
SendRefresh ==
    /\ token # 0
    /\ waiting = 0
    /\ sent < MaxRequests
    /\ sent' = sent + 1
    /\ waiting' = sent + 1
    /\ requests' = requests \union {[id |-> sent + 1, secret |-> token, row |-> NotRead]}
    /\ UNCHANGED <<session, secrets, replies, token, onDisk, signedOut, missed>>

\* A new pair is kept, a 401 ends the session on the phone, another error
\* changes nothing. Answers to requests the phone gave up are dropped.
ReceiveReply(p) ==
    /\ p \in replies
    /\ replies' = replies \ {p}
    /\ IF p.id = waiting
       THEN /\ waiting' = 0
            /\ token' = IF p.error THEN token ELSE p.secret
            /\ onDisk' = IF ~ p.error /\ p.secret = Refused THEN 0 ELSE onDisk
       ELSE UNCHANGED phoneVars
    /\ UNCHANGED <<session, secrets, requests, sent, signedOut, missed>>

\* The timeout, or no network.
GiveUpRefresh ==
    /\ waiting # 0
    /\ waiting' = 0
    /\ UNCHANGED <<session, secrets, exchangeVars, token, onDisk, signedOut, missed>>

\* saveTokens gets to the keychain.
WriteToken ==
    /\ onDisk # token
    /\ onDisk' = token
    /\ UNCHANGED <<session, secrets, exchangeVars, waiting, token, signedOut, missed>>

\* The app is killed and started again.
RestartApp ==
    /\ waiting # 0 \/ token # onDisk
    /\ waiting' = 0
    /\ token' = onDisk
    /\ UNCHANGED <<session, secrets, exchangeVars, onDisk, signedOut, missed>>

\* signOut and Logout; the request for it may not get through. The account may
\* be deleted as well, which also ends every session.
SignOut ==
    /\ token # 0
    /\ waiting = 0
    /\ token' = 0
    /\ onDisk' = 0
    /\ signedOut' = TRUE
    /\ \E reached \in BOOLEAN :
        session' = [session EXCEPT !.revoked = @ \/ reached]
    /\ UNCHANGED <<secrets, exchangeVars, waiting, missed>>

-----------------------------------------------------------------------------
(***************************************************************************)
(* The server                                                              *)
(***************************************************************************)

ReadSession(r) ==
    /\ r \in requests
    /\ r.row = NotRead
    /\ requests' = (requests \ {r}) \union {[r EXCEPT !.row = session]}
    /\ UNCHANGED <<session, secrets, replies, sent, phoneVars, signedOut, missed>>

Ended(row) == row.revoked \/ row.expired

\* The secret in use, or the one it replaced within the grace window.
Accepted(r) ==
    \/ r.secret = r.row.current
    \/ r.secret = r.row.prev /\ r.row.fresh

\* The phone, or its keychain, does not have the secret in use.
Behind == \E t \in {token, onDisk} \ {0} : t # session.current

\* The condition of the UPDATE.
StillAsRead(r) == session.current = r.row.current

Rotated(r) ==
    [session EXCEPT !.current = secrets + 1, !.prev = r.row.current, !.fresh = TRUE]

Answer(r, secret, error) ==
    /\ requests' = requests \ {r}
    /\ replies' = replies \union {[id |-> r.id, secret |-> secret, error |-> error]}
    /\ UNCHANGED <<sent, phoneVars, signedOut>>

\* The rest of Refresh. A replaced secret after its grace window revokes the
\* session, an older one is only refused.
FinishRefresh(r) ==
    /\ r \in requests
    /\ r.row # NotRead
    /\ IF ~ Ended(r.row) /\ Accepted(r)
       THEN IF StillAsRead(r)
            THEN /\ session' = Rotated(r)
                 /\ secrets' = secrets + 1
                 /\ missed' = (missed \/ Behind)
                 /\ Answer(r, secrets + 1, FALSE)
            ELSE /\ UNCHANGED <<session, secrets, missed>>
                 /\ Answer(r, 0, TRUE)
       ELSE /\ session' = [session EXCEPT !.revoked =
                    @ \/ (~ Ended(r.row) /\ r.secret = r.row.prev)]
            /\ UNCHANGED <<secrets, missed>>
            /\ Answer(r, Refused, FALSE)

\* A request the phone gave up does not outlive the window: the server ends a
\* request within 30 seconds (main.go:57), the window is a minute.
GraceEnds ==
    /\ session.fresh
    /\ \A r \in requests : r.id = waiting \/ r.secret = session.current
    /\ session' = [session EXCEPT !.fresh = FALSE]
    /\ missed' = (missed \/ Behind)
    /\ UNCHANGED <<secrets, exchangeVars, phoneVars, signedOut>>

\* Ninety days after the sign-in; a refresh does not move that.
Expire ==
    /\ ~ session.expired
    /\ session' = [session EXCEPT !.expired = TRUE]
    /\ signedOut' = TRUE
    /\ UNCHANGED <<secrets, exchangeVars, phoneVars, missed>>

-----------------------------------------------------------------------------
SessionsNext ==
    \/ SendRefresh \/ GiveUpRefresh \/ WriteToken \/ RestartApp \/ SignOut
    \/ \E p \in replies : ReceiveReply(p)
    \/ \E r \in requests : ReadSession(r) \/ FinishRefresh(r)
    \/ GraceEnds
    \/ Expire

SessionsSpec == SessionsInit /\ [][SessionsNext]_sessionVars

-----------------------------------------------------------------------------
(***************************************************************************)
(* Properties                                                              *)
(***************************************************************************)

\* A session that was ended stays ended, whatever refresh was under way
\* (service.go:159 Logout, :187 DeleteAccount, pgrepo.go:107).
EndIsFinal == [][Ended(session) => Ended(session')]_sessionVars

\* A phone loses its session only by signing out, by the session's end, or
\* after it was left with the replaced secret for longer than the grace window
\* or over one more rotation: one lost answer, retried in time, or a kill
\* before the token is on disk signs nobody out (service.go:101, client.ts:99).
StaysSignedIn == token = 0 => signedOut \/ missed

=============================================================================
