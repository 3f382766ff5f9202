------------------------------- MODULE Sessions -------------------------------
(***************************************************************************)
(* Logging in, renewing a session, logging out and withdrawing             *)
(* (auth.service.ts, auth.repository.ts, jwt-auth.guard.ts,                *)
(* user.service.ts).  A user's row has one refresh token; whoever has it   *)
(* may exchange it.  Each handler is split at the calls to the database    *)
(* that other requests may come between, and any request may fail or lose  *)
(* its answer after any of them.                                           *)
(***************************************************************************)
EXTENDS Accounts, Naturals

CONSTANTS
    Clients,
    Owner,          \* the user of a client
    Requests,       \* requests that may be worked on at the same time
    AccessLife,     \* how long an access token is accepted
    RefreshLife,    \* how long a refresh token is accepted
    MaxTime,        \* bound: the clock
    MaxFailures     \* bound: requests that fail or whose answer is lost

ASSUME OwnerAssumption == Owner \in [Clients -> Users]
ASSUME TimeAssumption == /\ AccessLife \in Nat /\ RefreshLife \in Nat
                         /\ MaxTime \in Nat /\ MaxFailures \in Nat

\* Two tokens signed for a user within one second are the same token.
Token == [id : Users, iat : 0 .. MaxTime]
\* Null: no token, no client.
ASSUME NullAssumption == Null \notin Token /\ Null \notin Clients

VARIABLES
    refreshToken,   \* users.refresh_token
    deletedAt,      \* users.deleted_at is set
    session,        \* the tokens a client has, by its refresh token
    req,            \* the requests being worked on
    now,
    failures,
    clear,          \* history: refreshes whose row nobody else has written
                    \* since they found their token in it
    plain           \* history: clients alone with their account, with one
                    \* request at a time and every answer received

vars == <<refreshToken, deletedAt, session, req, now, failures, clear, plain>>

LoginOps == {"login", "passLogin"}
Ops == LoginOps \cup {"refresh", "logout", "withdraw", "authWithdraw"}
Steps == {"guard", "find", "user", "store", "remove", "delete", "nothing", "answer"}
Done == [op |-> "none", pc |-> "done", client |-> Null, token |-> Null, new |-> Null]
Request == [op : Ops, pc : Steps, client : Clients,
            token : Token \cup {Null}, new : Token \cup {Null}]

Working(r) == req[r].pc # "done"
UserOf(r) == Owner[req[r].client]

TypeOK ==
    /\ refreshToken \in [Users -> Token \cup {Null}]
    /\ deletedAt \in [Users -> BOOLEAN]
    /\ session \in [Clients -> Token \cup {Null}]
    /\ req \in [Requests -> Request \cup {Done}]
    /\ now \in 0 .. MaxTime
    /\ failures \in 0 .. MaxFailures
    /\ clear \subseteq Requests
    /\ plain \subseteq Clients

Init ==
    /\ refreshToken = [u \in Users |-> Null]
    /\ deletedAt = [u \in Users |-> FALSE]
    /\ session = [c \in Clients |-> Null]
    /\ req = [r \in Requests |-> Done]
    /\ now = 0
    /\ failures = 0
    /\ clear = {}
    /\ plain = Clients

-----------------------------------------------------------------------------
(* What a client sends. *)

Begin(r, c, op, pc) ==
    /\ ~Working(r)
    /\ req' = [req EXCEPT ![r] = [op |-> op, pc |-> pc, client |-> c,
                                  token |-> session[c], new |-> Null]]
    /\ plain' = {d \in plain :
                   /\ Owner[d] = Owner[c] => d = c
                   /\ d = c => \A s \in Requests : Working(s) => req[s].client # c}
    /\ UNCHANGED <<refreshToken, deletedAt, session, now, failures, clear>>

\* Email and password, or the telephone's owner as the PASS service says.
Login(r, c) == Begin(r, c, "login", "user")
PassLogin(r, c) == Begin(r, c, "passLogin", "user")
\* A public route: the refresh token is all that is looked at.
Refresh(r, c) == session[c] # Null /\ Begin(r, c, "refresh", "find")
Logout(r, c) == session[c] # Null /\ Begin(r, c, "logout", "guard")
Withdraw(r, c) == session[c] # Null /\ Begin(r, c, "withdraw", "guard")
AuthWithdraw(r, c) == session[c] # Null /\ Begin(r, c, "authWithdraw", "guard")

-----------------------------------------------------------------------------
(* What the server does. *)

\* The exception of a handler, or the guard's: the client keeps what it has.
Refuse(r) ==
    /\ req' = [req EXCEPT ![r] = Done]
    /\ clear' = clear \ {r}
    /\ UNCHANGED <<refreshToken, deletedAt, session, now, failures, plain>>

Advance(r, pc) == req' = [req EXCEPT ![r].pc = pc]

\* The guard checks the access token and that its user is still there.
CanActivate(r) ==
    /\ req[r].pc = "guard"
    /\ IF now < req[r].token.iat + AccessLife /\ ~deletedAt[req[r].token.id]
         THEN /\ Advance(r, CASE req[r].op = "logout" -> "remove"
                              [] req[r].op = "withdraw" -> "delete"
                              [] OTHER -> "nothing")
              /\ UNCHANGED <<refreshToken, deletedAt, session, now, failures,
                             clear, plain>>
         ELSE Refuse(r)

\* The token must be valid and be the one in the row.
FindRefreshToken(r) ==
    LET t == req[r].token IN
    /\ req[r].pc = "find"
    /\ IF now < t.iat + RefreshLife /\ ~deletedAt[t.id] /\ refreshToken[t.id] = t
         THEN /\ Advance(r, "user")
              /\ clear' = clear \cup {r}
              /\ UNCHANGED <<refreshToken, deletedAt, session, now, failures, plain>>
         ELSE Refuse(r)

\* The user is read, and the new tokens are signed.
FindUser(r) ==
    /\ req[r].pc = "user"
    /\ IF ~deletedAt[UserOf(r)]
         THEN /\ req' = [req EXCEPT ![r].pc = "store",
                                    ![r].new = [id |-> UserOf(r), iat |-> now]]
              /\ UNCHANGED <<refreshToken, deletedAt, session, now, failures,
                             clear, plain>>
         ELSE Refuse(r)

\* The row of u is written: what other requests have read of it is old.
Write(r, u, token, deleted) ==
    /\ refreshToken' = [refreshToken EXCEPT ![u] = token]
    /\ deletedAt' = [deletedAt EXCEPT ![u] = deleted]
    /\ clear' = {s \in clear : s = r \/ UserOf(s) # u}
    /\ Advance(r, "answer")
    /\ UNCHANGED <<session, now, failures, plain>>

\* An UPDATE that matches no row: nobody looks.
WriteNothing(r) ==
    /\ Advance(r, "answer")
    /\ UNCHANGED <<refreshToken, deletedAt, session, now, failures, clear, plain>>

SaveRefreshToken(r) ==
    /\ req[r].pc = "store" /\ req[r].op \in LoginOps
    /\ IF ~deletedAt[UserOf(r)]
         THEN Write(r, UserOf(r), req[r].new, FALSE)
         ELSE WriteNothing(r)

\* Mutant: the row is not asked for the old token.
UpdateRefreshTokenAnyway(r) ==
    /\ req[r].pc = "store" /\ req[r].op = "refresh"
    /\ IF ~deletedAt[UserOf(r)]
         THEN Write(r, UserOf(r), req[r].new, FALSE)
         ELSE WriteNothing(r)

\* Mutant: the row is asked for the new token instead of the old one.
UpdateRefreshTokenSwapped(r) ==
    /\ req[r].pc = "store" /\ req[r].op = "refresh"
    /\ IF ~deletedAt[UserOf(r)] /\ refreshToken[UserOf(r)] = req[r].new
         THEN Write(r, UserOf(r), req[r].new, FALSE)
         ELSE WriteNothing(r)

UpdateRefreshToken(r) ==
    /\ req[r].pc = "store" /\ req[r].op = "refresh"
    /\ IF ~deletedAt[UserOf(r)] /\ refreshToken[UserOf(r)] = req[r].token
         THEN Write(r, UserOf(r), req[r].new, FALSE)
         ELSE WriteNothing(r)

RemoveRefreshToken(r) ==
    /\ req[r].pc = "remove"
    /\ IF ~deletedAt[UserOf(r)] /\ refreshToken[UserOf(r)] = req[r].token
         THEN Write(r, UserOf(r), Null, FALSE)
         ELSE WriteNothing(r)

\* DELETE /user/withdrawl; the reason is written in the same transaction.
DeleteUser(r) ==
    /\ req[r].pc = "delete"
    /\ Write(r, UserOf(r), refreshToken[UserOf(r)], TRUE)

\* DELETE /auth/withdraw checks the password; the deletion is commented out.
CheckPassword(r) ==
    /\ req[r].pc = "nothing"
    /\ IF ~deletedAt[UserOf(r)] THEN WriteNothing(r) ELSE Refuse(r)

\* The answer arrives: with tokens, or with the end of the session.
Answer(r) ==
    /\ req[r].pc = "answer"
    /\ session' = CASE req[r].op \in LoginOps \cup {"refresh"} ->
                         [session EXCEPT ![req[r].client] = req[r].new]
                    [] req[r].op \in {"logout", "withdraw"} ->
                         [session EXCEPT ![req[r].client] = Null]
                    [] OTHER -> session
    /\ req' = [req EXCEPT ![r] = Done]
    /\ clear' = clear \ {r}
    /\ UNCHANGED <<refreshToken, deletedAt, now, failures, plain>>

\* A call of the handler fails, the process ends or the answer is lost.
Fail(r) ==
    /\ Working(r)
    /\ failures < MaxFailures
    /\ failures' = failures + 1
    /\ req' = [req EXCEPT ![r] = Done]
    /\ clear' = clear \ {r}
    /\ plain' = plain \ {req[r].client}
    /\ UNCHANGED <<refreshToken, deletedAt, session, now>>

Tick ==
    /\ now < MaxTime
    /\ now' = now + 1
    /\ UNCHANGED <<refreshToken, deletedAt, session, req, failures, clear, plain>>

Handle(r) ==
    \/ CanActivate(r) \/ FindRefreshToken(r) \/ FindUser(r)
    \/ SaveRefreshToken(r) \/ UpdateRefreshToken(r) \/ RemoveRefreshToken(r)
    \/ DeleteUser(r) \/ CheckPassword(r) \/ Answer(r)

Next ==
    \/ \E r \in Requests, c \in Clients :
          \/ Login(r, c) \/ PassLogin(r, c) \/ Refresh(r, c)
          \/ Logout(r, c) \/ Withdraw(r, c) \/ AuthWithdraw(r, c)
    \/ \E r \in Requests : Handle(r) \/ Fail(r)
    \/ Tick

Spec == Init /\ [][Next]_vars

-----------------------------------------------------------------------------
(* What a session promises. *)

\* Whatever was on its way, nothing is written to a row after its withdrawal,
\* and nothing undoes it.
RowFrozen ==
    [][\A u \in Users : deletedAt[u] =>
          deletedAt'[u] /\ refreshToken'[u] = refreshToken[u]]_vars

\* After a logout no refresh on its way brings the session back: a row without
\* a token gets one by a login only.
LoggedOutStays ==
    [][\A u \in Users : refreshToken[u] = Null /\ refreshToken'[u] # Null =>
          \E r \in Requests : /\ req[r].op \in LoginOps /\ UserOf(r) = u
                              /\ req[r].pc = "store" /\ req'[r].pc = "answer"]_vars

\* A refresh answers with the token of the row, unless another request wrote
\* the row after the old token had been found in it.
AnswerIsStored ==
    \A r \in clear : req[r].op = "refresh" /\ req[r].pc = "answer" =>
        refreshToken[UserOf(r)] = req[r].new

\* A client alone with its account that sends one request at a time and gets
\* every answer has the token of the row whenever it is at rest: it can renew
\* its session until the token expires.
AtRest(c) == \A r \in Requests : Working(r) => req[r].client # c
ClientInStep ==
    \A c \in plain : AtRest(c) /\ ~deletedAt[Owner[c]] =>
        session[c] = refreshToken[Owner[c]]
=============================================================================
