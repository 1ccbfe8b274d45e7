------------------------- MODULE IdentityLifecycle -------------------------
(***************************************************************************)
(* Sessions, account recovery and external identity links:                 *)
(* IdentityLifecycleService of app/identity/lifecycle.py, the operator     *)
(* login and bootstrap beside it, and the authorization of what a session  *)
(* is used for.  (The invitation tokens are in Memberships.)               *)
(*                                                                         *)
(* The callers own the transactions.  A row lock taken FOR UPDATE or by an *)
(* UPDATE is held to the end of its transaction; an UPDATE works on the    *)
(* rows it sees when it starts, waits for each one and looks at it again   *)
(* (READ COMMITTED).  The audit chain is always locked last, so it is no   *)
(* part of any cycle and is left out.  So are the clocks: a session or an  *)
(* MFA that grew too old is one that is not used any more.                 *)
(***************************************************************************)
EXTENDS Integers, FiniteSets

CONSTANTS
  User,
  MfaRequired,    \* users that sign in with MFA only
  Session,        \* identity_sessions, in the order they are issued in
  Token,          \* identity_lifecycle_tokens of purpose recovery
  Request,        \* concurrent transactions
  NoRow,
  MaxLinkVersion  \* bound: a link is reviewed below this version

VARIABLES
  user,     \* of each user, its status and whether its role still allows what it does
  link,     \* external_identity_links, one for each user
  session,  \* identity_sessions
  token,    \* recovery tokens, with what their recovery saw
  request   \* the transactions under way

idVars == <<user, link, session, token, request>>

NoLink == [status |-> "absent", version |-> 0]

InitIdentity ==
  /\ user = [u \in User |-> [active |-> TRUE, allowed |-> TRUE]]
  /\ link = [u \in User |-> NoLink]
  /\ session = [s \in Session |-> NoRow]
  /\ token = [t \in Token |-> NoRow]
  /\ request = [x \in Request |-> NoRow]

-----------------------------------------------------------------------------
(* Locks and transactions *)

Started(op, row) == [op |-> op, row |-> row, held |-> {row}, todo |-> {},
                     sees |-> {}, seen |-> NoRow]

Held(x) == IF request[x] = NoRow THEN {} ELSE request[x].held

Free(row) == \A x \in Request : row \notin Held(x)

Serves(x, op) == request[x] # NoRow /\ request[x].op = op

Wants(x) == IF Serves(x, "recover") THEN request[x].todo ELSE {}

RequestEnded(x) == [request EXCEPT ![x] = NoRow]

RollbackRequest(x) ==
  /\ request[x] # NoRow
  /\ request' = RequestEnded(x)
  /\ UNCHANGED <<user, link, session, token>>

-----------------------------------------------------------------------------
(* Sessions *)

Live(s) ==
  /\ session[s] # NoRow
  /\ ~session[s].revoked
  /\ user[session[s].user].active

\* The row of a session; "from" is the session it was rotated from.
SessionRow == [user : User, strength : {"oidc", "mfa"},
               revoked : BOOLEAN, from : Session \cup {NoRow}]

\* issue_session
Issuable(u, strength) == user[u].active /\ (u \in MfaRequired => strength = "mfa")

Issued(u, strength, from) ==
  [user |-> u, strength |-> strength, revoked |-> FALSE, from |-> from]

\* The operator's external identity is resolved to a member that may sign in.
Granted(u) == link[u].status = "active" /\ user[u].active /\ user[u].allowed

Inserted(s, u, strength) ==
  /\ session[s] = NoRow
  /\ Issuable(u, strength)
  /\ session' = [session EXCEPT ![s] = Issued(u, strength, NoRow)]
  /\ UNCHANGED <<user, link, token, request>>

SignIn(s, u) == Granted(u) /\ Inserted(s, u, "oidc")

\* Sessions with MFA are issued by other callers than the operator's login.
IssueSession(s, u) == Inserted(s, u, "mfa")

\* Without FOR UPDATE.
AuthenticateUnlocked(x, s) ==
  /\ request[x] = NoRow
  /\ Live(s)
  /\ request' = [request EXCEPT ![x] = [Started("use", s) EXCEPT !.held = {}]]
  /\ UNCHANGED <<user, link, session, token>>

\* authenticate_session: the request has its session's row to its end.
Authenticate(x, s) ==
  /\ request[x] = NoRow
  /\ Free(s) /\ Live(s)
  /\ request' = [request EXCEPT ![x] = Started("use", s)]
  /\ UNCHANGED <<user, link, session, token>>

\* authorize, reading uncommitted nothing and locking nothing.
Authorized(u, s) == user[u].active /\ user[u].allowed /\ Live(s) /\ session[s].user = u

Authorize(x) ==
  /\ Serves(x, "use")
  /\ Authorized(session[request[x].row].user, request[x].row)
  /\ request' = [request EXCEPT ![x].op = "act"]
  /\ UNCHANGED <<user, link, session, token>>

\* What was authorized commits.
Act(x) == Serves(x, "act") /\ request' = RequestEnded(x) /\ UNCHANGED <<user, link, session, token>>

\* rotate_session in a transaction of its own: authenticate, revoke, issue.
RotateSession(x, new) ==
  LET old == request[x].row IN
  /\ Serves(x, "use")
  /\ session[new] = NoRow
  /\ Issuable(session[old].user, session[old].strength)
  /\ session' = [session EXCEPT
       ![old].revoked = TRUE,
       ![new] = Issued(session[old].user, session[old].strength, old)]
  /\ request' = RequestEnded(x)
  /\ UNCHANGED <<user, link, token>>

\* revoke_session: by an administrator, or by the request that signs out.
Revoke(s) ==
  /\ session[s] # NoRow /\ ~session[s].revoked
  /\ Free(s)
  /\ session' = [session EXCEPT ![s].revoked = TRUE]
  /\ UNCHANGED <<user, link, token, request>>

SignOut(x) ==
  /\ Serves(x, "use") /\ user[session[request[x].row].user].allowed
  /\ session' = [session EXCEPT ![request[x].row].revoked = TRUE]
  /\ request' = RequestEnded(x)
  /\ UNCHANGED <<user, link, token>>

-----------------------------------------------------------------------------
(* Recovery *)

TokenRow == [user : User, consumed : BOOLEAN, closed : BOOLEAN,
             ends : SUBSET Session, known : SUBSET Token]

IssueToken(t, u) ==
  /\ token[t] = NoRow
  /\ token' = [token EXCEPT ![t] =
                 [user |-> u, consumed |-> FALSE, closed |-> FALSE, ends |-> {}, known |-> {}]]
  /\ UNCHANGED <<user, link, session, request>>

UsableToken(t) == token[t] # NoRow /\ ~token[t].consumed /\ ~token[t].closed

\* revoke_lifecycle_token, or the token expires.
CloseToken(t) ==
  /\ UsableToken(t) /\ Free(t)
  /\ token' = [token EXCEPT ![t].closed = TRUE]
  /\ UNCHANGED <<user, link, session, request>>

SessionsOf(u) == {s \in Session : session[s] # NoRow /\ session[s].user = u /\ ~session[s].revoked}

TokensOf(u) == {t \in Token : UsableToken(t) /\ token[t].user = u}

\* Sessions that a request is using are passed over.
FreeSessionsOf(u) == {s \in SessionsOf(u) : Free(s)}

RecoverFreeSessions(x, t) ==
  /\ request[x] = NoRow
  /\ UsableToken(t) /\ Free(t)
  /\ request' = [request EXCEPT ![x] = [Started("recover", t) EXCEPT
                              !.todo = FreeSessionsOf(token[t].user), !.sees = SessionsOf(token[t].user)]]
  /\ UNCHANGED <<user, link, session, token>>

\* recover_account: the token is consumed under its lock, and the UPDATE of
\* the sessions starts.
RecoverSessions(x, t) ==
  /\ request[x] = NoRow
  /\ UsableToken(t) /\ Free(t)
  /\ request' = [request EXCEPT ![x] = [Started("recover", t) EXCEPT
                              !.todo = SessionsOf(token[t].user), !.sees = SessionsOf(token[t].user)]]
  /\ UNCHANGED <<user, link, session, token>>

\* The UPDATE under way takes the next row, if it is still to be updated.
Take(x, row) ==
  /\ row \in Wants(x) /\ Free(row)
  /\ request' = [request EXCEPT ![x].todo = @ \ {row}, ![x].held = @ \cup {row}]
  /\ UNCHANGED <<user, link, session, token>>

\* The UPDATE of the other recovery tokens starts.
RecoverTokens(x) ==
  LET u == token[request[x].row].user IN
  /\ Serves(x, "recover") /\ Wants(x) = {} /\ request[x].seen = NoRow
  /\ request' = [request EXCEPT ![x].seen = TokensOf(u), ![x].todo = TokensOf(u) \ {request[x].row}]
  /\ UNCHANGED <<user, link, session, token>>

\* With the notification and the audit row.
Recover(x) ==
  LET t == request[x].row IN
  /\ Serves(x, "recover") /\ Wants(x) = {} /\ request[x].seen # NoRow
  /\ session' = [s \in Session |-> IF s \in request[x].held
                                   THEN [session[s] EXCEPT !.revoked = TRUE] ELSE session[s]]
  /\ token' = [o \in Token |->
       IF o = t THEN [token[t] EXCEPT !.consumed = TRUE, !.known = request[x].seen,
                                      !.ends = request[x].sees]
       ELSE IF o \in request[x].held /\ UsableToken(o) THEN [token[o] EXCEPT !.closed = TRUE]
       ELSE token[o]]
  /\ request' = RequestEnded(x)
  /\ UNCHANGED <<user, link>>

\* The database ends one of two transactions that wait for each other.
WaitsFor(x, y) == Wants(x) \cap Held(y) # {}

DeadlockVictim(x) == (\E y \in Request : x # y /\ WaitsFor(x, y) /\ WaitsFor(y, x)) /\ RollbackRequest(x)

-----------------------------------------------------------------------------
(* External identity links *)

\* require_ready: the fixed user is locked, and there is no link at all.
Bootstrap(x, u) ==
  /\ request[x] = NoRow
  /\ Free(u)
  /\ user[u].active /\ user[u].allowed
  /\ \A v \in User : link[v].status = "absent"
  /\ request' = [request EXCEPT ![x] = Started("bootstrap", u)]
  /\ UNCHANGED <<user, link, session, token>>

\* commit: another link of the same user would be of another subject.
Bootstrapped(x) ==
  /\ Serves(x, "bootstrap")
  /\ link' = [link EXCEPT ![request[x].row] = [status |-> "active", version |-> @.version + 1]]
  /\ request' = RequestEnded(x)
  /\ UNCHANGED <<user, session, token>>

\* begin_identity_link_review reads session and link without a lock.
ReviewLink(x, s) ==
  /\ request[x] = NoRow
  /\ Live(s) /\ session[s].strength = "mfa"
  /\ link[session[s].user].status # "absent" /\ link[session[s].user].version < MaxLinkVersion
  /\ request' = [request EXCEPT ![x] = [Started("review", s) EXCEPT !.held = {}, !.seen = link[session[s].user]]]
  /\ UNCHANGED <<user, link, session, token>>

\* It writes the version it read plus one; nothing here ends the review.
LinkReviewed(x) ==
  LET u == session[request[x].row].user IN
  /\ Serves(x, "review")
  /\ link' = [link EXCEPT ![u] = [status |-> "review_pending", version |-> request[x].seen.version + 1]]
  /\ request' = RequestEnded(x)
  /\ UNCHANGED <<user, session, token>>

-----------------------------------------------------------------------------
\* A user is suspended, or its membership or role changes.
Surroundings(u) ==
  /\ \/ user[u].active /\ user' = [user EXCEPT ![u].active = FALSE]
     \/ user[u].allowed /\ user' = [user EXCEPT ![u].allowed = FALSE]
  /\ UNCHANGED <<link, session, token, request>>

NextIdentity ==
  \/ \E x \in Request :
       \/ \E s \in Session : Authenticate(x, s) \/ RotateSession(x, s) \/ ReviewLink(x, s)
       \/ \E t \in Token : RecoverSessions(x, t)
       \/ \E row \in Session \cup Token : Take(x, row)
       \/ \E u \in User : Bootstrap(x, u)
       \/ Authorize(x) \/ Act(x) \/ SignOut(x)
       \/ RecoverTokens(x) \/ Recover(x)
       \/ Bootstrapped(x) \/ LinkReviewed(x)
       \/ DeadlockVictim(x) \/ RollbackRequest(x)
  \/ \E s \in Session : Revoke(s)
  \/ \E s \in Session, u \in User : SignIn(s, u) \/ IssueSession(s, u)
  \/ \E t \in Token : CloseToken(t) \/ \E u \in User : IssueToken(t, u)
  \/ \E u \in User : Surroundings(u)

IdentitySpec == InitIdentity /\ [][NextIdentity]_idVars

-----------------------------------------------------------------------------
\* The rows are rows of their tables.
IdentityTypeOK ==
  /\ user \in [User -> [active : BOOLEAN, allowed : BOOLEAN]]
  /\ link \in [User -> [status : {"absent", "active", "review_pending"}, version : Nat]]
  /\ session \in [Session -> SessionRow \cup {NoRow}]
  /\ token \in [Token -> TokenRow \cup {NoRow}]

\* A request keeps the session it authenticated until it ends: a revocation or
\* a recovery waits for it, so nothing is done, and no session is rotated, in
\* the name of a revoked one.  A session has one heir at most.
UsedSessionsLive ==
  /\ \A x \in Request : Serves(x, "use") \/ Serves(x, "act") => ~session[request[x].row].revoked
  /\ \A r, s \in Session :
       r # s /\ session[r] # NoRow /\ session[s] # NoRow /\ session[r].from # NoRow
         => session[r].from # session[s].from

\* A session that was there when a recovery started is revoked when it commits (one
\* that a request in flight rotates into meanwhile is not), and of recovery tokens that
\* were open side by side one is used at most, though recoveries run at the same time
\* and the database picks the victim.
RecoveryEndsOthers ==
  \A t \in Token : token[t] # NoRow =>
    /\ \A s \in token[t].ends : session[s].revoked
    /\ \A o \in Token \ {t} :
         token[o] # NoRow /\ token[t].consumed /\ token[o].consumed
           => ~(o \in token[t].known /\ t \in token[o].known)
=============================================================================
