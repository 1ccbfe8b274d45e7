------------------------- MODULE OAuthTransactions -------------------------
(***************************************************************************)
(* How a connection gets its credential: OAuthTransactionService, the      *)
(* Gmail service in front of it and the operator API that calls them, over *)
(* Connections and Credentials.                                            *)
(*                                                                         *)
(* A callback locks its transaction's row, exchanges the code with the     *)
(* provider, hands what it got to the sink and sets the transaction        *)
(* completed, all in one database transaction.  The provider's half cannot *)
(* be undone: a code is good for one exchange, whether the callback        *)
(* commits or not.  The API commits the callbacks that it refuses, with an *)
(* audit record; a refusal changes nothing else unless the transaction     *)
(* fails or has expired.                                                   *)
(***************************************************************************)
EXTENDS Credentials

CONSTANTS
  Context,   \* actor contexts of requests: records with session and decision
  MaxOauth   \* bound on the OAuth transactions

VARIABLES
  oauth,  \* oauth_transactions, in the order they were created
  url    \* what has become of the authorization URL of each

oauthVars == <<oauth, url>>

OAuthStatus == {"pending", "completed", "cancelled", "expired", "failed"}

OAuthRow ==
  [status : OAuthStatus, context : Context, lapsed : BOOLEAN,
   failure : {None, "binding_mismatch", "provider"}, credential : 0..MaxGeneration]

\* A URL is handed out, consented to (then there is a code) and its code spent.
Progress == {"sent", "code", "spent"}

InitOAuth == oauth = <<>> /\ url = <<>>

-----------------------------------------------------------------------------
(* Starting *)

\* A pending row in the starter's context, and a URL with its state and verifier.  A
\* start with the same idempotency key writes nothing: it hands out the same state with
\* a new verifier, whose code the provider refuses to exchange with the verifier kept.
Issue(context) ==
  /\ Len(oauth) < MaxOauth
  /\ oauth' = Append(oauth, [status |-> "pending", context |-> context, lapsed |-> FALSE,
                             failure |-> None, credential |-> 0])
  /\ url' = Append(url, "sent")

Start(context) == Open /\ Issue(context) /\ UNCHANGED <<connVars, credentialVars>>

\* The API creates the connection and starts its authorization in one transaction.
Connect(asked, context) == Create(asked) /\ Issue(context) /\ UNCHANGED credentialVars

\* The account's owner agrees, as often as they follow the URL.
Consent(i) ==
  /\ url[i] # "code"
  /\ url' = [url EXCEPT ![i] = "code"]
  /\ UNCHANGED <<connVars, credentialVars, oauth>>

\* Time passes expires_at.
Lapse(i) ==
  /\ oauth[i].status = "pending" /\ ~oauth[i].lapsed
  /\ oauth' = [oauth EXCEPT ![i].lapsed = TRUE]
  /\ UNCHANGED <<connVars, credentialVars, url>>

-----------------------------------------------------------------------------
(* The callback *)

\* As a bug: the callback reads the row without locking it.
ReadUnlocked(i) == i \in DOMAIN oauth

Unlocked(i) == \A x \in Txn : Runs(x, "callback") => txn[x].oauth # i

\* _require_actor_binding: the same session, and the same authorization decision.
ActorBound(i, context) == context = oauth[i].context

Accepted(i, context) ==
  /\ Unlocked(i)
  /\ oauth[i].status = "pending"
  /\ ActorBound(i, context)

Closed(i, status, failure) ==
  /\ oauth' = [oauth EXCEPT ![i].status = status, ![i].failure = failure]
  /\ UNCHANGED <<connVars, credentialVars, url>>

Expire(i, context) == Accepted(i, context) /\ oauth[i].lapsed /\ Closed(i, "expired", None)

\* Another issuer or redirect URI, a denial, no code, scopes out of policy.
Fail(i, context, failure) ==
  Accepted(i, context) /\ ~oauth[i].lapsed /\ Closed(i, "failed", failure)

Cancel(i, context) == Accepted(i, context) /\ Closed(i, "cancelled", None)

\* The provider accepts a code once.
Exchange(x, i, context) ==
  /\ Accepted(i, context) /\ ~oauth[i].lapsed
  /\ url[i] = "code"
  /\ url' = [url EXCEPT ![i] = "spent"]
  /\ Began(x, [op |-> "callback", oauth |-> i])
  /\ UNCHANGED <<connVars, credential, inventory, oauth>>

\* Without this step the callback is refused by the sink or lost: Rollback.
Complete(x) ==
  /\ Runs(x, "callback")
  /\ Store("callback")
  /\ oauth' = [oauth EXCEPT ![txn[x].oauth].status = "completed",
                            ![txn[x].oauth].credential = Len(credential')]
  /\ Ended(x)
  /\ UNCHANGED url

NextOAuth ==
  \/ \E context \in Context :
       \/ Start(context)
       \/ \E asked \in SUBSET Capability : Connect(asked, context)
       \/ \E i \in DOMAIN oauth :
            \/ Expire(i, context) \/ Cancel(i, context)
            \/ \E failure \in {"binding_mismatch", "provider"} : Fail(i, context, failure)
            \/ \E x \in Txn : Exchange(x, i, context)
  \/ \E i \in DOMAIN oauth : Lapse(i) \/ Consent(i)
  \/ \E x \in Txn : Complete(x)

-----------------------------------------------------------------------------
(* A connection with all that happens to it *)

custodyVars == <<connVars, credentialVars, oauthVars>>

InitCustody == Init /\ InitCredentials /\ InitOAuth

NextCustody ==
  \/ NextConnection /\ UNCHANGED <<credentialVars, oauthVars>>
  \/ NextCredential /\ UNCHANGED oauthVars
  \/ NextOAuth

CustodySpec == InitCustody /\ [][NextCustody]_custodyVars

-----------------------------------------------------------------------------
(* What the operator is shown *)

\* GmailConnectionStatusService._state
State ==
  LET last == IF oauth = <<>> THEN None ELSE oauth[Len(oauth)]
      status == IF credential = <<>> THEN None ELSE credential[Latest].status
      Last(s) == last # None /\ last.status = s
  IN CASE conn.status = "revoked" -> "revoked"
       [] conn.status = "closed" \/ status = "disabled" -> "disabled"
       [] last # None /\ last.failure = "binding_mismatch" -> "mismatched"
       [] Last("expired") \/ (Last("pending") /\ last.lapsed) -> "expired"
       [] "reauthorization_required" \in {conn.status, status} -> "invalid"
       [] conn.status = "active" /\ status = "active" -> "active"
       [] Last("pending") -> "authorization_pending"
       [] Last("failed") \/ Last("cancelled") -> "invalid"
       [] OTHER -> "initiated"

-----------------------------------------------------------------------------
(* Properties *)

\* Every grant that a callback stored is the credential of exactly one completed
\* transaction, although callbacks race, a code can be consented to again and a
\* callback may die between the exchange and its commit.
OneHandoff ==
  \A g \in DOMAIN credential : credential[g].from = "callback" =>
    Cardinality({i \in DOMAIN oauth : oauth[i].status = "completed" /\ oauth[i].credential = g}) = 1

\* A connection shown as active has a credential that can be loaded, and its grants
\* resolve.
ShownActive ==
  conn # None /\ State = "active" =>
    Loadable /\ \A k \in EffectiveCapabilities : Resolvable(k)

\* A callback in the session that started a pending transaction is bound to it.
AuthenticCallbackAccepted ==
  \A i \in DOMAIN oauth, context \in Context :
    oauth[i].status = "pending" /\ context.session = oauth[i].context.session
      => ActorBound(i, context)
=============================================================================
