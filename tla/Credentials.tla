---------------------------- MODULE Credentials ----------------------------
(***************************************************************************)
(* The generations of a connection's OAuth credential, the envelopes they  *)
(* are encrypted in, the sink that stores what the provider grants, and    *)
(* the operator's revocation: ConnectionCredentialService,                 *)
(* EnvelopeEncryptionService, GmailCredentialSink and                      *)
(* GmailConnectionLifecycleService.                                        *)
(*                                                                         *)
(* A new generation is one more than the latest (its row is locked, and    *)
(* uq_connection_credentials_generation refuses a second one), so the      *)
(* generations are a sequence.  A service that reads what it changes FOR   *)
(* UPDATE is one step.  Three are more than one, because they go by rows   *)
(* read without a lock: the operator's change, a shadow migration and a    *)
(* refresh.  An error is raised through the transaction and undoes it, so  *)
(* what a failing call wrote (a quarantined envelope, a failed inventory   *)
(* row) is never there afterwards.                                         *)
(***************************************************************************)
EXTENDS Connections, Sequences

CONSTANTS
  Source,        \* rows of the legacy credential tables
  Rotation,      \* rotation_request_id of key rotations
  Txn,           \* concurrent transactions
  MaxGeneration  \* bound on the generations

VARIABLES
  credential,  \* connection_credentials, by generation, each with its envelope
  inventory,   \* credential_migration_inventory.status of each source
  txn          \* the transactions under way

credentialVars == <<credential, inventory, txn>>

CredentialStatus == {"shadow_verified", "active", "reauthorization_required", "revoked", "disabled"}

EnvelopeRow == [status : {"active", "disabled"}, rotation : Rotation \cup {None}]

\* "from": what made the generation; a rotated shadow generation is still one.
CredentialRow ==
  [status : CredentialStatus, envelope : EnvelopeRow, from : {"callback", "refresh", "shadow", "rotation"}]

InitCredentials ==
  /\ credential = <<>>
  /\ inventory = [s \in Source |-> None]
  /\ txn = [x \in Txn |-> None]

-----------------------------------------------------------------------------
(* Envelopes *)

Encrypted == [status |-> "active", rotation |-> None]

\* A disabled envelope is refused to every operation.
Locked(g) == credential[g].envelope.status = "active"

\* A rotation already recorded on the envelope is answered from it.
Rotated(g, r) ==
  /\ Locked(g)
  /\ credential[g].envelope.rotation # r
  /\ credential' = [credential EXCEPT ![g].envelope.rotation = r]
  /\ UNCHANGED <<connVars, inventory, txn>>

Rewrap(g, r)         == Rotated(g, r)
ReplaceDataKey(g, r) == Rotated(g, r)

-----------------------------------------------------------------------------
(* Generations *)

Latest == Len(credential)

Usable(g) == credential[g].status \in {"active", "shadow_verified"}

\* ManagedConnectionCredentialLoader.load
Loadable == credential # <<>> /\ Usable(Latest) /\ Locked(Latest)

\* IntegrationResolver.resolve
Resolvable(k) ==
  /\ conn # None
  /\ conn.status = "active"
  /\ grant[k] = "granted"
  /\ credential # <<>> /\ Usable(Latest)

Generation(status, from) == [status |-> status, envelope |-> Encrypted, from |-> from]

Appended(rows, row) == Len(rows) < MaxGeneration /\ credential' = Append(rows, row)

AfterRotation(g) == IF credential[g].from = "shadow" THEN "shadow" ELSE "rotation"

\* rotate: only the latest has a free generation after it.
Rotate(g) ==
  /\ Usable(g)
  /\ g = Latest
  /\ Appended([credential EXCEPT ![g].status = "revoked"], Generation("shadow_verified", AfterRotation(g)))
  /\ UNCHANGED <<connVars, inventory, txn>>

\* As a bug: the envelope goes and the status stays.
WithoutEnvelope(g, status) == [credential EXCEPT ![g].envelope.status = "disabled"]

WithoutCredential(g, status) ==
  [credential EXCEPT ![g].status = status, ![g].envelope.status = "disabled"]

\* revoke and require_reauthorization
MakeUnavailable(g, status) ==
  /\ Usable(g) /\ Locked(g)
  /\ credential' = WithoutCredential(g, status)
  /\ UNCHANGED <<connVars, inventory, txn>>

EmergencyDisable(g) ==
  /\ credential[g].status \notin {"revoked", "disabled"} /\ Locked(g)
  /\ credential' = WithoutCredential(g, "disabled")
  /\ UNCHANGED <<connVars, inventory, txn>>

-----------------------------------------------------------------------------
(* The sink, and the loader that refreshes through it *)

Bindable == Open

\* Only the latest generation is retired, and its envelope stays as it is.
Retired ==
  IF credential = <<>> THEN credential
  ELSE [credential EXCEPT ![Latest].status = "revoked"]

Store(from) ==
  /\ Bindable
  /\ Appended(Retired, Generation("active", from))
  /\ Save(Moved(conn, "active"))
  /\ UNCHANGED <<grant, inventory>>

Began(x, record) == txn[x] = None /\ txn' = [txn EXCEPT ![x] = record]

Ended(x) == txn' = [txn EXCEPT ![x] = None]

Runs(x, op) == txn[x] # None /\ txn[x].op = op

\* The loader finds the grant expired and asks the provider for another one.
StartRefresh(x) ==
  /\ Loadable
  /\ Began(x, [op |-> "refresh"])
  /\ UNCHANGED <<connVars, credential, inventory>>

Refresh(x) == Runs(x, "refresh") /\ Store("refresh") /\ Ended(x)

-----------------------------------------------------------------------------
(* Shadow migration of a legacy row *)

\* The connection is read without a lock; the source is locked to the end.
StartMigration(x, s) ==
  /\ Open
  /\ inventory[s] # "verified"
  /\ \A y \in Txn : Runs(y, "migrate") => txn[y].source # s
  /\ Began(x, [op |-> "migrate", source |-> s])
  /\ UNCHANGED <<connVars, credential, inventory>>

\* The envelope is verified against the legacy plaintext before the commit.
Migrate(x) ==
  /\ Runs(x, "migrate")
  /\ Appended(credential, Generation("shadow_verified", "shadow"))
  /\ inventory' = [inventory EXCEPT ![txn[x].source] = "verified"]
  /\ Ended(x)
  /\ UNCHANGED connVars

-----------------------------------------------------------------------------
(* The operator revokes or disables a connection with its credential *)

\* The connection is loaded once, before its row is locked, and not again.
ReadConnection(x) ==
  /\ conn # None
  /\ Began(x, [op |-> "change", seen |-> conn, latest |-> Latest])
  /\ UNCHANGED <<connVars, credential, inventory>>

\* The transition as the service makes it, from the row it has seen.
FromSeen(x, target) ==
  /\ target \in Transitions[txn[x].seen.status]
  /\ Save(Moved(txn[x].seen, target))

\* As a bug: the connection is read again once it is locked; its credential is not.
OperatorChangeOfSeen(x, target, status) ==
  /\ Runs(x, "change")
  /\ txn[x].latest # 0 /\ Locked(txn[x].latest)
  /\ credential' = WithoutCredential(txn[x].latest, status)
  /\ target \in Transitions[conn.status]
  /\ Save(Moved(conn, target))
  /\ Ended(x)
  /\ UNCHANGED <<grant, inventory>>

\* The credential is the latest of some moment in between.
OperatorChange(x, target, status) ==
  /\ Runs(x, "change")
  /\ \E g \in DOMAIN credential :
       /\ g >= txn[x].latest
       /\ Usable(g) /\ Locked(g)
       /\ credential' = WithoutCredential(g, status)
  /\ FromSeen(x, target)
  /\ Ended(x)
  /\ UNCHANGED <<grant, inventory>>

OperatorRevoke(x)           == OperatorChange(x, "revoked", "revoked")
OperatorEmergencyDisable(x) == OperatorChange(x, "closed", "disabled")

-----------------------------------------------------------------------------
Rollback(x) == txn[x] # None /\ Ended(x) /\ UNCHANGED <<connVars, credential, inventory>>

NextCredential ==
  \/ \E g \in DOMAIN credential :
       \/ \E r \in Rotation : Rewrap(g, r) \/ ReplaceDataKey(g, r)
       \/ Rotate(g) \/ EmergencyDisable(g)
       \/ \E status \in {"revoked", "reauthorization_required"} : MakeUnavailable(g, status)
  \/ \E x \in Txn :
       \/ StartRefresh(x) \/ Refresh(x)
       \/ \E s \in Source : StartMigration(x, s)
       \/ Migrate(x)
       \/ ReadConnection(x) \/ OperatorRevoke(x) \/ OperatorEmergencyDisable(x)
       \/ Rollback(x)

-----------------------------------------------------------------------------
(* Properties *)

\* What the sink stored cannot be loaded any more once the connection is revoked or
\* closed, although a refresh may have been under way and the operator works on a
\* connection read before it was locked.
RevokedUnusable ==
  conn # None /\ ~Open /\ Loadable => credential[Latest].from = "shadow"
=============================================================================
