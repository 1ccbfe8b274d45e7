---------------------------- MODULE Connections ----------------------------
(***************************************************************************)
(* A connection of a workspace to a provider account: ConnectionService of *)
(* app/connections/service.py over its tables and the trigger that guards  *)
(* their updates.  Connections share no row, so the module has one.        *)
(*                                                                         *)
(* The service works in the caller's transaction and reads the connection  *)
(* FOR UPDATE, so a change is one step.  Each change adds one to the       *)
(* version and records an outbox event whose sequence is the new version;  *)
(* a sequence is recorded once (uq_outbox_aggregate_sequence), and a       *)
(* change that cannot record its event is rolled back: no step.  Neither   *)
(* is a caller whose expected version is not the current one.              *)
(***************************************************************************)
EXTENDS Integers, FiniteSets

CONSTANTS
  Capability,  \* capabilities of the registry
  Allowed,     \* those that the connection's kind allows
  None,
  MaxVersion   \* bound: a connection is changed below this version

VARIABLES
  conn,   \* the connection
  grant,  \* of each capability, connection_capability_grants.status
  told    \* sequences of the connection's outbox events

connVars == <<conn, grant, told>>

ConnectionStatus ==
  {"pending", "active", "degraded", "reauthorization_required", "revoked", "closed"}

ConnectionRow == [status : ConnectionStatus, version : 1..MaxVersion]

Init ==
  /\ conn = None
  /\ grant = [k \in Capability |-> None]
  /\ told = {}

-----------------------------------------------------------------------------
(* The life cycle *)

Transitions ==
  [pending |-> {"active", "reauthorization_required", "revoked", "closed"},
   active |-> {"degraded", "reauthorization_required", "revoked", "closed"},
   degraded |-> {"active", "reauthorization_required", "revoked", "closed"},
   reauthorization_required |-> {"active", "revoked", "closed"},
   revoked |-> {"closed"},
   closed |-> {}]

Open == conn # None /\ conn.status \notin {"revoked", "closed"}

\* The trigger: a row moves on by one version, along the transitions.
UpdateAccepted(new) ==
  /\ new.version = conn.version + 1
  /\ new.status = conn.status \/ new.status \in Transitions[conn.status]

\* uq_outbox_aggregate_sequence
Recordable(sequence) == sequence \notin told

Save(new) ==
  /\ UpdateAccepted(new)
  /\ new.version <= MaxVersion
  /\ Recordable(new.version)
  /\ conn' = new
  /\ told' = told \cup {new.version}

Moved(row, status) == [status |-> status, version |-> row.version + 1]

Transition(target) ==
  /\ conn # None
  /\ target \in Transitions[conn.status]
  /\ Save(Moved(conn, target))
  /\ UNCHANGED grant

\* A new row, with the capabilities asked for.
Created(asked) ==
  /\ conn = None
  /\ asked \subseteq Allowed
  /\ grant' = [k \in Capability |-> IF k \in asked THEN "granted" ELSE None]

Create(asked) ==
  /\ Created(asked)
  /\ conn' = [status |-> "pending", version |-> 1]
  /\ told' = {1}

-----------------------------------------------------------------------------
(* Capability grants *)

GrantCapability(k) ==
  /\ Open
  /\ k \in Allowed /\ grant[k] # "granted"
  /\ Save(Moved(conn, conn.status))
  /\ grant' = [grant EXCEPT ![k] = "granted"]

RevokeCapability(k) ==
  /\ Open
  /\ grant[k] = "granted"
  /\ Save(Moved(conn, conn.status))
  /\ grant' = [grant EXCEPT ![k] = "revoked"]

EffectiveCapabilities ==
  IF conn = None THEN {}
  ELSE {k \in Capability : grant[k] = "granted" /\ conn.status \in {"active", "degraded"}}

\* In the application only the operator revokes and closes (in Credentials).
Change ==
  \/ \E target \in ConnectionStatus \ {"revoked", "closed"} : Transition(target)
  \/ \E k \in Capability : GrantCapability(k) \/ RevokeCapability(k)

NextConnection == Change \/ \E asked \in SUBSET Capability : Create(asked)

TypeOK ==
  /\ conn \in ConnectionRow \cup {None}
  /\ grant \in [Capability -> {None, "granted", "revoked"}]
  /\ told \subseteq 1..MaxVersion + 1
-----------------------------------------------------------------------------
(* Properties *)

\* Every change of a connection is told once, in order: the sequences of its events
\* are 1 to its version, whatever the operator, the sink and the services do at the
\* same time.
EveryChangeTold == told = (IF conn = None THEN {} ELSE 1..conn.version)

\* An open connection can be changed (and so revoked): the sequence that its next
\* event needs is free.
NextChangeRecordable == Open => Recordable(conn.version + 1)
=============================================================================
