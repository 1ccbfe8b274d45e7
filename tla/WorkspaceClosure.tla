-------------------------- MODULE WorkspaceClosure --------------------------
(***************************************************************************)
(* Closing a workspace: WorkspaceRecoveryService of app/recovery/service.py *)
(* with the exports and the evidence it keeps, and the trigger that        *)
(* freezes the writes of a workspace that is not active.                   *)
(*                                                                         *)
(* close locks the workspace's row, so it is one step once it has the      *)
(* lock.  Before, its execution context was checked without a lock.  A     *)
(* writer's insert is three steps: the trigger reads the workspace's       *)
(* status without a lock; the foreign key then shares the row, which       *)
(* waits for a close that has it; and the transaction commits.             *)
(***************************************************************************)
EXTENDS Integers, FiniteSets

CONSTANTS
  Row,         \* rows of the tables that a closure erases: sessions, tokens, inbox ...
  Key,         \* idempotency keys of closures and exports
  Backup,      \* ids of backups
  Digest,      \* digests of recovery evidence
  Envelope,    \* uses of envelopes in this workspace: "none", "credential", "oauth"
  ClosureTxn,  \* concurrent transactions
  Absent

VARIABLES
  workspace,  \* its status
  held,       \* legal hold, or a retention that has not run out
  row,        \* the rows: absent, live or revoked
  envelope,   \* the uses of the envelopes that are there
  closure,    \* workspace_closures.state, by idempotency key
  closed,     \* the workspace.closed events recorded
  export,     \* the rows counted in the manifest of each export
  evidence,   \* evidence_digest of each backup's operations
  closureTxn  \* the transactions under way

closureVars == <<workspace, held, row, envelope, closure, closed, export, evidence, closureTxn>>

Operation == {"backup", "restore", "key_recovery"}

InitClosure ==
  /\ workspace = "active"
  /\ held = FALSE
  /\ row = [r \in Row |-> Absent]
  /\ envelope = Envelope
  /\ closure = [k \in Key |-> Absent]
  /\ closed = 0
  /\ export = [k \in Key |-> Absent]
  /\ evidence = [b \in Backup |-> [op \in Operation |-> Absent]]
  /\ closureTxn = [x \in ClosureTxn |-> Absent]

TxnBegan(x, record) == closureTxn[x] = Absent /\ closureTxn' = [closureTxn EXCEPT ![x] = record]
TxnEnded(x)         == closureTxn' = [closureTxn EXCEPT ![x] = Absent]
TxnRuns(x, op)      == closureTxn[x] # Absent /\ closureTxn[x].op = op

-----------------------------------------------------------------------------
(* Writers *)

\* enforce_workspace_write_state
Writable == workspace = "active"

Insert(x, r) ==
  /\ Writable
  /\ row[r] = Absent
  /\ \A y \in ClosureTxn : closureTxn[y] # Absent => closureTxn[y].row # r
  /\ TxnBegan(x, [op |-> "write", row |-> r, key |-> Absent])
  /\ UNCHANGED <<workspace, held, row, envelope, closure, closed, export, evidence>>

\* The foreign key's lock: a close has to wait from here on.
Share(x) ==
  /\ TxnRuns(x, "write")
  /\ closureTxn' = [closureTxn EXCEPT ![x].op = "share"]
  /\ UNCHANGED <<workspace, held, row, envelope, closure, closed, export, evidence>>

Commit(x) ==
  /\ TxnRuns(x, "share")
  /\ row' = [row EXCEPT ![closureTxn[x].row] = "live"]
  /\ TxnEnded(x)
  /\ UNCHANGED <<workspace, held, envelope, closure, closed, export, evidence>>

\* As a bug: holds are left out of the freeze.
HoldAnytime ==
  /\ ~held
  /\ held' = TRUE
  /\ UNCHANGED <<workspace, row, envelope, closure, closed, export, evidence, closureTxn>>

\* The table of holds is guarded too; only time runs on in a frozen workspace.
Hold ==
  /\ Writable /\ ~held
  /\ held' = TRUE
  /\ UNCHANGED <<workspace, row, envelope, closure, closed, export, evidence, closureTxn>>

Release ==
  /\ held
  /\ held' = FALSE
  /\ UNCHANGED <<workspace, row, envelope, closure, closed, export, evidence, closureTxn>>

-----------------------------------------------------------------------------
(* Exports and evidence *)

Manifest == {r \in Row : row[r] # Absent}

\* An export asked for again is answered from its row.
CreateExport(k) ==
  /\ Writable
  /\ export[k] = Absent
  /\ export' = [export EXCEPT ![k] = Manifest]
  /\ UNCHANGED <<workspace, held, row, envelope, closure, closed, evidence, closureTxn>>

\* Evidence is recorded once; evidence with another digest is refused.
Recorded(b, op, digest) ==
  /\ workspace # "closed"
  /\ evidence[b][op] = Absent
  /\ evidence' = [evidence EXCEPT ![b][op] = digest]
  /\ UNCHANGED <<workspace, held, row, envelope, closure, closed, export, closureTxn>>

RecordBackup(b, digest)      == Recorded(b, "backup", digest)
RecordRestore(b, digest)     == Recorded(b, "restore", digest)
RecordKeyRecovery(b, digest) == Recorded(b, "key_recovery", digest)

-----------------------------------------------------------------------------
(* Closure *)

\* ExecutionContextService.apply
StartClose(x, k) ==
  /\ workspace # "closed"
  /\ TxnBegan(x, [op |-> "close", key |-> k, row |-> Absent])
  /\ UNCHANGED <<workspace, held, row, envelope, closure, closed, export, evidence>>

Lockable == \A y \in ClosureTxn : ~TxnRuns(y, "share")

\* Sessions, tokens and memberships are revoked by the first close of a key.
RevokeAccess(rows) == [r \in Row |-> IF rows[r] = "live" THEN "revoked" ELSE rows[r]]

Revoked(k) == IF closure[k] = Absent THEN RevokeAccess(row) ELSE row

\* The envelopes of credentials are kept; an OAuth transaction's cannot be deleted,
\* for its row is kept and refers to it.
Erasable == "oauth" \notin envelope

Erase ==
  /\ Erasable
  /\ row' = [r \in Row |-> Absent]
  /\ envelope' = envelope \ {"none"}

\* The two ends of close, for a key that is not closed yet; one that is, is replayed.
Block(x) ==
  LET k == closureTxn[x].key
  IN /\ TxnRuns(x, "close") /\ Lockable
     /\ closure[k] # "closed"
     /\ held
     /\ row' = Revoked(k)
     /\ workspace' = IF closure[k] = Absent THEN "closing" ELSE workspace
     /\ closure' = [closure EXCEPT ![k] = "retention_blocked"]
     /\ TxnEnded(x)
     /\ UNCHANGED <<held, envelope, closed, export, evidence>>

Close(x) ==
  LET k == closureTxn[x].key
  IN /\ TxnRuns(x, "close") /\ Lockable
     /\ closure[k] # "closed"
     /\ ~held
     /\ Erase
     /\ workspace' = "closed"
     /\ closure' = [closure EXCEPT ![k] = "closed"]
     /\ closed' = closed + 1
     /\ TxnEnded(x)
     /\ UNCHANGED <<held, export, evidence>>

RollbackTxn(x) ==
  closureTxn[x] # Absent /\ TxnEnded(x)
    /\ UNCHANGED <<workspace, held, row, envelope, closure, closed, export, evidence>>

NextClosure ==
  \/ \E x \in ClosureTxn :
       \/ \E r \in Row : Insert(x, r)
       \/ Share(x) \/ Commit(x)
       \/ \E k \in Key : StartClose(x, k)
       \/ Block(x) \/ Close(x) \/ RollbackTxn(x)
  \/ Hold \/ Release
  \/ \E k \in Key : CreateExport(k)
  \/ \E b \in Backup, digest \in Digest :
       RecordBackup(b, digest) \/ RecordRestore(b, digest) \/ RecordKeyRecovery(b, digest)

ClosureSpec == InitClosure /\ [][NextClosure]_closureVars

-----------------------------------------------------------------------------
(* Properties *)

\* A closed workspace stays closed: a close that another key started in time repeats
\* the erasure, and never leaves the workspace half open, at its retention.
ClosedForGood ==
  (\E k \in Key : closure[k] = "closed") => workspace = "closed"

\* A closed workspace has no rows left of the tables that its closure erases.
ClosedIsErased == workspace = "closed" => Manifest = {}

\* The closure of a workspace is told once.
ToldOnce == closed <= 1

\* A closure that nothing holds back can be completed.
Completable == workspace = "closing" /\ ~held => Erasable
=============================================================================
