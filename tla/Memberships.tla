---------------------------- MODULE Memberships ----------------------------
(***************************************************************************)
(* The members of one workspace: WorkspaceMembershipService of             *)
(* app/memberships/service.py with the invitation tokens of                *)
(* app/identity/lifecycle.py.                                              *)
(*                                                                         *)
(* The callers own the transactions, and transactions interleave at row    *)
(* locks.  A transaction acquires the locks of its operation one by one,   *)
(* in the order of the code, checks what it read, and commits; it writes   *)
(* only rows it has locked, so its writes are applied when it commits.     *)
(* A lock is held until the end of its transaction.                        *)
(*                                                                         *)
(* A user has at most one membership in the workspace, so the membership   *)
(* is named by its user.  The organization is a business organization.     *)
(***************************************************************************)
EXTENDS Integers, Sequences, FiniteSets

CONSTANTS
  User,         \* users, each the name of its membership
  Role,         \* workspace roles, workspace_owner among them
  Token,        \* invitation tokens
  Txn,          \* concurrent transactions
  None,         \* SQL NULL, and no transaction
  Bootstrap,    \* the owners the workspace starts with
  LastVersion   \* bound: no operation on a membership of this version, by user

Workspace  == "workspaces row"
AuditChain == "audit_chain_heads row"
Owner      == "workspace_owner"

ASSUME MembershipAssumption ==
  /\ Owner \in Role
  /\ Bootstrap \subseteq User /\ Bootstrap # {}
  /\ None \notin User \cup Role \cup Token \cup Txn

VARIABLES
  member,   \* workspace_memberships
  token,    \* identity_lifecycle_tokens of purpose invitation
  holder,   \* the transaction that holds each row lock
  txn       \* where each transaction is

vars == <<member, token, holder, txn>>

NoMember == [status |-> "absent", role |-> None, version |-> 0,
             invitation |-> None, accepted |-> None]

OwnerRow == [NoMember EXCEPT !.status = "active", !.role = Owner, !.version = 1]

NoToken == [user |-> None, version |-> 0, role |-> None, valid |-> TRUE, consumed |-> FALSE]

Idle == [pc |-> "idle", op |-> None, user |-> None, to |-> None, token |-> None,
         held |-> 0, seen |-> 0, row |-> NoMember]

Init ==
  /\ member = [u \in User |-> IF u \in Bootstrap THEN OwnerRow ELSE NoMember]
  /\ token = [t \in Token |-> NoToken]
  /\ holder = [l \in {Workspace, AuditChain} \cup User \cup Token |-> None]
  /\ txn = [x \in Txn |-> Idle]

-----------------------------------------------------------------------------
(* Locks *)

PlanWithoutWorkspace(r) ==
  CASE r.op \in {"invite", "create"} -> <<Workspace, r.user, AuditChain>>
    [] r.op \in {"role", "status"}   -> <<r.user, AuditChain>>
    [] OTHER                         -> <<r.token, r.user, AuditChain, Workspace>>

PlanWithoutMember(r) ==
  CASE r.op \in {"invite", "create"} -> <<Workspace, r.user, AuditChain>>
    [] r.op \in {"role", "status"}   -> <<r.user, Workspace, AuditChain>>
    [] OTHER                         -> <<r.token, AuditChain, Workspace>>

\* The rows an operation locks, in order.  The audit insert locks the chain
\* head in its trigger; its foreign key then locks the workspace.
Plan(r) ==
  CASE r.op \in {"invite", "create"} -> <<Workspace, r.user, AuditChain>>
    [] r.op \in {"role", "status"}   -> <<r.user, Workspace, AuditChain>>
    [] r.op = "accept"               -> <<r.token, r.user, AuditChain, Workspace>>

\* The checks come after every lock but those of the audit insert.
ChecksAfter(r) == (CHOOSE i \in DOMAIN Plan(r) : Plan(r)[i] = AuditChain) - 1

Wants(x) == Plan(txn[x])[txn[x].held + 1]

Acquiring(x) ==
  \/ txn[x].pc = "begun" /\ txn[x].held < ChecksAfter(txn[x])
  \/ txn[x].pc = "checked" /\ txn[x].held < Len(Plan(txn[x]))

\* A row that does not exist yet locks nothing.
Acquire(x) ==
  /\ Acquiring(x)
  /\ IF Wants(x) \in User /\ member[Wants(x)].status = "absent"
     THEN UNCHANGED holder
     ELSE /\ holder[Wants(x)] = None
          /\ holder' = [holder EXCEPT ![Wants(x)] = x]
  /\ txn' = [txn EXCEPT ![x].held = @ + 1]
  /\ UNCHANGED <<member, token>>

Release(x) == [l \in DOMAIN holder |-> IF holder[l] = x THEN None ELSE holder[l]]

RollbackKeepsLocks(x) ==
  /\ txn[x].pc # "idle"
  /\ txn' = [txn EXCEPT ![x] = Idle]
  /\ UNCHANGED <<member, token, holder>>

\* A check that raises, a lost connection or a caller that changes its mind.
Rollback(x) ==
  /\ txn[x].pc # "idle"
  /\ txn' = [txn EXCEPT ![x] = Idle]
  /\ holder' = Release(x)
  /\ UNCHANGED <<member, token>>

WaitsFor(x, y) == Acquiring(x) /\ x # y /\ holder[Wants(x)] = y

\* A circle of two or three transactions, each waiting for the next.
Deadlocked(x) ==
  \E y \in Txn : /\ WaitsFor(x, y)
                 /\ WaitsFor(y, x) \/ \E z \in Txn : WaitsFor(y, z) /\ WaitsFor(z, x)

\* The database ends one transaction of a circle.
DeadlockVictim(x) == Deadlocked(x) /\ Rollback(x)

-----------------------------------------------------------------------------
(* Operations *)

Begin(x, request) ==
  /\ txn[x].pc = "idle"
  /\ member[request.user].version < LastVersion[request.user]
  /\ txn' = [txn EXCEPT ![x] = request]
  /\ UNCHANGED <<member, token, holder>>

Started(op, u) == [Idle EXCEPT !.pc = "begun", !.op = op, !.user = u]

BeginInvite(x, u, role, t) ==
  /\ token[t].user = None
  /\ \A y \in Txn : txn[y].token # t
  /\ Begin(x, [Started("invite", u) EXCEPT !.to = role, !.token = t])

BeginCreate(x, u, role) == Begin(x, [Started("create", u) EXCEPT !.to = role])

BeginChangeRole(x, u, role) ==
  member[u].status # "absent" /\ Begin(x, [Started("role", u) EXCEPT !.to = role])

BeginSetStatus(x, u, status) ==
  member[u].status # "absent" /\ Begin(x, [Started("status", u) EXCEPT !.to = status])

\* _invitation_authority_version reads the membership without a lock.
BeginAccept(x, t) ==
  /\ token[t].user # None
  /\ Begin(x, [Started("accept", token[t].user) EXCEPT
                 !.token = t, !.seen = member[token[t].user].version])

Allowed(from) ==
  CASE from = "active"    -> {"suspended", "revoked"}
    [] from = "suspended" -> {"active", "revoked"}
    [] from = "invited"   -> {"revoked"}
    [] from = "revoked"   -> {}

ActiveOwners(rows) == {u \in User : rows[u].status = "active" /\ rows[u].role = Owner}

AdditionalOwner(u) == ActiveOwners(member) \ {u} # {}

InvitationUsable(t, seen) ==
  /\ token[t].valid
  /\ ~token[t].consumed
  /\ token[t].version = seen

InvitationMatchesUser(u, t) == member[u].status = "invited" /\ token[t].user = u

InvitationMatches(u, t) ==
  /\ member[u].status = "invited"
  /\ token[t].user = u
  /\ member[u].invitation = t
  /\ token[t].role = member[u].role
  /\ token[t].version = member[u].version

MayInvite(row) == row.status \in {"absent", "revoked"}

MayCreate(row) == row.status = "absent"

MayChangeRole(u, row, role) ==
  /\ row.status = "active"
  /\ row.role = Owner /\ role # Owner => AdditionalOwner(u)

MaySetStatus(u, row, status) ==
  /\ status \in Allowed(row.status)
  /\ row.role = Owner /\ row.status = "active" => AdditionalOwner(u)

\* What the operation requires of the rows it has read.
Permitted(r) ==
  LET row == member[r.user]
  IN  CASE r.op = "invite" -> MayInvite(row)
        [] r.op = "create" -> MayCreate(row)
        [] r.op = "role"   -> MayChangeRole(r.user, row, r.to)
        [] r.op = "status" -> MaySetStatus(r.user, row, r.to)
        [] r.op = "accept" -> /\ InvitationUsable(r.token, r.seen)
                              /\ InvitationMatches(r.user, r.token)

Check(x) ==
  /\ txn[x].pc = "begun"
  /\ txn[x].held = ChecksAfter(txn[x])
  /\ Permitted(txn[x])
  /\ txn' = [txn EXCEPT ![x].pc = "checked", ![x].row = member[txn[x].user]]
  /\ UNCHANGED <<member, token, holder>>

Invited(row, role, t) ==
  [row EXCEPT !.status = "invited", !.role = role, !.version = @ + 1,
              !.invitation = t, !.accepted = None]

Created(row, role) == [row EXCEPT !.status = "active", !.role = role, !.version = 1]

RoleChanged(row, role) == [row EXCEPT !.role = role, !.version = @ + 1]

StatusSet(row, status) == [row EXCEPT !.status = status, !.version = @ + 1]

Accepted(row, t) == [row EXCEPT !.status = "active", !.accepted = t, !.version = @ + 1]

\* The membership row as the transaction writes it.
Written(r) ==
  CASE r.op = "invite" -> Invited(r.row, r.to, r.token)
    [] r.op = "create" -> Created(r.row, r.to)
    [] r.op = "role"   -> RoleChanged(r.row, r.to)
    [] r.op = "status" -> StatusSet(r.row, r.to)
    [] r.op = "accept" -> Accepted(r.row, r.token)

After(r) == [member EXCEPT ![r.user] = Written(r)]

\* The deferred constraint trigger counts the owners at the end.
OwnerKept(rows) == ActiveOwners(rows) # {}

IssuedToken(r) ==
  [NoToken EXCEPT !.user = r.user, !.role = r.to, !.version = Written(r).version]

Commit(x) ==
  LET r == txn[x]
  IN  /\ r.pc = "checked"
      /\ r.held = Len(Plan(r))
      /\ OwnerKept(After(r))
      /\ member' = After(r)
      /\ token' = CASE r.op = "invite" -> [token EXCEPT ![r.token] = IssuedToken(r)]
                    [] r.op = "accept" -> [token EXCEPT ![r.token].consumed = TRUE]
                    [] OTHER           -> token
      /\ holder' = Release(x)
      /\ txn' = [txn EXCEPT ![x] = Idle]

\* revoke_lifecycle_token, or the token expires.  A consumed token may be
\* revoked too, which nothing reads; an expiry while a transaction holds the
\* token comes after that transaction.
TokenEnds(t) ==
  /\ token[t].user # None /\ ~token[t].consumed
  /\ token[t].valid
  /\ holder[t] = None
  /\ token' = [token EXCEPT ![t].valid = FALSE]
  /\ UNCHANGED <<member, holder, txn>>

Operation(x) ==
  \/ \E u \in User, role \in Role, t \in Token : BeginInvite(x, u, role, t)
  \/ \E u \in User, role \in Role : BeginCreate(x, u, role) \/ BeginChangeRole(x, u, role)
  \/ \E u \in User, status \in {"active", "suspended", "revoked"} : BeginSetStatus(x, u, status)
  \/ \E t \in Token : BeginAccept(x, t)

Next ==
  \/ \E x \in Txn : \/ Operation(x)
                    \/ Acquire(x)
                    \/ Check(x)
                    \/ Commit(x)
                    \/ Rollback(x)
                    \/ DeadlockVictim(x)
  \/ \E t \in Token : TokenEnds(t)

Spec == Init /\ [][Next]_vars

\* Lock queues are first come, first served; a transaction that can go on does
\* so, one that cannot raises; the database finds deadlocks.
Fairness ==
  \A x \in Txn :
    /\ SF_vars(Acquire(x))
    /\ WF_vars(Check(x) \/ Commit(x) \/ (~Acquiring(x) /\ Rollback(x)))
    /\ WF_vars(DeadlockVictim(x))

FairSpec == Spec /\ Fairness

-----------------------------------------------------------------------------
(* Types *)

MemberRow == [status : {"absent", "invited", "active", "suspended", "revoked"},
              role : Role \cup {None}, version : Nat,
              invitation : Token \cup {None}, accepted : Token \cup {None}]

\* The CHECK constraints of the tables hold, and a row lock is held only by a
\* transaction that is under way.
TypeOK ==
  /\ member \in [User -> MemberRow]
  /\ token \in [Token -> [user : User \cup {None}, version : Nat, role : Role \cup {None},
                          valid : BOOLEAN, consumed : BOOLEAN]]
  /\ \A u \in User : member[u].status = "absent" <=> member[u].version = 0
  /\ \A l \in DOMAIN holder : holder[l] = None \/ txn[holder[l]].pc # "idle"

(* Safety *)

\* The checks of the service are enough: two transactions that each leave an
\* owner cannot together remove the last one, and no transaction that passed
\* its checks is refused by the deferred trigger at the end.
OwnerSurvivesCommit ==
  /\ OwnerKept(member)
  /\ \A x \in Txn : txn[x].pc = "checked" => OwnerKept(After(txn[x]))

(* Refinement *)

Atomic == INSTANCE AtomicMemberships

\* Concurrent operations come out as if each had been one step on the rows as
\* they are when it commits: nothing an operation checked under its locks has
\* been changed by another before it writes, so no change is lost, no earlier,
\* revoked or used invitation activates a membership, and no change or
\* invitation is made that the rows then would not have allowed.
ImplementsAtomicMemberships == Atomic!Spec

(* Liveness *)

\* Operations lock the workspace, the membership and the audit chain in three
\* different orders; every transaction nevertheless ends.
EveryTransactionEnds == \A x \in Txn : txn[x].pc # "idle" ~> txn[x].pc = "idle"
=============================================================================
