-------------------------- MODULE MembershipsProofs --------------------------
(***************************************************************************)
(* Proofs about Memberships, for any users, roles, invitations and         *)
(* concurrent transactions.                                                *)
(*                                                                         *)
(* Every operation holds the lock of the workspace when it commits, and of *)
(* those that have passed their checks only acceptances do not hold it     *)
(* already: what a change was checked against is what it is applied to.    *)
(***************************************************************************)
EXTENDS Memberships, TLAPS

\* The names of rows are apart.
RowsApart ==
  /\ User \cap Token = {}
  /\ Workspace \notin User \cup Token /\ AuditChain \notin User \cup Token

Lock == {Workspace, AuditChain} \cup User \cup Token

Operations == {"invite", "create", "role", "status", "accept"}

TokenRow == [user : User \cup {None}, version : Nat, role : Role \cup {None},
             valid : BOOLEAN, consumed : BOOLEAN]

TxnRow == [pc : {"idle", "begun", "checked"}, op : Operations \cup {None}, user : User \cup {None},
           to : Role \cup {"active", "suspended", "revoked", None}, token : Token \cup {None},
           held : Nat, seen : Nat, row : MemberRow]

Typed ==
  /\ member \in [User -> MemberRow]
  /\ token \in [Token -> TokenRow]
  /\ holder \in [Lock -> Txn \cup {None}]
  /\ txn \in [Txn -> TxnRow]

Requested(r) ==
  /\ r.user \in User /\ r.op \in Operations
  /\ r.op \in {"invite", "create", "role"} => r.to \in Role
  /\ r.op = "status" => r.to \in {"active", "suspended", "revoked"}
  /\ r.op \in {"invite", "accept"} => r.token \in Token

\* Only inserts are about a membership that may not be there yet.
RowThere(r) == r.op \in {"role", "status", "accept"} => member[r.user].status # "absent"

Locks(x, r) ==
  /\ r.op \in {"invite", "create"} =>
       /\ r.held >= 1 => holder[Workspace] = x
       /\ r.held >= 2 => holder[r.user] = x \/ member[r.user].status = "absent"
  /\ r.op \in {"role", "status"} =>
       /\ r.held >= 1 => holder[r.user] = x
       /\ r.held >= 2 => holder[Workspace] = x
  /\ r.op = "accept" =>
       /\ r.held >= 2 => holder[r.user] = x
       /\ r.held >= 4 => holder[Workspace] = x

Justified(r) ==
  /\ r.op = "invite" => MayInvite(r.row)
  /\ r.op = "create" => MayCreate(r.row)
  /\ r.op = "role"   => MayChangeRole(r.user, r.row, r.to)
  /\ r.op = "status" => MaySetStatus(r.user, r.row, r.to)
  /\ r.op = "accept" => r.row.status = "invited"

CheckedNow(r) == r.pc = "checked" => r.held >= 2 /\ r.row = member[r.user] /\ Justified(r)

Sound(x) ==
  txn[x].pc # "idle" =>
    /\ Requested(txn[x])
    /\ RowThere(txn[x])
    /\ Locks(x, txn[x])
    /\ CheckedNow(txn[x])

TokensName == \A t \in Token : token[t].user # None => member[token[t].user].status # "absent"

IInv == Typed /\ (\A x \in Txn : Sound(x)) /\ TokensName /\ OwnerKept(member)

-----------------------------------------------------------------------------
LEMMA Starts == ASSUME Init PROVE IInv
<1>1. NoMember \in MemberRow /\ OwnerRow \in MemberRow
  BY MembershipAssumption DEF NoMember, OwnerRow, MemberRow
<1>2. Idle \in TxnRow /\ Idle.pc = "idle"
  BY <1>1 DEF Idle, TxnRow
<1>3. NoToken \in TokenRow /\ NoToken.user = None
  BY DEF NoToken, TokenRow
<1>4. Typed
  BY <1>1, <1>2, <1>3 DEF Init, Typed, Lock
<1>5. \A x \in Txn : Sound(x)
  BY <1>2 DEF Init, Sound
<1>6. TokensName
  BY <1>3 DEF Init, TokensName
<1>7. OwnerKept(member)
  <2>1. PICK u \in User : u \in Bootstrap
    BY MembershipAssumption
  <2>2. member[u].status = "active" /\ member[u].role = Owner
    BY <2>1 DEF Init, OwnerRow, NoMember
  <2> QED BY <2>2 DEF OwnerKept, ActiveOwners
<1> QED BY <1>4, <1>5, <1>6, <1>7 DEF IInv

\* The plans of the operations, and where they are checked.
LEMMA Plans ==
  ASSUME RowsApart, NEW r \in TxnRow, Requested(r)
  PROVE  /\ ChecksAfter(r) = 2
         /\ r.op \in {"invite", "create"} => Plan(r) = <<Workspace, r.user, AuditChain>>
         /\ r.op \in {"role", "status"} => Plan(r) = <<r.user, Workspace, AuditChain>>
         /\ r.op = "accept" => Plan(r) = <<r.token, r.user, AuditChain, Workspace>>
<1>1. /\ r.op \in {"invite", "create"} => Plan(r) = <<Workspace, r.user, AuditChain>>
      /\ r.op \in {"role", "status"} => Plan(r) = <<r.user, Workspace, AuditChain>>
      /\ r.op = "accept" => Plan(r) = <<r.token, r.user, AuditChain, Workspace>>
  BY DEF Plan, Requested, Operations
<1>2. AuditChain # Workspace /\ r.user # AuditChain /\ (r.op = "accept" => r.token # AuditChain)
  BY DEF AuditChain, Workspace, RowsApart, Requested
<1>3. 3 \in DOMAIN Plan(r) /\ \A i \in DOMAIN Plan(r) : Plan(r)[i] = AuditChain <=> i = 3
  BY <1>1, <1>2 DEF Requested, Operations
<1> QED BY <1>1, <1>3 DEF ChecksAfter

\* A transaction stays sound while its row, its locks and the members stay.
LEMMA OthersStay ==
  ASSUME Typed, NEW y \in Txn, Sound(y), UNCHANGED <<member, txn[y]>>,
         \A l \in Lock : holder[l] = y => holder'[l] = y
  PROVE  Sound(y)'
<1> USE DEF Lock
<1>1. CASE txn[y].pc = "idle"
  BY <1>1 DEF Sound
<1>2. CASE txn[y].pc # "idle"
  <2>1. Requested(txn[y])' /\ RowThere(txn[y])' /\ CheckedNow(txn[y])'
    BY <1>2 DEF Sound, Requested, RowThere, CheckedNow, Justified, MayChangeRole, MaySetStatus,
         MayInvite, MayCreate, AdditionalOwner, ActiveOwners
  <2>2. Locks(y, txn[y])'
    BY <1>2 DEF Sound, Locks, Requested
  <2> QED BY <2>1, <2>2 DEF Sound
<1> QED BY <1>1, <1>2

LEMMA BeginKeeps ==
  ASSUME IInv, NEW x \in Txn, NEW r \in TxnRow, Begin(x, r),
         r.pc = "begun", r.held = 0, Requested(r), RowThere(r)
  PROVE  IInv'
<1>1. txn'[x] = r /\ \A y \in Txn : y # x => txn'[y] = txn[y]
  BY DEF Begin, IInv, Typed
<1>2. Typed' /\ TokensName' /\ OwnerKept(member)'
  BY DEF Begin, IInv, Typed, TokensName, OwnerKept, ActiveOwners
<1>3. Sound(x)'
  BY <1>1 DEF Begin, Sound, Requested, RowThere, Locks, CheckedNow
<1>4. ASSUME NEW y \in Txn, y # x PROVE Sound(y)'
  BY <1>1, <1>4, OthersStay DEF Begin, IInv
<1> QED BY <1>2, <1>3, <1>4 DEF IInv

LEMMA OperationKeeps == ASSUME IInv, NEW x \in Txn, Operation(x) PROVE IInv'
<1>0. NoMember \in MemberRow
  BY DEF NoMember, MemberRow
<1>1. ASSUME NEW u \in User, NEW role \in Role, NEW t \in Token, BeginInvite(x, u, role, t) PROVE IInv'
  <2>1. PICK r : r = [Started("invite", u) EXCEPT !.to = role, !.token = t]
    OBVIOUS
  <2>2. r \in TxnRow /\ r.pc = "begun" /\ r.held = 0 /\ Requested(r) /\ RowThere(r)
    BY <1>0, <2>1 DEF Started, Idle, TxnRow, Requested, RowThere, Operations
  <2> QED BY <1>1, <2>1, <2>2, BeginKeeps DEF BeginInvite
<1>2. ASSUME NEW u \in User, NEW role \in Role, BeginCreate(x, u, role) PROVE IInv'
  <2>1. PICK r : r = [Started("create", u) EXCEPT !.to = role]
    OBVIOUS
  <2>2. r \in TxnRow /\ r.pc = "begun" /\ r.held = 0 /\ Requested(r) /\ RowThere(r)
    BY <1>0, <2>1 DEF Started, Idle, TxnRow, Requested, RowThere, Operations
  <2> QED BY <1>2, <2>1, <2>2, BeginKeeps DEF BeginCreate
<1>3. ASSUME NEW u \in User, NEW role \in Role, BeginChangeRole(x, u, role) PROVE IInv'
  <2>1. PICK r : r = [Started("role", u) EXCEPT !.to = role]
    OBVIOUS
  <2>2. r \in TxnRow /\ r.pc = "begun" /\ r.held = 0 /\ Requested(r) /\ RowThere(r)
    BY <1>0, <1>3, <2>1 DEF BeginChangeRole, Started, Idle, TxnRow, Requested, RowThere, Operations
  <2> QED BY <1>3, <2>1, <2>2, BeginKeeps DEF BeginChangeRole
<1>4. ASSUME NEW u \in User, NEW status \in {"active", "suspended", "revoked"},
             BeginSetStatus(x, u, status)
      PROVE  IInv'
  <2>1. PICK r : r = [Started("status", u) EXCEPT !.to = status]
    OBVIOUS
  <2>2. r \in TxnRow /\ r.pc = "begun" /\ r.held = 0 /\ Requested(r) /\ RowThere(r)
    BY <1>0, <1>4, <2>1 DEF BeginSetStatus, Started, Idle, TxnRow, Requested, RowThere, Operations
  <2> QED BY <1>4, <2>1, <2>2, BeginKeeps DEF BeginSetStatus
<1>5. ASSUME NEW t \in Token, BeginAccept(x, t) PROVE IInv'
  <2>1. PICK r : r = [Started("accept", token[t].user) EXCEPT
                        !.token = t, !.seen = member[token[t].user].version]
    OBVIOUS
  <2>2. token[t].user \in User /\ member[token[t].user].version \in Nat
        /\ member[token[t].user].status # "absent"
    BY <1>5 DEF BeginAccept, IInv, Typed, TokenRow, MemberRow, TokensName
  <2>3. r \in TxnRow /\ r.pc = "begun" /\ r.held = 0 /\ Requested(r) /\ RowThere(r)
    BY <1>0, <2>1, <2>2 DEF Started, Idle, TxnRow, Requested, RowThere, Operations
  <2> QED BY <1>5, <2>1, <2>3, BeginKeeps DEF BeginAccept
<1> QED BY <1>1, <1>2, <1>3, <1>4, <1>5 DEF Operation

LEMMA Releasing ==
  ASSUME Typed, NEW x \in Txn
  PROVE  /\ Release(x) \in [Lock -> Txn \cup {None}]
         /\ \A l \in Lock, y \in Txn : y # x /\ holder[l] = y => Release(x)[l] = y
  BY DEF Release, Typed

LEMMA RollbackKeeps == ASSUME IInv, NEW x \in Txn, Rollback(x) PROVE IInv'
<1>1. Idle \in TxnRow /\ Idle.pc = "idle"
  BY DEF Idle, TxnRow, NoMember, MemberRow
<1>2. txn'[x] = Idle /\ \A y \in Txn : y # x => txn'[y] = txn[y]
  BY DEF Rollback, IInv, Typed
<1>3. Typed' /\ TokensName' /\ OwnerKept(member)'
  BY <1>1, Releasing DEF Rollback, IInv, Typed, TokensName, OwnerKept, ActiveOwners
<1>4. Sound(x)'
  BY <1>1, <1>2 DEF Sound
<1>5. ASSUME NEW y \in Txn, y # x PROVE Sound(y)'
  BY <1>2, <1>5, OthersStay, Releasing DEF Rollback, IInv
<1> QED BY <1>3, <1>4, <1>5 DEF IInv

LEMMA TokenEndsKeeps == ASSUME IInv, NEW t \in Token, TokenEnds(t) PROVE IInv'
<1>1. Typed' /\ TokensName' /\ OwnerKept(member)'
  BY ZenonT(60) DEF TokenEnds, IInv, Typed, TokenRow, TokensName, OwnerKept, ActiveOwners
<1>2. ASSUME NEW y \in Txn PROVE Sound(y)'
  BY OthersStay DEF TokenEnds, IInv
<1> QED BY <1>1, <1>2 DEF IInv

-----------------------------------------------------------------------------
LEMMA AcquireKeeps == ASSUME RowsApart, IInv, NEW x \in Txn, Acquire(x) PROVE IInv'
<1> PICK r : r = txn[x]
  OBVIOUS
<1>1. r \in TxnRow /\ r.pc # "idle" /\ Requested(r) /\ RowThere(r) /\ Locks(x, r) /\ CheckedNow(r)
  BY DEF Acquire, Acquiring, IInv, Typed, Sound
<1>2. PICK moved : moved = [r EXCEPT !.held = @ + 1]
  OBVIOUS
<1>3. /\ moved \in TxnRow /\ moved.held = r.held + 1 /\ moved.pc = r.pc /\ moved.op = r.op
      /\ moved.user = r.user /\ moved.to = r.to /\ moved.token = r.token /\ moved.row = r.row
  BY <1>1, <1>2 DEF TxnRow
<1>4. txn'[x] = moved /\ txn' = [txn EXCEPT ![x] = moved] /\ \A y \in Txn : y # x => txn'[y] = txn[y]
  BY <1>2 DEF Acquire, IInv, Typed
<1>5. Wants(x) \in Lock /\ r.held + 1 \in DOMAIN Plan(r) /\ Wants(x) = Plan(r)[r.held + 1]
  BY <1>1, Plans DEF Acquire, Acquiring, Wants, Lock, Requested, Operations, TxnRow
<1>6. /\ holder' \in [Lock -> Txn \cup {None}]
      /\ \A l \in Lock, y \in Txn : holder[l] = y => holder'[l] = y
      /\ holder'[Wants(x)] = x \/ (Wants(x) \in User /\ member[Wants(x)].status = "absent")
  BY <1>5, MembershipAssumption DEF Acquire, IInv, Typed
<1>7. Typed' /\ TokensName' /\ OwnerKept(member)'
  BY <1>3, <1>4, <1>6 DEF Acquire, IInv, Typed, TokensName, OwnerKept, ActiveOwners
<1>8. ASSUME NEW y \in Txn, y # x PROVE Sound(y)'
  BY <1>4, <1>6, <1>8, OthersStay DEF Acquire, IInv
<1>9. Sound(x)'
  <2>1. Requested(moved) /\ RowThere(moved)
    BY <1>1, <1>3 DEF Requested, RowThere
  <2>2. CheckedNow(moved)
    BY <1>1, <1>3 DEF CheckedNow, Justified, TxnRow
  <2>3. Locks(x, moved)'
    <3>1. UNCHANGED member /\ Workspace \in Lock /\ r.user \in Lock
      BY <1>1 DEF Acquire, Lock, Requested
    <3>2. CASE r.op \in {"invite", "create"}
      <4>1. Plan(r) = <<Workspace, r.user, AuditChain>> /\ Workspace \notin User
        BY <1>1, <3>2, Plans DEF RowsApart
      <4> QED BY <1>1, <1>3, <1>5, <1>6, <3>1, <3>2, <4>1 DEF Locks, TxnRow
    <3>3. CASE r.op \in {"role", "status"}
      <4>1. Plan(r) = <<r.user, Workspace, AuditChain>> /\ Workspace \notin User
        BY <1>1, <3>3, Plans DEF RowsApart
      <4> QED BY <1>1, <1>3, <1>5, <1>6, <3>1, <3>3, <4>1 DEF Locks, TxnRow, RowThere
    <3>4. CASE r.op = "accept"
      <4>1. Plan(r) = <<r.token, r.user, AuditChain, Workspace>> /\ Workspace \notin User
        BY <1>1, <3>4, Plans DEF RowsApart
      <4> QED BY <1>1, <1>3, <1>5, <1>6, <3>1, <3>4, <4>1 DEF Locks, TxnRow, RowThere
    <3> QED BY <1>1, <3>2, <3>3, <3>4 DEF Requested, Operations
  <2>4. Requested(txn[x])' /\ RowThere(txn[x])' /\ CheckedNow(txn[x])'
    BY <1>4, <2>1, <2>2 DEF Acquire, Requested, RowThere, CheckedNow, Justified, MayChangeRole,
         MaySetStatus, MayInvite, MayCreate, AdditionalOwner, ActiveOwners
  <2> QED BY <1>4, <2>3, <2>4 DEF Sound, Locks
<1> QED BY <1>7, <1>8, <1>9 DEF IInv

LEMMA CheckKeeps == ASSUME RowsApart, IInv, NEW x \in Txn, Check(x) PROVE IInv'
<1> PICK r : r = txn[x]
  OBVIOUS
<1>1. r \in TxnRow /\ r.pc = "begun" /\ Requested(r) /\ RowThere(r) /\ Locks(x, r)
      /\ Permitted(r) /\ r.held = 2 /\ member[r.user] \in MemberRow
  BY Plans DEF Check, IInv, Typed, Sound, Requested
<1>2. PICK moved : moved = [r EXCEPT !.pc = "checked", !.row = member[r.user]]
  OBVIOUS
<1>3. /\ moved \in TxnRow /\ moved.held = r.held /\ moved.pc = "checked" /\ moved.op = r.op
      /\ moved.user = r.user /\ moved.to = r.to /\ moved.token = r.token
      /\ moved.row = member[r.user]
  BY <1>1, <1>2 DEF TxnRow
<1>4. txn' = [txn EXCEPT ![x] = moved]
  BY <1>2 DEF Check
<1>5. txn'[x] = moved /\ \A y \in Txn : y # x => txn'[y] = txn[y]
  BY <1>4 DEF IInv, Typed
<1>6. Typed' /\ TokensName' /\ OwnerKept(member)'
  BY <1>3, <1>4, ZenonT(60) DEF Check, IInv, Typed, TokensName, OwnerKept, ActiveOwners
<1>7. ASSUME NEW y \in Txn, y # x PROVE Sound(y)'
  BY <1>5, <1>7, OthersStay DEF Check, IInv
<1>8. Sound(x)'
  <2>1. Justified(moved)
    BY <1>1, <1>3 DEF Permitted, Justified, InvitationMatches, Requested, Operations
  <2>2. Requested(moved) /\ RowThere(moved) /\ Locks(x, moved) /\ CheckedNow(moved)
    BY <1>1, <1>3, <2>1 DEF Requested, RowThere, Locks, CheckedNow
  <2> QED BY <1>5, <2>2 DEF Check, Sound, Requested, RowThere, Locks, CheckedNow, Justified,
         MayChangeRole, MaySetStatus, MayInvite, MayCreate, AdditionalOwner, ActiveOwners
<1> QED BY <1>6, <1>7, <1>8 DEF IInv

-----------------------------------------------------------------------------
\* What a checked transaction writes, and that it leaves an owner.
LEMMA WrittenRow ==
  ASSUME IInv, NEW r \in TxnRow, Requested(r), r.pc = "checked", CheckedNow(r)
  PROVE  /\ Written(r) \in MemberRow
         /\ Written(r).status # "absent"
         /\ r.op \in {"role", "status"} \/ member[r.user].status # "active"
<1>1. r.row \in MemberRow /\ r.row.version + 1 \in Nat /\ r.row = member[r.user]
  BY DEF TxnRow, MemberRow, CheckedNow
<1>2. CASE r.op = "invite"
  BY <1>1, <1>2 DEF Written, Invited, MemberRow, Requested, CheckedNow, Justified, MayInvite
<1>3. CASE r.op = "create"
  BY <1>1, <1>3 DEF Written, Created, MemberRow, Requested, CheckedNow, Justified, MayCreate
<1>4. CASE r.op = "role"
  BY <1>1, <1>4 DEF Written, RoleChanged, MemberRow, Requested, CheckedNow, Justified, MayChangeRole
<1>5. CASE r.op = "status"
  BY <1>1, <1>5 DEF Written, StatusSet, MemberRow, Requested, CheckedNow, Justified, MaySetStatus
<1>6. CASE r.op = "accept"
  BY <1>1, <1>6 DEF Written, Accepted, MemberRow, Requested, CheckedNow, Justified
<1> QED BY <1>2, <1>3, <1>4, <1>5, <1>6 DEF Requested, Operations

LEMMA AfterKeepsOwner ==
  ASSUME IInv, NEW r \in TxnRow, Requested(r), r.pc = "checked", CheckedNow(r)
  PROVE  OwnerKept(After(r))
<1>1. /\ r.user \in User /\ r.row = member[r.user] /\ r.row \in MemberRow
      /\ After(r)[r.user] = Written(r)
      /\ \A u \in User : u # r.user => After(r)[u] = member[u]
  BY DEF After, Requested, CheckedNow, IInv, Typed
<1>2. ActiveOwners(member) \ {r.user} \subseteq ActiveOwners(After(r))
  BY <1>1 DEF ActiveOwners
<1>3. CASE ~(r.row.status = "active" /\ r.row.role = Owner)
  BY <1>1, <1>2, <1>3 DEF IInv, OwnerKept, ActiveOwners
<1>4. CASE r.row.status = "active" /\ r.row.role = Owner
  <2>1. CASE r.op = "role" /\ r.to = Owner
    <3>1. Written(r).status = "active" /\ Written(r).role = Owner
      BY <1>1, <1>4, <2>1 DEF Written, RoleChanged, MemberRow
    <3> QED BY <1>1, <3>1 DEF OwnerKept, ActiveOwners
  <2>2. CASE ~(r.op = "role" /\ r.to = Owner)
    <3>1. AdditionalOwner(r.user)
      BY <1>1, <1>4, <2>2 DEF Requested, Operations, CheckedNow, Justified, MayInvite, MayCreate,
           MayChangeRole, MaySetStatus
    <3> QED BY <1>2, <3>1 DEF AdditionalOwner, OwnerKept
  <2> QED BY <2>1, <2>2
<1> QED BY <1>3, <1>4

\* Who commits holds the workspace and the membership it writes, if that was there.
LEMMA CommitHolds ==
  ASSUME RowsApart, NEW x \in Txn, NEW r \in TxnRow, Requested(r), Locks(x, r), r.held = Len(Plan(r))
  PROVE  /\ holder[Workspace] = x
         /\ \/ holder[r.user] = x
            \/ member[r.user].status = "absent" /\ r.op \in {"invite", "create"}
<1>1. CASE r.op \in {"invite", "create"}
  <2>1. Plan(r) = <<Workspace, r.user, AuditChain>>
    BY <1>1, Plans
  <2>2. r.held = 3
    BY <2>1
  <2> QED BY <1>1, <2>2 DEF Locks
<1>2. CASE r.op \in {"role", "status"}
  <2>1. Plan(r) = <<r.user, Workspace, AuditChain>>
    BY <1>2, Plans
  <2>2. r.held = 3
    BY <2>1
  <2> QED BY <1>2, <2>2 DEF Locks
<1>3. CASE r.op = "accept"
  <2>1. Plan(r) = <<r.token, r.user, AuditChain, Workspace>>
    BY <1>3, Plans
  <2>2. r.held = 4
    BY <2>1
  <2> QED BY <1>3, <2>2 DEF Locks
<1> QED BY <1>1, <1>2, <1>3 DEF Requested, Operations

\* Of the other transactions only acceptances of other memberships have passed their checks.
LEMMA CommitKeeps == ASSUME RowsApart, IInv, NEW x \in Txn, Commit(x) PROVE IInv'
<1> PICK r : r = txn[x]
  OBVIOUS
<1>1. r \in TxnRow /\ r.pc = "checked" /\ Requested(r) /\ RowThere(r) /\ Locks(x, r) /\ CheckedNow(r)
      /\ r.held = Len(Plan(r)) /\ member' = After(r)
  BY DEF Commit, IInv, Typed, Sound
<1>2. /\ holder[Workspace] = x
      /\ \/ holder[r.user] = x
         \/ member[r.user].status = "absent" /\ r.op \in {"invite", "create"}
  BY <1>1, CommitHolds
<1>3. /\ r.user \in User /\ member'[r.user] = Written(r)
      /\ \A u \in User : u # r.user => member'[u] = member[u]
      /\ member' \in [User -> MemberRow] /\ member'[r.user].status # "absent"
  BY <1>1, WrittenRow DEF After, Requested, IInv, Typed
<1>4. Idle \in TxnRow /\ Idle.pc = "idle"
  BY DEF Idle, TxnRow, NoMember, MemberRow
<1>5. txn'[x] = Idle /\ \A y \in Txn : y # x => txn'[y] = txn[y]
  BY DEF Commit, IInv, Typed
<1>6. /\ token' \in [Token -> TokenRow]
      /\ \A t \in Token : token'[t].user = token[t].user \/ token'[t].user = r.user
  <2>1. CASE r.op = "invite"
    <3>1. Written(r).version \in Nat /\ r.to \in Role /\ r.token \in Token
      BY <1>1, <2>1, WrittenRow DEF MemberRow, Requested
    <3>2. IssuedToken(r) \in TokenRow /\ IssuedToken(r).user = r.user
      BY <1>3, <3>1 DEF IssuedToken, NoToken, TokenRow
    <3>3. token' = [token EXCEPT ![r.token] = IssuedToken(r)]
      BY <2>1 DEF Commit
    <3> QED BY <3>1, <3>2, <3>3 DEF IInv, Typed
  <2>2. CASE r.op = "accept"
    <3>1. token' = [token EXCEPT ![r.token].consumed = TRUE]
      BY <2>2 DEF Commit
    <3> QED BY <3>1, ZenonT(60) DEF IInv, Typed, TokenRow
  <2>3. CASE r.op \notin {"invite", "accept"}
    <3>1. token' = token
      BY <2>3 DEF Commit
    <3> QED BY <3>1 DEF IInv, Typed
  <2> QED BY <2>1, <2>2, <2>3
<1>7. Typed'
  BY <1>3, <1>4, <1>6, Releasing DEF Commit, IInv, Typed
<1>8. TokensName'
  BY <1>3, <1>6 DEF IInv, Typed, TokenRow, TokensName
<1>9. OwnerKept(member)'
  BY DEF Commit, OwnerKept, ActiveOwners
<1>10. Sound(x)'
  BY <1>4, <1>5 DEF Sound
<1>11. ASSUME NEW y \in Txn, y # x PROVE Sound(y)'
  <2> PICK s : s = txn[y]
    OBVIOUS
  <2>1. txn'[y] = s /\ s \in TxnRow
    BY <1>5, <1>11 DEF IInv, Typed
  <2> SUFFICES ASSUME s.pc # "idle" PROVE Sound(y)'
    BY <2>1 DEF Sound
  <2>2. Requested(s) /\ RowThere(s) /\ Locks(y, s) /\ CheckedNow(s)
    BY DEF IInv, Sound
  <2>3. \A l \in Lock : holder[l] = y => holder'[l] = y
    BY <1>11, Releasing DEF Commit, IInv
  <2>4. /\ s.op \in {"invite", "create"} => s.held = 0
        /\ s.op \in {"role", "status"} => s.held < 2
        /\ s.op = "accept" => s.held < 4
    BY <1>2, <1>11, <2>1, <2>2 DEF Locks, TxnRow
  <2>5. RowThere(s)'
    BY <1>3, <2>2 DEF RowThere, Requested
  <2>6. Locks(y, s)'
    BY <2>1, <2>2, <2>3, <2>4 DEF Locks, Requested, Lock, TxnRow
  <2>7. CheckedNow(s)'
    <3> SUFFICES ASSUME s.pc = "checked" PROVE s.row = member'[s.user] /\ Justified(s)' /\ s.held >= 2
      BY DEF CheckedNow
    <3>1. s.op = "accept" /\ s.held >= 2 /\ s.row = member[s.user] /\ s.row.status = "invited"
      BY <2>1, <2>2, <2>4 DEF CheckedNow, Requested, Operations, Justified, TxnRow
    <3>2. s.user # r.user
      BY <1>2, <1>11, <2>2, <3>1 DEF Locks
    <3> QED BY <1>3, <2>2, <3>1, <3>2 DEF Justified, Requested
  <2> QED BY <2>1, <2>2, <2>5, <2>6, <2>7 DEF Sound, Requested, RowThere, Locks, CheckedNow, Justified
<1> QED BY <1>7, <1>8, <1>9, <1>10, <1>11 DEF IInv

LEMMA Inductive == ASSUME RowsApart, IInv, [Next]_vars PROVE IInv'
<1>1. CASE UNCHANGED vars
  <2>1. Typed' /\ TokensName' /\ OwnerKept(member)'
    BY <1>1 DEF vars, IInv, Typed, TokensName, OwnerKept, ActiveOwners
  <2>2. ASSUME NEW y \in Txn PROVE Sound(y)'
    BY <1>1, OthersStay DEF vars, IInv
  <2> QED BY <2>1, <2>2 DEF IInv
<1>2. ASSUME NEW x \in Txn, DeadlockVictim(x) PROVE IInv'
  BY <1>2, RollbackKeeps DEF DeadlockVictim
<1> QED BY <1>1, <1>2, OperationKeeps, AcquireKeeps, CheckKeeps, CommitKeeps, RollbackKeeps,
        TokenEndsKeeps DEF Next

-----------------------------------------------------------------------------
(* Types *)

RowsCount ==
  /\ \A u \in User : member[u].status = "absent" <=> member[u].version = 0
  /\ \A l \in Lock : holder[l] = None \/ txn[holder[l]].pc # "idle"

LEMMA CountKept == ASSUME RowsApart, IInv, RowsCount, [Next]_vars PROVE RowsCount'
<1>0. /\ \A l \in Lock : holder[l] \in Txn \cup {None}
      /\ txn \in [Txn -> TxnRow] /\ DOMAIN holder = Lock /\ None \notin Txn
  BY MembershipAssumption DEF IInv, Typed
<1>1. ASSUME NEW x \in Txn, Operation(x) PROVE RowsCount'
  <2>1. UNCHANGED <<member, holder>> /\ txn[x].pc = "idle"
        /\ \A y \in Txn : y # x => txn'[y] = txn[y]
    BY <1>0, <1>1, ZenonT(60) DEF Operation, BeginInvite, BeginCreate, BeginChangeRole, BeginSetStatus, BeginAccept,
         Begin
  <2> QED BY <1>0, <2>1, ZenonT(60) DEF RowsCount
<1>2. ASSUME NEW x \in Txn, Acquire(x) PROVE RowsCount'
  <2>1. txn[x].pc # "idle" /\ txn'[x].pc = txn[x].pc /\ \A y \in Txn : y # x => txn'[y] = txn[y]
    BY <1>0, <1>2 DEF Acquire, Acquiring, TxnRow
  <2>2. \A l \in Lock : holder'[l] = holder[l] \/ holder'[l] = x
    BY <1>0, <1>2 DEF Acquire
  <2>3. UNCHANGED member
    BY <1>2 DEF Acquire
  <2> QED BY <1>0, <2>1, <2>2, <2>3 DEF RowsCount
<1>3. ASSUME NEW x \in Txn, Check(x) PROVE RowsCount'
  <2>1. txn'[x].pc = "checked" /\ UNCHANGED <<member, holder>> /\ \A y \in Txn : y # x => txn'[y] = txn[y]
    BY <1>0, <1>3 DEF Check, TxnRow
  <2> QED BY <1>0, <2>1 DEF RowsCount
<1>4. ASSUME NEW x \in Txn, holder' = Release(x), txn' = [txn EXCEPT ![x] = Idle]
      PROVE  \A l \in Lock : holder'[l] = None \/ txn'[holder'[l]].pc # "idle"
  BY <1>0, <1>4 DEF Release, RowsCount
<1>5. ASSUME NEW x \in Txn, Rollback(x) PROVE RowsCount'
  BY <1>4, <1>5 DEF Rollback, RowsCount
<1>6. ASSUME NEW x \in Txn, Commit(x) PROVE RowsCount'
  <2> PICK r : r = txn[x]
    OBVIOUS
  <2>1. r \in TxnRow /\ r.pc = "checked" /\ Requested(r) /\ CheckedNow(r) /\ member' = After(r)
    BY <1>0, <1>6 DEF Commit, IInv, Sound
  <2>2. r.row \in MemberRow
    BY <2>1 DEF TxnRow
  <2>3. Written(r).status # "absent" /\ Written(r).version \in Nat /\ Written(r).version >= 1
    <3>1. Written(r).status # "absent"
      BY <2>1, WrittenRow
    <3>2. Written(r).version = r.row.version + 1 \/ Written(r).version = 1
      BY <2>1, <2>2 DEF Written, Invited, Created, RoleChanged, StatusSet, Accepted, MemberRow,
           Requested, Operations
    <3> QED BY <2>2, <3>1, <3>2 DEF MemberRow
  <2>4. \A u \in User : IF u = r.user THEN member'[u] = Written(r) ELSE member'[u] = member[u]
    BY <2>1 DEF After, Requested, IInv, Typed
  <2>5. \A u \in User : member'[u].status = "absent" <=> member'[u].version = 0
    BY <2>3, <2>4 DEF RowsCount
  <2> QED BY <1>4, <1>6, <2>5 DEF Commit, RowsCount
<1>7. ASSUME \/ UNCHANGED vars \/ \E t \in Token : TokenEnds(t) PROVE RowsCount'
  BY <1>7 DEF vars, TokenEnds, RowsCount
<1> QED BY <1>1, <1>2, <1>3, <1>5, <1>6, <1>7 DEF Next, DeadlockVictim

\* Every row is a row of its table, and a row lock is held by a transaction that is under way.
THEOREM TypeCorrect == ASSUME RowsApart PROVE Spec => []TypeOK
<1>1. Init => RowsCount
  BY DEF Init, RowsCount, NoMember, OwnerRow, Lock
<1>2. IInv /\ RowsCount => TypeOK
  BY DEF IInv, Typed, TokenRow, RowsCount, TypeOK
<1> QED BY <1>1, <1>2, Starts, Inductive, CountKept, PTL DEF Spec

-----------------------------------------------------------------------------
\* The workspace keeps an owner, and no transaction that has passed its checks leaves it
\* without one, whatever commits before it does: change_role and set_status of
\* WorkspaceMembershipService, and the deferred trigger of the owners.
THEOREM OwnerSurvivesCommitHolds == ASSUME RowsApart PROVE Spec => []OwnerSurvivesCommit
<1>1. ASSUME IInv PROVE OwnerSurvivesCommit
  <2>1. ASSUME NEW x \in Txn, txn[x].pc = "checked" PROVE OwnerKept(After(txn[x]))
    <3>1. txn[x] \in TxnRow /\ Requested(txn[x]) /\ CheckedNow(txn[x])
      BY <1>1, <2>1 DEF IInv, Typed, Sound
    <3> QED BY <1>1, <2>1, <3>1, AfterKeepsOwner
  <2> QED BY <1>1, <2>1 DEF IInv, OwnerSurvivesCommit
<1> QED BY <1>1, Starts, Inductive, PTL DEF Spec

-----------------------------------------------------------------------------
(* Invitations *)

\* What an acceptance that has passed its checks has seen of its invitation still holds.
Matched(r) ==
  /\ token[r.token].valid /\ ~token[r.token].consumed
  /\ token[r.token].user = r.user
  /\ token[r.token].role = member[r.user].role
  /\ token[r.token].version = member[r.user].version
  /\ member[r.user].invitation = r.token

Under(x, op) == txn[x].pc # "idle" /\ txn[x].op = op

\* The token of an invitation under way is new and named by no other transaction, and an
\* acceptance that has looked at its token holds it.
Invitations ==
  /\ \A x \in Txn : Under(x, "invite") => token[txn[x].token].user = None
  /\ \A x, y \in Txn : Under(x, "invite") /\ y # x => txn[y].token # txn[x].token
  /\ \A x \in Txn : Under(x, "accept") /\ txn[x].held >= 1 => holder[txn[x].token] = x
  /\ \A x \in Txn : Under(x, "accept") /\ txn[x].pc = "checked" => Matched(txn[x])

LEMMA BeginKeepsInvitations ==
  ASSUME IInv, Invitations, NEW x \in Txn, NEW r, Begin(x, r), r.pc = "begun", r.held = 0,
         r.op = "invite" => token[r.token].user = None /\ \A y \in Txn : txn[y].token # r.token,
         r.op # "invite" => r.token = None \/ token[r.token].user # None
  PROVE  Invitations'
<1>1. /\ UNCHANGED <<member, token, holder>> /\ txn[x].pc = "idle"
      /\ txn'[x] = r /\ \A y \in Txn : y # x => txn'[y] = txn[y]
  BY DEF Begin, IInv, Typed
<1>2. \A y \in Txn : Under(y, "invite") => txn[y].token \in Token /\ txn[y].token # None
  BY MembershipAssumption DEF IInv, Sound, Requested, Under
<1>3. ASSUME NEW y \in Txn, Under(y, "invite") PROVE txn[y].token # r.token
  BY <1>2, <1>3 DEF Invitations
<1>4. (\A y \in Txn : Under(y, "invite") => token[txn[y].token].user = None)'
  BY <1>1 DEF Invitations, Under
<1>5. (\A y, z \in Txn : Under(y, "invite") /\ z # y => txn[z].token # txn[y].token)'
  BY <1>1, <1>3 DEF Invitations, Under
<1>6. ASSUME NEW y \in Txn, Under(y, "accept")'
      PROVE  /\ txn'[y].held >= 1 => holder'[txn'[y].token] = y
             /\ txn'[y].pc = "checked" => Matched(txn[y])'
  <2>1. CASE y = x
    BY <1>1, <2>1
  <2>2. CASE y # x
    BY <1>1, <1>6, <2>2 DEF Invitations, Under, Matched
  <2> QED BY <2>1, <2>2
<1> QED BY <1>4, <1>5, <1>6 DEF Invitations

LEMMA OperationKeepsInvitations ==
  ASSUME IInv, Invitations, NEW x \in Txn, Operation(x) PROVE Invitations'
<1>1. ASSUME NEW u \in User, NEW role \in Role, NEW t \in Token, BeginInvite(x, u, role, t)
      PROVE  Invitations'
  <2> PICK r : r = [Started("invite", u) EXCEPT !.to = role, !.token = t]
    OBVIOUS
  <2>1. r.pc = "begun" /\ r.held = 0 /\ r.op = "invite" /\ r.token = t
    BY DEF Started, Idle
  <2>2. Begin(x, r) /\ token[t].user = None /\ \A y \in Txn : txn[y].token # t
    BY <1>1 DEF BeginInvite
  <2> QED BY <2>1, <2>2, BeginKeepsInvitations
<1>2. ASSUME NEW r, Begin(x, r), r.pc = "begun", r.held = 0, r.token = None, r.op # "invite"
      PROVE  Invitations'
  BY <1>2, BeginKeepsInvitations
<1>3. ASSUME NEW u \in User, NEW role \in Role, BeginCreate(x, u, role) PROVE Invitations'
  BY <1>2, <1>3 DEF BeginCreate, Started, Idle
<1>4. ASSUME NEW u \in User, NEW role \in Role, BeginChangeRole(x, u, role) PROVE Invitations'
  BY <1>2, <1>4 DEF BeginChangeRole, Started, Idle
<1>5. ASSUME NEW u \in User, NEW status \in {"active", "suspended", "revoked"},
             BeginSetStatus(x, u, status)
      PROVE  Invitations'
  BY <1>2, <1>5 DEF BeginSetStatus, Started, Idle
<1>6. ASSUME NEW t \in Token, BeginAccept(x, t) PROVE Invitations'
  <2> PICK r : r = [Started("accept", token[t].user) EXCEPT
                      !.token = t, !.seen = member[token[t].user].version]
    OBVIOUS
  <2>1. r.pc = "begun" /\ r.held = 0 /\ r.op = "accept" /\ r.token = t
    BY DEF Started, Idle
  <2>2. Begin(x, r) /\ token[t].user # None
    BY <1>6 DEF BeginAccept
  <2> QED BY <2>1, <2>2, BeginKeepsInvitations
<1> QED BY <1>1, <1>3, <1>4, <1>5, <1>6 DEF Operation

\* An acceptance keeps its lock and its invitation while the rows it holds stay.
LEMMA AcceptanceStays ==
  ASSUME Invitations, NEW y \in Txn, UNCHANGED txn[y], Under(y, "accept"),
         holder[txn[y].token] = y => holder'[txn[y].token] = y,
         txn[y].pc = "checked" => UNCHANGED <<member[txn[y].user], token[txn[y].token]>>
  PROVE  /\ txn'[y].held >= 1 => holder'[txn'[y].token] = y
         /\ txn'[y].pc = "checked" => Matched(txn[y])'
BY DEF Invitations, Matched, Under

LEMMA RollbackKeepsInvitations ==
  ASSUME IInv, Invitations, NEW x \in Txn, Rollback(x) PROVE Invitations'
<1>1. /\ UNCHANGED <<member, token>> /\ holder' = Release(x) /\ txn'[x] = Idle
      /\ \A y \in Txn : y # x => txn'[y] = txn[y]
  BY DEF Rollback, IInv, Typed
<1>2. Idle.pc = "idle" /\ Idle.token = None
  BY DEF Idle
<1>3. (\A y \in Txn : Under(y, "invite") => token[txn[y].token].user = None)'
  BY <1>1, <1>2 DEF Invitations, Under
<1>4. \A y \in Txn : Under(y, "invite") => txn[y].token \in Token /\ txn[y].token # None
  BY MembershipAssumption DEF IInv, Sound, Requested, Under
<1>5. (\A y, z \in Txn : Under(y, "invite") /\ z # y => txn[z].token # txn[y].token)'
  BY <1>1, <1>2, <1>4 DEF Invitations, Under
<1>6. ASSUME NEW y \in Txn, Under(y, "accept")'
      PROVE  /\ txn'[y].held >= 1 => holder'[txn'[y].token] = y
             /\ txn'[y].pc = "checked" => Matched(txn[y])'
  <2>1. y # x /\ Under(y, "accept") /\ txn'[y] = txn[y]
    BY <1>1, <1>2, <1>6 DEF Under
  <2>2. txn[y].token \in Lock
    BY <2>1 DEF IInv, Sound, Requested, Under, Lock
  <2>3. holder[txn[y].token] = y => holder'[txn[y].token] = y
    BY <1>1, <2>1, <2>2, Releasing DEF IInv
  <2> QED BY <1>1, <2>1, <2>3, AcceptanceStays
<1> QED BY <1>3, <1>5, <1>6 DEF Invitations

LEMMA TokenEndsKeepsInvitations ==
  ASSUME RowsApart, IInv, Invitations, NEW t \in Token, TokenEnds(t) PROVE Invitations'
<1>1. /\ UNCHANGED <<member, holder, txn>> /\ token[t].user # None /\ holder[t] = None
      /\ \A s \in Token : s # t => token'[s] = token[s]
  BY DEF TokenEnds, IInv, Typed
<1>2. \A y \in Txn : Under(y, "invite") => txn[y].token \in Token
  BY DEF IInv, Sound, Requested, Under
<1>3. (\A y \in Txn : Under(y, "invite") => token[txn[y].token].user = None)'
  BY <1>1, <1>2 DEF Invitations, Under
<1>4. (\A y, z \in Txn : Under(y, "invite") /\ z # y => txn[z].token # txn[y].token)'
  BY <1>1 DEF Invitations, Under
<1>5. ASSUME NEW y \in Txn, Under(y, "accept")'
      PROVE  /\ txn'[y].held >= 1 => holder'[txn'[y].token] = y
             /\ txn'[y].pc = "checked" => Matched(txn[y])'
  <2>1. Under(y, "accept") /\ txn'[y] = txn[y] /\ txn[y].token \in Token
    BY <1>1, <1>5 DEF IInv, Sound, Requested, Under
  <2>2. ASSUME txn[y].pc = "checked" PROVE UNCHANGED <<member[txn[y].user], token[txn[y].token]>>
    <3>1. txn[y] \in TxnRow /\ txn[y].held >= 2
      BY <2>2 DEF IInv, Typed, Sound, CheckedNow
    <3>2. holder[txn[y].token] = y
      BY <2>1, <3>1 DEF Invitations, TxnRow
    <3> QED BY <1>1, <2>1, <3>2, MembershipAssumption
  <2> QED BY <1>1, <2>1, <2>2, AcceptanceStays
<1> QED BY <1>3, <1>4, <1>5 DEF Invitations

LEMMA AcquireKeepsInvitations ==
  ASSUME RowsApart, IInv, Invitations, NEW x \in Txn, Acquire(x) PROVE Invitations'
<1> PICK r : r = txn[x]
  OBVIOUS
<1>1. r \in TxnRow /\ r.pc # "idle" /\ Requested(r)
  BY DEF Acquire, Acquiring, IInv, Typed, Sound
<1>2. /\ UNCHANGED <<member, token>>
      /\ txn'[x].held = r.held + 1 /\ txn'[x].pc = r.pc /\ txn'[x].op = r.op
      /\ txn'[x].user = r.user /\ txn'[x].token = r.token
      /\ \A y \in Txn : y # x => txn'[y] = txn[y]
  BY <1>1 DEF Acquire, IInv, Typed, TxnRow
<1>3. Wants(x) \in Lock /\ Wants(x) = Plan(r)[r.held + 1]
  BY <1>1, Plans DEF Acquire, Acquiring, Wants, Lock, Requested, Operations, TxnRow
<1>4. /\ \A l \in Lock, y \in Txn : holder[l] = y => holder'[l] = y
      /\ holder'[Wants(x)] = x \/ Wants(x) \in User
  BY <1>3, MembershipAssumption DEF Acquire, IInv, Typed
<1>5. (\A y \in Txn : Under(y, "invite") => token[txn[y].token].user = None)'
  BY <1>2 DEF Invitations, Under
<1>6. (\A y, z \in Txn : Under(y, "invite") /\ z # y => txn[z].token # txn[y].token)'
  BY <1>2 DEF Invitations, Under
<1>7. ASSUME NEW y \in Txn, Under(y, "accept")'
      PROVE  /\ txn'[y].held >= 1 => holder'[txn'[y].token] = y
             /\ txn'[y].pc = "checked" => Matched(txn[y])'
  <2>1. CASE y # x
    <3>1. Under(y, "accept") /\ txn'[y] = txn[y] /\ txn[y].token \in Lock
      BY <1>2, <1>7, <2>1 DEF Under, IInv, Sound, Requested, Lock
    <3> QED BY <1>2, <1>4, <3>1, AcceptanceStays
  <2>2. CASE y = x
    <3>1. r.op = "accept" /\ Under(x, "accept") /\ r.token \in Token /\ r.token \in Lock
      BY <1>1, <1>2, <1>7, <2>2 DEF Under, Requested, Lock
    <3>2. holder'[r.token] = x
      <4>1. CASE r.held = 0
        <5>1. Wants(x) = r.token
          BY <1>1, <1>3, <3>1, <4>1, Plans
        <5> QED BY <1>4, <3>1, <5>1 DEF RowsApart
      <4>2. CASE r.held # 0
        BY <1>1, <1>4, <3>1, <4>2 DEF Invitations, TxnRow
      <4> QED BY <4>1, <4>2
    <3>3. r.pc = "checked" => Matched(r)
      BY <3>1 DEF Invitations
    <3> QED BY <1>2, <2>2, <3>2, <3>3 DEF Matched
  <2> QED BY <2>1, <2>2
<1> QED BY <1>5, <1>6, <1>7 DEF Invitations

LEMMA CheckKeepsInvitations ==
  ASSUME RowsApart, IInv, Invitations, NEW x \in Txn, Check(x) PROVE Invitations'
<1> PICK r : r = txn[x]
  OBVIOUS
<1>1. r \in TxnRow /\ r.pc = "begun" /\ Requested(r) /\ Permitted(r)
  BY DEF Check, IInv, Typed, Sound
<1>2. /\ UNCHANGED <<member, token, holder>>
      /\ txn'[x].held = r.held /\ txn'[x].pc = "checked" /\ txn'[x].op = r.op
      /\ txn'[x].user = r.user /\ txn'[x].token = r.token
      /\ \A y \in Txn : y # x => txn'[y] = txn[y]
  BY <1>1 DEF Check, IInv, Typed, TxnRow
<1>3. (\A y \in Txn : Under(y, "invite") => token[txn[y].token].user = None)'
  BY <1>1, <1>2 DEF Invitations, Under
<1>4. (\A y, z \in Txn : Under(y, "invite") /\ z # y => txn[z].token # txn[y].token)'
  BY <1>1, <1>2 DEF Invitations, Under
<1>5. ASSUME NEW y \in Txn, Under(y, "accept")'
      PROVE  /\ txn'[y].held >= 1 => holder'[txn'[y].token] = y
             /\ txn'[y].pc = "checked" => Matched(txn[y])'
  <2>1. CASE y # x
    BY <1>2, <1>5, <2>1, AcceptanceStays DEF Under
  <2>2. CASE y = x
    <3>1. r.op = "accept" /\ Under(x, "accept")
      BY <1>1, <1>2, <1>5, <2>2 DEF Under
    <3>2. Matched(r)
      BY <1>1, <3>1 DEF Permitted, InvitationUsable, InvitationMatches, Matched
    <3> QED BY <1>2, <2>2, <3>1, <3>2 DEF Matched, Invitations
  <2> QED BY <2>1, <2>2
<1> QED BY <1>3, <1>4, <1>5 DEF Invitations

\* Who commits an acceptance has held its token and its membership since the checks.
LEMMA CommitKeepsInvitations ==
  ASSUME RowsApart, IInv, Invitations, NEW x \in Txn, Commit(x) PROVE Invitations'
<1> PICK r : r = txn[x]
  OBVIOUS
<1>1. r \in TxnRow /\ r.pc = "checked" /\ Requested(r) /\ Locks(x, r) /\ CheckedNow(r)
      /\ r.held = Len(Plan(r)) /\ member' = After(r)
  BY DEF Commit, IInv, Typed, Sound
<1>2. \/ holder[r.user] = x
      \/ r.op # "accept" /\ member[r.user].status = "absent"
  BY <1>1, CommitHolds
<1>3. /\ \A u \in User : u # r.user => member'[u] = member[u]
      /\ txn'[x] = Idle /\ \A y \in Txn : y # x => txn'[y] = txn[y]
      /\ Idle.pc = "idle" /\ Idle.token = None
  BY <1>1 DEF Commit, After, Requested, IInv, Typed, Idle
<1>4. /\ r.op \in {"invite", "accept"} => r.token \in Token
      /\ \A t \in Token : t # r.token => token'[t] = token[t]
      /\ r.op \notin {"invite", "accept"} => UNCHANGED token
  BY <1>1 DEF Commit, Requested, IInv, Typed
<1>5. \A l \in Lock, y \in Txn : y # x /\ holder[l] = y => holder'[l] = y
  BY Releasing DEF Commit, IInv
<1>6. \A y \in Txn : Under(y, "invite") => txn[y].token \in Token /\ txn[y].token # None
  BY MembershipAssumption DEF IInv, Sound, Requested, Under
<1>7. (\A y \in Txn : Under(y, "invite") => token[txn[y].token].user = None)'
  <2> SUFFICES ASSUME NEW y \in Txn, Under(y, "invite")' PROVE token'[txn'[y].token].user = None
    OBVIOUS
  <2>1. y # x /\ Under(y, "invite") /\ txn'[y] = txn[y]
    BY <1>3 DEF Under
  <2>2. txn[y].token # r.token
    BY <2>1 DEF Invitations
  <2> QED BY <1>4, <1>6, <2>1, <2>2 DEF Invitations
<1>8. (\A y, z \in Txn : Under(y, "invite") /\ z # y => txn[z].token # txn[y].token)'
  BY <1>3, <1>6 DEF Invitations, Under
<1>9. ASSUME NEW y \in Txn, Under(y, "accept")'
      PROVE  /\ txn'[y].held >= 1 => holder'[txn'[y].token] = y
             /\ txn'[y].pc = "checked" => Matched(txn[y])'
  <2> PICK s : s = txn[y]
    OBVIOUS
  <2>1. y # x /\ Under(y, "accept") /\ txn'[y] = s /\ s \in TxnRow /\ s.op = "accept"
    BY <1>3, <1>9 DEF Under, IInv, Typed
  <2>2. s.token \in Token /\ s.token \in Lock /\ s.user \in User /\ Locks(y, s) /\ CheckedNow(s)
    BY <2>1 DEF Under, IInv, Sound, Requested, Lock
  <2>3. ASSUME s.pc = "checked" PROVE UNCHANGED <<member[s.user], token[s.token]>>
    <3>1. holder[s.user] = y /\ holder[s.token] = y /\ member[s.user].status = "invited"
      BY <2>1, <2>2, <2>3 DEF Locks, CheckedNow, Justified, Invitations, TxnRow
    <3>2. s.user # r.user
      BY <1>2, <2>1, <3>1
    <3>3. r.op = "invite" => s.token # r.token
      BY <1>1, <2>1 DEF Invitations, Under
    <3>4. r.op = "accept" => holder[r.token] = x
      BY <1>1, Plans DEF Invitations, Under, Requested
    <3> QED BY <1>3, <1>4, <2>1, <2>2, <3>1, <3>2, <3>3, <3>4
  <2> QED BY <1>5, <2>1, <2>2, <2>3, AcceptanceStays
<1> QED BY <1>7, <1>8, <1>9 DEF Invitations

LEMMA InvitationsInductive ==
  ASSUME RowsApart, IInv, Invitations, [Next]_vars PROVE Invitations'
<1>1. CASE UNCHANGED vars
  BY <1>1 DEF vars, Invitations, Under, Matched
<1> QED BY <1>1, OperationKeepsInvitations, AcquireKeepsInvitations, CheckKeepsInvitations,
        CommitKeepsInvitations, RollbackKeepsInvitations, TokenEndsKeepsInvitations
        DEF Next, DeadlockVictim

LEMMA InvitationsStart == ASSUME Init PROVE Invitations
BY DEF Init, Invitations, Under, Idle

\* What makes an invited membership active is its latest invitation, in the version it was
\* issued for, unused and valid.
Activates(u) ==
  member[u].status = "invited" /\ member'[u].status = "active" =>
    LET t == member'[u].accepted
    IN  /\ t = member[u].invitation
        /\ token[t].version = member[u].version
        /\ token[t].valid /\ ~token[t].consumed /\ token'[t].consumed

\* A membership is activated by its latest invitation and no other, once: the token of an
\* earlier invitation, of a revoked one or of another version of the membership never does it.
LatestInvitationActivates == [][\A u \in User : Activates(u)]_vars

LEMMA CommitActivates ==
  ASSUME IInv, Invitations, NEW x \in Txn, Commit(x), NEW u \in User PROVE Activates(u)
<1> PICK r : r = txn[x]
  OBVIOUS
<1> SUFFICES ASSUME member[u].status = "invited", member'[u].status = "active" PROVE Activates(u)
  BY DEF Activates
<1>1. r \in TxnRow /\ r.pc = "checked" /\ Requested(r) /\ CheckedNow(r) /\ member' = After(r)
  BY DEF Commit, IInv, Typed, Sound
<1>2. /\ u = r.user /\ r.row = member[u] /\ r.row \in MemberRow /\ member'[u] = Written(r)
  BY <1>1 DEF After, Requested, CheckedNow, IInv, Typed
<1>3. r.op = "accept"
  <2>1. r.op # "invite" /\ r.op # "create" /\ r.op # "role"
    BY <1>1, <1>2 DEF CheckedNow, Justified, MayInvite, MayCreate, MayChangeRole
  <2>2. ASSUME r.op = "status" PROVE FALSE
    <3>1. r.to = "revoked"
      BY <1>1, <1>2, <2>2 DEF CheckedNow, Justified, MaySetStatus, Allowed
    <3>2. Written(r).status = "revoked"
      BY <1>2, <2>2, <3>1 DEF Written, StatusSet, MemberRow
    <3> QED BY <1>2, <3>2
  <2> QED BY <1>1, <2>1, <2>2 DEF Requested, Operations
<1>4. Matched(r) /\ r.token \in Token
  BY <1>1, <1>3 DEF Invitations, Under, Requested
<1>5. member'[u].accepted = r.token
  BY <1>2, <1>3 DEF Written, Accepted, MemberRow
<1>6. token'[r.token].consumed
  <2>1. token' = [token EXCEPT ![r.token].consumed = TRUE]
    BY <1>3 DEF Commit
  <2> QED BY <1>4, <2>1, ZenonT(60) DEF IInv, Typed, TokenRow
<1> QED BY <1>2, <1>4, <1>5, <1>6 DEF Matched, Activates

\* Only the latest invitation of a membership activates it, while it is valid, once and in the
\* version it was issued for, whatever transactions are in flight: _invitation_authority_version,
\* accept_invitation and consume_lifecycle_token.
THEOREM LatestInvitationActivatesHolds == ASSUME RowsApart PROVE Spec => LatestInvitationActivates
<1>1. ASSUME IInv, Invitations, [Next]_vars
      PROVE  [\A u \in User : Activates(u)]_vars
  <2>1. ASSUME UNCHANGED member, NEW u \in User PROVE Activates(u)
    BY <2>1 DEF Activates
  <2>2. CASE UNCHANGED vars
    BY <2>2, Zenon
  <2>3. ASSUME NEW x \in Txn, Operation(x) PROVE UNCHANGED member
    BY <2>3, Zenon DEF Operation, BeginInvite, BeginCreate, BeginChangeRole, BeginSetStatus,
         BeginAccept, Begin
  <2>4. ASSUME NEW x \in Txn, Acquire(x) \/ Check(x) \/ Rollback(x) \/ DeadlockVictim(x)
        PROVE  UNCHANGED member
    BY <2>4 DEF Acquire, Check, Rollback, DeadlockVictim
  <2>5. ASSUME NEW t \in Token, TokenEnds(t) PROVE UNCHANGED member
    BY <2>5 DEF TokenEnds
  <2> QED BY <1>1, <2>1, <2>2, <2>3, <2>4, <2>5, CommitActivates DEF Next
<1> QED BY <1>1, Starts, Inductive, InvitationsStart, InvitationsInductive, PTL
        DEF Spec, LatestInvitationActivates

-----------------------------------------------------------------------------
(* Refinement *)

\* An invitation that was not issued yet is a fresh one.
NewTokens == \A t \in Token : token[t].user = None => token[t] = NoToken

LEMMA NewTokensKept ==
  ASSUME RowsApart, IInv, Invitations, NewTokens, [Next]_vars PROVE NewTokens'
<1>1. ASSUME UNCHANGED token PROVE NewTokens'
  BY <1>1 DEF NewTokens
<1>2. ASSUME NEW x \in Txn, Commit(x) PROVE NewTokens'
  <2> PICK r : r = txn[x]
    OBVIOUS
  <2>1. r \in TxnRow /\ r.pc = "checked" /\ Requested(r) /\ token \in [Token -> TokenRow]
    BY <1>2 DEF Commit, IInv, Typed, Sound
  <2>2. r.user \in User /\ None \notin User
    BY <2>1, MembershipAssumption DEF Requested
  <2>3. CASE r.op = "invite"
    <3>1. token' = [token EXCEPT ![r.token] = IssuedToken(r)]
      BY <1>2, <2>3 DEF Commit
    <3>2. IssuedToken(r).user = r.user
      BY DEF IssuedToken, NoToken
    <3> QED BY <2>1, <2>2, <3>1, <3>2 DEF NewTokens
  <2>4. CASE r.op = "accept"
    <3>1. token' = [token EXCEPT ![r.token].consumed = TRUE] /\ token[r.token].user = r.user
      BY <1>2, <2>1, <2>4 DEF Commit, Invitations, Under, Matched
    <3>2. \A t \in Token : token'[t].user = token[t].user /\ (t # r.token => token'[t] = token[t])
      BY <2>1, <3>1 DEF TokenRow
    <3> QED BY <2>2, <3>1, <3>2 DEF NewTokens
  <2>5. CASE r.op \notin {"invite", "accept"}
    BY <1>1, <1>2, <2>5 DEF Commit
  <2> QED BY <2>3, <2>4, <2>5
<1>3. ASSUME NEW t \in Token, TokenEnds(t) PROVE NewTokens'
  <2>1. \A s \in Token : token'[s].user = token[s].user /\ (s # t => token'[s] = token[s])
    BY <1>3 DEF TokenEnds, IInv, Typed, TokenRow
  <2> QED BY <1>3, <2>1 DEF TokenEnds, NewTokens
<1>4. ASSUME NEW x \in Txn, Operation(x) PROVE UNCHANGED token
  BY <1>4, Zenon DEF Operation, BeginInvite, BeginCreate, BeginChangeRole, BeginSetStatus,
       BeginAccept, Begin
<1>5. ASSUME NEW x \in Txn, Acquire(x) \/ Check(x) \/ Rollback(x) PROVE UNCHANGED token
  BY <1>5 DEF Acquire, Check, Rollback
<1> QED BY <1>1, <1>2, <1>3, <1>4, <1>5 DEF Next, vars, DeadlockVictim

LEMMA StartsAtomically == ASSUME Init PROVE Atomic!Init
<1>1. Atomic!Nobody = NoMember /\ Atomic!Unissued = NoToken
  BY DEF Atomic!Nobody, NoMember, Atomic!Unissued, NoToken
<1>2. OwnerRow = [Atomic!Nobody EXCEPT !.status = "active", !.role = Owner, !.version = 1]
  BY <1>1 DEF OwnerRow
<1> QED BY <1>1, <1>2 DEF Init, Atomic!Init

\* The rows of the service and of the atomic one are written alike.
LEMMA InvitedAlike ==
  ASSUME NEW row \in MemberRow, NEW role, NEW t
  PROVE  Invited(row, role, t) = [Atomic!Offered(row, role, t) EXCEPT !.version = @ + 1]
<1> PICK mid : mid = Atomic!Offered(row, role, t)
  OBVIOUS
<1>1. mid.version = row.version
  BY DEF MemberRow, Atomic!Offered
<1>2. PICK v : v = row.version + 1
  OBVIOUS
<1>3. Invited(row, role, t) = [row EXCEPT !.status = "invited", !.role = role, !.version = v,
                                          !.invitation = t, !.accepted = None]
  BY <1>2, Zenon DEF Invited
<1>4. [mid EXCEPT !.version = @ + 1] = [mid EXCEPT !.version = v]
  BY <1>1, <1>2, Zenon
<1>5. Invited(row, role, t) = [mid EXCEPT !.version = v]
  BY <1>3 DEF MemberRow, Atomic!Offered
<1> QED BY <1>4, <1>5

LEMMA CreatedAlike ==
  ASSUME NEW row \in MemberRow, NEW role, row.version = 0
  PROVE  Created(row, role) =
           [[row EXCEPT !.status = "active", !.role = role] EXCEPT !.version = @ + 1]
<1> PICK mid : mid = [row EXCEPT !.status = "active", !.role = role]
  OBVIOUS
<1>1. mid.version + 1 = 1
  BY DEF MemberRow
<1>2. [mid EXCEPT !.version = @ + 1] = [mid EXCEPT !.version = 1]
  BY <1>1, Zenon
<1>3. Created(row, role) = [mid EXCEPT !.version = 1]
  BY DEF MemberRow, Created
<1> QED BY <1>2, <1>3

LEMMA ChangedAlike ==
  ASSUME NEW row \in MemberRow, NEW value
  PROVE  /\ RoleChanged(row, value) = [[row EXCEPT !.role = value] EXCEPT !.version = @ + 1]
         /\ StatusSet(row, value) = [[row EXCEPT !.status = value] EXCEPT !.version = @ + 1]
         /\ Accepted(row, value) =
              [[row EXCEPT !.status = "active", !.accepted = value] EXCEPT !.version = @ + 1]
<1>1. RoleChanged(row, value) = [[row EXCEPT !.role = value] EXCEPT !.version = @ + 1]
  BY DEF MemberRow, RoleChanged
<1>2. StatusSet(row, value) = [[row EXCEPT !.status = value] EXCEPT !.version = @ + 1]
  BY DEF MemberRow, StatusSet
<1>3. Accepted(row, value) =
        [[row EXCEPT !.status = "active", !.accepted = value] EXCEPT !.version = @ + 1]
  BY DEF MemberRow, Accepted
<1> QED BY <1>1, <1>2, <1>3

LEMMA OwnersAlike ==
  ASSUME NEW u \in User
  PROVE  Atomic!LastOwner(u) <=>
           member[u].status = "active" /\ member[u].role = Owner /\ ~AdditionalOwner(u)
BY DEF Atomic!LastOwner, AdditionalOwner, ActiveOwners

\* A commit is one step of the atomic service on the rows as they are then.
LEMMA CommitIsAtomic ==
  ASSUME IInv, RowsCount, Invitations, NewTokens, NEW x \in Txn, Commit(x) PROVE Atomic!Next
<1> PICK r : r = txn[x]
  OBVIOUS
<1> PICK u : u = r.user
  OBVIOUS
<1>1. r \in TxnRow /\ r.pc = "checked" /\ Requested(r) /\ CheckedNow(r) /\ member' = After(r)
  BY DEF Commit, IInv, Typed, Sound
<1>2. /\ u \in User /\ r.row = member[u] /\ member[u] \in MemberRow /\ Justified(r)
      /\ member' = [member EXCEPT ![u] = Written(r)]
  BY <1>1 DEF After, Requested, CheckedNow, IInv, Typed
<1>3. CASE r.op = "invite"
  <2>1. r.to \in Role /\ r.token \in Token /\ token[r.token] = NoToken
    BY <1>1, <1>3 DEF Requested, Invitations, Under, NewTokens
  <2>2. Atomic!Change(u, Atomic!Offered(member[u], r.to, r.token))
    <3>1. Written(r) = Invited(member[u], r.to, r.token)
      BY <1>2, <1>3 DEF Written
    <3>2. Written(r) = [Atomic!Offered(member[u], r.to, r.token) EXCEPT !.version = @ + 1]
      BY <1>2, <3>1, InvitedAlike
    <3> QED BY <1>2, <3>2, Zenon DEF Atomic!Change
  <2>3. Written(r).version = member[u].version + 1
    BY <1>2, <1>3 DEF Written, Invited, MemberRow
  <2>4. IssuedToken(r) = [NoToken EXCEPT !.user = u, !.role = r.to, !.version = member[u].version + 1]
    BY <2>3 DEF IssuedToken
  <2>5. token' = [token EXCEPT ![r.token] = IssuedToken(r)] /\ Atomic!Unissued = NoToken
    BY <1>3 DEF Commit, Atomic!Unissued, NoToken
  <2>6. member[u].status \in {"absent", "revoked"}
    BY <1>2, <1>3 DEF Justified, MayInvite
  <2>7. Atomic!Invite(u, r.to, r.token)
    BY <2>1, <2>2, <2>4, <2>5, <2>6 DEF Atomic!Invite
  <2> QED BY <1>2, <2>1, <2>7 DEF Atomic!Next
<1>4. CASE r.op = "create"
  <2>1. r.to \in Role /\ member[u].status = "absent" /\ member[u].version = 0 /\ UNCHANGED token
    BY <1>1, <1>2, <1>4 DEF Requested, Justified, MayCreate, RowsCount, Commit
  <2>2. Atomic!Change(u, [member[u] EXCEPT !.status = "active", !.role = r.to])
    <3>1. Written(r) = Created(member[u], r.to)
      BY <1>2, <1>4 DEF Written
    <3> QED BY <1>2, <2>1, <3>1, CreatedAlike, Zenon DEF Atomic!Change
  <2> QED BY <1>2, <2>1, <2>2 DEF Atomic!Create, Atomic!Next
<1>5. CASE r.op = "role"
  <2>1. r.to \in Role /\ UNCHANGED token /\ MayChangeRole(u, member[u], r.to)
    BY <1>1, <1>2, <1>5 DEF Requested, Justified, Commit
  <2>2. Atomic!Change(u, [member[u] EXCEPT !.role = r.to])
    <3>1. Written(r) = RoleChanged(member[u], r.to)
      BY <1>2, <1>5 DEF Written
    <3> QED BY <1>2, <3>1, ChangedAlike, Zenon DEF Atomic!Change
  <2>3. r.to # Owner => ~Atomic!LastOwner(u)
    BY <1>2, <2>1, OwnersAlike DEF MayChangeRole
  <2> QED BY <1>2, <2>1, <2>2, <2>3 DEF MayChangeRole, Atomic!ChangeRole, Atomic!Next
<1>6. CASE r.op = "status"
  <2>1. r.to \in {"active", "suspended", "revoked"} /\ UNCHANGED token /\ MaySetStatus(u, member[u], r.to)
    BY <1>1, <1>2, <1>6 DEF Requested, Justified, Commit
  <2>2. Atomic!Change(u, [member[u] EXCEPT !.status = r.to])
    <3>1. Written(r) = StatusSet(member[u], r.to)
      BY <1>2, <1>6 DEF Written
    <3> QED BY <1>2, <3>1, ChangedAlike, Zenon DEF Atomic!Change
  <2>3. ~Atomic!LastOwner(u)
    BY <1>2, <2>1, OwnersAlike DEF MaySetStatus
  <2>4. member[u].status # "absent"
    BY <1>1, <1>2, <1>6 DEF IInv, Sound, RowThere
  <2>5. \/ r.to = "suspended" /\ member[u].status = "active"
        \/ r.to = "active"    /\ member[u].status = "suspended"
        \/ r.to = "revoked"   /\ member[u].status \in {"invited", "active", "suspended"}
    BY <1>2, <2>1, <2>4 DEF MaySetStatus, Allowed, MemberRow
  <2> QED BY <1>2, <2>1, <2>2, <2>3, <2>5 DEF Atomic!SetStatus, Atomic!Next
<1>7. CASE r.op = "accept"
  <2>1. r.token \in Token /\ Matched(r) /\ member[u].status = "invited"
    BY <1>1, <1>2, <1>7 DEF Requested, Invitations, Under, Justified
  <2>2. Atomic!Change(u, [member[u] EXCEPT !.status = "active", !.accepted = r.token])
    <3>1. Written(r) = Accepted(member[u], r.token)
      BY <1>2, <1>7 DEF Written
    <3> QED BY <1>2, <3>1, ChangedAlike, Zenon DEF Atomic!Change
  <2>3. token[r.token] \in TokenRow
    BY <2>1 DEF IInv, Typed
  <2>4. token[r.token] = [user |-> u, role |-> member[u].role, version |-> member[u].version,
                          valid |-> TRUE, consumed |-> FALSE]
    BY <2>1, <2>3 DEF TokenRow, Matched
  <2>5. token' = [token EXCEPT ![r.token].consumed = TRUE]
    BY <1>7 DEF Commit
  <2>6. member[u].invitation = r.token
    BY <2>1 DEF Matched
  <2>7. Atomic!Accept(u, r.token)
    BY <2>1, <2>2, <2>4, <2>5, <2>6 DEF Atomic!Accept
  <2> QED BY <1>2, <2>1, <2>7 DEF Atomic!Next
<1> QED BY <1>1, <1>3, <1>4, <1>5, <1>6, <1>7 DEF Requested, Operations

\* Concurrent transactions come out as single steps, each decided by the rows as they are when
\* it commits: the row locks that invite, create_membership, change_role, set_status and
\* accept_invitation take, in their order, make them serializable.
THEOREM AtomicMembershipsImplemented ==
  ASSUME RowsApart PROVE Spec => ImplementsAtomicMemberships
<1>1. ASSUME IInv, RowsCount, Invitations, NewTokens, [Next]_vars
      PROVE  [Atomic!Next]_<<member, token>>
  <2>1. ASSUME NEW x \in Txn, Operation(x) PROVE UNCHANGED <<member, token>>
    BY <2>1, Zenon DEF Operation, BeginInvite, BeginCreate, BeginChangeRole, BeginSetStatus,
         BeginAccept, Begin
  <2>2. ASSUME NEW x \in Txn, Acquire(x) \/ Check(x) \/ Rollback(x)
        PROVE  UNCHANGED <<member, token>>
    BY <2>2 DEF Acquire, Check, Rollback
  <2>3. ASSUME NEW t \in Token, TokenEnds(t) PROVE Atomic!Next
    BY <2>3 DEF TokenEnds, Atomic!Lapse, Atomic!Next
  <2>4. CASE UNCHANGED vars
    BY <2>4 DEF vars
  <2> QED BY <1>1, <2>1, <2>2, <2>3, <2>4, CommitIsAtomic DEF Next, DeadlockVictim
<1>2. Init => RowsCount /\ NewTokens
  BY DEF Init, RowsCount, NoMember, OwnerRow, Lock, NewTokens
<1> QED BY <1>1, <1>2, Starts, StartsAtomically, Inductive, CountKept, InvitationsStart,
        InvitationsInductive, NewTokensKept, PTL
        DEF Spec, ImplementsAtomicMemberships, Atomic!Spec

-----------------------------------------------------------------------------

-----------------------------------------------------------------------------
(* Deadlocks *)

\* A lock is held by a transaction whose plan has reached it.
Reached(r, l) == \E i \in 1..r.held : i \in DOMAIN Plan(r) /\ l = Plan(r)[i]

HeldRows == \A l \in Lock : holder[l] # None => Reached(txn[holder[l]], l)

LEMMA HeldRowsKept == ASSUME RowsApart, IInv, RowsCount, HeldRows, [Next]_vars PROVE HeldRows'
<1>0. /\ \A l \in Lock : holder[l] \in Txn \cup {None}
      /\ txn \in [Txn -> TxnRow] /\ DOMAIN holder = Lock /\ None \notin Txn
  BY MembershipAssumption DEF IInv, Typed
<1>1. ASSUME NEW x \in Txn, Operation(x) PROVE HeldRows'
  <2>1. UNCHANGED holder /\ txn[x].pc = "idle" /\ \A y \in Txn : y # x => txn'[y] = txn[y]
    BY <1>0, <1>1, ZenonT(60) DEF Operation, BeginInvite, BeginCreate, BeginChangeRole,
         BeginSetStatus, BeginAccept, Begin
  <2>2. \A l \in Lock : holder[l] # None => holder[l] # x
    BY <1>0, <2>1 DEF RowsCount
  <2>3. \A y \in Txn, l \in Lock : y # x /\ Reached(txn[y], l) => Reached(txn[y], l)'
    BY <2>1 DEF Reached, Plan
  <2> QED BY <1>0, <2>1, <2>2, <2>3 DEF HeldRows
<1>2. ASSUME NEW x \in Txn, Acquire(x) PROVE HeldRows'
  <2> PICK r : r = txn[x]
    OBVIOUS
  <2> PICK moved : moved = [r EXCEPT !.held = @ + 1]
    OBVIOUS
  <2>1. r \in TxnRow /\ r.pc # "idle" /\ Requested(r)
    BY <1>0, <1>2 DEF Acquire, Acquiring, IInv, Sound
  <2>2. moved.held = r.held + 1 /\ moved.op = r.op /\ moved.user = r.user /\ moved.token = r.token
    BY <2>1 DEF TxnRow
  <2>3. txn'[x] = moved /\ \A y \in Txn : y # x => txn'[y] = txn[y]
    BY <1>0, <1>2 DEF Acquire
  <2>4. Plan(moved) = Plan(r)
    BY <2>2 DEF Plan
  <2>5. r.held + 1 \in DOMAIN Plan(r) /\ Wants(x) = Plan(r)[r.held + 1]
    BY <1>2, <2>1, Plans DEF Acquire, Acquiring, Wants, Requested, Operations, TxnRow
  <2>6. \A l \in Lock : holder'[l] = holder[l] \/ (l = Wants(x) /\ holder'[l] = x)
    BY <1>0, <1>2 DEF Acquire
  <2>7. \A l : Reached(r, l) \/ l = Wants(x) => Reached(moved, l)
    BY <2>1, <2>2, <2>4, <2>5 DEF Reached, TxnRow
  <2>8. \A y \in Txn, l \in Lock : y # x /\ Reached(txn[y], l) => Reached(txn[y], l)'
    BY <2>3 DEF Reached, Plan
  <2>9. \A l \in Lock : Reached(moved, l) => Reached(txn[x], l)'
    BY <2>3 DEF Reached, Plan
  <2> QED BY <1>0, <2>3, <2>6, <2>7, <2>8, <2>9 DEF HeldRows
<1>3. ASSUME NEW x \in Txn, Check(x) PROVE HeldRows'
  <2> PICK r : r = txn[x]
    OBVIOUS
  <2>1. /\ txn'[x].held = r.held /\ txn'[x].op = r.op /\ txn'[x].user = r.user
        /\ txn'[x].token = r.token /\ UNCHANGED holder
        /\ \A y \in Txn : y # x => txn'[y] = txn[y]
    BY <1>0, <1>3 DEF Check, TxnRow
  <2>2. \A y \in Txn, l \in Lock : Reached(txn[y], l) => Reached(txn[y], l)'
    BY <2>1, ZenonT(60) DEF Reached, Plan
  <2> QED BY <1>0, <2>1, <2>2 DEF HeldRows
<1>4. ASSUME NEW x \in Txn, holder' = Release(x), txn' = [txn EXCEPT ![x] = Idle] PROVE HeldRows'
  <2>1. \A y \in Txn, l \in Lock : y # x /\ Reached(txn[y], l) => Reached(txn[y], l)'
    BY <1>0, <1>4 DEF Reached, Plan
  <2>2. \A l \in Lock : holder'[l] # None => holder'[l] = holder[l] /\ holder[l] # x
    BY <1>0, <1>4 DEF Release
  <2> QED BY <1>0, <2>1, <2>2 DEF HeldRows
<1>5. ASSUME NEW x \in Txn, Rollback(x) \/ Commit(x) PROVE HeldRows'
  BY <1>4, <1>5 DEF Rollback, Commit
<1>6. ASSUME UNCHANGED vars \/ \E t \in Token : TokenEnds(t) PROVE HeldRows'
  BY <1>6 DEF vars, TokenEnds, HeldRows, Reached, Plan
<1> QED BY <1>1, <1>2, <1>3, <1>5, <1>6 DEF Next, DeadlockVictim

-----------------------------------------------------------------------------
Blocked(x) == Acquiring(x) /\ holder[Wants(x)] # None

\* What a transaction that waits may hold and wait for.
LEMMA Waiting ==
  ASSUME RowsApart, IInv, HeldRows, NEW x \in Txn, Acquiring(x)
  PROVE  /\ Wants(x) \in Lock
         /\ holder[Wants(x)] # x
         /\ \A l \in Lock : holder[l] = x =>
              holder[Workspace] = x \/ Wants(x) \in {Workspace, AuditChain} \cup User
         /\ holder[AuditChain] = x => Wants(x) = Workspace
         /\ \A u \in User : holder[u] = x =>
              holder[Workspace] = x \/ Wants(x) \in {Workspace, AuditChain}
         /\ holder[Workspace] = x => Wants(x) \in {AuditChain} \cup User
<1> PICK r : r = txn[x]
  OBVIOUS
<1>1. r \in TxnRow /\ r.pc # "idle" /\ Requested(r) /\ Locks(x, r) /\ r.held \in Nat
  BY DEF Acquiring, IInv, Typed, Sound, TxnRow
<1>2. r.held + 1 \in DOMAIN Plan(r) /\ Wants(x) = Plan(r)[r.held + 1]
  BY <1>1, Plans DEF Acquiring, Wants, Requested, Operations
<1>3. \A l \in Lock : holder[l] = x => Reached(r, l)
  BY MembershipAssumption DEF HeldRows
<1>4. /\ Workspace # AuditChain /\ Workspace \notin User /\ AuditChain \notin User
      /\ r.user \in User /\ Workspace \in Lock /\ AuditChain \in Lock /\ User \subseteq Lock
  BY <1>1 DEF RowsApart, Lock, Workspace, AuditChain, Requested
<1>5. CASE r.op \in {"invite", "create"}
  <2>1. Plan(r) = <<Workspace, r.user, AuditChain>>
    BY <1>1, <1>5, Plans
  <2>2. r.held \in 0..2
    BY <1>1, <1>2, <2>1
  <2>3. CASE r.held = 0
    <3>1. Wants(x) = Workspace /\ \A l \in Lock : holder[l] # x
      BY <1>2, <1>3, <2>1, <2>3 DEF Reached
    <3> QED BY <1>4, <3>1
  <2>4. CASE r.held = 1
    <3>1. Wants(x) = r.user /\ holder[Workspace] = x /\ \A l \in Lock : holder[l] = x => l = Workspace
      BY <1>1, <1>2, <1>3, <1>5, <2>1, <2>4 DEF Reached, Locks
    <3> QED BY <1>4, <3>1
  <2>5. CASE r.held = 2
    <3>1. /\ Wants(x) = AuditChain /\ holder[Workspace] = x
          /\ \A l \in Lock : holder[l] = x => l \in {Workspace, r.user}
      BY <1>1, <1>2, <1>3, <1>5, <2>1, <2>5 DEF Reached, Locks
    <3> QED BY <1>4, <3>1
  <2> QED BY <2>2, <2>3, <2>4, <2>5
<1>6. CASE r.op \in {"role", "status"}
  <2>1. Plan(r) = <<r.user, Workspace, AuditChain>>
    BY <1>1, <1>6, Plans
  <2>2. r.held \in 0..2
    BY <1>1, <1>2, <2>1
  <2>3. CASE r.held = 0
    <3>1. Wants(x) = r.user /\ \A l \in Lock : holder[l] # x
      BY <1>2, <1>3, <2>1, <2>3 DEF Reached
    <3> QED BY <1>4, <3>1
  <2>4. CASE r.held = 1
    <3>1. Wants(x) = Workspace /\ \A l \in Lock : holder[l] = x => l = r.user
      BY <1>2, <1>3, <2>1, <2>4 DEF Reached
    <3> QED BY <1>4, <3>1
  <2>5. CASE r.held = 2
    <3>1. /\ Wants(x) = AuditChain /\ holder[Workspace] = x
          /\ \A l \in Lock : holder[l] = x => l \in {Workspace, r.user}
      BY <1>1, <1>2, <1>3, <1>6, <2>1, <2>5 DEF Reached, Locks
    <3> QED BY <1>4, <3>1
  <2> QED BY <2>2, <2>3, <2>4, <2>5
<1>7. CASE r.op = "accept"
  <2>1. Plan(r) = <<r.token, r.user, AuditChain, Workspace>>
    BY <1>1, <1>7, Plans
  <2>2. r.held \in 0..3
    BY <1>1, <1>2, <2>1
  <2>3. r.token \in Token /\ r.token \in Lock /\ r.token \notin User \cup {Workspace, AuditChain}
    BY <1>1, <1>7 DEF Requested, RowsApart, Lock
  <2>4. CASE r.held = 0
    <3>1. Wants(x) = r.token /\ \A l \in Lock : holder[l] # x
      BY <1>2, <1>3, <2>1, <2>4 DEF Reached
    <3> QED BY <1>4, <2>3, <3>1
  <2>5. CASE r.held = 1
    <3>1. Wants(x) = r.user /\ \A l \in Lock : holder[l] = x => l = r.token
      BY <1>2, <1>3, <2>1, <2>5 DEF Reached
    <3> QED BY <1>4, <2>3, <3>1
  <2>6. CASE r.held = 2
    <3>1. Wants(x) = AuditChain /\ \A l \in Lock : holder[l] = x => l \in {r.token, r.user}
      BY <1>2, <1>3, <2>1, <2>6 DEF Reached
    <3> QED BY <1>4, <2>3, <3>1
  <2>7. CASE r.held = 3
    <3>1. Wants(x) = Workspace /\ \A l \in Lock : holder[l] = x => l \in {r.token, r.user, AuditChain}
      BY <1>2, <1>3, <2>1, <2>7 DEF Reached
    <3> QED BY <1>4, <2>3, <3>1
  <2> QED BY <2>2, <2>4, <2>5, <2>6, <2>7
<1> QED BY <1>1, <1>5, <1>6, <1>7 DEF Requested, Operations

\* Transactions of which each waits for another of them.
Circle(S) == S # {} /\ \A x \in S : \E y \in S : WaitsFor(x, y)

\* Every circle passes through the transaction that holds the workspace, at most two further on.
LEMMA CirclesAreShort ==
  ASSUME RowsApart, IInv, HeldRows, NEW S \in SUBSET Txn, Circle(S)
  PROVE  \E x \in S : holder[Workspace] = x /\ Deadlocked(x)
<1>1. \A x \in S : x \in Txn /\ Acquiring(x) /\ holder[Wants(x)] \in S /\ holder[Wants(x)] # x
  BY DEF Circle, WaitsFor
<1>2. \A x \in S : WaitsFor(x, holder[Wants(x)])
  BY <1>1 DEF WaitsFor
<1>3. \A x \in S : holder[AuditChain] = x => Wants(x) = Workspace
  BY <1>1, Waiting
<1>4. \A x \in S, u \in User : holder[u] = x =>
        holder[Workspace] = x \/ Wants(x) \in {Workspace, AuditChain}
  BY <1>1, Waiting
<1>5. holder[Workspace] \in S
  <2>1. PICK x \in S : TRUE
    BY DEF Circle
  <2>2. PICK y \in S : y = holder[Wants(x)]
    BY <1>1, <2>1
  <2>3. holder[Workspace] = y \/ Wants(y) \in {Workspace, AuditChain} \cup User
    BY <1>1, <2>1, <2>2, Waiting
  <2>4. CASE Wants(y) = AuditChain
    BY <1>1, <1>3, <2>4
  <2>5. CASE Wants(y) \in User
    BY <1>1, <1>3, <1>4, <2>5
  <2> QED BY <1>1, <2>2, <2>3, <2>4, <2>5
<1>6. PICK x \in S : x = holder[Workspace]
  BY <1>5
<1>7. PICK y \in S : y = holder[Wants(x)] /\ WaitsFor(x, y)
  BY <1>1, <1>2, <1>6
<1>8. Wants(x) \in {AuditChain} \cup User
  BY <1>1, <1>6, Waiting
<1>9. CASE Wants(y) = Workspace
  BY <1>2, <1>6, <1>7, <1>9 DEF Deadlocked
<1>10. CASE Wants(y) = AuditChain
  <2>1. PICK z \in S : z = holder[AuditChain] /\ WaitsFor(y, z)
    BY <1>1, <1>2, <1>7, <1>10
  <2>2. WaitsFor(z, x)
    BY <1>2, <1>3, <1>6, <2>1
  <2> QED BY <1>6, <1>7, <2>1, <2>2 DEF Deadlocked
<1> QED BY <1>1, <1>3, <1>4, <1>6, <1>7, <1>8, <1>9, <1>10

\* However many transactions wait, each circle among them has a member that the database ends,
\* the one that holds the workspace; and while a transaction is under way, one is deadlocked so
\* or finds the lock it needs free, or has all it needs: the lock orders of invite,
\* change_role and accept_invitation differ, and no longer circle can come of it.
DeadlocksAreFound ==
  /\ \A S \in SUBSET Txn : Circle(S) => \E x \in S : holder[Workspace] = x /\ Deadlocked(x)
  /\ \A x \in Txn : txn[x].pc # "idle" =>
       \E y \in Txn : txn[y].pc # "idle" /\ (Deadlocked(y) \/ ~Blocked(y))

THEOREM DeadlocksAreFoundHolds == ASSUME RowsApart PROVE Spec => []DeadlocksAreFound
<1>1. ASSUME IInv, RowsCount, HeldRows PROVE DeadlocksAreFound
  <2>1. ASSUME NEW S \in SUBSET Txn, Circle(S)
        PROVE  \E x \in S : holder[Workspace] = x /\ Deadlocked(x)
    BY <1>1, <2>1, CirclesAreShort
  <2>2. ASSUME NEW x \in Txn, txn[x].pc # "idle",
               \A y \in Txn : txn[y].pc # "idle" => Blocked(y) /\ ~Deadlocked(y)
        PROVE  FALSE
    <3> PICK S \in SUBSET Txn : \A y \in Txn : y \in S <=> txn[y].pc # "idle"
      <4> WITNESS {y \in Txn : txn[y].pc # "idle"} \in SUBSET Txn
      <4> QED OBVIOUS
    <3>1. ASSUME NEW y \in S PROVE \E z \in S : WaitsFor(y, z)
      <4>1. Acquiring(y) /\ holder[Wants(y)] # None
        BY <2>2 DEF Blocked
      <4>2. Wants(y) \in Lock /\ holder[Wants(y)] # y
        BY <1>1, <4>1, Waiting
      <4>3. holder[Wants(y)] \in S
        BY <1>1, <4>1, <4>2 DEF RowsCount, IInv, Typed
      <4> QED BY <4>1, <4>2, <4>3 DEF WaitsFor
    <3>2. Circle(S)
      BY <2>2, <3>1 DEF Circle
    <3>3. PICK y \in S : Deadlocked(y)
      BY <2>1, <3>2
    <3> QED BY <2>2, <3>3
  <2> QED BY <2>1, <2>2 DEF DeadlocksAreFound
<1>2. Init => RowsCount /\ HeldRows
  BY DEF Init, RowsCount, NoMember, OwnerRow, Lock, HeldRows
<1> QED BY <1>1, <1>2, Starts, Inductive, CountKept, HeldRowsKept, PTL DEF Spec
=============================================================================
