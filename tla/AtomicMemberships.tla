-------------------------- MODULE AtomicMemberships --------------------------
(***************************************************************************)
(* What the membership service promises its callers: every change of a     *)
(* membership is one step, decided by the rows as they are in that step.   *)
(* There are no transactions, locks, reads or retries here; a detailed     *)
(* service that implements this is serializable.                           *)
(***************************************************************************)
EXTENDS Naturals

CONSTANTS User, Role, Token, None,
          Owner,        \* the role of which one active member must remain
          Bootstrap     \* the owners the workspace starts with

VARIABLES
  member,   \* [User -> status, role, version and the invitations of the membership]
  token     \* [Token -> whom an invitation is for, for what, and whether it can be used]

Nobody == [status |-> "absent", role |-> None, version |-> 0,
           invitation |-> None, accepted |-> None]

Unissued == [user |-> None, version |-> 0, role |-> None, valid |-> TRUE, consumed |-> FALSE]

Init ==
  /\ member = [u \in User |->
       IF u \in Bootstrap
       THEN [Nobody EXCEPT !.status = "active", !.role = Owner, !.version = 1]
       ELSE Nobody]
  /\ token = [t \in Token |-> Unissued]

LastOwner(u) ==
  /\ member[u].status = "active" /\ member[u].role = Owner
  /\ \A v \in User \ {u} : ~(member[v].status = "active" /\ member[v].role = Owner)

Change(u, row) == member' = [member EXCEPT ![u] = [row EXCEPT !.version = @ + 1]]

Create(u, role) ==
  /\ member[u].status = "absent"
  /\ Change(u, [member[u] EXCEPT !.status = "active", !.role = role])
  /\ UNCHANGED token

\* A new invitation takes the place of any earlier one.
Offered(row, role, t) ==
  [row EXCEPT !.status = "invited", !.role = role, !.invitation = t, !.accepted = None]

Invite(u, role, t) ==
  /\ member[u].status \in {"absent", "revoked"}
  /\ token[t] = Unissued
  /\ Change(u, Offered(member[u], role, t))
  /\ token' = [token EXCEPT ![t] = [Unissued EXCEPT !.user = u, !.role = role,
                                                    !.version = member[u].version + 1]]

\* Only the latest invitation of the membership as it was then, and once.
Accept(u, t) ==
  /\ member[u].status = "invited" /\ member[u].invitation = t
  /\ token[t] = [user |-> u, role |-> member[u].role, version |-> member[u].version,
                 valid |-> TRUE, consumed |-> FALSE]
  /\ Change(u, [member[u] EXCEPT !.status = "active", !.accepted = t])
  /\ token' = [token EXCEPT ![t].consumed = TRUE]

ChangeRole(u, role) ==
  /\ member[u].status = "active"
  /\ role # Owner => ~LastOwner(u)
  /\ Change(u, [member[u] EXCEPT !.role = role])
  /\ UNCHANGED token

SetStatus(u, status) ==
  /\ \/ status = "suspended" /\ member[u].status = "active"
     \/ status = "active"    /\ member[u].status = "suspended"
     \/ status = "revoked"   /\ member[u].status \in {"invited", "active", "suspended"}
  /\ ~LastOwner(u)
  /\ Change(u, [member[u] EXCEPT !.status = status])
  /\ UNCHANGED token

\* An invitation is withdrawn or expires.
Lapse(t) ==
  /\ token[t].user # None /\ token[t].valid /\ ~token[t].consumed
  /\ token' = [token EXCEPT ![t].valid = FALSE]
  /\ UNCHANGED member

Next ==
  \/ \E u \in User, role \in Role : Create(u, role) \/ ChangeRole(u, role)
  \/ \E u \in User, status \in {"active", "suspended", "revoked"} : SetStatus(u, status)
  \/ \E u \in User, role \in Role, t \in Token : Invite(u, role, t)
  \/ \E u \in User, t \in Token : Accept(u, t)
  \/ \E t \in Token : Lapse(t)

Spec == Init /\ [][Next]_<<member, token>>
=============================================================================
