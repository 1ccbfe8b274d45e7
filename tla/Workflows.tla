----------------------------- MODULE Workflows -----------------------------
(***************************************************************************)
(* WorkflowService of app/workflows/service.py: definition versions, the   *)
(* transitions of their instances, and approvals.                          *)
(*                                                                         *)
(* A caller looks at an instance, carries the step out and reports the     *)
(* outcome with the version it saw; the report may come late, or twice.    *)
(* Each call is one transaction on the locked row.                         *)
(***************************************************************************)
EXTENDS Integers, Sequences, FiniteSets

CONSTANTS
  DefinitionVersion,  \* versions of a workflow definition
  Graph,              \* its steps: [step -> [kind, next, failure]]
  First,              \* the first step
  Instance,           \* workflow_instances
  Caller,
  Approval,           \* workflow_approvals, each asking for Required approvals
  User,
  Requester,          \* the user who requests them
  Required,
  Nil,
  MaxInstanceVersion  \* bound: an instance below it is moved

VARIABLES
  version,   \* workflow_definition_versions: "absent", "draft" or "active"
  numbers,   \* sequences of the definition's events
  denied,    \* versions whose activation was refused
  instance,  \* workflow_instances
  receipts,  \* workflow_receipts of each instance, in order
  calls,     \* what each caller saw and wants
  approval,  \* "absent", "open" or "closed" (expired or revoked)
  decision   \* workflow_approval_decisions: [approval -> [user -> vote]]

workflowVars == <<version, numbers, denied, instance, receipts, calls, approval, decision>>

Terminal == {"succeeded", "failed", "cancelled", "compensation_failed", "uncertain"}

InstanceRow == [step : DOMAIN Graph \cup {Nil}, version : Nat,
                status : {"running", "waiting", "waiting_approval", "paused"} \cup Terminal]

\* activate sets activated_at, but cannot commit (see Activate); a version that
\* is active has been made so by other means.
InitWorkflows ==
  /\ version \in [DefinitionVersion -> {"absent", "active"}]
  /\ numbers = {} /\ denied = {}
  /\ instance = [i \in Instance |-> Nil]
  /\ receipts = [i \in Instance |-> <<>>]
  /\ calls = [c \in Caller |-> Nil]
  /\ approval = [a \in Approval |-> "absent"]
  /\ decision = [a \in Approval |-> [u \in User |-> Nil]]

-----------------------------------------------------------------------------
(* Definitions *)

RegisterDefinition(v) ==
  /\ version[v] = "absent" /\ v \notin numbers
  /\ version' = [version EXCEPT ![v] = "draft"]
  /\ numbers' = numbers \cup {v}
  /\ UNCHANGED <<denied, instance, receipts, calls, approval, decision>>

\* The event's sequence is the version again: with the number taken by the
\* registration, the activation fails as a whole.
Activate(v) ==
  /\ version[v] = "draft"
  /\ IF v \in numbers
     THEN denied' = denied \cup {v} /\ UNCHANGED <<version, numbers>>
     ELSE /\ version' = [version EXCEPT ![v] = "active"]
          /\ numbers' = numbers \cup {v}
          /\ UNCHANGED denied
  /\ UNCHANGED <<instance, receipts, calls, approval, decision>>

-----------------------------------------------------------------------------
(* Instances *)

Start(i, v) ==
  /\ instance[i] = Nil
  /\ version[v] = "active"
  /\ instance' = [instance EXCEPT ![i] = [step |-> First, version |-> 1, status |-> "running"]]
  /\ UNCHANGED <<version, numbers, denied, receipts, calls, approval, decision>>

\* decide_next: where the outcome of step s leads.
Waits == [approval |-> "waiting_approval", wait |-> "waiting"]

StatusAt(s) == IF Graph[s].kind \in DOMAIN Waits THEN Waits[Graph[s].kind] ELSE "running"

DecideNext(s, outcome) ==
  IF outcome = "failed"
  THEN [step |-> Graph[s].failure,
        status |-> IF Graph[s].failure = Nil THEN "failed" ELSE "running"]
  ELSE [step |-> Graph[s].next,
        status |-> IF Graph[s].next = Nil THEN "succeeded" ELSE StatusAt(Graph[s].next)]

\* A caller takes up the instance's step and will report its outcome.
Observe(c, i, outcome) ==
  /\ instance[i] # Nil /\ instance[i].step # Nil
  /\ calls' = [calls EXCEPT ![c] = [instance |-> i, version |-> instance[i].version,
                                  step |-> instance[i].step, outcome |-> outcome]]
  /\ UNCHANGED <<version, numbers, denied, instance, receipts, approval, decision>>

AnyVersion(row, c) == TRUE

Expected(row, c) == row.version = calls[c].version

\* transition.  The call is kept: its answer may be lost and it be sent again.
TransitionInstance(c) ==
  LET i    == calls[c].instance
      row  == instance[i]
      next == DecideNext(row.step, calls[c].outcome)
  IN
  /\ calls[c] # Nil
  /\ Expected(row, c)
  /\ row.step # Nil /\ row.status \notin Terminal
  /\ row.version < MaxInstanceVersion
  /\ instance' = [instance EXCEPT ![i] = [step |-> next.step, version |-> row.version + 1,
                                          status |-> next.status]]
  /\ receipts' = [receipts EXCEPT ![i] =
                   Append(@, [left |-> row.step, seen |-> calls[c].step, to |-> next.step])]
  /\ UNCHANGED <<version, numbers, denied, calls, approval, decision>>

-----------------------------------------------------------------------------
(* Approvals *)

RequestApproval(a) ==
  /\ approval[a] = "absent"
  /\ \E i \in Instance : instance[i] # Nil
  /\ approval' = [approval EXCEPT ![a] = "open"]
  /\ UNCHANGED <<version, numbers, denied, instance, receipts, calls, decision>>

\* Neither the expiry nor a revocation is looked at here.
DecideApproval(a, u, vote) ==
  /\ approval[a] # "absent"
  /\ u # Requester /\ decision[a][u] = Nil
  /\ decision' = [decision EXCEPT ![a][u] = vote]
  /\ UNCHANGED <<version, numbers, denied, instance, receipts, calls, approval>>

ApprovalCloses(a) ==
  /\ approval[a] = "open"
  /\ approval' = [approval EXCEPT ![a] = "closed"]
  /\ UNCHANGED <<version, numbers, denied, instance, receipts, calls, decision>>

\* require_approval, asked by those who carry a step out.
RequireApproval(a) ==
  /\ approval[a] = "open"
  /\ Cardinality({u \in User \ {Requester} : decision[a][u] = "approved"}) >= Required

NextWorkflows ==
  \/ \E v \in DefinitionVersion : RegisterDefinition(v) \/ Activate(v) \/ \E i \in Instance : Start(i, v)
  \/ \E c \in Caller :
       \/ TransitionInstance(c)
       \/ \E i \in Instance, outcome \in {"succeeded", "failed"} : Observe(c, i, outcome)
  \/ \E a \in Approval :
       \/ RequestApproval(a) \/ ApprovalCloses(a)
       \/ \E u \in User, vote \in {"approved", "rejected"} : DecideApproval(a, u, vote)

WorkflowSpec == InitWorkflows /\ [][NextWorkflows]_workflowVars

-----------------------------------------------------------------------------
\* The rows are rows of their tables.
WorkflowTypeOK ==
  /\ version \in [DefinitionVersion -> {"absent", "draft", "active"}]
  /\ instance \in [Instance -> InstanceRow \cup {Nil}]

\* A late or repeated report never moves an instance on from a step its caller
\* did not carry out: the receipts are a path through the definition, each from
\* the step its caller saw, and they end where the instance is.
PathOfSeenSteps ==
  \A i \in Instance : instance[i] # Nil =>
    LET steps == <<First>> \o [n \in 1..Len(receipts[i]) |-> receipts[i][n].to]
    IN  /\ \A n \in 1..Len(receipts[i]) : steps[n] = receipts[i][n].left /\ steps[n] = receipts[i][n].seen
        /\ steps[Len(steps)] = instance[i].step
        /\ (instance[i].step = Nil) <=> (instance[i].status \in Terminal)

\* A registered version can be activated, and is immutable from then on.
ActivationSucceeds == denied = {}
=============================================================================
