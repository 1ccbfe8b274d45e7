--------------------------- MODULE AgentPlatform ---------------------------
(***************************************************************************)
(* AgentPlatformService of app/agent_platform/service.py: the registry of  *)
(* manifests and tools, plans, and the orchestration that runs a plan step *)
(* by step.                                                                *)
(*                                                                         *)
(* A step is one transaction that runs the tool outside the database and   *)
(* commits its receipt afterwards; when it is rolled back the effect       *)
(* stays.  The manifest, tool, delegation and plan objects are the         *)
(* caller's copies of what it registered: no row of the registry is read   *)
(* again.  Every other call is one transaction on rows of its own.         *)
(***************************************************************************)
EXTENDS Integers

CONSTANTS
  Manifest,       \* agent_manifests
  Tool,           \* agent_tools
  RegistryVersion, \* versions that may be registered
  Plan,           \* agent_plans, each of a manifest and with steps of a tool
  LastStep,       \* every plan has the steps 1..LastStep
  Orchestration,  \* agent_orchestrations
  Key,            \* idempotency keys of step executions
  Txn,            \* concurrent step executions
  None,
  MaxVersion,     \* bound: an orchestration is cancelled below this version
  MaxLost         \* bound: rolled-back executions of a step

VARIABLES
  registry,       \* manifests and tools, with the sequences of their events
  passed,         \* manifest versions with a passing evaluation
  refused,        \* items that a call to disable has failed for
  delegation,     \* "absent", "active" or "expired"
  plan,           \* status of each plan
  orch,           \* agent_orchestrations, with the sequences of their events
  stepReceipt,    \* outcome of each step of each orchestration
  spent,          \* idempotency keys of committed budget reservations
  txn,            \* the step executions under way
  ran,            \* how often the executor has been called for a step
  lost            \* how many of these executions were rolled back

agentVars == <<registry, passed, refused, delegation, plan, orch, stepReceipt, spent, txn, ran, lost>>
executionVars == <<delegation, plan, orch, stepReceipt, spent, txn, ran, lost>>

Item == Manifest \cup Tool
Step == 1..LastStep

RegistryRow == [enabled : BOOLEAN, versions : SUBSET RegistryVersion, events : SUBSET Nat]

OrchestrationRow == [plan : Plan, status : {"executing", "succeeded", "uncertain", "failed", "cancelled"},
                     step : Step \cup {None}, version : Nat, cancelled : BOOLEAN, events : SUBSET Nat]

InitAgents ==
  /\ registry = [i \in Item |-> [enabled |-> FALSE, versions |-> {}, events |-> {}]]
  /\ passed = {} /\ refused = {}
  /\ delegation = "absent"
  /\ plan = [p \in Plan |-> "absent"]
  /\ orch = [o \in Orchestration |-> None]
  /\ stepReceipt = [o \in Orchestration |-> [s \in Step |-> None]]
  /\ spent = {}
  /\ txn = [x \in Txn |-> None]
  /\ ran = [o \in Orchestration |-> [s \in Step |-> 0]]
  /\ lost = [o \in Orchestration |-> [s \in Step |-> 0]]

-----------------------------------------------------------------------------
(* The registry *)

\* _record: an event's sequence is unique in its aggregate.
Records(row, sequence) ==
  [row EXCEPT !.events = @ \cup {sequence}]

Register(i, v) ==
  /\ v \notin registry[i].versions /\ v \notin registry[i].events
  /\ registry' = [registry EXCEPT
       ![i] = Records([registry[i] EXCEPT !.versions = @ \cup {v}], v)]
  /\ UNCHANGED <<passed, refused, executionVars>>

RegisterManifest(m, v) == m \in Manifest /\ Register(m, v)
RegisterTool(t, v)     == t \in Tool /\ Register(t, v)

RecordEvaluation(m, v) ==
  /\ v \in registry[m].versions
  /\ passed' = passed \cup {<<m, v>>}
  /\ UNCHANGED <<registry, refused, executionVars>>

HasPassingEvaluation(m, v) == <<m, v>> \in passed

Enable(i) ==
  /\ registry' = [registry EXCEPT ![i].enabled = TRUE]
  /\ UNCHANGED <<passed, refused, executionVars>>

ActivateManifest(m, v) ==
  v \in registry[m].versions /\ HasPassingEvaluation(m, v) /\ Enable(m)

ActivateTool(t, v) == v \in registry[t].versions /\ Enable(t)

\* disable_manifest and disable_tool record with sequence 1, whatever was
\* recorded before: with that number taken, the call fails as a whole.
Disable(i) ==
  /\ registry[i].versions # {}
  /\ IF 1 \in registry[i].events
     THEN refused' = refused \cup {i} /\ UNCHANGED registry
     ELSE /\ registry' = [registry EXCEPT ![i] = Records([registry[i] EXCEPT !.enabled = FALSE], 1)]
          /\ UNCHANGED refused
  /\ UNCHANGED <<passed, executionVars>>

DisableManifest(m) == m \in Manifest /\ Disable(m)
DisableTool(t)     == t \in Tool /\ Disable(t)

RecordDelegation ==
  /\ delegation = "absent"
  /\ delegation' = "active"
  /\ UNCHANGED <<registry, passed, refused, plan, orch, stepReceipt, spent, txn, ran, lost>>

DelegationExpires ==
  /\ delegation = "active"
  /\ delegation' = "expired"
  /\ UNCHANGED <<registry, passed, refused, plan, orch, stepReceipt, spent, txn, ran, lost>>

-----------------------------------------------------------------------------
(* Plans *)

\* The plan's manifest version has to be registered.
Propose(p) ==
  /\ plan[p] = "absent"
  /\ \E m \in Manifest : registry[m].versions # {}
  /\ plan' = [plan EXCEPT ![p] = "proposed"]
  /\ UNCHANGED <<registry, passed, refused, delegation, orch, stepReceipt, spent, txn, ran, lost>>

\* A second acceptance would insert the plan's steps again.
AcceptPlan(p) ==
  /\ plan[p] = "proposed"
  /\ \E t \in Tool : registry[t].versions # {}
  /\ plan' = [plan EXCEPT ![p] = "accepted"]
  /\ UNCHANGED <<registry, passed, refused, delegation, orch, stepReceipt, spent, txn, ran, lost>>

-----------------------------------------------------------------------------
(* Orchestrations *)

\* Version 1, and no event for it.
StartOrchestration(o, p) ==
  /\ orch[o] = None
  /\ plan[p] = "accepted" /\ delegation = "active"
  /\ orch' = [orch EXCEPT ![o] = [plan |-> p, status |-> "executing", step |-> 1, version |-> 1,
                                  cancelled |-> FALSE, events |-> {}]]
  /\ UNCHANGED <<registry, passed, refused, delegation, plan, stepReceipt, spent, txn, ran, lost>>

\* repository.orchestration(for_update=True): no execution has this row.
Busy(x) == txn[x] # None

FreeUnlocked(o) == TRUE

Free(o) == \A x \in Txn : Busy(x) => txn[x].orch # o

\* validate_execution: the step is the caller's copy of the current one.
Executable(o) ==
  /\ orch[o] # None
  /\ ~orch[o].cancelled
  /\ orch[o].step # None
  /\ delegation = "active"

\* One reservation for each idempotency key; another transaction that holds
\* the key is waited for.
ReserveBudget(key) == key \notin spent /\ \A x \in Txn : Busy(x) => txn[x].key # key

\* execute_step up to the call of the executor, which takes effect.
ExecuteStep(x, o, key) ==
  /\ ~Busy(x)
  /\ Free(o) /\ Executable(o)
  /\ ReserveBudget(key)
  /\ txn' = [txn EXCEPT ![x] = [orch |-> o, step |-> orch[o].step, key |-> key]]
  /\ ran' = [ran EXCEPT ![o][orch[o].step] = @ + 1]
  /\ UNCHANGED <<registry, passed, refused, delegation, plan, orch, stepReceipt, spent, lost>>

Outcome == {"verified", "failed", "uncertain"}

\* The orchestration's row after a step: the next step, or the end.
Advanced(row, s, outcome) ==
  LET more == outcome = "verified" /\ s < LastStep
  IN [row EXCEPT
       !.status = IF more THEN "executing" ELSE IF outcome = "verified" THEN "succeeded" ELSE outcome,
       !.step = IF more THEN s + 1 ELSE None,
       !.version = @ + 1]

\* The result arrives: the stepReceipt, the orchestration, the event, the commit.
Receipted(x, outcome) ==
  LET o == txn[x].orch
      s == txn[x].step
      row == Advanced(orch[o], s, outcome)
  IN
  /\ Busy(x)
  /\ stepReceipt[o][s] = None
  /\ stepReceipt' = [stepReceipt EXCEPT ![o][s] = outcome]
  /\ orch' = [orch EXCEPT ![o] = Records(row, row.version)]
  /\ spent' = spent \cup {txn[x].key}
  /\ txn' = [txn EXCEPT ![x] = None]
  /\ UNCHANGED <<registry, passed, refused, delegation, plan, ran, lost>>

\* The executor fails, the process dies or the commit does: all is forgotten
\* but what the tool did.
ExecutionLost(x) ==
  /\ Busy(x)
  /\ lost[txn[x].orch][txn[x].step] < MaxLost
  /\ lost' = [lost EXCEPT ![txn[x].orch][txn[x].step] = @ + 1]
  /\ txn' = [txn EXCEPT ![x] = None]
  /\ UNCHANGED <<registry, passed, refused, delegation, plan, orch, stepReceipt, spent, ran>>

CancelledRow(row) ==
  [row EXCEPT !.status = "cancelled", !.cancelled = TRUE, !.step = None, !.version = @ + 1]

\* Also of an orchestration that is uncertain, or was cancelled before; no
\* event is recorded.
Cancel(o) ==
  /\ orch[o] # None /\ Free(o)
  /\ orch[o].status \notin {"succeeded", "failed"}
  /\ orch[o].version < MaxVersion
  /\ orch' = [orch EXCEPT ![o] = CancelledRow(@)]
  /\ UNCHANGED <<registry, passed, refused, delegation, plan, stepReceipt, spent, txn, ran, lost>>

NextAgents ==
  \/ \E v \in RegistryVersion :
       \/ \E m \in Manifest : RegisterManifest(m, v) \/ RecordEvaluation(m, v) \/ ActivateManifest(m, v)
       \/ \E t \in Tool : RegisterTool(t, v) \/ ActivateTool(t, v)
  \/ \E m \in Manifest : DisableManifest(m)
  \/ \E t \in Tool : DisableTool(t)
  \/ RecordDelegation \/ DelegationExpires
  \/ \E p \in Plan : Propose(p) \/ AcceptPlan(p)
  \/ \E o \in Orchestration :
       \/ Cancel(o)
       \/ \E p \in Plan : StartOrchestration(o, p)
       \/ \E x \in Txn, key \in Key : ExecuteStep(x, o, key)
  \/ \E x \in Txn : ExecutionLost(x) \/ \E outcome \in Outcome : Receipted(x, outcome)

AgentsSpec == InitAgents /\ [][NextAgents]_agentVars

-----------------------------------------------------------------------------
\* The rows are rows of their tables.
AgentsTypeOK ==
  /\ registry \in [Item -> RegistryRow]
  /\ plan \in [Plan -> {"absent", "proposed", "accepted"}]
  /\ orch \in [Orchestration -> OrchestrationRow \cup {None}]
  /\ stepReceipt \in [Orchestration -> [Step -> Outcome \cup {None}]]

\* A step takes effect a second time only after its execution was rolled back,
\* whoever executes at the same time and with whatever idempotency key; and it
\* runs when every step before it was verified.
EffectsOncePerLoss ==
  \A o \in Orchestration, s \in Step :
    /\ ran[o][s] <= lost[o][s] + 1
    /\ ran[o][s] > 0 => \A r \in 1..(s - 1) : stepReceipt[o][r] = "verified"

(* What the documentation says *)

\* H3_IMPLEMENTATION_GUIDE.md: state and outbox commit atomically, and consumers handle
\* gaps: an orchestration's events count from 1, the sequence a consumer waits for first.
\* But start_orchestration writes version 1 and no event.
EventsGapless ==
  \A o \in Orchestration :
    orch[o] # None => \E n \in 0..orch[o].version : orch[o].events = 1..n

\* Manifests and tools can be disabled on their own.
IndependentlyDisableable == refused = {}
=============================================================================
