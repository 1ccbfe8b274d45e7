----------------------------- MODULE WorkProofs -----------------------------
(***************************************************************************)
(* Proofs about the work of agents, workflows and tasks, for any plans,    *)
(* orchestrations, concurrent executions and steps, any definitions,       *)
(* instances and callers, and any tasks.                                   *)
(*                                                                         *)
(* Agents.  An execution holds the row of its orchestration, which so      *)
(* stays at the step it executes.  A step has been executed as often as an *)
(* execution of it was lost, and once more if one is under way or has its  *)
(* receipt.                                                                *)
(*                                                                         *)
(* Workflows.  What a caller saw is so while the version it saw is the     *)
(* row's, because every transition makes the next version; so a report     *)
(* that is accepted is of the step the instance is at.                     *)
(*                                                                         *)
(* Tasks.  A search for cycles ends with what it visited closed under      *)
(* dependencies and with every member found, the first aside.  A circle    *)
(* through a new dependency would leave one among what was visited.        *)
(***************************************************************************)
EXTENDS AgentPlatform, Workflows, Tasks, FiniteSetTheorems,
        NaturalsInduction, WellFoundedInduction, TLAPS

-----------------------------------------------------------------------------
(* Agents *)

ExecutionRow == [orch : Orchestration, step : Step, key : Key]

\* NULL is no row, step or outcome, and a plan has a step.
NullIsNoRow ==
  /\ None \notin OrchestrationRow \cup ExecutionRow \cup Step \cup Outcome
  /\ LastStep \in Nat \ {0}

ExecutionTypeOK ==
  /\ orch \in [Orchestration -> OrchestrationRow \cup {None}]
  /\ stepReceipt \in [Orchestration -> [Step -> Outcome \cup {None}]]
  /\ txn \in [Txn -> ExecutionRow \cup {None}]
  /\ ran \in [Orchestration -> [Step -> Nat]]
  /\ lost \in [Orchestration -> [Step -> Nat]]

\* The step an orchestration is at is the first without a receipt.
AtStep ==
  \A o \in Orchestration :
    IF orch[o] = None THEN \A s \in Step : stepReceipt[o][s] = None
    ELSE orch[o].step # None => \A s \in Step :
           IF s < orch[o].step THEN stepReceipt[o][s] = "verified" ELSE stepReceipt[o][s] = None

\* An execution has its orchestration for itself, and that stays at its step.
HoldsRow ==
  \A x \in Txn : Busy(x) =>
    /\ orch[txn[x].orch] # None
    /\ orch[txn[x].orch].step = txn[x].step
    /\ ~orch[txn[x].orch].cancelled
    /\ \A y \in Txn : Busy(y) /\ txn[y].orch = txn[x].orch => y = x

UnderWay(o, s) == \E x \in Txn : Busy(x) /\ txn[x].orch = o /\ txn[x].step = s

Balanced ==
  \A o \in Orchestration, s \in Step :
    /\ ran[o][s] <= lost[o][s] + 1
    /\ stepReceipt[o][s] = None /\ ~UnderWay(o, s) => ran[o][s] <= lost[o][s]
    /\ ran[o][s] > 0 => \A r \in 1..(s - 1) : stepReceipt[o][r] = "verified"

AgentInv == ExecutionTypeOK /\ AtStep /\ HoldsRow /\ Balanced

stepVars == <<orch, stepReceipt, txn, ran, lost>>

-----------------------------------------------------------------------------
LEMMA AgentsStart == ASSUME NullIsNoRow, InitAgents PROVE AgentInv
  BY DEF InitAgents, AgentInv, ExecutionTypeOK, AtStep, HoldsRow, Balanced, Busy, NullIsNoRow

LEMMA StartKeeps ==
  ASSUME NullIsNoRow, AgentInv, NEW o \in Orchestration, NEW p \in Plan, StartOrchestration(o, p)
  PROVE  AgentInv'
<1> DEFINE row == [plan |-> p, status |-> "executing", step |-> 1, version |-> 1,
                   cancelled |-> FALSE, events |-> {}]
<1>1. row \in OrchestrationRow /\ row # None
  <2>1. 1 \in Step /\ {} \in SUBSET Nat
    BY DEF NullIsNoRow, Step
  <2>2. row \in OrchestrationRow
    BY <2>1 DEF OrchestrationRow
  <2> QED BY <2>2 DEF NullIsNoRow
<1>2. /\ orch'[o] = row /\ \A q \in Orchestration : q # o => orch'[q] = orch[q]
      /\ UNCHANGED <<stepReceipt, txn, ran, lost>> /\ orch[o] = None
  BY DEF StartOrchestration, AgentInv, ExecutionTypeOK
<1>3. ExecutionTypeOK'
  BY <1>1 DEF StartOrchestration, AgentInv, ExecutionTypeOK
<1>4. AtStep'
  BY <1>1, <1>2 DEF AgentInv, AtStep, Step
<1>5. HoldsRow'
  <2>1. \A x \in Txn : Busy(x) => txn[x].orch # o /\ txn[x].orch \in Orchestration
    BY <1>2 DEF AgentInv, HoldsRow, ExecutionTypeOK, ExecutionRow, Busy
  <2> QED BY <1>2, <2>1 DEF AgentInv, HoldsRow, Busy
<1>6. Balanced'
  BY <1>2 DEF AgentInv, Balanced, UnderWay, Busy
<1> QED BY <1>3, <1>4, <1>5, <1>6 DEF AgentInv

LEMMA ExecuteKeeps ==
  ASSUME NullIsNoRow, AgentInv, NEW x \in Txn, NEW o \in Orchestration, NEW key \in Key,
         ExecuteStep(x, o, key)
  PROVE  AgentInv'
<1> PICK s : s = orch[o].step
  OBVIOUS
<1>1. s \in Step /\ orch[o] # None /\ ~orch[o].cancelled
  BY DEF ExecuteStep, Executable, AgentInv, ExecutionTypeOK, OrchestrationRow
<1>2. /\ txn'[x] = [orch |-> o, step |-> s, key |-> key] /\ txn'[x] # None
      /\ \A y \in Txn : y # x => txn'[y] = txn[y]
      /\ ran'[o][s] = ran[o][s] + 1
      /\ \A q \in Orchestration, r \in Step : q # o \/ r # s => ran'[q][r] = ran[q][r]
      /\ UNCHANGED <<orch, stepReceipt, lost>>
  BY <1>1 DEF ExecuteStep, AgentInv, ExecutionTypeOK, ExecutionRow, NullIsNoRow
<1>3. ExecutionTypeOK'
  BY <1>1 DEF ExecuteStep, AgentInv, ExecutionTypeOK, ExecutionRow
<1>4. AtStep'
  BY <1>2 DEF AgentInv, AtStep
<1>5. \A y \in Txn : Busy(y) => txn[y].orch # o /\ y # x
  BY DEF ExecuteStep, Free
<1>6. HoldsRow'
  BY <1>1, <1>2, <1>5 DEF AgentInv, HoldsRow, Busy
<1>7. stepReceipt[o][s] = None /\ ~UnderWay(o, s) /\ \A r \in 1..(s - 1) : stepReceipt[o][r] = "verified"
  BY <1>1, <1>5 DEF AgentInv, AtStep, UnderWay, Step, NullIsNoRow
<1>8. Balanced'
  <2> SUFFICES ASSUME NEW q \in Orchestration, NEW r \in Step
               PROVE  /\ ran'[q][r] <= lost[q][r] + 1
                      /\ stepReceipt[q][r] = None /\ ~UnderWay(q, r)' => ran'[q][r] <= lost[q][r]
                      /\ ran'[q][r] > 0 => \A t \in 1..(r - 1) : stepReceipt[q][t] = "verified"
    BY <1>2 DEF Balanced
  <2>1. ran[q][r] \in Nat /\ lost[q][r] \in Nat
    BY DEF AgentInv, ExecutionTypeOK
  <2>2. CASE q = o /\ r = s
    <3>1. UnderWay(q, r)'
      BY <1>2, <2>2 DEF UnderWay, Busy
    <3> QED BY <1>2, <1>7, <2>1, <2>2, <3>1 DEF AgentInv, Balanced
  <2>3. CASE ~(q = o /\ r = s)
    <3>1. UnderWay(q, r) => UnderWay(q, r)'
      BY <1>2, <1>5 DEF UnderWay, Busy
    <3> QED BY <1>2, <2>3, <3>1 DEF AgentInv, Balanced
  <2> QED BY <2>2, <2>3
<1> QED BY <1>3, <1>4, <1>6, <1>8 DEF AgentInv

LEMMA LostKeeps == ASSUME NullIsNoRow, AgentInv, NEW x \in Txn, ExecutionLost(x) PROVE AgentInv'
<1> PICK o, s : o = txn[x].orch /\ s = txn[x].step
  OBVIOUS
<1>1. o \in Orchestration /\ s \in Step
  BY DEF ExecutionLost, Busy, AgentInv, ExecutionTypeOK, ExecutionRow
<1>2. /\ txn'[x] = None /\ \A y \in Txn : y # x => txn'[y] = txn[y]
      /\ lost'[o][s] = lost[o][s] + 1
      /\ \A q \in Orchestration, r \in Step : q # o \/ r # s => lost'[q][r] = lost[q][r]
      /\ UNCHANGED <<orch, stepReceipt, ran>>
  BY <1>1 DEF ExecutionLost, AgentInv, ExecutionTypeOK
<1>3. ExecutionTypeOK'
  BY <1>1 DEF ExecutionLost, AgentInv, ExecutionTypeOK
<1>4. AtStep'
  BY <1>2 DEF AgentInv, AtStep
<1>5. HoldsRow'
  BY <1>2 DEF AgentInv, HoldsRow, Busy
<1>6. Balanced'
  <2> SUFFICES ASSUME NEW q \in Orchestration, NEW r \in Step
               PROVE  /\ ran[q][r] <= lost'[q][r] + 1
                      /\ stepReceipt[q][r] = None /\ ~UnderWay(q, r)' => ran[q][r] <= lost'[q][r]
                      /\ ran[q][r] > 0 => \A t \in 1..(r - 1) : stepReceipt[q][t] = "verified"
    BY <1>2 DEF Balanced
  <2>1. ran[q][r] \in Nat /\ lost[q][r] \in Nat
    BY DEF AgentInv, ExecutionTypeOK
  <2>2. CASE q = o /\ r = s
    BY <1>2, <2>1, <2>2 DEF AgentInv, Balanced
  <2>3. CASE ~(q = o /\ r = s)
    <3>1. UnderWay(q, r) => UnderWay(q, r)'
      BY <1>2, <2>3 DEF UnderWay, Busy
    <3> QED BY <1>2, <2>3, <3>1 DEF AgentInv, Balanced
  <2> QED BY <2>2, <2>3
<1> QED BY <1>3, <1>4, <1>5, <1>6 DEF AgentInv

\* The orchestration moves on; the event carries the version it moves to.
LEMMA ReceiptedKeeps ==
  ASSUME NullIsNoRow, AgentInv, NEW x \in Txn, NEW outcome \in Outcome, Receipted(x, outcome) PROVE AgentInv'
<1> PICK o, s : o = txn[x].orch /\ s = txn[x].step
  OBVIOUS
<1> PICK row : row = Records(Advanced(orch[o], s, outcome), Advanced(orch[o], s, outcome).version)
  OBVIOUS
<1>1. /\ o \in Orchestration /\ s \in Step /\ Busy(x)
      /\ orch[o] \in OrchestrationRow /\ orch[o].step = s /\ ~orch[o].cancelled
      /\ \A y \in Txn : Busy(y) /\ txn[y].orch = o => y = x
  <2>0. x \in DOMAIN txn /\ txn[x] # None /\ txn[x] \in ExecutionRow \cup {None}
    BY DEF Receipted, Busy, AgentInv, ExecutionTypeOK
  <2>1. Busy(x) /\ txn[x] \in ExecutionRow
    BY <2>0 DEF Busy
  <2>2. o \in Orchestration /\ s \in Step
    BY <2>1, ZenonT(60) DEF ExecutionRow
  <2> QED BY <2>1, <2>2 DEF AgentInv, ExecutionTypeOK, HoldsRow
<1>2. /\ row \in OrchestrationRow /\ row # None
      /\ row.version = orch[o].version + 1 /\ ~row.cancelled
      /\ row.events = orch[o].events \cup {orch[o].version + 1}
      /\ row.step # None => outcome = "verified" /\ s < LastStep /\ row.step = s + 1
  <2> PICK next : next = Advanced(orch[o], s, outcome)
    OBVIOUS
  <2>1. /\ next \in OrchestrationRow /\ next.version = orch[o].version + 1
        /\ next.cancelled = orch[o].cancelled /\ next.events = orch[o].events
        /\ next.step # None => outcome = "verified" /\ s < LastStep /\ next.step = s + 1
    <3>1. orch[o].version + 1 \in Nat /\ (s < LastStep => s + 1 \in Step)
      BY <1>1 DEF OrchestrationRow, Step, NullIsNoRow
    <3>2. CASE outcome = "verified" /\ s < LastStep
      BY <1>1, <3>1, <3>2 DEF Advanced, OrchestrationRow
    <3>3. CASE ~(outcome = "verified" /\ s < LastStep)
      BY <1>1, <3>1, <3>3 DEF Advanced, OrchestrationRow, Outcome
    <3> QED BY <3>2, <3>3
  <2>2. row = [next EXCEPT !.events = @ \cup {next.version}]
    BY DEF Records
  <2>3. next.version \in Nat /\ next.events \cup {next.version} \in SUBSET Nat
    BY <2>1, SMTT(60) DEF OrchestrationRow
  <2>4. row \in OrchestrationRow
    BY <2>1, <2>2, <2>3 DEF OrchestrationRow
  <2> QED BY <1>1, <2>1, <2>2, <2>4, ZenonT(60) DEF OrchestrationRow, NullIsNoRow
<1>3. /\ stepReceipt[o][s] = None
      /\ stepReceipt'[o][s] = outcome
      /\ \A q \in Orchestration, r \in Step : q # o \/ r # s => stepReceipt'[q][r] = stepReceipt[q][r]
      /\ orch'[o] = row /\ \A q \in Orchestration : q # o => orch'[q] = orch[q]
      /\ txn'[x] = None /\ \A y \in Txn : y # x => txn'[y] = txn[y]
      /\ UNCHANGED <<ran, lost>>
  BY <1>1, SMTT(60) DEF Receipted, AgentInv, ExecutionTypeOK
<1>4. ExecutionTypeOK'
  BY <1>1, <1>2 DEF Receipted, AgentInv, ExecutionTypeOK
<1>5. AtStep'
  <2> SUFFICES ASSUME NEW q \in Orchestration
               PROVE  IF orch'[q] = None THEN \A r \in Step : stepReceipt'[q][r] = None
                      ELSE orch'[q].step # None => \A r \in Step :
                             IF r < orch'[q].step THEN stepReceipt'[q][r] = "verified"
                             ELSE stepReceipt'[q][r] = None
    BY DEF AtStep
  <2>1. CASE q # o
    BY <1>3, <2>1 DEF AgentInv, AtStep
  <2>2. CASE q = o
    <3> SUFFICES ASSUME row.step # None, NEW r \in Step
                 PROVE  IF r < row.step THEN stepReceipt'[o][r] = "verified" ELSE stepReceipt'[o][r] = None
      BY <1>2, <1>3, <2>2, SMTT(60)
    <3>1. row.step = s + 1 /\ outcome = "verified"
      BY <1>2
    <3>2. orch[o].step = s /\ orch[o] # None /\ s # None
      BY <1>1 DEF NullIsNoRow
    <3>3. CASE r = s
      BY <1>1, <1>3, <3>1, <3>3 DEF Step
    <3>4. CASE r < s
      BY <1>1, <1>3, <3>1, <3>2, <3>4 DEF AgentInv, AtStep, Step
    <3>5. CASE r > s
      BY <1>1, <1>3, <3>1, <3>2, <3>5 DEF AgentInv, AtStep, Step
    <3> QED BY <1>1, <3>3, <3>4, <3>5, SMTT(60) DEF Step
  <2> QED BY <2>1, <2>2
<1>6. HoldsRow'
  <2>1. \A y \in Txn : txn'[y] # None => y # x /\ txn'[y] = txn[y] /\ Busy(y)
    BY <1>3 DEF Busy
  <2>2. \A y \in Txn : Busy(y) /\ y # x => txn[y].orch # o /\ txn[y].orch \in Orchestration
    BY <1>1 DEF Busy, AgentInv, ExecutionTypeOK, ExecutionRow
  <2> QED BY <1>3, <2>1, <2>2 DEF AgentInv, HoldsRow, Busy
<1>7. Balanced'
  <2> SUFFICES ASSUME NEW q \in Orchestration, NEW r \in Step
               PROVE  /\ ran[q][r] <= lost[q][r] + 1
                      /\ stepReceipt'[q][r] = None /\ ~UnderWay(q, r)' => ran[q][r] <= lost[q][r]
                      /\ ran[q][r] > 0 => \A t \in 1..(r - 1) : stepReceipt'[q][t] = "verified"
    BY <1>3 DEF Balanced
  <2>1. stepReceipt'[q][r] = None => stepReceipt[q][r] = None /\ ~(q = o /\ r = s)
    BY <1>3 DEF NullIsNoRow
  <2>2. ~(q = o /\ r = s) /\ UnderWay(q, r) => UnderWay(q, r)'
    BY <1>3 DEF UnderWay, Busy
  <2>3. ASSUME NEW t \in 1..(r - 1), ran[q][r] > 0 PROVE stepReceipt'[q][t] = "verified"
    <3>1. stepReceipt[q][t] = "verified" /\ t \in Step
      BY <2>3 DEF AgentInv, Balanced, Step, NullIsNoRow
    <3>2. ~(q = o /\ t = s)
      BY <1>3, <3>1 DEF NullIsNoRow, Outcome
    <3> QED BY <1>3, <3>1, <3>2
  <2> QED BY <2>1, <2>2, <2>3 DEF AgentInv, Balanced
<1> QED BY <1>4, <1>5, <1>6, <1>7 DEF AgentInv

LEMMA CancelKeeps == ASSUME NullIsNoRow, AgentInv, NEW o \in Orchestration, Cancel(o) PROVE AgentInv'
<1> PICK row : row = CancelledRow(orch[o])
  OBVIOUS
<1>1. orch[o] \in OrchestrationRow /\ orch[o] # None
  BY DEF Cancel, AgentInv, ExecutionTypeOK
<1>2. /\ row \in OrchestrationRow /\ row # None /\ row.step = None /\ row.cancelled
      /\ row.version = orch[o].version + 1 /\ row.events = orch[o].events
  <2>1. orch[o].version + 1 \in Nat
    BY <1>1 DEF OrchestrationRow
  <2> QED BY <1>1, <2>1, ZenonT(60) DEF CancelledRow, OrchestrationRow, NullIsNoRow
<1>3. /\ orch'[o] = row /\ \A q \in Orchestration : q # o => orch'[q] = orch[q]
      /\ UNCHANGED <<stepReceipt, txn, ran, lost>>
  BY DEF Cancel, AgentInv, ExecutionTypeOK
<1>4. ExecutionTypeOK'
  BY <1>2 DEF Cancel, AgentInv, ExecutionTypeOK
<1>5. AtStep'
  BY <1>2, <1>3 DEF AgentInv, AtStep
<1>6. HoldsRow'
  <2>1. \A x \in Txn : Busy(x) => txn[x].orch # o /\ txn[x].orch \in Orchestration
    BY DEF Cancel, Free, AgentInv, ExecutionTypeOK, ExecutionRow, Busy
  <2> QED BY <1>3, <2>1 DEF AgentInv, HoldsRow, Busy
<1>7. Balanced'
  BY <1>3 DEF AgentInv, Balanced, UnderWay, Busy
<1> QED BY <1>4, <1>5, <1>6, <1>7 DEF AgentInv

LEMMA OthersKeep == ASSUME AgentInv, UNCHANGED stepVars PROVE AgentInv'
<1>1. ExecutionTypeOK' /\ AtStep' /\ HoldsRow'
  BY DEF stepVars, AgentInv, ExecutionTypeOK, AtStep, HoldsRow, Busy
<1>2. Balanced'
  BY DEF stepVars, AgentInv, Balanced, UnderWay, Busy
<1> QED BY <1>1, <1>2 DEF AgentInv

LEMMA RegistryApart ==
  ASSUME \/ UNCHANGED agentVars
         \/ \E v \in RegistryVersion :
              \/ \E m \in Manifest : RegisterManifest(m, v) \/ RecordEvaluation(m, v) \/ ActivateManifest(m, v)
              \/ \E t \in Tool : RegisterTool(t, v) \/ ActivateTool(t, v)
         \/ \E m \in Manifest : DisableManifest(m)
         \/ \E t \in Tool : DisableTool(t)
         \/ RecordDelegation \/ DelegationExpires
         \/ \E p \in Plan : Propose(p) \/ AcceptPlan(p)
  PROVE  UNCHANGED stepVars
  BY DEF agentVars, stepVars, executionVars, RegisterManifest, RegisterTool, Register, RecordEvaluation,
         ActivateManifest, ActivateTool, Enable, DisableManifest, DisableTool, Disable, RecordDelegation,
         DelegationExpires, Propose, AcceptPlan

LEMMA Inductive == ASSUME NullIsNoRow, AgentInv, [NextAgents]_agentVars PROVE AgentInv'
  BY StartKeeps, ExecuteKeeps, LostKeeps, ReceiptedKeeps, CancelKeeps, OthersKeep, RegistryApart DEF NextAgents

-----------------------------------------------------------------------------
(* The registry *)

RegistryTyped ==
  /\ registry \in [Item -> RegistryRow]
  /\ plan \in [Plan -> {"absent", "proposed", "accepted"}]

LEMMA RegistryKept ==
  ASSUME RegistryVersion \subseteq Nat, RegistryTyped, [NextAgents]_agentVars PROVE RegistryTyped'
<1>0. ASSUME NEW i \in Item, NEW row \in RegistryRow, registry' = [registry EXCEPT ![i] = row], UNCHANGED plan
      PROVE  RegistryTyped'
  BY <1>0 DEF RegistryTyped
<1>1. ASSUME NEW i \in Item, NEW v \in RegistryVersion, Register(i, v) PROVE RegistryTyped'
  <2>1. PICK row : row = Records([registry[i] EXCEPT !.versions = @ \cup {v}], v)
    OBVIOUS
  <2>2. row \in RegistryRow
    BY <2>1 DEF Records, RegistryTyped, RegistryRow
  <2>3. UNCHANGED executionVars
    BY <1>1 DEF Register
  <2>4. registry' = [registry EXCEPT ![i] = row]
    BY <1>1, <2>1 DEF Register, RegistryTyped
  <2> QED BY <1>0, <2>2, <2>3, <2>4 DEF executionVars
<1>2. ASSUME NEW i \in Item, Enable(i) \/ Disable(i) PROVE RegistryTyped'
  <2>1. PICK on, off : /\ on = [registry[i] EXCEPT !.enabled = TRUE]
                       /\ off = Records([registry[i] EXCEPT !.enabled = FALSE], 1)
    OBVIOUS
  <2>2. on \in RegistryRow
    BY <2>1, Zenon DEF RegistryTyped, RegistryRow
  <2>3. off \in RegistryRow
    <3>1. registry[i] \in RegistryRow /\ registry[i].events \cup {1} \in SUBSET Nat
      BY DEF RegistryTyped, RegistryRow
    <3>2. off = [enabled |-> FALSE, versions |-> registry[i].versions,
                 events |-> registry[i].events \cup {1}]
      BY <2>1, <3>1 DEF Records, RegistryRow
    <3> QED BY <3>1, <3>2 DEF RegistryRow
  <2>4. UNCHANGED executionVars
    BY <1>2 DEF Enable, Disable
  <2>5. \/ UNCHANGED registry
        \/ registry' = [registry EXCEPT ![i] = on]
        \/ registry' = [registry EXCEPT ![i] = off]
    BY <1>2, <2>1 DEF Enable, Disable, RegistryTyped
  <2>6. UNCHANGED plan
    BY <2>4 DEF executionVars
  <2> QED BY <1>0, <2>2, <2>3, <2>5, <2>6 DEF RegistryTyped
<1>3. ASSUME NEW p \in Plan, Propose(p) \/ AcceptPlan(p) PROVE RegistryTyped'
  BY <1>3 DEF Propose, AcceptPlan, RegistryTyped
<1>4. ASSUME \/ UNCHANGED agentVars \/ RecordDelegation \/ DelegationExpires
             \/ \E m \in Manifest, v \in RegistryVersion : RecordEvaluation(m, v)
             \/ \E o \in Orchestration :
                  \/ Cancel(o)
                  \/ \E p \in Plan : StartOrchestration(o, p)
                  \/ \E x \in Txn, key \in Key : ExecuteStep(x, o, key)
             \/ \E x \in Txn : ExecutionLost(x) \/ \E outcome \in Outcome : Receipted(x, outcome)
      PROVE  RegistryTyped'
  <2>1. UNCHANGED <<registry, plan>>
    BY <1>4 DEF agentVars, executionVars, RecordDelegation, DelegationExpires, RecordEvaluation, Cancel,
         StartOrchestration, ExecuteStep, ExecutionLost, Receipted
  <2> QED BY <2>1 DEF RegistryTyped
<1> QED BY <1>1, <1>2, <1>3, <1>4 DEF NextAgents, Item, RegisterManifest, RegisterTool, ActivateManifest,
        ActivateTool, DisableManifest, DisableTool

\* Every row is a row of its table: manifests, tools, plans, orchestrations and receipts.
THEOREM AgentsTypeCorrect == ASSUME NullIsNoRow, RegistryVersion \subseteq Nat PROVE AgentsSpec => []AgentsTypeOK
<1>1. InitAgents => RegistryTyped
  BY DEF InitAgents, RegistryTyped, RegistryRow
<1>2. AgentInv /\ RegistryTyped => AgentsTypeOK
  BY DEF AgentInv, ExecutionTypeOK, RegistryTyped, AgentsTypeOK
<1> QED BY <1>1, <1>2, AgentsStart, Inductive, RegistryKept, PTL DEF AgentsSpec

\* The executor is called again for a step only after an execution of it was rolled back, and
\* never before the steps in front of it were verified: AgentPlatformService.execute_step.
THEOREM EffectsOncePerLossHolds == ASSUME NullIsNoRow PROVE AgentsSpec => []EffectsOncePerLoss
<1>1. AgentInv => EffectsOncePerLoss
  BY DEF AgentInv, Balanced, EffectsOncePerLoss
<1> QED BY <1>1, AgentsStart, Inductive, PTL DEF AgentsSpec

-----------------------------------------------------------------------------
(* Workflows *)

CallRow == [instance : Instance, version : Nat, step : DOMAIN Graph,
            outcome : {"succeeded", "failed"}]

ReceiptRow == [left : DOMAIN Graph, seen : DOMAIN Graph, to : DOMAIN Graph \cup {Nil}]

\* A definition is a graph: its edges lead to steps of it or to its end, and Nil is none
\* of them, and no row.
GraphIsClosed ==
  /\ Nil \notin DOMAIN Graph \cup InstanceRow \cup CallRow
  /\ First \in DOMAIN Graph
  /\ \A s \in DOMAIN Graph :
       /\ Graph[s].next \in DOMAIN Graph \cup {Nil}
       /\ Graph[s].failure \in DOMAIN Graph \cup {Nil}

\* The steps an instance has been at.
Path(r) == <<First>> \o [n \in 1..Len(r) |-> r[n].to]

\* The receipts of an instance lead to where its row is.
RowIsPathsEnd(row, r) ==
  LET steps == Path(r)
  IN  /\ \A n \in 1..Len(r) : steps[n] = r[n].left /\ steps[n] = r[n].seen
      /\ steps[Len(steps)] = row.step
      /\ (row.step = Nil) <=> (row.status \in Terminal)

\* What a caller saw was so at its version, and is so while the version is the row's.
SawRow(seen, rows) ==
  seen # Nil =>
    /\ rows[seen.instance] # Nil
    /\ seen.version <= rows[seen.instance].version
    /\ seen.version = rows[seen.instance].version => seen.step = rows[seen.instance].step

FlowInv ==
  /\ instance \in [Instance -> InstanceRow \cup {Nil}]
  /\ receipts \in [Instance -> Seq(ReceiptRow)]
  /\ calls \in [Caller -> CallRow \cup {Nil}]
  /\ \A i \in Instance : instance[i] = Nil => receipts[i] = <<>>
  /\ \A i \in Instance : instance[i] # Nil => RowIsPathsEnd(instance[i], receipts[i])
  /\ \A c \in Caller : SawRow(calls[c], instance)

LEMMA FlowsStart == ASSUME InitWorkflows PROVE FlowInv
<1>1. receipts \in [Instance -> Seq(ReceiptRow)]
  <2>1. <<>> \in Seq(ReceiptRow)
    OBVIOUS
  <2> QED
    BY <2>1 DEF InitWorkflows
<1> QED
  BY <1>1 DEF InitWorkflows, FlowInv, SawRow

\* A table with one row changed.
LEMMA RowChanged ==
  ASSUME NEW D, NEW R, NEW f \in [D -> R], NEW i \in D, NEW r \in R, NEW g, g = [f EXCEPT ![i] = r]
  PROVE  g \in [D -> R] /\ g[i] = r /\ \A j \in D \ {i} : g[j] = f[j]
OBVIOUS

\* A path begins at the first step and goes where each receipt says.
LEMMA PathIs ==
  ASSUME GraphIsClosed, NEW r \in Seq(ReceiptRow)
  PROVE  /\ Len(Path(r)) = Len(r) + 1
         /\ Path(r)[1] = First
         /\ \A n \in 1..Len(r) : Path(r)[n + 1] = r[n].to
<1>0. \A n \in 1..Len(r) : r[n] \in ReceiptRow
  OBVIOUS
<1> DEFINE S == DOMAIN Graph \cup {Nil}
           tos == [n \in 1..Len(r) |-> r[n].to]
<1>1. tos \in Seq(S) /\ Len(tos) = Len(r)
  <2>1. \A q \in ReceiptRow : q.to \in S
    BY DEF ReceiptRow
  <2> QED
    BY <1>0, <2>1
<1>2. <<First>> \in Seq(S) /\ Len(<<First>>) = 1 /\ <<First>>[1] = First
  BY DEF GraphIsClosed
<1>3. \A n \in 1..Len(r) : tos[n] = r[n].to
  OBVIOUS
<1>4. Path(r) = <<First>> \o tos
  BY DEF Path
<1> HIDE DEF S, tos
<1>5. Len(<<First>> \o tos) = Len(r) + 1
  BY <1>1, <1>2
<1>6. (<<First>> \o tos)[1] = First
  BY <1>1, <1>2
<1>7. \A n \in 1..Len(r) : (<<First>> \o tos)[n + 1] = tos[n]
  BY <1>1, <1>2
<1> QED
  BY <1>3, <1>4, <1>5, <1>6, <1>7

\* With one more receipt a path goes one step on.
LEMMA PathGoesOn ==
  ASSUME GraphIsClosed, NEW r \in Seq(ReceiptRow), NEW q \in ReceiptRow,
         NEW old, NEW new, RowIsPathsEnd(old, r),
         q.left = old.step, q.seen = old.step, q.to = new.step,
         (new.step = Nil) <=> (new.status \in Terminal)
  PROVE  Append(r, q) \in Seq(ReceiptRow) /\ RowIsPathsEnd(new, Append(r, q))
<1> DEFINE s == Append(r, q)
<1>1. s \in Seq(ReceiptRow) /\ Len(s) = Len(r) + 1 /\ Len(r) \in Nat
  OBVIOUS
<1>2. s[Len(r) + 1] = q /\ \A n \in 1..Len(r) : s[n] = r[n]
  OBVIOUS
<1> HIDE DEF s
<1>3. /\ Len(Path(r)) = Len(r) + 1
      /\ Path(r)[1] = First
      /\ \A n \in 1..Len(r) : Path(r)[n + 1] = r[n].to
  BY PathIs
<1>4. /\ Len(Path(s)) = Len(s) + 1
      /\ Path(s)[1] = First
      /\ \A n \in 1..Len(s) : Path(s)[n + 1] = s[n].to
  BY <1>1, PathIs
<1>5. \A n \in 1..(Len(r) + 1) : Path(s)[n] = Path(r)[n]
  <2> TAKE n \in 1..(Len(r) + 1)
  <2>1. CASE n = 1
    BY <1>3, <1>4, <2>1
  <2>2. CASE n # 1
    <3>1. n - 1 \in 1..Len(r) /\ n - 1 \in 1..Len(s) /\ (n - 1) + 1 = n
      BY <1>1, <2>2
    <3> QED
      BY <1>2, <1>3, <1>4, <3>1
  <2> QED
    BY <2>1, <2>2
<1>6. Path(s)[Len(r) + 2] = new.step
  <2>1. Len(r) + 1 \in 1..Len(s) /\ (Len(r) + 1) + 1 = Len(r) + 2
    BY <1>1
  <2> QED
    BY <1>2, <1>4, <2>1
<1>7. Path(r)[Len(r) + 1] = old.step
  BY <1>3 DEF RowIsPathsEnd
<1>8. \A n \in 1..Len(s) : Path(s)[n] = s[n].left /\ Path(s)[n] = s[n].seen
  <2> TAKE n \in 1..Len(s)
  <2>1. CASE n = Len(r) + 1
    BY <1>1, <1>2, <1>5, <1>7, <2>1
  <2>2. CASE n \in 1..Len(r)
    <3>1. Path(r)[n] = r[n].left /\ Path(r)[n] = r[n].seen
      BY <2>2 DEF RowIsPathsEnd
    <3>2. Path(s)[n] = Path(r)[n]
      BY <1>1, <1>5, <2>2
    <3> QED
      BY <1>2, <2>2, <3>1, <3>2
  <2> QED
    BY <1>1, <2>1, <2>2
<1> QED
  BY <1>1, <1>4, <1>6, <1>8 DEF RowIsPathsEnd, s

\* A workflow goes to a step of its definition or ends, and ends in a terminal status.
LEMMA NextIsClosed ==
  ASSUME GraphIsClosed, NEW s \in DOMAIN Graph, NEW outcome
  PROVE  /\ DecideNext(s, outcome).step \in DOMAIN Graph \cup {Nil}
         /\ DecideNext(s, outcome).status
              \in {"running", "waiting", "waiting_approval", "paused"} \cup Terminal
         /\ (DecideNext(s, outcome).step = Nil) <=> (DecideNext(s, outcome).status \in Terminal)
<1>1. \A q : StatusAt(q) \in {"running", "waiting", "waiting_approval"}
  BY DEF StatusAt, Waits
<1>2. \A q : StatusAt(q) \notin Terminal
  BY <1>1 DEF Terminal
<1>3. "running" \notin Terminal /\ "failed" \in Terminal /\ "succeeded" \in Terminal
  BY DEF Terminal
<1> QED
  BY <1>1, <1>2, <1>3 DEF DecideNext, GraphIsClosed

LEMMA TransitionInstanceKeeps ==
  ASSUME GraphIsClosed, FlowInv, NEW c \in Caller, TransitionInstance(c) PROVE FlowInv'
<1>0. /\ instance \in [Instance -> InstanceRow \cup {Nil}]
      /\ receipts \in [Instance -> Seq(ReceiptRow)]
  BY Zenon DEF FlowInv
<1> PICK k : k = calls[c]
  OBVIOUS
<1> PICK i : i = k.instance
  OBVIOUS
<1> PICK row : row = instance[i]
  OBVIOUS
<1> PICK next : next = DecideNext(row.step, k.outcome)
  OBVIOUS
<1> PICK new : new = [step |-> next.step, version |-> row.version + 1, status |-> next.status]
  OBVIOUS
<1> PICK q : q = [left |-> row.step, seen |-> k.step, to |-> next.step]
  OBVIOUS
<1>1. /\ k # Nil /\ row.version = k.version /\ row.step # Nil
      /\ instance' = [instance EXCEPT ![i] = new]
      /\ receipts' = [receipts EXCEPT ![i] = Append(receipts[i], q)]
      /\ UNCHANGED calls
  BY DEF TransitionInstance, Expected
<1>2. k \in CallRow /\ SawRow(k, instance)
  BY <1>1 DEF FlowInv
<1>3. i \in Instance /\ row # Nil /\ row \in InstanceRow /\ k.step = row.step
  BY <1>1, <1>2 DEF CallRow, SawRow, FlowInv
<1>4. row.step \in DOMAIN Graph /\ row.version \in Nat
  BY <1>1, <1>3 DEF InstanceRow
<1>5. /\ next.step \in DOMAIN Graph \cup {Nil}
      /\ next.status \in {"running", "waiting", "waiting_approval", "paused"} \cup Terminal
      /\ (next.step = Nil) <=> (next.status \in Terminal)
  BY <1>4, NextIsClosed
<1>6. /\ new \in InstanceRow /\ new # Nil
      /\ new.step = next.step /\ new.status = next.status /\ new.version = row.version + 1
  BY <1>4, <1>5 DEF InstanceRow, GraphIsClosed
<1>7. q \in ReceiptRow /\ q.left = row.step /\ q.seen = row.step /\ q.to = new.step
  BY <1>3, <1>4, <1>5, <1>6 DEF ReceiptRow
<1>8. RowIsPathsEnd(row, receipts[i]) /\ receipts[i] \in Seq(ReceiptRow)
  BY <1>3 DEF FlowInv
<1>9. (new.step = Nil) <=> (new.status \in Terminal)
  BY <1>5, <1>6
<1>10. Append(receipts[i], q) \in Seq(ReceiptRow) /\ RowIsPathsEnd(new, Append(receipts[i], q))
  BY <1>7, <1>8, <1>9, PathGoesOn
<1>11. /\ instance' \in [Instance -> InstanceRow \cup {Nil}]
       /\ instance'[i] = new /\ \A j \in Instance \ {i} : instance'[j] = instance[j]
  <2>1. new \in InstanceRow \cup {Nil}
    BY <1>6
  <2> QED
    BY <1>0, <1>1, <1>3, <2>1, RowChanged, ZenonT(60)
<1>12. /\ receipts' \in [Instance -> Seq(ReceiptRow)]
       /\ receipts'[i] = Append(receipts[i], q)
       /\ \A j \in Instance \ {i} : receipts'[j] = receipts[j]
  BY <1>0, <1>1, <1>3, <1>10, RowChanged, ZenonT(60)
<1>13. \A j \in Instance : /\ instance'[j] = Nil => receipts'[j] = <<>>
                           /\ instance'[j] # Nil => RowIsPathsEnd(instance'[j], receipts'[j])
  <2> TAKE j \in Instance
  <2>1. CASE j = i
    BY <1>6, <1>10, <1>11, <1>12, <2>1
  <2>2. CASE j # i
    <3>1. instance'[j] = instance[j] /\ receipts'[j] = receipts[j]
      BY <1>11, <1>12, <2>2
    <3> QED
      BY <3>1 DEF FlowInv
  <2> QED
    BY <2>1, <2>2
<1>14. \A b \in Caller : SawRow(calls[b], instance')
  <2> TAKE b \in Caller
  <2>1. SawRow(calls[b], instance) /\ calls[b] \in CallRow \cup {Nil}
    BY DEF FlowInv
  <2> SUFFICES ASSUME calls[b] # Nil, calls[b] \in CallRow PROVE SawRow(calls[b], instance')
    BY <2>1 DEF SawRow
  <2>2. calls[b].instance \in Instance /\ calls[b].version \in Nat
    BY DEF CallRow
  <2>3. CASE calls[b].instance = i
    <3>1. calls[b].version <= row.version
      BY <2>1, <2>3 DEF SawRow
    <3> QED
      BY <1>4, <1>6, <1>11, <2>2, <2>3, <3>1 DEF SawRow
  <2>4. CASE calls[b].instance # i
    BY <1>11, <2>1, <2>2, <2>4 DEF SawRow
  <2> QED
    BY <2>3, <2>4
<1> QED
  BY <1>1, <1>11, <1>12, <1>13, <1>14, Zenon DEF FlowInv

LEMMA StartInstanceKeeps ==
  ASSUME GraphIsClosed, FlowInv, NEW i \in Instance, NEW v, Start(i, v) PROVE FlowInv'
<1> PICK new : new = [step |-> First, version |-> 1, status |-> "running"]
  OBVIOUS
<1>1. /\ instance[i] = Nil /\ instance' = [instance EXCEPT ![i] = new]
      /\ UNCHANGED receipts /\ UNCHANGED calls
  BY DEF Start
<1>2. new \in InstanceRow /\ new # Nil /\ new.step = First /\ new.status = "running"
  BY DEF InstanceRow, GraphIsClosed
<1>3. /\ instance' \in [Instance -> InstanceRow \cup {Nil}]
      /\ instance'[i] = new /\ \A j \in Instance \ {i} : instance'[j] = instance[j]
  BY <1>1, <1>2 DEF FlowInv
<1>4. receipts[i] = <<>> /\ <<>> \in Seq(ReceiptRow)
  BY <1>1 DEF FlowInv
<1>5. RowIsPathsEnd(new, <<>>)
  <2>1. Len(Path(<<>>)) = Len(<<>>) + 1 /\ Path(<<>>)[1] = First
    BY <1>4, PathIs
  <2>2. Len(<<>>) = 0
    OBVIOUS
  <2>3. First # Nil /\ "running" \notin Terminal
    BY DEF GraphIsClosed, Terminal
  <2> QED
    BY <1>2, <2>1, <2>2, <2>3 DEF RowIsPathsEnd
<1>6. \A j \in Instance : /\ instance'[j] = Nil => receipts[j] = <<>>
                          /\ instance'[j] # Nil => RowIsPathsEnd(instance'[j], receipts[j])
  BY <1>2, <1>3, <1>4, <1>5 DEF FlowInv
<1>7. \A b \in Caller : SawRow(calls[b], instance')
  <2> TAKE b \in Caller
  <2>1. SawRow(calls[b], instance) /\ calls[b] \in CallRow \cup {Nil}
    BY DEF FlowInv
  <2>2. calls[b] # Nil => calls[b].instance \in Instance /\ calls[b].instance # i
    BY <1>1, <2>1 DEF SawRow, CallRow
  <2> QED
    BY <1>3, <2>1, <2>2 DEF SawRow
<1> QED
  BY <1>1, <1>3, <1>6, <1>7 DEF FlowInv

LEMMA ObserveKeeps ==
  ASSUME FlowInv, NEW c \in Caller, NEW i \in Instance, NEW outcome \in {"succeeded", "failed"},
         Observe(c, i, outcome)
  PROVE  FlowInv'
<1> PICK new : new = [instance |-> i, version |-> instance[i].version, step |-> instance[i].step,
                      outcome |-> outcome]
  OBVIOUS
<1>1. /\ instance[i] # Nil /\ instance[i].step # Nil /\ calls' = [calls EXCEPT ![c] = new]
      /\ UNCHANGED receipts /\ UNCHANGED instance
  BY DEF Observe
<1>2. instance[i] \in InstanceRow
  BY <1>1 DEF FlowInv
<1>3. new \in CallRow /\ SawRow(new, instance)
  BY <1>1, <1>2 DEF CallRow, InstanceRow, SawRow
<1>4. /\ calls' \in [Caller -> CallRow \cup {Nil}]
      /\ calls'[c] = new /\ \A b \in Caller \ {c} : calls'[b] = calls[b]
  BY <1>1, <1>3 DEF FlowInv
<1>5. \A b \in Caller : SawRow(calls'[b], instance)
  BY <1>3, <1>4 DEF FlowInv
<1> QED
  BY <1>1, <1>4, <1>5 DEF FlowInv

LEMMA FlowsStep ==
  ASSUME GraphIsClosed, FlowInv, [NextWorkflows]_workflowVars PROVE FlowInv'
<1>1. ASSUME UNCHANGED <<instance, receipts, calls>> PROVE FlowInv'
  <2>1. UNCHANGED instance /\ UNCHANGED receipts /\ UNCHANGED calls
    BY <1>1
  <2> QED
    BY <2>1 DEF FlowInv
<1>2. ASSUME NEW v \in DefinitionVersion, RegisterDefinition(v) \/ Activate(v) PROVE FlowInv'
  BY <1>1, <1>2 DEF RegisterDefinition, Activate
<1>3. ASSUME NEW a \in Approval,
             \/ RequestApproval(a) \/ ApprovalCloses(a)
             \/ \E u \in User, vote \in {"approved", "rejected"} : DecideApproval(a, u, vote)
      PROVE  FlowInv'
  BY <1>1, <1>3 DEF RequestApproval, ApprovalCloses, DecideApproval
<1>4. ASSUME UNCHANGED workflowVars PROVE FlowInv'
  BY <1>1, <1>4 DEF workflowVars
<1> QED
  BY <1>2, <1>3, <1>4, TransitionInstanceKeeps, StartInstanceKeeps, ObserveKeeps
     DEF NextWorkflows

\* Every instance is where its receipts lead, step by step as its callers saw it, for
\* every definition, every number of callers and every delay of their reports.
THEOREM PathOfSeenStepsHolds == ASSUME GraphIsClosed PROVE WorkflowSpec => []PathOfSeenSteps
<1>1. InitWorkflows => FlowInv
  BY FlowsStart
<1>2. FlowInv /\ [NextWorkflows]_workflowVars => FlowInv'
  BY FlowsStep
<1>3. FlowInv => PathOfSeenSteps
  BY DEF FlowInv, PathOfSeenSteps, RowIsPathsEnd, Path
<1> QED
  BY <1>1, <1>2, <1>3, PTL DEF WorkflowSpec

-----------------------------------------------------------------------------
(* Tasks *)

\* No more tasks than a search for cycles visits.
FewTasks == IsFiniteSet(Task) /\ Limit \in Nat /\ Cardinality(Task) <= Limit

EdgesTyped == edges \subseteq Task \X Task

LEMMA EdgesStay ==
  ASSUME EdgesTyped, [NextTasks]_taskVars
  PROVE  /\ EdgesTyped'
         /\ UNCHANGED edges \/ \E t, d \in Task : AddDependency(t, d)
<1>1. CASE UNCHANGED edges
  BY <1>1 DEF EdgesTyped
<1>2. ASSUME NEW t \in Task, NEW d \in Task, AddDependency(t, d) PROVE EdgesTyped'
  <2>1. edges' = edges \cup {<<t, d>>}
    BY <1>2 DEF AddDependency
  <2> QED
    BY <2>1 DEF EdgesTyped
<1>3. UNCHANGED edges \/ \E t, d \in Task : AddDependency(t, d)
  BY DEF NextTasks, taskVars, CreateTask, Annotate, AddCompletionEvidence, ScheduleReminder,
         RemindersFallDue, Transition
<1> QED
  BY <1>1, <1>2, <1>3

-----------------------------------------------------------------------------
\* What a search has visited when it ends leads to nothing outside it: Limit tasks are all.
LEMMA VisitsAreClosed ==
  ASSUME FewTasks, edges \subseteq Task \X Task, NEW d, NEW V \in Visits(d)
  PROVE  Closed(V) /\ V \in SUBSET Task /\ From(d, V)
<1>1. V \in SUBSET Task /\ From(d, V) /\ (Closed(V) \/ Cardinality(V) = Limit)
  BY DEF Visits
<1>2. CASE Cardinality(V) = Limit
  <2>1. IsFiniteSet(Task) /\ IsFiniteSet(V) /\ Cardinality(V) <= Cardinality(Task)
    BY <1>1, FS_Subset DEF FewTasks
  <2>2. Cardinality(Task) \in Nat
    BY <2>1, FS_CardinalityType
  <2>3. Cardinality(V) = Cardinality(Task)
    BY <1>2, <2>1, <2>2 DEF FewTasks
  <2>4. V = Task
    BY <1>1, <2>1, <2>3, FS_Subset
  <2> QED
    BY <1>1, <2>4 DEF Closed, Needs
<1> QED
  BY <1>1, <1>2

\* A search finds what it visited, so a task it did not find it did not visit.
LEMMA NotFoundNotVisited ==
  ASSUME NEW d, NEW V, From(d, V), NEW t, t \notin {d} \cup Needs(V)
  PROVE  t \notin V
<1> DEFINE T == V \cap ({d} \cup Needs(V))
<1>1. T \in SUBSET V /\ d \in T
  BY DEF From
<1>2. Needs(T) \subseteq Needs(V)
  BY DEF Needs
<1>3. Needs(T) \cap V \subseteq T
  BY <1>2
<1>4. T = V
  BY <1>1, <1>3 DEF From
<1> QED
  BY <1>4

\* A new dependency closes no circle: one would go on through what was visited from the
\* task depended on, and would have been there before.
LEMMA AcyclicStep ==
  ASSUME FewTasks, edges \subseteq Task \X Task, Acyclic, NEW t \in Task, NEW d \in Task,
         AddDependency(t, d)
  PROVE  Acyclic'
<1> PICK V \in Visits(d) : ~CreatesCycle(t, d, V)
  BY DEF AddDependency
<1>1. Closed(V) /\ V \in SUBSET Task /\ From(d, V)
  BY VisitsAreClosed
<1>2. d \in V /\ t \notin V
  BY <1>1, NotFoundNotVisited DEF CreatesCycle, From
<1>3. edges' = edges \cup {<<t, d>>}
  BY DEF AddDependency
<1>4. \A u \in Task \ {t} : Needs({u})' = Needs({u})
  <2> TAKE u \in Task \ {t}
  <2>1. <<t, d>>[1] \notin {u}
    OBVIOUS
  <2>2. {f \in edges' : f[1] \in {u}} = {f \in edges : f[1] \in {u}}
    BY <1>3, <2>1
  <2> QED
    BY <2>2 DEF Needs
<1>5. Needs({t})' = Needs({t}) \cup {d}
  <2>1. <<t, d>>[1] \in {t} /\ <<t, d>>[2] = d
    OBVIOUS
  <2>2. {f \in edges' : f[1] \in {t}} = {f \in edges : f[1] \in {t}} \cup {<<t, d>>}
    BY <1>3, <2>1
  <2> QED
    BY <2>1, <2>2 DEF Needs
<1> SUFFICES ASSUME NEW S \in (SUBSET Task) \ {{}}, \A u \in S : Needs({u})' \cap S # {}
             PROVE  FALSE
  BY DEF Acyclic
<1>6. PICK u \in S : Needs({u}) \cap S = {}
  BY DEF Acyclic
<1>7. u = t /\ d \in S
  <2>1. Needs({u})' \cap S # {}
    OBVIOUS
  <2>2. u = t
    BY <1>4, <1>6, <2>1
  <2> QED
    BY <1>5, <1>6, <2>1, <2>2
<1>8. S \cap V \in (SUBSET Task) \ {{}}
  BY <1>2, <1>7
<1>9. PICK w \in S \cap V : Needs({w}) \cap (S \cap V) = {}
  BY <1>8 DEF Acyclic
<1>10. Needs({w}) \cap S # {}
  BY <1>2, <1>4, <1>9
<1>11. Needs({w}) \subseteq V
  BY <1>1, <1>9 DEF Closed, Needs
<1> QED
  BY <1>9, <1>10, <1>11

\* No tasks wait for each other in a circle, in whatever order calls add dependencies.
THEOREM AcyclicHolds == ASSUME FewTasks PROVE TaskSpec => []Acyclic
<1>1. InitTasks => EdgesTyped /\ Acyclic
  <2> SUFFICES ASSUME InitTasks PROVE Acyclic
    BY DEF InitTasks, EdgesTyped
  <2>1. \A S : Needs(S) = {}
    BY DEF InitTasks, Needs
  <2> SUFFICES ASSUME NEW S \in (SUBSET Task) \ {{}} PROVE \E t \in S : Needs({t}) \cap S = {}
    BY DEF Acyclic
  <2>2. PICK t : t \in S
    OBVIOUS
  <2>3. Needs({t}) = {}
    BY <2>1
  <2> QED
    BY <2>2, <2>3
<1>2. EdgesTyped /\ Acyclic /\ [NextTasks]_taskVars => EdgesTyped' /\ Acyclic'
  <2> SUFFICES ASSUME EdgesTyped, Acyclic, [NextTasks]_taskVars PROVE Acyclic'
    BY EdgesStay
  <2>1. CASE UNCHANGED edges
    BY <2>1 DEF Acyclic, Needs
  <2>2. CASE \E t, d \in Task : AddDependency(t, d)
    BY <2>2, AcyclicStep DEF EdgesTyped
  <2> QED
    BY <2>1, <2>2, EdgesStay
<1> QED
  BY <1>1, <1>2, PTL DEF TaskSpec
=============================================================================
