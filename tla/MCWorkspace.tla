---------------------------- MODULE MCWorkspace ----------------------------
(***************************************************************************)
(* What a workspace holds and works on, in one run: documents, memory, the *)
(* resource graph, the search index and knowledge; agents, workflows,      *)
(* tasks and notifications.  They share no row that one of them writes and *)
(* another reads, other than what GovernedMemory has as its source         *)
(* variable, which changes at any time, and the resources, which           *)
(* SearchContext extends.  So a behaviour moves one part only, chosen at   *)
(* its start: interleaving would add states and no case.                   *)
(***************************************************************************)
EXTENDS SearchContext, Documents, GovernedMemory, Knowledge,
        AgentPlatform, Workflows, Tasks, Notifications, TLC

\* The interchangeable identities of every part are x1 and x2, and y1 and y2 where a part
\* has two kinds of them.
CONSTANTS x1, x2, y1, y2, k1, k2, k3, m1, t1, e1, s1, contact, firm, firm2,
          MaxRelations  \* bound: no more claims are related

VARIABLE part

\* Only m1 is pinned, confirmed or commented on; what falls falls beyond the bound.
Few == [m \in {m1, x1, x2, s1} |-> IF m = m1 THEN 2 ELSE 1]

Kinds == [r \in Resource |-> IF r = contact THEN "contact" ELSE "company"]

\* A source that belongs to a resource, and one that does not.
Owners == [s \in Indexed |-> IF s = "owned" THEN contact ELSE Null]

\* A step that asks for approval between two commands; refused, it starts again.
Steps ==
  [prepare |-> [kind |-> "command", next |-> "approve", failure |-> Nil],
   approve |-> [kind |-> "approval", next |-> "finish", failure |-> "prepare"],
   finish  |-> [kind |-> "command", next |-> Nil, failure |-> Nil]]

\* Days of eight instants, the local hour of a change being two of them: the clock is put
\* forward at the ninth instant, or back at the eleventh, when 2 is shown again.
Spring == [u \in 0..20 |-> IF u < 9 THEN 0 ELSE 2]
Autumn == [u \in 0..20 |-> IF u < 11 THEN 0 ELSE -2]

-----------------------------------------------------------------------------
content == <<documentVars, memoryVars, graphVars, searchVars, knowledgeVars>>
work    == <<agentVars, workflowVars, taskVars, notificationVars>>
mcVars  == <<part, content, work>>

MCInit ==
  /\ part \in {"documents", "memory", "graph", "search", "knowledge",
               "agents", "workflows", "tasks", "notifications"}
  /\ InitDocuments /\ InitMemory /\ InitGraph /\ InitSearch /\ InitKnowledge
  /\ InitAgents /\ InitWorkflows /\ InitTasks /\ InitNotifications
  /\ part # "documents" => doc = [status |-> "active", hold |-> FALSE, retained |-> FALSE,
                                  version |-> 1, published |-> <<1>>]
  /\ part # "knowledge" => custody = [s \in Source |-> "verified"]
  /\ part # "workflows" => version = [v \in {1} |-> "absent"]

\* For a search, the contact that owns a source is what matters, and that it is deleted.
ContactOnly ==
  /\ \A r \in {firm, firm2} : resource'[r] = Null
  /\ resource'[contact] # Null => resource'[contact].version <= 2

NextContent ==
  \/ part = "documents" /\ NextDocuments
       /\ UNCHANGED <<memoryVars, graphVars, searchVars, knowledgeVars>>
  \/ part = "memory" /\ NextMemory
       /\ UNCHANGED <<documentVars, graphVars, searchVars, knowledgeVars>>
  \/ part = "graph" /\ NextGraph
       /\ UNCHANGED <<documentVars, memoryVars, searchVars, knowledgeVars>>
  \/ part = "search" /\ NextSearch /\ ContactOnly
       /\ UNCHANGED <<documentVars, memoryVars, knowledgeVars>>
  \/ part = "knowledge" /\ NextKnowledge /\ Cardinality(relation') <= MaxRelations
       /\ UNCHANGED <<documentVars, memoryVars, graphVars, searchVars>>

NextWork ==
  \/ part = "agents" /\ NextAgents /\ UNCHANGED <<workflowVars, taskVars, notificationVars>>
  \/ part = "workflows" /\ NextWorkflows /\ UNCHANGED <<agentVars, taskVars, notificationVars>>
  \/ part = "tasks" /\ NextTasks /\ UNCHANGED <<agentVars, workflowVars, notificationVars>>
  \/ part = "notifications" /\ NextNotifications
       /\ UNCHANGED <<agentVars, workflowVars, taskVars>>

MCNext ==
  \/ NextContent /\ UNCHANGED <<part, work>>
  \/ NextWork /\ UNCHANGED <<part, content>>

MCSpec == MCInit /\ [][MCNext]_mcVars

WorkspaceSymmetry == Permutations({x1, x2}) \cup Permutations({y1, y2})
=============================================================================
