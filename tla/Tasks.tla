------------------------------- MODULE Tasks -------------------------------
(***************************************************************************)
(* TaskService of app/tasks/service.py: the life of tasks, what they       *)
(* depend on, and their reminders.                                         *)
(*                                                                         *)
(* Every call authorizes first, which takes the workspace's audit chain    *)
(* (module Commands), and then locks its task: calls on one workspace      *)
(* follow each other, and each is one action.  The expected version only   *)
(* turns calls away that no action stands for.  Comments, participants and *)
(* external references change nothing but the version and are one action.  *)
(* The job service runs a reminder's job when it falls due, with a handler *)
(* that is not in the repository.                                          *)
(***************************************************************************)
EXTENDS Integers, FiniteSets, FiniteSetsExt

CONSTANTS
  Task,           \* tasks
  NeedsProof,     \* tasks that are completed with evidence only
  Dated,          \* tasks with a due time and a time zone
  Limit,          \* tasks a search for cycles visits (10 000)
  MaxTaskVersion  \* bound: a task below it is commented on

VARIABLES
  task,      \* status and version of each task
  edges,     \* task_dependencies: <<task, task it depends on>>
  proof,     \* tasks with completion evidence
  reminder,  \* task_reminders: [task, version, status]
  job,       \* reminder jobs that wait with the job service: [task, version]
  past       \* tasks whose reminders' deadline has passed

taskVars == <<task, edges, proof, reminder, job, past>>

TaskStatus == {"open", "in_progress", "blocked", "completed", "cancelled", "deleted"}

Ended == {"completed", "cancelled", "deleted"}

TRANSITIONS ==
  [open |-> {"in_progress", "blocked", "completed", "cancelled", "deleted"},
   in_progress |-> {"open", "blocked", "completed", "cancelled", "deleted"},
   blocked |-> {"open", "in_progress", "cancelled", "deleted"},
   completed |-> {"deleted"}, cancelled |-> {"deleted"}, deleted |-> {}]

TaskRow == [status : TaskStatus \cup {"absent"}, version : 0..MaxTaskVersion]

InitTasks ==
  /\ task = [t \in Task |-> [status |-> "absent", version |-> 0]]
  /\ edges = {} /\ proof = {} /\ reminder = {} /\ job = {} /\ past = {}

CreateTask(t) ==
  /\ task[t].status = "absent"
  /\ task' = [task EXCEPT ![t] = [status |-> "open", version |-> 1]]
  /\ UNCHANGED <<edges, proof, reminder, job, past>>

\* _locked and _changed: a task that was not deleted gets its next version.
ChangedTask(t, status) ==
  /\ task[t].status \notin {"absent", "deleted"}
  /\ task[t].version < MaxTaskVersion
  /\ task' = [task EXCEPT ![t] = [status |-> status, version |-> @.version + 1]]

Evidenced(t) == t \in NeedsProof => t \in proof

\* cancel_reminders; the jobs stay.
WithoutReminders(t) ==
  {IF r.task = t /\ r.status = "scheduled" THEN [r EXCEPT !.status = "cancelled"] ELSE r : r \in reminder}

Transition(t, target) ==
  /\ task[t].status # "absent" /\ target \in TRANSITIONS[task[t].status]
  /\ target = "completed" => Evidenced(t)
  /\ ChangedTask(t, target)
  /\ reminder' = IF target \in Ended THEN WithoutReminders(t) ELSE reminder
  /\ UNCHANGED <<edges, proof, job, past>>

\* add_comment, add_participant and link_external.
Annotate(t) == ChangedTask(t, task[t].status) /\ UNCHANGED <<edges, proof, reminder, job, past>>

AddCompletionEvidence(t) ==
  /\ ChangedTask(t, task[t].status)
  /\ proof' = proof \cup {t}
  /\ UNCHANGED <<edges, reminder, job, past>>

-----------------------------------------------------------------------------
(* Dependencies *)

Needs(S) == {e[2] : e \in {f \in edges : f[1] \in S}}

Closed(S) == Needs(S) \subseteq S

\* S is visited from d on: whatever part of it holds d leads to all of it.
From(d, S) == d \in S /\ \A T \in SUBSET S : d \in T /\ Needs(T) \cap S \subseteq T => T = S

NeighboursOnly(d) == {{d}}

\* The tasks a search from d may have visited when it ends: all there are, or Limit.
Visits(d) ==
  {S \in SUBSET Task : From(d, S) /\ (Closed(S) \/ Cardinality(S) = Limit) /\ Cardinality(S) <= Limit}

\* _creates_cycle: what is left of the search when Limit is reached is still
\* compared with the task, but followed no more.
CreatesCycle(t, d, visited) == t \in {d} \cup Needs(visited)

AddDependency(t, d) ==
  /\ task[d].status # "absent"
  /\ <<t, d>> \notin edges
  /\ ChangedTask(t, task[t].status)
  /\ \E visited \in Visits(d) : ~CreatesCycle(t, d, visited)
  /\ edges' = edges \cup {<<t, d>>}
  /\ UNCHANGED <<proof, reminder, job, past>>

-----------------------------------------------------------------------------
(* Reminders *)

Eligible(t) == t \in Dated /\ task[t].status \notin Ended

\* The identity of a reminder is the task's version before the call, so a
\* job is enqueued for every call; the job service refuses one whose deadline
\* has passed.
ScheduleReminder(t) ==
  /\ Eligible(t) /\ t \notin past
  /\ ChangedTask(t, task[t].status)
  /\ reminder' = reminder \cup {[task |-> t, version |-> task[t].version, status |-> "scheduled"]}
  /\ job' = job \cup {[task |-> t, version |-> task[t].version]}
  /\ UNCHANGED <<edges, proof, past>>

\* The due time of a task and the five minutes after it: its jobs are run or expire.
\* The reminder's row keeps its status.
RemindersFallDue(t) ==
  /\ t \in Dated \ past
  /\ past' = past \cup {t}
  /\ job' = {j \in job : j.task # t}
  /\ UNCHANGED <<task, edges, proof, reminder>>

NextTasks ==
  \E t \in Task :
    \/ CreateTask(t) \/ Annotate(t) \/ AddCompletionEvidence(t)
    \/ ScheduleReminder(t) \/ RemindersFallDue(t)
    \/ \E target \in TaskStatus : Transition(t, target)
    \/ \E d \in Task : AddDependency(t, d)

TaskSpec == InitTasks /\ [][NextTasks]_taskVars

-----------------------------------------------------------------------------
\* The rows are rows of their tables.
TaskTypeOK ==
  /\ task \in [Task -> TaskRow]
  /\ edges \subseteq Task \X Task /\ proof \subseteq Task

\* No tasks wait for each other in a circle, whatever order their dependencies were added
\* in.  H3_IMPLEMENTATION_GUIDE.md says so of any tasks, but the search gives up: it holds
\* with no more tasks than Limit.
Acyclic ==
  \A S \in (SUBSET Task) \ {{}} : \E t \in S : Needs({t}) \cap S = {}

(* What the documentation says *)

\* H3_IMPLEMENTATION_GUIDE.md: the terminal state of a task cancels its scheduled work, and
\* no reminder comes after it.  But cancel_reminders changes rows, and the jobs still wait.
NoReminderOfEndedTask ==
  \A j \in job : task[j.task].status \notin Ended

\* H3_IMPLEMENTATION_GUIDE.md: duplicate reminders are not tolerated.  But a reminder's
\* identity has the version that scheduling it counts up: one due time gets two jobs.
NoDuplicateReminder ==
  \A i, j \in job : i.task = j.task => i = j
=============================================================================
