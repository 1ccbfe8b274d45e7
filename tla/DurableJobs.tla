---------------------------- MODULE DurableJobs ----------------------------
(***************************************************************************)
(* The durable execution service of one workspace: app/jobs/service.py     *)
(* over the tables of app/jobs/models.py, with the worker of               *)
(* app/workers/durable.py.                                                 *)
(*                                                                         *)
(* Every service call is one action.  A call authorizes first, the         *)
(* decision is audited, and the audit insert holds the workspace's         *)
(* audit_chain_heads row until the transaction ends, so the calls of one   *)
(* workspace are serial from authorize() to commit.  A call that raises is *)
(* rolled back and is no step.  Between two calls anything may happen: the *)
(* handlers, the operators and the clock interleave freely.                *)
(*                                                                         *)
(* job[j] gathers the rows keyed by one job id: job_instances,             *)
(* job_attempts, job_dead_letters and the outbox rows of the aggregate.    *)
(***************************************************************************)
EXTENDS Integers, Sequences, FiniteSets

CONSTANTS
  Job,             \* job identities
  Definition,      \* registered kinds of job
  Worker,          \* worker identities
  Key,             \* idempotency keys
  Payload,         \* contents of a request
  None,            \* SQL NULL
  MaxAttempts,     \* [Definition -> 1..5]: the retry budget
  RetryDelay,      \* [Definition -> Seq of seconds]
  MaxConcurrency,  \* [Definition -> running jobs of one definition]
  RateLimit,       \* [Definition -> attempts started within Minute]
  WorkspaceLimit,  \* running jobs of the workspace (20)
  BacklogLimit,    \* unfinished jobs of the workspace (10 000)
  EnqueueLimit,    \* jobs accepted within Minute (120)
  LeaseSeconds,    \* 30
  ReplayFloor,     \* shortest lifetime of a replayed job (30)
  Minute,          \* length of the rolling windows
  Slots,           \* handlers one worker identity runs at a time
  StartDelay,      \* how far ahead a client asks a job to start
  Lifetime,        \* how long after that its deadline is
  Reported,        \* failure categories the handlers report
  Cancellable,     \* bound: the jobs somebody may want to cancel
  Pausable,        \* bound: the scopes somebody pauses and resumes
  MaxClock,        \* bound: the clock stops here
  LatestDeadline,  \* bound: no deadline is later
  MaxVersion,      \* bound: no heartbeat or repeated cancel beyond it
  MaxControls      \* bound: changes of one operator control

Retryable == {"transient", "rate_limit", "quota"}

FailureCategory == Retryable \cup
  {"permanent", "authorization", "validation", "cancelled", "deadline", "poison"}

Waiting  == {"queued", "retry_wait"}
Terminal == {"succeeded", "cancelled", "dead_lettered", "expired"}
Live     == Waiting \cup {"running"}

\* RetryPolicy requires a delay for every attempt but the last.
ASSUME DefinitionAssumption ==
  /\ MaxAttempts \in [Definition -> 1..5]
  /\ RetryDelay \in [Definition -> Seq(Nat \ {0})]
  /\ \A d \in Definition : Len(RetryDelay[d]) >= MaxAttempts[d] - 1
  /\ MaxConcurrency \in [Definition -> Nat \ {0}]
  /\ RateLimit \in [Definition -> Nat \ {0}]

ASSUME LimitAssumption ==
  /\ {WorkspaceLimit, BacklogLimit, EnqueueLimit} \subseteq Nat \ {0}
  /\ {LeaseSeconds, ReplayFloor, Minute, Slots} \subseteq Nat \ {0}
  /\ {MaxClock, LatestDeadline, MaxVersion, MaxControls} \subseteq Nat
  /\ StartDelay \subseteq Nat
  /\ Lifetime \subseteq Nat \ {0}
  /\ Reported \subseteq FailureCategory
  /\ Cancellable \subseteq Job

ASSUME IdentityAssumption ==
  /\ None \notin Job \cup Worker \cup Definition
  /\ "workspace" \notin Definition

VARIABLES
  clock,       \* the time every caller passes as now
  registered,  \* job_definitions
  job,         \* the rows of each job id
  control,     \* job_operator_controls by scope
  exec         \* handlers in flight: memory of the workers, not a table

vars == <<clock, registered, job, control, exec>>

Scope == Definition \cup {"workspace"}

AbsentJob ==
  [status |-> "absent", def |-> None, key |-> None, request |-> None,
   availableAt |-> 0, deadline |-> 0, createdAt |-> 0, attemptCount |-> 0,
   leaseOwner |-> None, leaseExpires |-> 0, cancelRequested |-> FALSE,
   replayOf |-> None, version |-> 0, published |-> <<>>, attempts |-> <<>>,
   letter |-> "none", replayJob |-> None]

Init ==
  /\ clock = 0
  /\ registered = {}
  /\ job = [j \in Job |-> AbsentJob]
  /\ control = [s \in Scope |-> [paused |-> FALSE, version |-> 0]]
  /\ exec = {}

-----------------------------------------------------------------------------
(* What one call does to the rows of one job. *)

\* state_version += 1, then the outbox row carries it as its sequence.
Record(r) == [r EXCEPT !.version = @ + 1,
                       !.published = Append(@, r.version + 1)]

ClearLeaseKeepsOwner(r) == [r EXCEPT !.leaseExpires = 0]

ClearLease(r) == [r EXCEPT !.leaseOwner = None, !.leaseExpires = 0]

\* The attempt row current_attempt finds is running.
AttemptRunning(r) ==
  /\ r.attemptCount \in DOMAIN r.attempts
  /\ r.attempts[r.attemptCount].status = "running"

EndAttempt(r, outcome) ==
  [r EXCEPT !.attempts[r.attemptCount].status = outcome]

\* The current attempt ends and the lease with it.
Ended(r, outcome, status) ==
  ClearLease([EndAttempt(r, outcome) EXCEPT !.status = status])

BudgetSpentLate(d, n) == n > MaxAttempts[d]

BudgetSpent(d, n) == n >= MaxAttempts[d]

TooLate(at, deadline) == at >= deadline

\* retry_decision of contracts.py.
RetryDecision(d, category, attemptNumber, now, deadline) ==
  IF category \notin Retryable \/ BudgetSpent(d, attemptNumber)
  THEN [status |-> "dead_lettered", at |-> now]
  ELSE LET at == now + RetryDelay[d][attemptNumber]
       IN  [status |-> IF TooLate(at, deadline) THEN "expired" ELSE "retry_wait",
            at |-> at]

\* The common end of fail and _recover_expired: no look at the cancellation.
Unsuccessful(r, outcome, category, now) ==
  LET decision == RetryDecision(r.def, category, r.attemptCount, now, r.deadline)
  IN  Record([Ended(r, outcome, decision.status) EXCEPT
        !.availableAt = IF decision.status = "retry_wait" THEN decision.at ELSE @,
        !.letter      = IF decision.status = "dead_lettered" THEN "open" ELSE @])

Failed(r, category, now) == Unsuccessful(r, "failed", category, now)

Succeeded(r) == Record(Ended(r, "succeeded", "succeeded"))

Claimed(r, w, now) ==
  Record([r EXCEPT
    !.status       = "running",
    !.attemptCount = @ + 1,
    !.leaseOwner   = w,
    !.leaseExpires = now + LeaseSeconds,
    !.attempts     = Append(@, [worker |-> w, status |-> "running", startedAt |-> now,
                                leaseExpires |-> now + LeaseSeconds])])

Extended(r, now) ==
  Record([r EXCEPT
    !.leaseExpires = now + LeaseSeconds,
    !.attempts[r.attemptCount].leaseExpires = now + LeaseSeconds])

CancelObserved(r) == Record(Ended(r, "cancelled", "cancelled"))

CancelAsked(r) ==
  LET asked == [r EXCEPT !.cancelRequested = TRUE]
  IN  Record(IF r.status = "running" THEN asked
             ELSE ClearLease([asked EXCEPT !.status = "cancelled"]))

LeaseExpired(r, now) == r.status = "running" /\ r.leaseExpires <= now

SweptLeasesOnly(r, now) ==
  IF LeaseExpired(r, now) THEN Unsuccessful(r, "abandoned", "transient", now) ELSE r

\* _recover_expired, then _expire_waiting, as every claim_next starts.
Swept(r, now) ==
  IF LeaseExpired(r, now) THEN Unsuccessful(r, "abandoned", "transient", now)
  ELSE IF r.status \in Waiting /\ r.deadline <= now
       THEN Record([r EXCEPT !.status = "expired"])
       ELSE r

-----------------------------------------------------------------------------
(* What a call reads of the other rows; js is the job table it sees. *)

WithStatus(js, S) == {j \in Job : js[j].status \in S}

OfDefinition(js, d) == {j \in Job : js[j].status # "absent" /\ js[j].def = d}

RecentPerLease(t, now) == t > now - LeaseSeconds

\* within the rolling minute
Recent(t, now) == t > now - Minute

RecentAttempts(js, d, now) ==
  {a \in OfDefinition(js, d) \X (1..5) :
     /\ a[2] \in DOMAIN js[a[1]].attempts
     /\ Recent(js[a[1]].attempts[a[2]].startedAt, now)}

RecentEnqueues(js, now) ==
  {j \in Job : js[j].status # "absent" /\ Recent(js[j].createdAt, now)}

KeyTaken(d, k) == \E j \in Job : job[j].def = d /\ job[j].key = k

QuotaLeft(now) ==
  /\ Cardinality(WithStatus(job, Live)) < BacklogLimit
  /\ Cardinality(RecentEnqueues(job, now)) < EnqueueLimit

Claimable(js, now) ==
  {j \in WithStatus(js, Waiting) :
     /\ js[j].availableAt <= now
     /\ js[j].deadline > now
     /\ ~control[js[j].def].paused}

\* ORDER BY available_at, created_at, id: the ids are random, so any of the
\* rows equal in the first two may come first.
Before(r, s) ==
  \/ r.availableAt < s.availableAt
  \/ r.availableAt = s.availableAt /\ r.createdAt < s.createdAt

Heads(js, now) ==
  {j \in Claimable(js, now) : \A k \in Claimable(js, now) : ~Before(js[k], js[j])}

RunningOf(js, d) == OfDefinition(js, d) \cap WithStatus(js, {"running"})

HasRoom(js, d) == Cardinality(RunningOf(js, d)) < MaxConcurrency[d]

\* claim_candidate looks at one row only: when that row's definition is at its
\* ceiling the call claims nothing.
Candidates(js, now) ==
  {j \in Heads(js, now) :
     /\ ~control["workspace"].paused
     /\ Cardinality(WithStatus(js, {"running"})) < WorkspaceLimit
     /\ HasRoom(js, js[j].def)
     /\ Cardinality(RecentAttempts(js, js[j].def, now)) < RateLimit[js[j].def]}

\* Some head is refused, or there is none: the call may return no lease.
NothingToClaim(js, now) == Heads(js, now) = {} \/ Candidates(js, now) # Heads(js, now)

-----------------------------------------------------------------------------
(* Clients and operators. *)

RegisterDefinition(d) ==
  /\ d \notin registered
  /\ registered' = registered \cup {d}
  /\ UNCHANGED <<clock, job, control, exec>>

NewJob(d, k, request) ==
  [AbsentJob EXCEPT !.status = "queued", !.def = d, !.key = k, !.request = request,
     !.availableAt = request.availableAt, !.deadline = request.deadline,
     !.createdAt = clock, !.version = 1, !.published = <<1>>]

\* A key already used returns the job it made, or raises when the request
\* differs: neither changes a row.
Enqueue(j, d, k, p, delay, life) ==
  LET request == [payload |-> p, availableAt |-> clock + delay,
                  deadline |-> clock + delay + life, causation |-> None]
  IN  /\ d \in registered
      /\ ~KeyTaken(d, k)
      /\ job[j].status = "absent"
      /\ QuotaLeft(clock)
      /\ request.deadline <= LatestDeadline
      /\ job' = [job EXCEPT ![j] = NewJob(d, k, request)]
      /\ UNCHANGED <<clock, registered, control, exec>>

Cancel(j) ==
  /\ j \in Cancellable
  /\ job[j].status \in Live
  /\ job[j].cancelRequested => job[j].version < MaxVersion
  /\ job' = [job EXCEPT ![j] = CancelAsked(@)]
  /\ UNCHANGED <<clock, registered, control, exec>>

ReplayableAgain(r) == r.status = "dead_lettered"

Replayable(r) == r.status = "dead_lettered" /\ r.letter = "open"

\* Requeues the work of the dead-lettered job j as the new job n.
Replay(j, n, k) ==
  LET r        == job[j]
      lifetime == IF r.deadline - r.createdAt > ReplayFloor
                  THEN r.deadline - r.createdAt ELSE ReplayFloor
      request  == [payload |-> r.request.payload, availableAt |-> clock,
                   deadline |-> clock + lifetime, causation |-> j]
  IN  /\ Replayable(r)
      /\ ~KeyTaken(r.def, k)
      /\ job[n].status = "absent"
      /\ QuotaLeft(clock)
      /\ request.deadline <= LatestDeadline
      /\ job' = [job EXCEPT
           ![n] = [NewJob(r.def, k, request) EXCEPT !.replayOf = j],
           ![j] = Record([r EXCEPT !.letter = "replayed", !.replayJob = n])]
      /\ UNCHANGED <<clock, registered, control, exec>>

SetPaused(s, paused, expectedVersion) ==
  /\ control[s].version = expectedVersion
  /\ expectedVersion < MaxControls
  /\ control' = [control EXCEPT ![s] = [paused |-> paused, version |-> @.version + 1]]
  /\ UNCHANGED <<clock, registered, job, exec>>

-----------------------------------------------------------------------------
(* Workers. *)

\* _require_attempt raises, and nothing is swept or claimed in the workspace,
\* when one expired job has no running attempt.
SweepPossible == \A j \in Job : LeaseExpired(job[j], clock) => AttemptRunning(job[j])

SweptJobs == [j \in Job |-> Swept(job[j], clock)]

HasFreeSlot(w) == Cardinality({e \in exec : e.worker = w}) < Slots

ClaimNext(w) ==
  /\ HasFreeSlot(w)
  /\ SweepPossible
  /\ \/ /\ NothingToClaim(SweptJobs, clock)     \* what was swept is committed
        /\ job' = SweptJobs
        /\ UNCHANGED exec
     \/ \E j \in Candidates(SweptJobs, clock) :
          /\ job' = [SweptJobs EXCEPT ![j] = Claimed(@, w, clock)]
          /\ exec' = exec \cup
               {[worker |-> w, job |-> j, attempt |-> SweptJobs[j].attemptCount + 1]}
  /\ UNCHANGED <<clock, registered, control>>

\* run_once that gets a lease: claim, handler and outcome in one transaction
\* with one now.  A handler that succeeds on a cancelled job makes succeed
\* raise, which takes the claim and the sweep back with it.
RunOnce(w) ==
  /\ HasFreeSlot(w)
  /\ SweepPossible
  /\ \E j \in Candidates(SweptJobs, clock) :
       LET claimed == Claimed(SweptJobs[j], w, clock)
       IN  \/ /\ ~claimed.cancelRequested
              /\ job' = [SweptJobs EXCEPT ![j] = Succeeded(claimed)]
           \/ \E c \in Reported :
                job' = [SweptJobs EXCEPT ![j] = Failed(claimed, c, clock)]
  /\ UNCHANGED <<clock, registered, control, exec>>

HoldsAnyOwner(w, j) ==
  /\ job[j].status = "running"
  /\ job[j].leaseExpires > clock
  /\ AttemptRunning(job[j])

\* _leased_job: the caller passes a job and its worker identity, no attempt.
Holds(w, j) ==
  /\ job[j].status = "running"
  /\ job[j].leaseOwner = w
  /\ job[j].leaseExpires > clock
  /\ AttemptRunning(job[j])

Heartbeat(e) ==
  /\ Holds(e.worker, e.job)
  /\ ~job[e.job].cancelRequested
  /\ job[e.job].version < MaxVersion
  /\ clock <= LatestDeadline
  /\ job' = [job EXCEPT ![e.job] = Extended(@, clock)]
  /\ UNCHANGED <<clock, registered, control, exec>>

\* On a cancelled job heartbeat writes the cancellation and raises; the caller
\* that catches the error inside its transaction commits what was written,
\* one that lets it escape rolls it back.  Either way the handler stops.
HeartbeatCancelled(e) ==
  /\ Holds(e.worker, e.job)
  /\ job[e.job].cancelRequested
  /\ \/ job' = [job EXCEPT ![e.job] = CancelObserved(@)]
     \/ UNCHANGED job
  /\ exec' = exec \ {e}
  /\ UNCHANGED <<clock, registered, control>>

SucceedUnchecked(e) ==
  /\ Holds(e.worker, e.job)
  /\ job' = [job EXCEPT ![e.job] = Succeeded(@)]
  /\ exec' = exec \ {e}
  /\ UNCHANGED <<clock, registered, control>>

Succeed(e) ==
  /\ Holds(e.worker, e.job)
  /\ ~job[e.job].cancelRequested
  /\ job' = [job EXCEPT ![e.job] = Succeeded(@)]
  /\ exec' = exec \ {e}
  /\ UNCHANGED <<clock, registered, control>>

Fail(e, category) ==
  /\ Holds(e.worker, e.job)
  /\ job' = [job EXCEPT ![e.job] = Failed(@, category, clock)]
  /\ exec' = exec \ {e}
  /\ UNCHANGED <<clock, registered, control>>

\* The process dies, or the service refuses its call with LeaseConflict.
HandlerLost(e) ==
  /\ exec' = exec \ {e}
  /\ UNCHANGED <<clock, registered, job, control>>

Tick ==
  /\ clock < MaxClock
  /\ clock' = clock + 1
  /\ UNCHANGED <<registered, job, control, exec>>

Next ==
  \/ \E d \in Definition : RegisterDefinition(d)
  \/ \E j \in Job, d \in Definition, k \in Key, p \in Payload,
        delay \in StartDelay, life \in Lifetime : Enqueue(j, d, k, p, delay, life)
  \/ \E j \in Job : Cancel(j)
  \/ \E j, n \in Job, k \in Key : Replay(j, n, k)
  \/ \E s \in Scope \cap Pausable, paused \in BOOLEAN, v \in 0..MaxControls : SetPaused(s, paused, v)
  \/ \E w \in Worker : ClaimNext(w) \/ RunOnce(w)
  \/ \E e \in exec : \/ Heartbeat(e)
                     \/ HeartbeatCancelled(e)
                     \/ Succeed(e)
                     \/ \E c \in Reported : Fail(e, c)
                     \/ HandlerLost(e)
  \/ Tick

Spec == Init /\ [][Next]_vars

\* Some worker polls, a handler does not run for ever, and time passes.
HandlerEnds(w) ==
  \E e \in exec : /\ e.worker = w
                 /\ \/ Succeed(e)
                    \/ HandlerLost(e)
                    \/ \E c \in Reported : Fail(e, c)

Fairness ==
  /\ WF_vars(Tick)
  /\ \A w \in Worker : WF_vars(ClaimNext(w)) /\ WF_vars(HandlerEnds(w))

FairSpec == Spec /\ Fairness

-----------------------------------------------------------------------------
(* Types *)

Request == [payload : Payload, availableAt : Nat, deadline : Nat, causation : Job \cup {None}]

Attempt == [worker : Worker, startedAt : Nat, leaseExpires : Nat,
            status : {"running", "succeeded", "failed", "abandoned", "cancelled"}]

JobRow ==
  [status : {"absent"} \cup Live \cup Terminal, def : Definition \cup {None},
   key : Key \cup {None}, request : Request \cup {None}, availableAt : Nat,
   deadline : Nat, createdAt : Nat, attemptCount : Nat, leaseOwner : Worker \cup {None},
   leaseExpires : Nat, cancelRequested : BOOLEAN, replayOf : Job \cup {None},
   version : Nat, published : Seq(Nat), attempts : Seq(Attempt),
   letter : {"none", "open", "replayed"}, replayJob : Job \cup {None}]

\* The tables hold what their columns and CHECK constraints allow.
TypeOK ==
  /\ clock \in Nat
  /\ registered \subseteq Definition
  /\ job \in [Job -> JobRow]
  /\ control \in [Scope -> [paused : BOOLEAN, version : Nat]]
  /\ exec \subseteq [worker : Worker, job : Job, attempt : Nat \ {0}]

-----------------------------------------------------------------------------
(* Safety *)

\* The job row and its attempt rows tell one story: a job is running exactly
\* when it has a lease, its last attempt is the running one and carries the
\* same owner and expiry, and no other attempt runs.  _require_attempt and
\* hence the whole sweep of claim_next raise when this breaks.
LeaseAgrees(r) ==
  /\ Len(r.attempts) = r.attemptCount
  /\ r.status = "running" <=> r.leaseOwner # None
  /\ r.status = "running" =>
       /\ AttemptRunning(r)
       /\ r.attempts[r.attemptCount].worker = r.leaseOwner
       /\ r.attempts[r.attemptCount].leaseExpires = r.leaseExpires
  /\ \A n \in 1..Len(r.attempts) :
       r.attempts[n].status = "running" => n = r.attemptCount /\ r.status = "running"

LeaseAgreement == \A j \in Job : LeaseAgrees(job[j])

\* The retry budget of a definition is never exceeded, though claim_next does
\* not look at it: what waits always has an attempt left.
WithinBudget(r) ==
  r.status # "absent" =>
    /\ r.attemptCount <= MaxAttempts[r.def]
    /\ r.status \in Waiting => r.attemptCount < MaxAttempts[r.def]

AttemptBudget == \A j \in Job : WithinBudget(job[j])

\* Every row satisfies ck_job_instances_deadline after every retry, so no
\* retry or sweep is ever rolled back by the constraint.
AvailableBeforeDeadline ==
  \A j \in Job : job[j].status # "absent" => job[j].availableAt < job[j].deadline

\* The outbox rows of a job are numbered 1, 2, ... up to its state_version:
\* a consumer that demands consecutive sequences is never stuck on a gap and
\* uq_outbox_aggregate_sequence never rolls a transition back.
Gapless(r) ==
  /\ Len(r.published) = r.version
  /\ \A i \in 1..Len(r.published) : r.published[i] = i

OutboxGapless == \A j \in Job : Gapless(job[j])

\* Whatever retries, recoveries and late outcomes follow a cancellation
\* request, the job never ends as succeeded.
CancelledNeverSucceeds ==
  \A j \in Job : job[j].cancelRequested => job[j].status # "succeeded"

\* A failed job is replayed as one new job and never as two: a dead letter exists
\* exactly for the dead-lettered jobs, a replayed one names one job that names the
\* original back, and one key of one definition makes at most one job.
DeadLetterLinks ==
  \A j \in Job :
    /\ job[j].status = "dead_lettered" <=> job[j].letter # "none"
    /\ job[j].letter = "replayed" <=> job[j].replayJob # None
    /\ \A n \in Job :
         /\ job[j].replayJob = n <=> job[n].replayOf = j
         /\ job[j].def # None /\ job[j].def = job[n].def /\ job[j].key = job[n].key => j = n

\* At no moment do more jobs run than the workspace and the definition allow,
\* or more jobs wait and run than the backlog holds, replays included.
Ceilings ==
  /\ Cardinality(WithStatus(job, Live)) <= BacklogLimit
  /\ Cardinality(WithStatus(job, {"running"})) <= WorkspaceLimit
  /\ \A d \in Definition :
       Cardinality(RunningOf(job, d)) <= MaxConcurrency[d]

\* In every rolling minute of the history, a definition starts no more
\* attempts than its rate and the workspace accepts no more jobs than its
\* quota, crashes, recoveries and replays included.
RollingRates ==
  \A now \in 0..clock :
    LET window == (now - Minute + 1)..now IN
    /\ \A d \in Definition :
         Cardinality({a \in Job \X (1..5) :
            /\ job[a[1]].def = d
            /\ a[2] \in DOMAIN job[a[1]].attempts
            /\ job[a[1]].attempts[a[2]].startedAt \in window}) <= RateLimit[d]
    /\ Cardinality({j \in Job : job[j].status # "absent" /\ job[j].createdAt \in window})
         <= EnqueueLimit

\* Counted by queries inside the claim, the limits hold over claims, sweeps, crashes
\* and replays alike: those of the moment and those of every rolling minute.
WithinLimits == Ceilings /\ RollingRates

\* What ended stays ended: a settled job keeps its status, an attempt that
\* ended or was abandoned is immutable evidence, and no later call rewrites
\* the request of an accepted job.
TerminalForever ==
  [][\A j \in Job :
       /\ job[j].status \in Terminal => job'[j].status = job[j].status
       /\ job[j].status # "absent" =>
            /\ job'[j].status # "absent"
            /\ job'[j].request = job[j].request
            /\ \A n \in 1..Len(job[j].attempts) :
                 job[j].attempts[n].status # "running" =>
                   job'[j].attempts[n] = job[j].attempts[n]]_vars

\* A reported outcome is recorded on the attempt whose handler reports it:
\* the handler that stops in the step was running the attempt the step ends,
\* although the service compares worker identities and not attempt numbers.
OutcomeFromItsAttempt ==
  [][\A e \in exec :
       (e \notin exec' /\ job'[e.job] # job[e.job]) => e.attempt = job[e.job].attemptCount]_vars

\* One job as the work a client sees: where it is, who holds it and how often
\* it was handed out.
WorkOf(r) ==
  [state  |-> CASE r.status \in Waiting  -> "waiting"
                [] r.status = "running"  -> "held"
                [] r.status \in Terminal -> "done"
                [] OTHER                 -> "absent",
   kind   |-> r.def,
   holder |-> r.leaseOwner,
   grants |-> r.attemptCount]

Work == [j \in Job |-> WorkOf(job[j])]

Leased == INSTANCE LeasedWork WITH item <- Work, Budget <- MaxAttempts

\* Sweeps, retries, crashes, cancellations and replays included, the service
\* implements leased work: one holder, a bounded number of grants, done is done.
ImplementsLeasedWork == Leased!Spec

(* Liveness *)

\* Every accepted job is settled, with workers crashing, workspaces and
\* definitions paused and cancellations asked at any point.
EveryJobSettles ==
  \A j \in Job : job[j].status \in Live ~> job[j].status \in Terminal

(* What the documentation says *)

\* H3_IMPLEMENTATION_GUIDE.md: cancellation failures never retry.
CancelledNeverRetried ==
  [][\A j \in Job : job[j].cancelRequested /\ job[j].status = "running"
                      => job'[j].status # "retry_wait"]_vars
=============================================================================
