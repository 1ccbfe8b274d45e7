# Formal specifications of Wanderra OS

This directory holds TLA+ models of the core of the program: how commands become
events and events are consumed; how work is queued, leased, retried and scheduled;
how the members, sessions and connections of a workspace change; how content is
kept, derived, indexed and deleted; how agents, workflows, tasks and notifications
move on; and how a workspace is closed. `PROJECT.json` maps every definition to the
lines of the source it translates. The commands of the last section check and prove
everything.

Source paths are relative to the repository root. The code is async Python over
PostgreSQL (READ COMMITTED). Services never commit: a caller opens a transaction
(`ExecutionContextService.transaction`), calls one or more services in it, and any
exception that leaves the block rolls all of it back.

## Inventory

| Part | State | Operations | Hard behaviour | What makes it correct |
|---|---|---|---|---|
| Durable jobs (`app/jobs`) | job, attempt, dead-letter, definition and control rows | register, enqueue, claim (with sweep), heartbeat, succeed, fail, cancel, replay, pause | leases that expire under a live worker, crashes, cancellation races, quotas counted by query | rows agree, retry budget, outcomes belong to their attempt, cancelled work never succeeds, quotas hold over time, everything accepted is settled |
| Worker (`app/workers/durable.py`) | none that lasts | claim, handler and outcome in one transaction | an observed cancellation takes the claim back | as above |
| Schedules (`app/jobs`) | schedule rows | register, pause, dispatch all that is due | downtime, clock changes, skewed dispatchers, all-or-nothing dispatch | no occurrence lost within the catch-up window, none doubled |
| Fair dispatcher (`app/jobs/dispatcher.py`) | none | order one batch | the organization's limit over many workspaces; nothing remembered between batches | no workspace gets more than one claim ahead of another that still waits |
| Commands (`app/messaging/service.py`, migration 0012) | idempotency, version, audit chain, outbox rows | `record` | three row locks, retries of running or failed commands | concurrent commands come out one after the other, one outcome per key, gapless sequences, audit and outbox agree |
| Event consumers (`app/messaging/service.py`) | inbox, sequence, quarantine rows | `consume`, `replay` | lost, repeated and reordered delivery, handlers that fail, rolling schema changes | in order, at most once, nothing beyond repair |
| Memberships (`app/memberships`, migration 0009) with invitation tokens | membership and token rows | invite, accept, create, change role, set status, revoke a token | three lock orders, unlocked reads, deferred trigger | an owner remains, concurrent operations come out as one after the other |
| Identity lifecycle (`app/identity`) | users, links, sessions, recovery tokens | login, rotation, use, revocation, recovery, link review, bootstrap | statements that see a snapshot and then wait for rows, deadlocks | nothing is done in the name of a revoked session, a recovery ends every session it saw |
| Documents (`app/documents`) | document, version, derivative, deletion rows; an object store | create, ingest, verify, extract, delete, process a deletion, set governance | the store does not roll back and may change by itself; deletions that stop halfway; holds set in between | stored content is what it was taken for, a hold keeps what is left |
| Knowledge (`app/knowledge`) | claims, relations, timeline, checkpoints, dispositions | create, relate, review, project, rebuild, dispose of a source | dispositions between projections; rebuilds that lock before they are authorized; relations over an invalidated status | the timeline rests on no invalidated claim; what fell stays fallen |
| Governed memory (`app/memory`) | items, derivations, disposition receipts | create, consolidate, pin, confirm, comment, supersede, expire, delete, dispose | breadth-first disposition over items derived from items | nothing derived from a fallen item stays active |
| Resource graph (`app/resource_graph`) | resources, relationships | create, relate, add features, delete | cardinality counted over rows that are deleted and re-made | exclusive relationships stay exclusive |
| Search (`app/search_context`) | generations, documents, reconciliations | create and activate a generation, index, dispose of a source | a disposal while another generation is rebuilt | one generation is searched, nothing disposed of comes back |
| Connections and credentials (`app/connections`, `app/connection_credentials`, `app/encryption`) | connection, grants, credential generations, envelopes, migration inventory | create, transition, grant, store, rotate, rewrap, refresh, migrate, revoke, disable | rows read without a lock and used later; providers that answer late | a revoked connection is unusable, an active one works |
| OAuth transactions (`app/oauth_transactions`) | transactions | start, callback, expire, cancel, fail | the code is spent at the provider before the commit; repeated callbacks | one hand-off for each transaction |
| Connection cutover (`app/connection_cutover` and the route controls of email, calendar and storage) | routes, samples, evidence, backfill | backfill, compare, control, cut over, roll back | two services change one route and record events of different aggregates | a change can always be recorded |
| Provider mirrors (`app/provider_mirrors`) | mirrors, references, conflicts | observe, decide, link, resolve | observations late and out of order, conflicts met again | a mirror in conflict has a conflict to resolve |
| Workspace closure (`app/recovery`, migration 0013) | workspace status, closures, exports, evidence | close, hold, export, record backup, restore and key recovery | a status read without a lock; writers under way; a second close | a closed workspace stays closed |
| Agent platform (`app/agent_platform`) | registry, plans, orchestrations, receipts, budgets | register, disable, evaluate, propose, accept, execute, cancel | steps run outside the database before they commit; changes without an event | an effect happens twice only after a loss; consumers can follow the events |
| Workflows (`app/workflows`) | versions, instances, transitions, approvals | register, activate, start, report, cancel, approve | reports that come late or twice | the path taken is one that its callers saw |
| Tasks (`app/tasks`) | tasks, dependencies, reminders | create, change, depend, verify, complete, remind, cancel | dependencies added in any order and a search that gives up; jobs of reminders that outlive their rows | no circles; one reminder for a due time, none of an ended task |
| Notifications (`app/notifications`) | intents | create, deliver, retry | quiet periods over midnight and over clock changes | first due when the quiet period ends, not earlier nor later |

Interaction: every service records its state changes as audit rows (a trigger locks
the workspace's audit chain head until the transaction ends) and as outbox rows
numbered by the aggregate's version; `uq_outbox_aggregate_sequence` refuses a number
twice, and the transaction with it. Schedules enqueue jobs; documents, tasks,
knowledge and memory enqueue jobs and complete them through their own services.
Authorization is asked first by every service and writes an audit row, so a call
holds the audit chain lock from its first statement: that is why a call of
knowledge, memory, the graph, search, tasks and most of documents is one action.
Where a service works outside a transaction, before its first lock or its first
authorization (`rebuild_timeline`), or at a provider, its call is cut into several.

## Modules

| Module | Models |
|---|---|
| `DurableJobs` | `JobService` for jobs, definitions and controls, and `DurableWorker.run_once` |
| `LeasedWork` | abstract: work waits, is held by one worker, is handed out a bounded number of times, and is done once |
| `Schedules` | `due_occurrences`, `next_occurrence` and the schedule calls of `JobService` |
| `FairDispatch`, `FairClaims` | `FairWorkspaceDispatcher.order`, a pure function of one batch; claims over many batches |
| `Commands` | `CommandService.record`, one action per row lock |
| `AtomicCommands` | abstract: a command compares and sets its aggregate's version with its event and its answer in one step, and a key stands for one request |
| `EventConsumer` | `EventConsumerService.consume` and `replay` |
| `Messaging` | composes `Commands` and `EventConsumer`: what commands commit is what may arrive |
| `OrderedDelivery` | abstract: each consumer reads each aggregate's log entry by entry |
| `Memberships` | `WorkspaceMembershipService` and the token calls it makes, row lock by row lock |
| `AtomicMemberships` | abstract: every change of a membership is one step, decided by the rows as they are in it |
| `IdentityLifecycle` | sessions, recovery and identity links, statement by statement where they wait |
| `Documents` | `DocumentService` for one document over an object store |
| `Knowledge`, `GovernedMemory` | claims and timeline; memory items and what they derive from |
| `ResourceGraph`, `SearchContext` | resources and relationships; the index over them (extends the graph) |
| `Connections`, `Credentials`, `OAuthTransactions` | the custody of a connection: each module extends the one before |
| `CapabilityRoutes` | routes, shadow reads, backfill and cutover over `Connections` |
| `ProviderMirrors` | one mirror of an external resource |
| `WorkspaceClosure` | closing a workspace beside transactions that write |
| `AgentPlatform`, `Workflows`, `Tasks`, `Notifications` | the services of those names |
| `MC*` | constants for the model checker; `MCWorkspace`, `MCServices` and `MCMessaging` gather several parts |
| `*Proofs` | theorems, see Proofs |

`MCWorkspace` (documents, memory, graph, search, knowledge, agents, workflows, tasks,
notifications) and `MCServices` (sessions, custody, routes, mirrors, closure, schedules,
claims) check several parts in one run. Their parts
share no row that one writes and another reads, so a behaviour moves one part,
chosen at its start: interleaving parts that do not meet adds states and no case.
They extend the modules of their parts, so what a run checks is the definition that the
proofs are about; a part of which there are several copies, or which a run needs with
values of its own (the capabilities' routes), is an instance.
Parts that do meet are composed inside their modules: credentials and OAuth
transactions over one connection, search over the graph, commands with consumers.

### DurableJobs

`job[j]` gathers the rows of one job id: the instance, its attempts (a sequence,
by attempt number), its dead letter and its outbox sequence numbers. `exec` is
the set of handlers in flight, which the database does not know: each remembers
which attempt it is working for, while the service identifies it only by worker
name (`_leased_job`). `clock` is the `now` callers pass.

One call is one action. `H1JobAuthorizer` writes an audit row before anything
else, and the audit trigger holds the chain head of the workspace to the end of
the transaction, so the calls of a workspace do run one after the other.
Everything else interleaves: handlers outlive leases, cancellations come at any
point, processes die (`HandlerLost`), time passes.

| Action | Code |
|---|---|
| `RegisterDefinition`, `Enqueue`, `Cancel`, `Replay`, `SetPaused` | the methods of those names |
| `ClaimNext` | `claim_next`: the sweep (`_recover_expired`, `_expire_waiting`) and the claim; also with nothing to claim, when the sweep alone commits |
| `RunOnce` | `run_once`: sweep, claim and outcome in one transaction |
| `Heartbeat`, `HeartbeatCancelled` | `heartbeat`; the second writes the cancellation and raises, so it commits only if its caller catches the error inside the transaction |
| `Succeed`, `Fail` | the methods of those names |

Left out: payload size and schema checks, who is authorized, the ordering by
`id` among rows equal in time (ids are random: any may be first).

### Schedules, FairDispatch and FairClaims

Instants are small numbers and `Offset` gives each zone's wall clock, so a day,
a repeated and a skipped hour are a few instants long. A dispatch evaluates a
batch of due schedules and enqueues every occurrence, or does nothing: one
refused enqueue raises and takes the transaction back. A schedule's jobs are
rows under the key `prefix:occurrence`, which end some time later. Weekdays, and
the error for a daily schedule with no occurrence within a year, are left out.

The dispatcher is called by tests only (`tests/jobs/test_h3_02_contracts.py`), so the
loop around it is external: `FairClaims` asks it for batches of any size with the jobs
then eligible and running, and claims in its order. Workspaces work off a backlog that
does not grow.

### Commands, EventConsumer, Messaging

A command takes three locks in turn: idempotency key, aggregate version, audit
chain. `txn` says how far each transaction is, and the locks follow from it.
`Conflict` may commit the claimed key: `record` raises after inserting it, and a
caller that catches the error inside its transaction keeps the row.
`AtomicCommands` is what all this amounts to for callers: a command is one step, on the
version it expects, at the moment its transaction commits; the outcome of a key is what
its idempotency row has on record.

A consumer call is one action because it holds its sequence row, and a second
insertion of the same inbox row waits. There is no relay in the repository, so
delivery is a medium that may take any committed event to any consumer at any
time, or never.

### Memberships

Each operation has a plan, the rows it locks in the order of the code:

| Operations | Order |
|---|---|
| invite, create | workspace, membership, audit chain |
| change role, set status | membership, workspace, audit chain |
| accept | token, membership, audit chain, workspace (by foreign key) |

A transaction acquires them one by one (`Acquire`), checks what it read when it
has those it reads under (`Check`), and commits. The orders form cycles, and
`DeadlockVictim` is the database breaking one; that none is longer than three
(`Deadlocked`) is proved, for any number of transactions. `AtomicMemberships` is the
same service without transactions, which this one implements through its rows as they
are: an operation happens when it commits. `BeginAccept` reads the
membership's version without a lock, as `_invitation_authority_version` does. An
expiry of a token while a transaction holds it is taken to come after it.

### IdentityLifecycle

A request authenticates (locks its session), is authorized, and acts or rotates;
a recovery consumes its token and revokes the sessions that its `UPDATE` saw when it
started, waiting for each row in turn and looking at it again. `token[t].ends`
remembers what the statement saw. The audit chain is always locked last, so it is in
no cycle and is left out. A session or a second factor that grew too old is one that
is not used any more.

### Documents

The rows of one document (`document`, `rows`, `custody`, `derivative`,
`deletion`) are transactional; `store`, keyed by version and by prefix as
`_object_key` does, is not. Every call authorizes first and so runs alone in its
workspace. A call that works on the store is cut where the store is used:
`verify` into reading (`VerifyBegin`) and promotion (`Verified`, `VerifyLost`),
`process_deletion` into one step for each object; `call` is where it is, and
`CallLost` rolls it back there while the store keeps what was done. No adapter of
the store is in the repository: it behaves as the ports are used and as the
store of the tests does, and objects may change at any time (`ObjectChanges`).
Extraction is one step: it changes nothing in the store. Left out: the jobs that
deletions and extractions enqueue, the order of classifications, manifests.

### Knowledge and GovernedMemory

A digest is an identity: a claim is its subject, predicate and value; an item its
content. `custody` and `source` are what these services see of documents and other
sources, and change at any time. `rebuild_timeline` asks for no authorization of its
own: it locks the entries of its projection and decides what to remove
(`RebuildBegins`), takes the audit chain when it projects its first input, or never when
it has none, and commits (`RebuildCommits`) or is rolled back (`RebuildAborts`).
`rebuild` is the rebuilds in flight with the entries each has locked; a projection or a
disposition that has to write one of them waits. `disposed` of a claim says that the
outbox has its invalidation. The disposition of a memory source visits items
breadth first as the code does; `late` says that the clock has passed the expiry of
what expires.

### ResourceGraph and SearchContext

Features (tags, notes, attachments, owners, grants, external references) are one
action: they only count the resource's version. A search document is identified by
generation, source and the state the source was read in. `buried` is a history
variable: the documents that were there when their source was disposed of.

### Connections, Credentials, OAuthTransactions

The generations of a credential are a sequence, because a new one is the latest plus
one under a lock and a unique constraint. A service that reads FOR UPDATE is one
step; a refresh, a shadow migration and the operator's change are two, because they
go by rows read before. `url` is what has become of the authorization URL: handed
out, consented to, its code spent. `Exchange` spends the code at the provider and
`Complete` commits; a callback that dies in between is rolled back and the code
stays spent. Cryptography is the status of an envelope.

### CapabilityRoutes, ProviderMirrors, WorkspaceClosure

A route's row is changed by two services: the route control records an event of the
route, the cutover one of the connection; `routeTold` and `told` are the sequences
taken. A comparison is its outcome. A mirror call holds the mirror's row, so it is
one step. A close is one step once it has the workspace's row; a writer is three:
the freeze trigger reads the status, the foreign key shares the row, the commit.

### AgentPlatform, Workflows, Tasks, Notifications

`ran` counts the calls of a step's executor and `lost` those whose transaction was
rolled back: the first has effects the database does not know of. A workflow caller
sees an instance and reports with the version it saw, late or twice. `Visits` of
`Tasks` is the cycle search with its limit; `job` holds the reminder jobs that wait with
the job service, which `schedule_reminder` enqueues and the due time takes out
(`RemindersFallDue`). `Notifications` has `Offset` for the recipient's clock; a retry
looks at no quiet period (`contracts.py:318`), and the model's does not either.

## Runs

| Run | Shows | Bounds and why they are enough |
|---|---|---|
| `jobs_lease` | rows agree (`LeaseAgreement`), outcomes belong to the attempt that reports them, cancelled work never succeeds, `LeasedWork` is implemented | two jobs, two workers, two attempts, clock to 4 with leases of 2: a worker can outlive its lease, see its job claimed by the other or by itself, and report late |
| `jobs_settle` | every job settles | three jobs of two definitions, every limit at 1 or 2 so that each is reached, one definition paused at will |
| `jobs_limits` | ceilings and quotas over every past window (`WithinLimits`), dead letters linked to their replays (`DeadLetterLinks`) | four jobs under three keys, of two definitions, for one worker with three slots: with a workspace ceiling of 2, a backlog of 3, definition ceilings of 1 and 2, and rates of 2 and 3 in a minute of two instants, each of them alone turns a call away; a letter is asked for again after its replay, with a free key, job and quota, and a replay dies and is replayed in turn |
| `messaging` | sequences count versions and audit equals outbox, `AtomicCommands` is implemented (`ImplementsAtomicCommands`), an event is applied or replayed once and in order and positions have passed what is processed (`AppliedOnceInOrder`), every command ends, `OrderedDelivery` with its fairness is implemented (`ReadsOn`) | three transactions, three keys, two aggregates: every pair of locks is contended, with a third in the queue; three events of two schema majors in any order with repetition, one failing handler |
| `memberships` | an owner remains and the trigger never refuses, `AtomicMemberships` is implemented (`ImplementsAtomicMemberships`), every transaction ends | two transactions, an owner and a user that is created or invited twice |
| `services`: sessions, custody, routes, mirrors, closing | requests use live sessions, a recovery ends the others, what is revoked is unusable, one hand-off per callback, what is shown active works, route changes and conflicts can go on, closed is closed | three sessions and two recoveries; one connection with two generations and one OAuth transaction, once with key rotation and a legacy credential; a route of each capability; one mirror with two conflicts; two closures beside two writers |
| `services`: one schedule | catch-up is complete (`CatchUpComplete`) | one schedule drawn from five requests over five local days of 3 instants (clock to 11) with a look-back of two: three days of downtime are more than the window holds, so it cuts off on either side of both changes |
| `services`: two schedules | nothing fires twice (`FireOncePerWindow`), a batch that fits the quota goes through once it is free (`FittingDispatchProceeds`) | two schedules drawn from six requests (clock to 5, `ShortClock`), both zones changing at instant 4, catch-up of 2, a dispatcher one instant behind, a quota of 2 in three instants that one schedule fills and two exceed, a backlog of 3 |
| `services`: claims | claims over batches (`FairOverBatches`) | three workspaces with every backlog of up to 3 jobs, batches of every size, a limit of 4 that running jobs reach |
| `workspace`: documents, memory, graph, search | stored content is intact and a hold keeps every object, invalidation is transitive, exclusive edges are exclusive, searches are current | two versions and two deletions of a document; three items derived from a source and each other; a contact and two companies; two generations of two sources, one of which belongs to the contact |
| `workspace`: knowledge | no shown entry rests on what a disposition invalidated, unless a relation gave it another status (`TimelineOfLivingClaims`); no claim becomes active again (`NeverActiveAgain`) | two claims of one or both of two sources, one event and one projection, three versions of a claim, one relation (`MaxRelations`): rebuilds that begin before and commit after a disposition, a relation before or after it. Further relations, and several projections with locks on each other's entries, are in the theorems only |
| `workspace`: agents, workflows, tasks, notifications | an effect repeats only after a loss, an instance's path is one its callers saw, no circles | two executions of a two-step orchestration with three keys and one loss for each step; two callers of three steps with an approval that may send back; three tasks with three versions each; one notification over two days with the spring clock change |
| `jobs_cancel_doc` | a divergence, below | one job |
| `messaging_replay_doc` | a divergence, below | as `messaging` |
| `documents_erasure_doc` | a divergence, below | one version, one deletion request |
| `oauth_callback_doc` | a divergence, below | as `services`, with two authorization decisions |
| `agents_events_doc` | a divergence, below | the agents of `workspace` alone |

In `services`, `Decision` has one value: requests of a session that carry the decision
an OAuth transaction was started with. Otherwise no callback completes (a
divergence below) and nothing that follows a completed one would be checked.

Deadlock checking is off where the instance really comes to rest: all keys used
(messaging), all versions reached (memberships), everything registered, claimed, deleted,
disposed of, closed or ended (services, workspace).

Symmetry is used in runs without liveness only. In `workspace` the identities `x1` and
`x2`, and `y1` and `y2`, stand for the interchangeable rows of every part.

The modules state further properties that no run lists. The type invariants of
`Connections`, `Documents`, `Notifications`, `Schedules`, `Tasks` and `Workflows` say
what the variables are, and hold in the runs above when added to their `INVARIANTS`;
those of `DurableJobs`, `Memberships`, `Knowledge`, `GovernedMemory`,
`IdentityLifecycle` and `AgentPlatform` are proved.

### Where code and documents differ

* `H3_IMPLEMENTATION_GUIDE.md:96` says cancellation never retries. A running job
  whose cancellation was requested and that then fails or loses its lease goes
  back to `retry_wait` and is claimed again: `fail` and `_recover_expired` do not
  look at the request (`jobs_cancel_doc`).
* `H0_FOUNDATION_SPEC.md` promises at-least-once processing. `replay` moves the
  position and marks the event processed without running a handler, so the effect
  of a replayed event never happens (`messaging_replay_doc`).
* `H3_IMPLEMENTATION_GUIDE.md:157` says a deletion verifies removal at every
  target or records an exception. `process_deletion` deletes one of the two
  objects of a version and reports completion; the other one stays where
  `promote` copied it from or, if `promote` moves, where a rolled back `verify`
  has left it (`documents_erasure_doc`).
* An OAuth callback in the session that started the transaction is refused:
  authentication draws a new authorization decision for every request, and the
  callback compares it with the one kept at the start (`oauth_callback_doc`).
* `H3_IMPLEMENTATION_GUIDE.md:996` has state and outbox evidence commit together and
  `:997` consumers go by the sequence. `start_orchestration` writes version 1 without an
  event; a consumer waits for sequence 1 (`messaging/repository.py:131`,
  `messaging/service.py:246`) and sets every event of every orchestration aside as a gap.
  `cancel` leaves a gap too (`agents_events_doc`).

Other statements of the documents that the models show not to hold. Each has a
definition in its module; to see it fail, put it in the place of the `INVARIANTS` of the
run named, with the value given.

| Definition | Run | What happens |
|---|---|---|
| `DrainedDispatchProceeds` | `services` | "Excess work receives explicit backpressure and is never silently dropped" (`H3_IMPLEMENTATION_GUIDE.md:98`): a dispatch whose catch-up schedules have more occurrences together than the quota takes at once (thirteen schedules of ten, against 120 a minute) is refused at every call, with the quota free, while the occurrences leave the catch-up window (`jobs/service.py:519`). `FittingDispatchProceeds` is what holds |
| `CumulativeFair` | `services` | "their cumulative claim counts differ by no more than one" (`H3_IMPLEMENTATION_GUIDE.md:99`, `H3_02_ACCEPTANCE_EVIDENCE.md:101`): the dispatcher remembers nothing and each batch starts with the first workspace (`jobs/dispatcher.py:22`), so with batches smaller than the number of workspaces the last ones may never get a turn. `FairOverBatches`, one claim for each batch, is what holds |
| `DisposedLeavesTimeline` | `workspace` | the disposition of a source "invalidates or removes dependent claims" and "never reports false completion" (`H3_IMPLEMENTATION_GUIDE.md:236`): `relate_claims` does not look at the status it replaces (`knowledge/service.py:184`), so a claim superseded or contradicted after its invalidation is no longer invalidated, and its entry is projected again. `TimelineOfLivingClaims` names this exception |
| `Acyclic` | `workspace`, `Limit = 1` | "Self-dependencies and directed cycles are rejected before persistence" (`H3_IMPLEMENTATION_GUIDE.md:522`): `_creates_cycle` gives up after 10 000 visited tasks and lets the dependency through (`tasks/service.py:208`) |
| `NoReminderOfEndedTask` | `workspace` | scheduling has "cancellation on terminal state" (`H3_IMPLEMENTATION_GUIDE.md:508`), "reminders after completion/cancellation are not tolerated" (`:524`), "terminal task state cancels undispatched reminders" (`H3_07_ACCEPTANCE_EVIDENCE.md:25`): `cancel_reminders` cancels rows (`tasks/repository.py:101`); the jobs still wait and are claimed at the due time |
| `NoDuplicateReminder` | `workspace` | "Duplicate reminders [...] are not tolerated" (`H3_IMPLEMENTATION_GUIDE.md:524`): the identity of a reminder has the task's version in it, which scheduling counts up, so a second call makes a second job for the same due time (`tasks/service.py:305`) |
| `QuietRespected` | `workspace`, `Offset <- Autumn` | "deterministic DST-aware deferral" (`H3_09_ACCEPTANCE_EVIDENCE.md:22`): in the second showing of the hour autumn repeats, `_quiet_end` (`notifications/contracts.py:243`) returns the first showing of the period's end, which has passed, so the notification is due at once, within the period; `tests/notifications/test_h3_09_contracts.py:73` looks at the first showing. With `Spring`, an end in the skipped hour is reckoned by the clock of before, up to an hour after the period |
| `IndependentlyDisableable` | `workspace`, `RegistryVersion = {1}` | disabling version 1 of a manifest or tool records sequence 1 again, which registration has taken (`agent_platform/service.py:161`, `:226`; `H3_IMPLEMENTATION_GUIDE.md:803`) |
| `ActivationSucceeds` | `workspace` | a registered workflow version cannot be activated (`workflows/service.py:162` against `:94`; `H3_IMPLEMENTATION_GUIDE.md:613`) |
| `OutboundRecordable` | `services` | an outbound decision records its event at a mirror version already told and is rolled back (`provider_mirrors/service.py:225`; `H2_PLATFORM_SPEC.md:520`) |
| `Completable` | `services`, `Envelope = {"none", "oauth"}` | a workspace that ever had an OAuth transaction cannot be closed: its envelope is referenced ON DELETE RESTRICT (migration 0016; `H2_09_ACCEPTANCE_EVIDENCE.md:20`) |
| `ToldOnce` | `services` | a second close under another key erases again and records a second closure event (`H1_EXIT_EVIDENCE.md:21`) |
| `ClosedIsErased` | `services` | a writer that passed the freeze before the close commits after it (`H1_09_OPERATIONS.md:70`) |
| `EdgesOfLiving` | `workspace` | `relate` accepts deleted ends (`resource_graph/service.py:130`) |
| `DisposedIsGone` | `workspace` | what is indexed after its source was disposed of is found, and disposing of it again for the same reason does nothing (`H3_IMPLEMENTATION_GUIDE.md:434`) |

A cutover records its event as the connection's next sequence without counting the
connection's version, so the next change of the connection collides with it
(`connection_cutover/service.py:236`; `H2_09_CUTOVER_OPERATIONS.md:46`). This is
`NextChangeRecordable` of `Connections`, which fails for `Email`, `Calendars` and
`Storage` of `MCServices`; for a connection that is not cut over it is proved.

### Seen while modelling

Not run as findings: each follows at once from a line, and we found no statement of the
documents against it.

* Jobs: a conflict caught inside the transaction commits an idempotency row with no
  event, and later retries of that key are refused. Two schedules sharing an idempotency prefix make every dispatch of the workspace
  fail. Policy `skip` never fires at all. Days without an occurrence count among the days
  a daily schedule looks back (`OutOfReach`), so it may catch up on fewer than ten.
* Identity: a session that a request rotates while a recovery waits is not ended. A
  link under review stays under review.
* Knowledge and graph: a claim created after its source was disposed of is never
  invalidated (`knowledge/service.py:394`). A pair of resources related once can never
  be related again; the other end of a deleted relationship gets no event.
* Search: older versions of a source stay searchable until it is disposed of; indexing
  a stale identity again returns it stale; a disabled generation cannot come back.
* Custody: a repeated start hands out a URL whose verifier is not the one kept. Rows
  that a failing call writes (a quarantined envelope, `reauthorization_required`) are
  rolled back by its own error. A shadow migration may add a usable credential to a
  revoked connection, which is why `RevokedUnusable` names it. An operator cannot
  revoke a connection without a usable latest credential. Operator and sink take their
  locks in opposite orders.
* Cutover: without a route row a cutover that is not to `legacy` raises a `TypeError`;
  denied evidence is rolled back; old samples still count after a rollback.
* Mirrors: an observation that comes late is applied late; `tombstoned_at` is never
  cleared; an applied observation leaves an open conflict open on a synced mirror.
* Closure: a legal hold cannot be released in a frozen workspace; a repeated close of
  a closed workspace is refused by its execution context; credentials are disabled
  and connections closed with no event.
* Agents and work: the registry's `enabled` is read by nothing; approval steps can be
  left without an approval; the retry of a notification may fall into a quiet period.

## Fairness

* `DurableJobs`: time passes; each worker polls (`WF` on `ClaimNext`); a
  handler ends, by outcome or by death (`WF`). Nobody is assumed to heartbeat,
  cancel, replay or resume.
* `Commands` (in `MCMessaging`): `SF` on a transaction's progress: PostgreSQL queues
  the waiters of a row lock, so one for whom the lock is free again and again gets it.
  Clients are not assumed to start anything.
* `Messaging`: each committed event is delivered to each consumer or replayed by
  an operator, as long as that would change something. The code itself retries
  nothing; this is the assumption the deployment must provide.
* `Memberships`: `SF` on acquiring a lock (queued likewise), `WF` on a
  transaction that is not waiting (it commits or raises), `WF` on the deadlock
  detector.

The other modules promise safety only: their code waits for nothing but locks of one
order, and who calls next is up to users and providers.

## Proofs

The theorems hold for any sets of jobs, keys, claims and so on, under the named
assumptions of the modules and, for each component, one that says that NULL is no row,
or that a row of one table is none of another: `NullIsNoRow`, `NoneIsApart`,
`NullIsApart`, `RowsApart`, `NothingIsApart`, `MemoryApart`, `TablesApart`,
`AbsentIsNoState`, `NoMirrorIsApart`, `RowIsNoNull`. `MemoryApart` also says that the reasons for which
a source is disposed of are not those for which an item alone is
(`governed_service.py:290`). `GraphIsClosed` says that the edges of a workflow's
definition lead to its steps or to its end, and `FewTasks` that there are no more tasks
than `Limit` (10 000), beyond which `_creates_cycle` gives up and the property with it.

About the calendar, `CalendarAssumption` of `Schedules` says that a daily schedule has
an occurrence ahead (`next_occurrence` raises when it finds none within a year) and that
no gap is so near to midnight that the next valid time is on another day.

| Module | Theorems | Argument |
|---|---|---|
| `DurableJobsProofs` | `TypeCorrect`, `LeaseAgreementHolds`, `AttemptBudgetHolds`, `AvailableBeforeDeadlineHolds`, `OutboxGaplessHolds`, `CancelledNeverSucceedsHolds`, `TerminalForeverHolds`, `LeasedWorkImplemented`, `DeadLetterLinksHolds`, `OutcomeFromItsAttemptHolds`, `WithinLimitsHolds`, `PollsSweepHolds` | one predicate of a job's rows, below |
| `CommandsProofs` | `CommandInvariant`, `OutboxCountsVersionHolds`, `OneOutcomePerKeyHolds`, `AtomicCommandsImplemented` | row locks are exclusive, so what a transaction read under its lock is still there when it commits, which is the one step of the atomic command; outbox and answers are what the idempotency rows have on record |
| `MessagingProofs` | `OutboxCountsVersionHolds`, `OneOutcomePerKeyHolds`, `AtomicCommandsImplemented`, `AppliedOnceInOrderHolds`, `NextAwaitsHolds`, `ImplementsOrderedDelivery` | a consumer's sequence is its position in a log whose length is the version: it moves by one, and for a committed event only; as no two events of an aggregate have one sequence (the audit chain names them in order), the one it moves over is the one that becomes processed (`RowsAgree`) |
| `MembershipsProofs` | `TypeCorrect`, `OwnerSurvivesCommitHolds` | every commit that can cost an owner holds the workspace's row since its check; other checked transactions are acceptances of other memberships |
| `MembershipsProofs` (invitations) | `LatestInvitationActivatesHolds`, `AtomicMembershipsImplemented` | an acceptance that passed its checks holds the token and the membership it compared, so they still match; the token of an invitation under way is new and named by nobody else; what the others checked is still so by the invariant, and a commit writes it as one step |
| `MembershipsProofs` (deadlocks) | `DeadlocksAreFoundHolds` | who holds the audit chain and waits, waits for the workspace; who holds a membership and waits, for one of the two; so every circle comes to the holder of the workspace, and back to it in two or three |
| `CustodyProofs` | `CustodyInvariant`, `ChangesAreTold`, `RevokedIsUnusable`, `HandedOffOnce`, `ShownActiveWorks` | a step either wears generations (their status only gets worse) or adds one at the end; each operation of the three modules is shown to be one of a few such changes |
| `CustodyProofs` (routes) | `RouteChangesAreTold` | no event of a route is ahead of the version of its row, which neither service ever turns back |
| `ContentProofs` (documents) | `ContentIntactHolds`, `HoldKeepsObjectsHolds`, `ErasesWhatRowsNameHolds` | only a deletion in progress takes an object out of the store, and while one is in progress its request stays accepted and neither hold nor retention can be set; meanwhile the rows stay and nothing is put, so what it has visited is empty at its end |
| `ContentProofs` (knowledge) | `KnowledgeTypeCorrect`, `TimelineOfLivingClaimsHolds`, `NeverActiveAgainHolds` | what a disposition invalidates stays so until a relation names it, and its entries are removed; a rebuild checks its input when it commits, under the audit chain, whatever it locked before; no step touches a fallen claim's status for the better |
| `ContentProofs` (graph and search) | `ExclusiveEdgesHolds`, `SearchesCurrentHolds` | a document that was buried is stale, and stale for good; an edge is only added where none is held |
| `ContentProofs` (memory) | `InvalidationIsTransitiveHolds` | a new item is derived from active ones, so from none that fell; what a disposition visits holds all that is derived from any of it |
| `ServicesProofs` (sessions) | `IdentityInvariant`, `UsedSessionsLiveHolds`, `RecoveryEndsOthersHolds` | a request keeps its session's row from its authentication on; a recovery under way has ended what its statement saw, or has it still to do |
| `ServicesProofs` (mirrors, closure) | `ConflictOnRecordHolds`, `ClosedForGoodHolds` | a state of conflict is entered with an open conflict and left when the last is resolved; a closed closure has closed the workspace, and no hold is set in one that is closed |
| `ServicesProofs` (schedules) | `FireOncePerWindowHolds`, `CatchUpCompleteHolds`, `FittingDispatchProceedsHolds` | a fire-once schedule is next due at an occurrence after all it fired; an evaluation makes a job of all that is due or nothing at all, and what is due holds the newest occurrences, below |
| `ServicesProofs` (dispatcher) | `FairBatchesHold`, `FairOverBatchesHolds` | the turns are sorted, so the claims of a workspace in a batch are its first ones; the next turn of one that has jobs left comes before another's turn after that; each batch so adds one to the distance at most |
| `WorkProofs` (agents) | `AgentsTypeCorrect`, `EffectsOncePerLossHolds` | runs, losses and receipts of a step balance, with at most one execution under way, the one that holds the orchestration's row |
| `WorkProofs` (workflows) | `PathOfSeenStepsHolds` | what a caller saw is so while the version it saw is the row's, as every transition makes the next version |
| `WorkProofs` (tasks) | `AcyclicHolds` | a circle through a new dependency would leave one among the tasks that the search visited, below |

In `DurableJobsProofs` the properties are not inductive one by one. An attempt can be
ended only if the lease agrees with it; a retry's delay exists only within the budget;
a budget is respected by `claim_next`, which never looks at it, only because
whatever waits has an attempt left. `IInv` is therefore `TypeOK` with one
predicate of a single job's rows, `RowOK`, that says all of this together. One
lemma per transformation of a row (`RecordOK`, `EndedOK`, `UnsuccessfulOK`,
`ClaimedOK`, `SweptOK`, `NewJobOK`, ...) shows that it preserves `RowOK`; one
lemma per action shows that the action only applies such transformations.
`TerminalForever` needs, beyond `IInv`, a relation `Kept` between the rows before
and after, shown transitive so that a sweep followed by a claim in one step keeps
what each keeps.

`LeasedWorkImplemented` is the refinement: each transformation of a row is, through
`WorkOf`, one move of `LeasedWork`. The sweep and the claim are one step of the
service and would be two moves of one job if the claim took what the sweep had just
returned; it never does, because retry delays are positive and the claim takes only
what is available now (`CandidateUnswept`). `DeadLetterLinksHolds` adds `LinksInv`,
which also says that an absent row is blank. `OutcomeFromItsAttemptHolds` adds
`HandlersInv` and assumes `Slots = 1`: `run_once` handles one job to its end before
the next, and a worker identity that ran two handlers could report the outcome of an
old attempt on a new one, since `_leased_job` compares identities only.

`WithinLimitsHolds` has `LimitsInv`: the table is finite, nothing in it is ahead of the
clock, and the limits hold now and over every minute up to now. The claim counts rows
before it writes one, so what it must keep is the relation `Counted` between the tables
before and after a row is changed: no new attempt, no new running job, no new row. One
lemma shows that for each transformation of a row that starts nothing; one each covers
a new row, a new attempt, and time passing, with which windows only come to end later.

`AcyclicHolds` needs no induction over paths. The visited set `V` of `_creates_cycle`
holds what each of its members depends on, and each member but the first is something
another one depends on, so a task that the search did not come upon is not in `V`. If
tasks `S` waited for each other through the new dependency, `S \cap V` would have waited
for each other before it. `InvalidationIsTransitiveHolds` is alike: `Derived` is a least
closed set, and a step is shown to keep such a set closed.

`ErasesWhatRowsNameHolds` is as much of the documented erasure as the code keeps. The run
`documents_erasure_doc` finds an object of a version left behind a completed deletion; the
theorem says that it is never the one the version's row names, so it is one that a
promotion copied or one whose row was rolled back.

`CatchUpCompleteHolds` rests on one lemma about the calendar (`DailyWindow`). Were a day
that is among the newest `CatchUp` occurrences further back than an evaluation looks,
and each of the days in between had an occurrence after it, `1..CatchUp` would inject
into fewer than `CatchUp` newer occurrences; the other case is `OutOfReach`, the
exception that the property names. For intervals and single
occurrences the evaluation takes what the calendar has. `FireOncePerWindowHolds` needs
that `NextOccurrence` is an occurrence and later than now, which is arithmetic of `\div`
for intervals and `CalendarAssumption` for days. `FittingDispatchProceedsHolds` counts
what a batch asks for: the place of an
occurrence among the newest (`Places`) is below `CatchUp`, so its requests inject into
`B \X 0..(CatchUp - 1)`.

The assumptions of `DurableJobs` are `DefinitionAssumption` (what `RetryPolicy` and
`JobDefinitionSpec` enforce: 1 to 5 attempts and a delay for each but the last),
`LimitAssumption` (limits are positive) and `IdentityAssumption` (NULL is no
identity).

Only model-checked:

* `RouteChangeRecordable` of `MCServices`, which says of three instances of `CapabilityRoutes`
  what is proved of any (`RouteChangesAreTold`).
* `ReadsOn` and everything else that must happen in the end: liveness is out of the
  prover's reach, as is `ENABLED`. What `EveryTransactionEnds` rests on besides fairness
  is proved: of the transactions under way one can always go on, or is one the database
  ends (`DeadlocksAreFoundHolds`). What `EveryJobSettles` rests on besides fairness is
  proved too: no row ever makes a sweep raise, and a poll leaves no lease that ran out and
  no job past its deadline (`PollsSweepHolds`). What `ReadsOn` rests on besides fair
  delivery and replay is proved as well: a consumer behind a log waits for one published
  event, which is absent from its inbox or set aside and open (`NextAwaitsHolds`).

## Not modelled

* Tenancy, the HTTP API, configuration and migrations: request parsing, settings and
  rows without control of their own. The triggers and constraints that matter are
  modelled with the tables they guard.
* Authorization as a function of roles, grants and conditions: pure, and tested as
  such. What its decision does to a request whose session or membership changes
  meanwhile is in `IdentityLifecycle`.
* The provider adapters under `app/integrations` and their retries (clients of
  external services), sync cursors, token and key cryptography, the hashes of the
  audit chain, access lists and ranking of a search, the contents of exports and
  manifests, templates and preferences of notifications, classifications.
* Budgets, risk ceilings and permissions of agents: they only turn calls away.
* Job rows that other services enqueue: a job's life is `DurableJobs`.

Next, in this order: the type invariants of `Documents`, `Tasks` and `Workflows` in
full; the composition of `Documents` with `DurableJobs` for deletions that are retried.

## Checking

    tlc -workers 2 -config jobs_lease.cfg MCDurableJobs.tla
    tlc -workers 2 -config jobs_settle.cfg MCDurableJobs.tla
    tlc -workers 2 -config jobs_limits.cfg MCDurableJobs.tla
    tlc -workers 2 -config jobs_cancel_doc.cfg MCDurableJobs.tla
    tlc -workers 2 -config messaging.cfg MCMessaging.tla
    tlc -workers 2 -config messaging_replay_doc.cfg MCMessaging.tla
    tlc -workers 2 -config memberships.cfg MCMemberships.tla
    tlc -workers 2 -config services.cfg MCServices.tla
    tlc -workers 2 -config oauth_callback_doc.cfg MCServices.tla
    tlc -workers 2 -config workspace.cfg MCWorkspace.tla
    tlc -workers 2 -config documents_erasure_doc.cfg MCDocuments.tla
    tlc -workers 2 -config agents_events_doc.cfg AgentPlatform.tla
    for m in *Proofs.tla; do tlapm $m; done

Each passing run takes up to three minutes on two cores. The five runs whose
names end in `_doc` are expected to find their property violated.
