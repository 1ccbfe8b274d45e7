----------------------------- MODULE Schedules -----------------------------
(***************************************************************************)
(* Scheduled work of one workspace: due_occurrences and next_occurrence of *)
(* app/jobs/contracts.py and the schedule operations of                    *)
(* app/jobs/service.py.                                                    *)
(*                                                                         *)
(* dispatch_due_schedules evaluates every due schedule and enqueues its    *)
(* jobs in one transaction: one refused enqueue takes all of it back.  The *)
(* jobs are seen from here as rows under idempotency keys that end some    *)
(* time later; their own life is module DurableJobs.                       *)
(*                                                                         *)
(* Instants are natural numbers.  Offset gives the wall clock of each time *)
(* zone at each instant, so a jump of Offset is the start or the end of    *)
(* summer time there.                                                      *)
(***************************************************************************)
EXTENDS Integers, Sequences, FiniteSets, FiniteSetsExt, Functions

CONSTANTS
  Schedule,       \* schedule identities
  NoValue,        \* SQL NULL
  ClientSpec,     \* the ScheduleSpecs clients register, with their prefixes
  Offset,         \* [zone -> [instant -> wall clock minus instant]]
  Day,            \* length of a local day
  MaxShift,       \* how far next_valid looks past a gap (180 minutes)
  CatchUp,        \* occurrences of one evaluation (10)
  Batch,          \* schedules of one dispatch (100)
  BacklogLimit,   \* unfinished jobs of the workspace (10 000)
  EnqueueLimit,   \* jobs accepted within Minute (120)
  Minute,         \* length of the rolling window
  Skew,           \* how far the clock of a dispatcher may be behind
  LastInstant,    \* bound: the calendar ends here
  MaxClock,       \* bound: the clock stops here
  MaxScheduleVersion  \* bound: no pause or resume beyond it

Zone == DOMAIN Offset
Instant == 0..LastInstant

\* ScheduleSpec and DailySchedule; hour and local matter to daily schedules
\* only, interval to those of kind interval.
ScheduleSpec ==
  [kind : {"once", "interval", "daily_local"}, policy : {"skip", "fire_once", "catch_up"},
   first : Instant, interval : Nat \ {0}, hour : 0..(Day - 1), zone : Zone,
   local : {"skip", "next_valid", "earliest", "latest"}, prefix : STRING]

ASSUME ScheduleAssumption ==
  /\ LastInstant \in Nat /\ MaxClock \in Instant
  /\ Offset \in [Zone -> [Instant -> Int]]
  /\ ClientSpec \subseteq ScheduleSpec
  /\ Day \in Nat \ {0} /\ CatchUp \in Nat \ {0} /\ Batch \in Nat \ {0} /\ Skew \in Nat
  /\ BacklogLimit \in Nat /\ EnqueueLimit \in Nat /\ IsFiniteSet(Schedule)

VARIABLES
  clock,      \* the instant it is
  schedule,   \* job_schedules and the outbox rows of each schedule
  job         \* job_instances by idempotency key

scheduleVars == <<clock, schedule, job>>

-----------------------------------------------------------------------------
(* Occurrences (contracts.py) *)

Wall(z, u) == u + Offset[z][u]

DayOf(z, u) == Wall(z, u) \div Day

\* The instants at which clocks on the wall show w: none in the gap when
\* summer time starts, two in the overlap when it ends.
Showing(z, w) == {u \in Instant : Wall(z, u) = w}

\* The occurrence of a daily schedule on local day d, if the day has one.
ResolveLocal(p, d) ==
  LET wanted == d * Day + p.hour
      exact  == Showing(p.zone, wanted)
      shifts == {n \in 1..MaxShift : Showing(p.zone, wanted + n) # {}}
  IN  CASE exact # {} /\ p.local = "latest" -> {Max(exact)}
        [] exact # {} /\ p.local # "latest" -> {Min(exact)}
        [] exact = {} /\ p.local = "next_valid" /\ shifts # {} ->
             {Min(Showing(p.zone, wanted + Min(shifts)))}
        [] OTHER -> {}

\* A daily schedule has an occurrence ahead (next_occurrence raises when it finds none in
\* a year), no gap is so near to midnight that its next valid time is another day's, and
\* no change of the clocks puts the date back.
ASSUME CalendarAssumption ==
  \A p \in ClientSpec : p.kind = "daily_local" =>
    /\ \A after \in 0..MaxClock : \E u \in after..LastInstant :
         \E v \in ResolveLocal(p, DayOf(p.zone, u)) : v >= p.first /\ v > after
    /\ \A u, v \in Instant : \A d \in DayOf(p.zone, u)..DayOf(p.zone, v) :
         \A w \in ResolveLocal(p, d) : DayOf(p.zone, w) = d
    /\ \A u, v \in Instant : u <= v => DayOf(p.zone, u) <= DayOf(p.zone, v)

Newest(n, S) == {u \in S : Cardinality({v \in S : v > u}) < n}

Every(p, now) == {u \in p.first..now : (u - p.first) % p.interval = 0}

Daily(p, now, days) == (UNION {ResolveLocal(p, d) : d \in days}) \cap (p.first..now)

\* Today's occurrence may be ahead, which this window takes for one of CatchUp.
AllDueShortWindow(p, now) ==
  IF p.first > now THEN {}
  ELSE CASE p.kind = "once"        -> {p.first}
         [] p.kind = "interval"    -> Newest(CatchUp, Every(p, now))
         [] p.kind = "daily_local" ->
              LET today == DayOf(p.zone, now)
                  back  == Max({DayOf(p.zone, p.first), today - CatchUp + 1})
              IN  Newest(CatchUp, Daily(p, now, back..today))

\* A daily schedule looks back one local day further than it may catch up:
\* today's occurrence may still be ahead.
AllDue(p, now) ==
  IF p.first > now THEN {}
  ELSE CASE p.kind = "once"        -> {p.first}
         [] p.kind = "interval"    -> Newest(CatchUp, Every(p, now))
         [] p.kind = "daily_local" ->
              LET today == DayOf(p.zone, now)
                  back  == Max({DayOf(p.zone, p.first), today - CatchUp})
              IN  Newest(CatchUp, Daily(p, now, back..today))

DueOccurrences(p, now) ==
  CASE AllDue(p, now) = {} \/ p.policy = "skip" -> {}
    [] AllDue(p, now) # {} /\ p.policy = "fire_once" -> {now}
    [] AllDue(p, now) # {} /\ p.policy = "catch_up"  -> AllDue(p, now)

NextOccurrenceInclusive(p, after) ==
  CASE p.kind = "once"     -> IF p.first >= after THEN p.first ELSE NoValue
    [] p.kind = "interval" -> IF after < p.first THEN p.first
                              ELSE p.first + ((after - p.first) \div p.interval) * p.interval
    [] OTHER -> Min((UNION {ResolveLocal(p, d) : d \in {DayOf(p.zone, u) : u \in Instant}})
                      \cap {u \in Instant : u >= p.first /\ u >= after})

\* The first instant strictly after `after`, NoValue when a schedule is over.
NextOccurrence(p, after) ==
  CASE p.kind = "once"     -> IF p.first > after THEN p.first ELSE NoValue
    [] p.kind = "interval" -> IF after < p.first THEN p.first
                              ELSE p.first + ((after - p.first) \div p.interval + 1) * p.interval
    [] p.kind = "daily_local" ->
         Min((UNION {ResolveLocal(p, d) : d \in {DayOf(p.zone, u) : u \in after..LastInstant}})
               \cap {u \in Instant : u >= p.first /\ u > after})

-----------------------------------------------------------------------------
AbsentSchedule ==
  [status |-> "absent", spec |-> NoValue, next |-> NoValue, last |-> NoValue,
   version |-> 0, published |-> <<>>]

InitSchedules ==
  /\ clock = 0
  /\ schedule = [s \in Schedule |-> AbsentSchedule]
  /\ job = [k \in {} |-> NoValue]

\* state_version += 1 and _record: the event carries the new version.
Record(r) == [r EXCEPT !.version = @ + 1, !.published = Append(@, r.version + 1)]

RegisterSchedule(s, p) ==
  /\ schedule[s].status = "absent"
  /\ schedule' = [schedule EXCEPT
       ![s] = Record([@ EXCEPT !.status = "active", !.spec = p, !.next = p.first])]
  /\ UNCHANGED <<clock, job>>

SetPaused(s, paused, expectedVersion) ==
  /\ schedule[s].status \in {"active", "paused"}
  /\ schedule[s].version = expectedVersion
  /\ expectedVersion < MaxScheduleVersion
  /\ schedule' = [schedule EXCEPT
       ![s] = Record([@ EXCEPT !.status = IF paused THEN "paused" ELSE "active"])]
  /\ UNCHANGED <<clock, job>>

-----------------------------------------------------------------------------
(* dispatch_due_schedules *)

Due(now) == {s \in Schedule : schedule[s].status = "active" /\ schedule[s].next <= now}

\* ORDER BY next_due_at LIMIT Batch.
Batches(now) ==
  {B \in SUBSET Due(now) :
     /\ Cardinality(B) = Min({Batch, Cardinality(Due(now))})
     /\ \A s \in B, t \in Due(now) \ B : schedule[s].next <= schedule[t].next}

Requests(B, now) ==
  UNION {{[key |-> <<schedule[s].spec.prefix, u>>, cause |-> s] :
            u \in DueOccurrences(schedule[s].spec, now)} : s \in B}

\* The digest of a request holds the schedule it comes from, so a key that
\* two schedules use makes enqueue raise.
SameRequest(asked) ==
  /\ \A q \in asked : q.key \in DOMAIN job => job[q.key].cause = q.cause
  /\ \A p, q \in asked : p.key = q.key => p = q

Unfinished == {k \in DOMAIN job : job[k].status = "live"}

AcceptedSince(now) == {k \in DOMAIN job : job[k].createdAt > now - Minute}

QuotaLeftStrict(new, now) ==
  new # {} => /\ Cardinality(Unfinished) + Cardinality(new) < BacklogLimit
              /\ Cardinality(AcceptedSince(now)) + Cardinality(new) < EnqueueLimit

\* Every enqueue counts the jobs it finds, those of its own transaction too.
QuotaLeft(new, now) ==
  new # {} => /\ Cardinality(Unfinished) + Cardinality(new) <= BacklogLimit
              /\ Cardinality(AcceptedSince(now)) + Cardinality(new) <= EnqueueLimit

Evaluated(r, now) ==
  LET following == NextOccurrence(r.spec, now)
  IN  IF following = NoValue
      THEN Record([r EXCEPT !.last = now, !.status = "completed"])
      ELSE Record([r EXCEPT !.last = now, !.next = following])

New(asked) == {q \in asked : q.key \notin DOMAIN job}

\* No enqueue of the transaction raises.
NoneRefused(B, now) ==
  LET asked == Requests(B, now)
  IN  SameRequest(asked) /\ QuotaLeft(New(asked), now)

Dispatch(now) ==
  \E B \in Batches(now) \ {{}} :
    LET new == New(Requests(B, now))
    IN  /\ NoneRefused(B, now)
        /\ job' = [k \in DOMAIN job \cup {q.key : q \in new} |->
                     IF k \in DOMAIN job THEN job[k]
                     ELSE [cause |-> (CHOOSE q \in new : q.key = k).cause,
                           createdAt |-> now, status |-> "live"]]
        /\ schedule' = [s \in Schedule |->
                          IF s \in B THEN Evaluated(schedule[s], now) ELSE schedule[s]]
        /\ UNCHANGED clock

\* The job reaches one of its terminal states.
JobEnds(k) ==
  /\ job[k].status = "live"
  /\ job' = [job EXCEPT ![k].status = "done"]
  /\ UNCHANGED <<clock, schedule>>

Tick ==
  /\ clock < MaxClock
  /\ clock' = clock + 1
  /\ UNCHANGED <<schedule, job>>

NextSchedules ==
  \/ \E s \in Schedule, p \in ClientSpec : RegisterSchedule(s, p)
  \/ \E s \in Schedule, paused \in BOOLEAN, v \in 1..MaxScheduleVersion : SetPaused(s, paused, v)
  \/ \E now \in Max({0, clock - Skew})..clock : Dispatch(now)
  \/ \E k \in DOMAIN job : JobEnds(k)
  \/ Tick

SchedulesSpec == InitSchedules /\ [][NextSchedules]_scheduleVars

-----------------------------------------------------------------------------
(* Types *)

ScheduleRow ==
  [status : {"absent", "active", "paused", "completed"}, spec : ClientSpec \cup {NoValue},
   next : Instant \cup {NoValue}, last : Instant \cup {NoValue}, version : Nat,
   published : Seq(Nat)]

\* The rows hold what their columns allow: next_due_at is never NULL, and the
\* events of a schedule are numbered by its state_version.
SchedulesTypeOK ==
  /\ clock \in 0..MaxClock
  /\ schedule \in [Schedule -> ScheduleRow]
  /\ \A s \in Schedule :
       /\ schedule[s].status # "absent" => NoValue \notin {schedule[s].spec, schedule[s].next}
       /\ schedule[s].published = [i \in 1..schedule[s].version |-> i]
  /\ DOMAIN job \subseteq STRING \X Instant
  /\ Range(job) \subseteq [cause : Schedule, createdAt : Nat, status : {"live", "done"}]

-----------------------------------------------------------------------------
(* Safety *)

JobsOf(s) == {k \in DOMAIN job : job[k].cause = s}

Registered == {s \in Schedule : schedule[s].status # "absent"}

\* Every occurrence of p up to now, by the calendar alone.
Calendar(p, now) ==
  CASE p.kind = "once"     -> {p.first} \cap 0..now
    [] p.kind = "interval" -> {u \in p.first..now : (u - p.first) % p.interval = 0}
    [] OTHER -> Daily(p, now, {DayOf(p.zone, u) : u \in Instant})

\* A local day between that of u and that of now has no occurrence, and u is earlier than
\* the CatchUp days before that of now.
OutOfReach(p, u, now) ==
  /\ p.kind = "daily_local"
  /\ \E d \in (DayOf(p.zone, u) + 1)..(DayOf(p.zone, now) - 1) : ResolveLocal(p, d) = {}
  /\ DayOf(p.zone, u) < DayOf(p.zone, now) - CatchUp

\* However long the scheduler was down, paused or refused by a quota, the newest CatchUp
\* occurrences before the last evaluation of a catch-up schedule each have a job of that
\* schedule, over changes of summer time too.  Where such a change took a daily schedule's
\* hour away it may be fewer: an evaluation does not look past the CatchUp days before today.
CatchUpComplete ==
  \A s \in Registered :
    LET r == schedule[s] IN
    r.spec.policy = "catch_up" /\ r.last # NoValue =>
      \A u \in Newest(CatchUp, Calendar(r.spec, r.last)) :
        <<r.spec.prefix, u>> \in JobsOf(s) \/ OutOfReach(r.spec, u, r.last)

\* No occurrence fires twice, whatever clocks the dispatchers read and whatever was
\* paused in between.  A fire-once schedule makes one job for all it missed: between two
\* of its jobs there is an occurrence.  A daily schedule makes one job for a local day,
\* also on the day an hour is repeated.
FireOncePerWindow ==
  \A s \in Registered :
    LET p == schedule[s].spec IN
    /\ p.policy = "fire_once" =>
         \A j, k \in JobsOf(s) : j[2] < k[2] => \E u \in Calendar(p, k[2]) : j[2] < u
    /\ p.kind = "daily_local" /\ p.policy = "catch_up" =>
         \A j, k \in JobsOf(s) : DayOf(p.zone, j[2]) = DayOf(p.zone, k[2]) => j = k

\* Earlier jobs have ended, the minute is over, and no two schedules share a prefix.
Drained ==
  /\ Unfinished = {} /\ AcceptedSince(clock) = {}
  /\ \A s, r \in Registered : schedule[s].spec.prefix = schedule[r].spec.prefix => s = r

\* A dispatch is all or nothing, and whatever piled up while it was refused or nobody
\* called, one of few enough schedules goes through in the end: their batch is refused
\* only as long as earlier jobs fill a quota, or by a shared prefix.
FittingDispatchProceeds ==
  Drained =>
    \A B \in Batches(clock) :
      Cardinality(B) * CatchUp <= Min({BacklogLimit, EnqueueLimit}) => NoneRefused(B, clock)

(* What the documentation says *)

\* H3_IMPLEMENTATION_GUIDE.md: excess work receives backpressure and is never dropped, so
\* what a quota refuses goes through once the quota is free again.  A dispatch of more
\* catch-up schedules than the quota takes at once is refused at every call, while their
\* occurrences leave the window of catch-up one by one.
DrainedDispatchProceeds ==
  Drained /\ Due(clock) # {} => \E B \in Batches(clock) \ {{}} : NoneRefused(B, clock)
=============================================================================
