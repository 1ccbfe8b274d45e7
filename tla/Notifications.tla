--------------------------- MODULE Notifications ---------------------------
(***************************************************************************)
(* Notification intents (NotificationService.create_intent of              *)
(* app/notifications/service.py), their quiet periods and the retries of   *)
(* their delivery (app/notifications/contracts.py).                        *)
(*                                                                         *)
(* The caller that delivers is not in the repository: what is known of it  *)
(* is that it asks decide_retry.  Instants are natural numbers; Offset     *)
(* gives the wall clock of the recipient's time zone at each of them.      *)
(***************************************************************************)
EXTENDS Integers, FiniteSets, FiniteSetsExt

CONSTANTS
  Intent,           \* deduplication keys
  IntentDigest,     \* contents an intent may have
  Offset,           \* [instant -> wall clock minus instant]
  Day,              \* length of a day
  QuietStart,
  QuietEnd,         \* the quiet period, in local time of day
  MaximumAttempts,
  RetryDelay,
  RateLimit,        \* attempts in one window
  NoValue,          \* SQL NULL
  MaxClock          \* bound: the clock stops here

VARIABLES
  clock,
  rate,             \* attempts in the window under way
  intent            \* notification_intents, with their attempts

notificationVars == <<clock, rate, intent>>

Instant == DOMAIN Offset

ASSUME NotificationAssumption ==
  /\ Day \in Nat \ {0} /\ QuietStart \in 0..(Day - 1) /\ QuietEnd \in 0..(Day - 1)
  /\ Instant \subseteq Nat /\ MaxClock \in Instant /\ \A u \in Instant : 0..u \subseteq Instant
  /\ Offset \in [Instant -> Int]

DeliveryOutcome == {"delivered", "failed", "uncertain"}

IntentRow == [digest : IntentDigest, made : Instant, due : Instant \cup {NoValue}, attempts : Nat,
              status : {"scheduled", "deferred"} \cup DeliveryOutcome]

InitNotifications == clock = 0 /\ rate = 0 /\ intent = [k \in Intent |-> NoValue]

-----------------------------------------------------------------------------
(* Quiet periods *)

Wall(u) == u + Offset[u]

Quiet(u) ==
  LET time == Wall(u) % Day
  IN  IF QuietStart > QuietEnd THEN time >= QuietStart \/ time < QuietEnd
      ELSE QuietStart <= time /\ time < QuietEnd

CrossesMidnight(u) == QuietStart > QuietEnd /\ Wall(u) % Day >= QuietStart

\* datetime.combine of a local date and time without a fold: the first instant
\* that shows it, or, in the gap of a change, with the clock of before.
Instants(wall) ==
  LET shown == {u \in Instant : Wall(u) = wall}
  IN  IF shown # {} THEN Min(shown)
      ELSE Max({u \in Instant : Wall(u) < wall}) + (wall - Wall(Max({u \in Instant : Wall(u) < wall})))

EndDate(u) == Wall(u) \div Day + (IF CrossesMidnight(u) THEN 1 ELSE 0)

QuietPeriodEnd(u) == Instants(EndDate(u) * Day + QuietEnd)

ResolveDelivery(u) == IF Quiet(u) THEN QuietPeriodEnd(u) ELSE u

-----------------------------------------------------------------------------
\* The deduplication key is unique; with the same content again, the intent is
\* returned as it is, with another content the call fails.
CreateIntent(k, content) ==
  /\ intent[k] = NoValue
  /\ intent' = [intent EXCEPT ![k] =
       [digest |-> content, made |-> clock, due |-> ResolveDelivery(clock), attempts |-> 0,
        status |-> IF Quiet(clock) THEN "deferred" ELSE "scheduled"]]
  /\ UNCHANGED <<clock, rate>>

Multiplier(attempt) ==
  LET doubled == 2 ^ (attempt - 1)
  IN  IF rate >= RateLimit THEN Max({doubled, 2}) ELSE doubled

\* decide_retry after the channel's answer; no quiet period is looked at.
DecideRetry(row, outcome, transient) ==
  IF transient /\ row.attempts < MaximumAttempts
  THEN [row EXCEPT !.status = "deferred", !.due = clock + RetryDelay * Multiplier(row.attempts)]
  ELSE [row EXCEPT !.status = outcome, !.due = NoValue]

Attempt(k, outcome, transient) ==
  LET row == [intent[k] EXCEPT !.attempts = @ + 1] IN
  /\ intent[k] # NoValue /\ intent[k].due # NoValue /\ clock >= intent[k].due
  /\ clock + RetryDelay * Multiplier(row.attempts) \in Instant
  /\ outcome = "delivered" => ~transient
  /\ intent' = [intent EXCEPT ![k] = DecideRetry(row, outcome, transient)]
  /\ rate' = Min({rate + 1, RateLimit})
  /\ UNCHANGED clock

ClockTicks == clock < MaxClock /\ clock' = clock + 1 /\ rate' = 0 /\ UNCHANGED intent

NextNotifications ==
  \/ ClockTicks
  \/ \E k \in Intent :
       \/ \E content \in IntentDigest : CreateIntent(k, content)
       \/ \E outcome \in DeliveryOutcome, transient \in BOOLEAN : Attempt(k, outcome, transient)

NotificationsSpec == InitNotifications /\ [][NextNotifications]_notificationVars

-----------------------------------------------------------------------------
\* The rows are rows of their table.
IntentsTypeOK == intent \in [Intent -> IntentRow \cup {NoValue}]

(* What the documentation says *)

\* H3_09_ACCEPTANCE_EVIDENCE.md: deferral knows about clock changes.  A notification not yet
\* attempted is due when the quiet period of its recipient's clock ends, not earlier nor
\* later.  But where a local time is shown twice the end is its first instant, which may
\* have passed, and where it is skipped the end is reckoned by the clock of before, when
\* the new one has left the period.  (Retries look at no quiet period, and no document says
\* they do.)
QuietRespected ==
  \A k \in Intent : intent[k] # NoValue /\ intent[k].attempts = 0 =>
    /\ intent[k].made <= intent[k].due
    /\ ~Quiet(intent[k].due)
    /\ \A u \in intent[k].made..(intent[k].due - 1) : Quiet(u)
=============================================================================
