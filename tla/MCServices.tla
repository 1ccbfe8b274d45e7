----------------------------- MODULE MCServices -----------------------------
(***************************************************************************)
(* Sessions, the custody of credentials, the routes of the capabilities,   *)
(* provider mirrors, the closure of a workspace, schedules and the order   *)
(* of claims in one run.  A behaviour moves one part only, chosen at its   *)
(* start.  The three capabilities have the same code three times over, so  *)
(* each is a part of its own.                                              *)
(***************************************************************************)
EXTENDS OAuthTransactions, IdentityLifecycle, ProviderMirrors, WorkspaceClosure,
        Schedules, FairClaims, TLC

CONSTANTS s1, s2, s3, x1, x2, k1, k2, w1, w2, w3,
          Decision,    \* authorization decisions of the requests of a session
          RouteVersions,
          ShortClock   \* bound: the clock of two schedules stops here

VARIABLES part,
          routed, routedGrant, routedTold,
          route, compared, reading, measured, mapped, routeTold

Contexts == [session : {"s1"}, decision : Decision]

\* The custody of a connection with keys that rotate and a legacy credential, and fewer changes.
Legacy == INSTANCE OAuthTransactions WITH MaxVersion <- 2, Source <- {"s"}, Rotation <- {"r"}

Email    == INSTANCE CapabilityRoutes WITH Integration <- {"email"}, Capability <- {"email"},
              Allowed <- {"email"}, conn <- routed, grant <- routedGrant, told <- routedTold, MaxVersion <- 3, evidence <- measured,
              MinimumSamples <- 1, MaxMismatches <- 0,
              MaxSamples <- 2, MaxRouteVersion <- RouteVersions
\* Calendar is the calendar of a schedule.
Calendars == INSTANCE CapabilityRoutes WITH Integration <- {"calendar"}, Capability <- {"calendar"},
              Allowed <- {"calendar"}, conn <- routed, grant <- routedGrant, told <- routedTold, MaxVersion <- 3, evidence <- measured,
              MinimumSamples <- 2, MaxMismatches <- 1,
              MaxSamples <- 2, MaxRouteVersion <- RouteVersions
Storage  == INSTANCE CapabilityRoutes WITH Integration <- {"storage"}, Capability <- {"storage"},
              Allowed <- {"storage"}, conn <- routed, grant <- routedGrant, told <- routedTold, MaxVersion <- 3, evidence <- measured,
              MinimumSamples <- 1, MaxMismatches <- 0,
              MaxSamples <- 1, MaxRouteVersion <- RouteVersions

-----------------------------------------------------------------------------
(* Schedules *)

\* Both zones change their clocks at instant 4: north back by an hour, south forward.
TwoZones == [north |-> [u \in 0..LastInstant |-> IF u < 4 THEN 1 ELSE 0],
             south |-> [u \in 0..LastInstant |-> IF u < 4 THEN 0 ELSE 1]]

Plain(k, p, prefix) ==
  [kind |-> k, policy |-> p, first |-> 1, interval |-> 2, hour |-> 0, zone |-> "north",
   local |-> "skip", prefix |-> prefix]

AtOne(p, z, l, prefix) ==
  [Plain("daily_local", p, prefix) EXCEPT !.first = 0, !.hour = 1, !.zone = z, !.local = l]

\* The hour is repeated in the north and skipped in the south.  Two schedules
\* may also get the same prefix, the mistake the request digest finds.
RequestsOfTwo ==
  {Plain("interval", "catch_up", "p"), Plain("once", "catch_up", "p"),
   Plain("interval", "fire_once", "q"),
   AtOne("catch_up", "north", "latest", "r"), AtOne("catch_up", "south", "next_valid", "s"),
   AtOne("fire_once", "south", "skip", "t")}

\* For one schedule over a calendar of several days.
RequestsOfOne ==
  {Plain("interval", "catch_up", "p"),
   AtOne("catch_up", "north", "earliest", "q"), AtOne("catch_up", "north", "latest", "r"),
   AtOne("catch_up", "south", "next_valid", "s"), AtOne("catch_up", "south", "skip", "t")}

AllRequests == RequestsOfOne \cup RequestsOfTwo

Among(requests) == \A a \in Schedule : schedule'[a].spec \in requests \cup {NoValue}

OneOnly == Cardinality({a \in Schedule : schedule'[a].status # "absent"}) <= 1

NextOne == NextSchedules /\ Among(RequestsOfOne) /\ OneOnly
NextTwo == NextSchedules /\ Among(RequestsOfTwo) /\ clock' <= ShortClock

ThreeWorkspaces == <<w1, w2, w3>>

-----------------------------------------------------------------------------
secrets  == <<connVars, credentialVars, oauthVars>>
changed  == <<routed, routedGrant, routedTold>>
decided  == <<route, compared, reading, measured, mapped, routeTold>>
routes   == <<changed, decided>>
timetable == <<scheduleVars, claimVars>>
mcVars   == <<part, idVars, secrets, routes, mirrorVars, closureVars, timetable>>

RouteInit ==
  CASE part = "calendar" -> Calendars!Init /\ Calendars!InitRoutes
    [] part = "storage"  -> Storage!Init /\ Storage!InitRoutes
    [] OTHER             -> Email!Init /\ Email!InitRoutes

MCInit ==
  /\ part \in {"sessions", "custody", "legacy", "email", "calendar", "storage", "mirrors", "closing",
               "one schedule", "two schedules", "claims"}
  /\ InitIdentity /\ InitMirror /\ InitClosure /\ RouteInit /\ InitSchedules /\ InitClaims
  /\ IF part = "legacy" THEN Legacy!InitCustody ELSE InitCustody
  /\ part # "claims" => eligible = [w \in Workspace |-> 0]

MCNext ==
  \/ part = "sessions" /\ NextIdentity
       /\ UNCHANGED <<part, secrets, routes, mirrorVars, closureVars, timetable>>
  \/ part = "custody" /\ NextCustody
       /\ UNCHANGED <<part, idVars, routes, mirrorVars, closureVars, timetable>>
  \/ part = "legacy" /\ Legacy!NextCustody
       /\ UNCHANGED <<part, idVars, routes, mirrorVars, closureVars, timetable>>
  \/ part = "email" /\ Email!NextRouted
       /\ UNCHANGED <<part, idVars, secrets, mirrorVars, closureVars, timetable>>
  \/ part = "calendar" /\ Calendars!NextRouted
       /\ UNCHANGED <<part, idVars, secrets, mirrorVars, closureVars, timetable>>
  \/ part = "storage" /\ Storage!NextRouted
       /\ UNCHANGED <<part, idVars, secrets, mirrorVars, closureVars, timetable>>
  \/ part = "mirrors" /\ NextMirror
       /\ UNCHANGED <<part, idVars, secrets, routes, closureVars, timetable>>
  \/ part = "closing" /\ NextClosure
       /\ UNCHANGED <<part, idVars, secrets, routes, mirrorVars, timetable>>
  \/ part = "one schedule" /\ NextOne
       /\ UNCHANGED <<part, idVars, secrets, routes, mirrorVars, closureVars, claimVars>>
  \/ part = "two schedules" /\ NextTwo
       /\ UNCHANGED <<part, idVars, secrets, routes, mirrorVars, closureVars, claimVars>>
  \/ part = "claims" /\ NextClaims
       /\ UNCHANGED <<part, idVars, secrets, routes, mirrorVars, closureVars, scheduleVars>>

MCSpec == MCInit /\ [][MCNext]_mcVars

ServicesSymmetry ==
  Permutations({s1, s2, s3}) \cup Permutations({x1, x2}) \cup Permutations({k1, k2})

\* A route has a change to record for each of its versions, whichever its capability.
RouteChangeRecordable ==
  CASE part = "email"    -> Email!RouteChangeRecordable
    [] part = "calendar" -> Calendars!RouteChangeRecordable
    [] part = "storage"  -> Storage!RouteChangeRecordable
    [] OTHER             -> TRUE
=============================================================================
