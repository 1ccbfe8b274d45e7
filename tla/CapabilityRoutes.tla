-------------------------- MODULE CapabilityRoutes --------------------------
(***************************************************************************)
(* The move of a connection's capabilities from the legacy integrations to *)
(* the canonical one: the backfill that makes the connection, the routes   *)
(* of the email, calendar and storage services, the shadow reads that      *)
(* compare the two sides, and the cutover that goes by their results.      *)
(*                                                                         *)
(* A route's row is changed FOR UPDATE by two services: the route control  *)
(* of its capability, whose event goes to the route's own aggregate, and   *)
(* the cutover, whose event goes to the connection's.  The database        *)
(* transaction of a denied cutover is rolled back, with its evidence.      *)
(***************************************************************************)
EXTENDS Connections, FiniteSetsExt

CONSTANTS
  Integration,    \* the capabilities with a route: some of email, calendar, storage
  MinimumSamples, \* CutoverThreshold.minimum_samples
  MaxMismatches,  \* ... and its rate, as mismatches allowed in the samples
  MaxSamples,     \* bound on the comparisons of a capability
  MaxRouteVersion \* bound on the version of a route

VARIABLES
  route,     \* the capability's route row
  compared,  \* its shadow comparisons
  reading,   \* capabilities with a shadow read under way
  evidence,  \* capability_cutover_evidence
  mapped,    \* connection_backfill_evidence, by the plan that mapped the source
  routeTold  \* sequences of the route's own events

routeVars == <<route, compared, reading, evidence, mapped, routeTold>>

CapabilityRoute == {"legacy", "shadow", "canonical"}

RouteRow ==
  [read : CapabilityRoute, mutation : {"legacy", "canonical"}, version : 1..MaxRouteVersion]

ShadowMetrics == [samples : 0..MaxSamples, matches : 0..MaxSamples]

InitRoutes ==
  /\ route = [c \in Integration |-> None]
  /\ compared = [c \in Integration |-> [samples |-> 0, matches |-> 0]]
  /\ reading = {}
  /\ evidence = {}
  /\ mapped = [c \in Integration |-> None]
  /\ routeTold = [c \in Integration |-> {}]

-----------------------------------------------------------------------------
(* Backfill *)

\* A plan names its sources and whether all their credentials are eligible.
Plan == [sources : (SUBSET Integration) \ {{}}, eligible : BOOLEAN]

\* A source mapped by another plan is a replay that does not match: rolled back.
Maps(plan) ==
  /\ \A c \in plan.sources : mapped[c] \in {None, plan}
  /\ mapped' = [c \in Integration |-> IF c \in plan.sources THEN plan ELSE mapped[c]]

\* The connection's identity comes of the account: the first plan makes it, with the
\* plan's grants, and moves it on at once; later plans find it.
Backfill(plan) ==
  /\ Maps(plan)
  /\ \/ /\ Created(plan.sources)
        /\ conn' = [status |-> IF plan.eligible THEN "active" ELSE "reauthorization_required",
                    version |-> 2]
        /\ told' = {1, 2}
     \/ conn # None /\ UNCHANGED connVars
  /\ UNCHANGED <<route, compared, reading, evidence, routeTold>>

-----------------------------------------------------------------------------
(* Reads *)

\* No row: legacy.
ReadRoute(c) == IF route[c] = None THEN "legacy" ELSE route[c].read

\* The route is read without a lock; then both sides are asked, which takes time.
StartShadowRead(c) ==
  /\ conn # None
  /\ ReadRoute(c) = "shadow"
  /\ c \notin reading
  /\ reading' = reading \cup {c}
  /\ UNCHANGED <<connVars, route, compared, evidence, mapped, routeTold>>

RecordComparison(c, equivalent) ==
  /\ c \in reading
  /\ compared[c].samples < MaxSamples
  /\ reading' = reading \ {c}
  /\ compared' = [compared EXCEPT ![c].samples = @ + 1,
                                  ![c].matches = IF equivalent THEN @ + 1 ELSE @]
  /\ UNCHANGED <<connVars, route, evidence, mapped, routeTold>>

\* One of the two sides fails.
FailRead(c) ==
  /\ c \in reading
  /\ reading' = reading \ {c}
  /\ UNCHANGED <<connVars, route, compared, evidence, mapped, routeTold>>

-----------------------------------------------------------------------------
(* Route control: no evidence is asked for *)

ControlledRow(c, r) ==
  IF route[c] = None THEN [read |-> r, mutation |-> "legacy", version |-> 1]
  ELSE [route[c] EXCEPT !.read = r, !.version = @ + 1]

SetRoute(c, r) ==
  LET row == ControlledRow(c, r)
  IN /\ conn # None
     /\ ReadRoute(c) # r
     /\ row.version <= MaxRouteVersion
     /\ row.version \notin routeTold[c]
     /\ route' = [route EXCEPT ![c] = row]
     /\ routeTold' = [routeTold EXCEPT ![c] = @ \cup {row.version}]
     /\ UNCHANGED <<connVars, compared, reading, evidence, mapped>>

SetEmailRoute(r)    == "email" \in Integration /\ SetRoute("email", r)
SetCalendarRoute(r) == "calendar" \in Integration /\ SetRoute("calendar", r)
SetStorageRoute(r)  == "storage" \in Integration /\ SetRoute("storage", r)

-----------------------------------------------------------------------------
(* Cutover *)

Ready(m) == m.samples >= MinimumSamples /\ m.samples - m.matches <= MaxMismatches

\* require_transition: only the canonical side has to be deserved, and a read has to
\* have been a shadow one before.
TransitionAllowed(c, kind, r) ==
  r = "canonical" =>
    /\ kind = "read" => ReadRoute(c) # "legacy"
    /\ Ready(compared[c])

\* As a bug: the change replaces the row, whose version starts again.
CutoverFreshRow(c, kind, r) ==
  IF route[c] = None THEN [read |-> "legacy", mutation |-> "legacy", version |-> 1]
  ELSE [route[c] EXCEPT ![kind] = r, !.version = 1]

\* Its row has no version until it is inserted, so a change of a capability without a
\* row cannot be made (a new row, or none, with the route that it has anyway can).
CutoverRow(c, kind, r) ==
  IF route[c] = None THEN [read |-> "legacy", mutation |-> "legacy", version |-> 1]
  ELSE IF route[c][kind] = r THEN route[c]
  ELSE [route[c] EXCEPT ![kind] = r, !.version = @ + 1]

HasRowFor(c, r) == route[c] # None \/ r = "legacy"

\* The event of the highest sequence of the connection so far, and one.
NextSequence == Max(told) + 1

Cutover(c, kind, r) ==
  LET row == CutoverRow(c, kind, r)
  IN /\ conn # None
     /\ kind = "mutation" => r # "shadow"
     /\ TransitionAllowed(c, kind, r)
     /\ HasRowFor(c, r)
     /\ row.version <= MaxRouteVersion
     /\ route' = [route EXCEPT ![c] = row]
     /\ evidence' = evidence \cup {[capability |-> c, kind |-> kind, route |-> r, metrics |-> compared[c]]}
     /\ NextSequence <= MaxVersion + 1
     /\ told' = told \cup {NextSequence}
     /\ UNCHANGED <<conn, grant, compared, reading, mapped, routeTold>>

NextRoutes ==
  \/ \E plan \in Plan : Backfill(plan)
  \/ \E c \in Integration :
       \/ StartShadowRead(c) \/ FailRead(c)
       \/ \E equivalent \in BOOLEAN : RecordComparison(c, equivalent)
       \/ \E kind \in {"read", "mutation"}, r \in CapabilityRoute : Cutover(c, kind, r)
  \/ \E r \in CapabilityRoute : SetEmailRoute(r) \/ SetCalendarRoute(r) \/ SetStorageRoute(r)

\* The backfill makes the connection; afterwards that changes in its own way.
NextRouted == NextRoutes \/ (Change /\ UNCHANGED routeVars)

RoutesSpec == Init /\ InitRoutes /\ [][NextRouted]_<<connVars, routeVars>>

-----------------------------------------------------------------------------
(* Properties *)

\* The two services that change a route's row do not get into each other's way: the
\* sequence of the route's next own event is free.
RouteChangeRecordable ==
  \A c \in Integration : route[c] # None => route[c].version + 1 \notin routeTold[c]
=============================================================================
