---------------------------- MODULE FairDispatch ----------------------------
(***************************************************************************)
(* The order in which one process claims jobs for many workspaces:         *)
(* FairWorkspaceDispatcher.order of app/jobs/dispatcher.py, a function of  *)
(* the eligible jobs of each workspace, without state of its own.          *)
(***************************************************************************)
EXTENDS Integers, Sequences, FiniteSets, FiniteSetsExt, Functions

CONSTANTS
  Workspaces,         \* the workspaces, in the order of the caller's mapping
  OrganizationLimit,  \* running jobs of the organization (100)
  MaxEligible         \* bound: eligible jobs of one workspace

Workspace == Range(Workspaces)

ASSUME DispatchAssumption ==
  /\ Workspaces \in Seq(Workspace) /\ IsInjective(Workspaces)
  /\ OrganizationLimit \in Nat /\ MaxEligible \in Nat

Place(w) == CHOOSE i \in DOMAIN Workspaces : Workspaces[i] = w

\* The turns in which the loop offers each workspace its eligible jobs: turn
\* <<r, w>> is the r-th claim of w.
TurnsOf(counts) == {t \in (1..MaxEligible) \X Workspace : t[1] <= counts[t[2]]}

InOrder(T, Earlier(_, _)) ==
  [i \in 1..Cardinality(T) |-> CHOOSE t \in T : Cardinality({s \in T : Earlier(s, t)}) = i - 1]

TurnsByWorkspace(counts) ==
  InOrder(TurnsOf(counts), LAMBDA s, t :
            Place(s[2]) < Place(t[2]) \/ (s[2] = t[2] /\ s[1] < t[1]))

\* The loop goes round by round, and in a round takes the workspaces in the
\* order of the mapping.
Turns(counts) ==
  InOrder(TurnsOf(counts), LAMBDA s, t :
            s[1] < t[1] \/ (s[1] = t[1] /\ Place(s[2]) < Place(t[2])))

\* max(0, organization_limit - organization_running)
CapacityLeft(used) == Max({0, OrganizationLimit - used})

Order(counts, limit, used) ==
  LET turns == Turns(counts)
      taken == Min({limit, CapacityLeft(used), Len(turns)})
  IN  [i \in 1..taken |-> turns[i][2]]

-----------------------------------------------------------------------------
ClaimsOf(order, w) == Cardinality({i \in DOMAIN order : order[i] = w})

\* Every batch claims only eligible jobs, keeps the organization within its
\* limit, leaves no capacity unused while a job could have it, and is fair: a
\* workspace with jobs left over is at most one claim behind any other.
FairBatches ==
  \A counts \in [Workspace -> 0..MaxEligible],
     limit \in 0..(Len(Workspaces) * MaxEligible), used \in 0..(OrganizationLimit + 1) :
    LET order == Order(counts, limit, used)
        spare == {w \in Workspace : ClaimsOf(order, w) < counts[w]}
    IN  /\ \A w \in Workspace : ClaimsOf(order, w) \in 0..counts[w]
        /\ Len(order) \in 0..limit
        /\ order # <<>> => used + Len(order) <= OrganizationLimit
        /\ spare # {} => Len(order) = limit \/ used + Len(order) >= OrganizationLimit
        /\ \A w \in spare, v \in Workspace : ClaimsOf(order, v) <= ClaimsOf(order, w) + 1
=============================================================================
