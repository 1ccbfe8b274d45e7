---------------------------- MODULE FairClaims ----------------------------
(***************************************************************************)
(* Claims of an organization's workers over many batches.  Each batch asks *)
(* FairWorkspaceDispatcher.order once, with the jobs then eligible and     *)
(* then running, and claims in the order it gets; the dispatcher remembers *)
(* nothing from batch to batch.  src/ calls it from tests only, so the     *)
(* loop around it is as its arguments and tests/jobs say.  The workspaces  *)
(* work off a backlog; work that arrives meanwhile would only prolong it.  *)
(***************************************************************************)
EXTENDS FairDispatch

VARIABLES
  eligible,  \* eligible jobs of each workspace
  claimed,   \* jobs of each workspace claimed so far
  running,   \* running jobs of the organization
  batches    \* batches that claimed something

claimVars == <<eligible, claimed, running, batches>>

InitClaims ==
  /\ eligible \in [Workspace -> 0..MaxEligible]
  /\ claimed = [w \in Workspace |-> 0]
  /\ running = 0
  /\ batches = 0

ClaimBatch(limit) ==
  LET order == Order(eligible, limit, running)
  IN  /\ order # <<>>
      /\ eligible' = [w \in Workspace |-> eligible[w] - ClaimsOf(order, w)]
      /\ claimed'  = [w \in Workspace |-> claimed[w] + ClaimsOf(order, w)]
      /\ running'  = running + Len(order)
      /\ batches'  = batches + 1

ClaimedEnds ==
  /\ running > 0
  /\ running' = running - 1
  /\ UNCHANGED <<eligible, claimed, batches>>

NextClaims ==
  \/ \E limit \in 1..(Len(Workspaces) * MaxEligible) : ClaimBatch(limit)
  \/ ClaimedEnds

ClaimsSpec == InitClaims /\ [][NextClaims]_claimVars

-----------------------------------------------------------------------------
\* Over any batches of any sizes, a workspace with jobs left is behind another by one
\* claim for each batch at most, and the organization never runs more than its limit.
FairOverBatches ==
  /\ running <= OrganizationLimit
  /\ \A v, w \in Workspace : eligible[w] > 0 => claimed[v] <= claimed[w] + batches

(* What the documentation says *)

\* H3_IMPLEMENTATION_GUIDE.md: while workspaces remain eligible, their cumulative claim
\* counts differ by no more than one.  Each batch starts with the first workspace again.
CumulativeFair ==
  \A v, w \in Workspace : eligible[v] > 0 /\ eligible[w] > 0 => claimed[v] <= claimed[w] + 1
=============================================================================
