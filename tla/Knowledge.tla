----------------------------- MODULE Knowledge -----------------------------
(***************************************************************************)
(* Claims extracted from document versions, the relations between them and *)
(* the timeline projected from them: KnowledgeService of                   *)
(* app/knowledge/service.py.                                               *)
(*                                                                         *)
(* A call writes the authorization decision first and so holds the audit   *)
(* chain of the workspace to its end: it is one step, and an exception     *)
(* anywhere in it leaves every row as it was.  A call that returns a row   *)
(* that exists already changes nothing and is no step.                     *)
(*                                                                         *)
(* rebuild_timeline is two steps: it locks the entries of its projection   *)
(* and decides what to remove before anything is authorized, and takes the *)
(* audit chain when it projects its first input, or never when it has      *)
(* none.  A call that has to write an entry locked so waits, and is a step *)
(* when it no longer does; when the rebuild then waits for the chain that  *)
(* the call holds, the database ends one of the two.                       *)
(***************************************************************************)
EXTENDS Integers, FiniteSets

CONSTANTS
  Claim,       \* identity digests: a subject, a predicate and a value
  Source,      \* document versions
  Event,       \* source events of the timeline
  Projection,  \* projection keys
  NoRow,       \* no row, and an entry with no claim
  MaxClaimVersion   \* bound: claims are reviewed and related below this state_version

VARIABLES
  custody,     \* custody_status of the document versions
  claim,       \* knowledge_claims with their evidence
  relation,    \* knowledge_relations
  timeline,    \* timeline_entries by source event
  checkpoint,  \* timeline_checkpoints: the source events counted and digested
  disposition, \* knowledge_source_dispositions by source version
  rebuild      \* by projection key, the rebuild in flight: its input, the entries it locked

knowledgeVars == <<custody, claim, relation, timeline, checkpoint, disposition, rebuild>>

-----------------------------------------------------------------------------
(* The tables *)

\* derivation_digest: a claim rests on some evidence.
Derivation == (SUBSET Source) \ {{}}

\* disposed: the outbox holds a knowledge.claim.invalidated of the claim.
ClaimRow == [status   : {"active", "contradicted", "superseded", "invalidated"},
             review   : {"pending", "accepted", "rejected"},
             from     : Derivation,
             version  : Nat \ {0},
             disposed : BOOLEAN]

RelationRow ==
  {r \in [type : {"contradicts", "supersedes"}, claim : Claim, other : Claim] : r.claim # r.other}

EntryRow == [status : {"active", "removed"}, claim : Claim \cup {NoRow}, key : Projection]

DispositionRow == {"pending", "completed"}

InitKnowledge ==
  /\ custody \in [Source -> {"quarantined", "verified"}]
  /\ claim = [c \in Claim |-> NoRow]
  /\ relation = {}
  /\ timeline = [e \in Event |-> NoRow]
  /\ checkpoint = [k \in Projection |-> NoRow]
  /\ disposition = [s \in Source |-> NoRow]
  /\ rebuild = [k \in Projection |-> NoRow]

-----------------------------------------------------------------------------
(* Claims *)

Verified(s) == custody[s] = "verified"

\* create_claim: a claim that exists is returned or, with another derivation, refused.
CreateClaim(c, from) ==
  /\ claim[c] = NoRow
  /\ \A s \in from : Verified(s)
  /\ claim' = [claim EXCEPT ![c] =
                 [status |-> "active", review |-> "pending", from |-> from, version |-> 1,
                  disposed |-> FALSE]]
  /\ UNCHANGED <<custody, relation, timeline, checkpoint, disposition, rebuild>>

\* _change_claim
ChangedClaim(row, status) ==
  [row EXCEPT !.status = status, !.version = @ + 1,
              !.disposed = @ \/ status = "invalidated"]

Existing == {c \in Claim : claim[c] # NoRow}

RelateClaims(r) ==
  /\ {r.claim, r.other} \subseteq Existing
  /\ r \notin relation
  /\ \A c \in {r.claim, r.other} : claim[c].version < MaxClaimVersion
  /\ relation' = relation \cup {r}
  /\ claim' = IF r.type = "contradicts"
              THEN [c \in Claim |-> IF c \in {r.claim, r.other}
                                    THEN ChangedClaim(claim[c], "contradicted") ELSE claim[c]]
              ELSE [claim EXCEPT ![r.other] = ChangedClaim(@, "superseded")]
  /\ UNCHANGED <<custody, timeline, checkpoint, disposition, rebuild>>

\* Accepting a claim settles what was said of it.
ReviewActivates(c, verdict) ==
  /\ c \in Existing
  /\ claim[c].version < MaxClaimVersion
  /\ claim' = [claim EXCEPT ![c] =
                 ChangedClaim([@ EXCEPT !.review = verdict],
                         IF verdict = "accepted" THEN "active" ELSE @.status)]
  /\ UNCHANGED <<custody, relation, timeline, checkpoint, disposition, rebuild>>

\* A review keeps the status.
Review(c, verdict) ==
  /\ c \in Existing
  /\ claim[c].version < MaxClaimVersion
  /\ claim' = [claim EXCEPT ![c] = ChangedClaim([@ EXCEPT !.review = verdict], @.status)]
  /\ UNCHANGED <<custody, relation, timeline, checkpoint, disposition, rebuild>>

\* claim(): what a reader is given.
Readable(c) ==
  /\ c \in Existing
  /\ claim[c].status # "invalidated"
  /\ \A s \in claim[c].from : Verified(s)

-----------------------------------------------------------------------------
(* The timeline *)

\* An event has one entry in all projections, and its input never changes.
Projectable(e, c) ==
  /\ c # NoRow => Readable(c)
  /\ timeline[e] # NoRow => timeline[e].claim = c

\* An entry that exists is active again, under the key it has.
Projected(e, c, k) ==
  IF timeline[e] = NoRow THEN [status |-> "active", claim |-> c, key |-> k]
                        ELSE [timeline[e] EXCEPT !.status = "active"]

\* What has a write wait: the entry is locked by a rebuild.
EntryLocked(e) == \E k \in Projection : rebuild[k] # NoRow /\ e \in rebuild[k].held

\* Setting an active entry active writes nothing.
Writes(e) == timeline[e] # NoRow /\ timeline[e].status = "removed"

Project(e, c, k) ==
  /\ Projectable(e, c)
  /\ Writes(e) => ~EntryLocked(e)
  /\ timeline' = [timeline EXCEPT ![e] = Projected(e, c, k)]
  /\ UNCHANGED <<custody, claim, relation, checkpoint, disposition, rebuild>>

EntriesUnder(k) == {e \in Event : timeline[e] # NoRow /\ timeline[e].key = k}

\* The advisory lock of the key and FOR UPDATE of its entries.
RebuildBegins(k, input) ==
  /\ rebuild[k] = NoRow
  /\ rebuild' = [rebuild EXCEPT ![k] = [input |-> input, held |-> EntriesUnder(k)]]
  /\ UNCHANGED <<custody, claim, relation, timeline, checkpoint, disposition>>

\* The input is projected in one transaction that holds the chain, and the removals are
\* committed with it.  An entry projected under the key since is not among them.
RebuildCommits(k) ==
  /\ rebuild[k] # NoRow
  /\ LET input == rebuild[k].input IN
     /\ \A e \in DOMAIN input :
          Projectable(e, input[e]) /\ (Writes(e) /\ EntryLocked(e) => e \in rebuild[k].held)
     /\ timeline' = [e \in Event |->
          IF e \in DOMAIN input THEN Projected(e, input[e], k)
          ELSE IF e \in rebuild[k].held THEN [timeline[e] EXCEPT !.status = "removed"]
          ELSE timeline[e]]
     /\ checkpoint' = [checkpoint EXCEPT ![k] = DOMAIN input]
  /\ rebuild' = [rebuild EXCEPT ![k] = NoRow]
  /\ UNCHANGED <<custody, claim, relation, disposition>>

\* An input that cannot be projected, a deadlock with a call that waits, a lost connection.
RebuildAborts(k) ==
  /\ rebuild[k] # NoRow
  /\ rebuild' = [rebuild EXCEPT ![k] = NoRow]
  /\ UNCHANGED <<custody, claim, relation, timeline, checkpoint, disposition>>

RebuildInput == UNION {[E -> Claim \cup {NoRow}] : E \in SUBSET Event}

-----------------------------------------------------------------------------
(* Source dispositions *)

\* One for each source, with a job; the source itself need not be deleted.
RequestDisposition(s) ==
  /\ disposition[s] = NoRow
  /\ disposition' = [disposition EXCEPT ![s] = "pending"]
  /\ UNCHANGED <<custody, claim, relation, timeline, checkpoint, rebuild>>

ClaimsForSource(s) == {c \in Existing : s \in claim[c].from}

\* Only the entries whose claim is still active.
ActiveEntriesOf(claims) ==
  {e \in Event : /\ timeline[e] # NoRow /\ timeline[e].claim \in claims
                 /\ claim[timeline[e].claim].status = "active"}

EntriesOf(claims) == {e \in Event : timeline[e] # NoRow /\ timeline[e].claim \in claims}

ProcessDisposition(s) ==
  /\ disposition[s] = "pending"
  /\ \A e \in EntriesOf(ClaimsForSource(s)) : ~EntryLocked(e)
  /\ claim' = [c \in Claim |->
                 IF c \in ClaimsForSource(s) /\ claim[c].status # "invalidated"
                 THEN ChangedClaim(claim[c], "invalidated") ELSE claim[c]]
  /\ timeline' = [e \in Event |-> IF e \in EntriesOf(ClaimsForSource(s))
                                  THEN [timeline[e] EXCEPT !.status = "removed"] ELSE timeline[e]]
  /\ disposition' = [disposition EXCEPT ![s] = "completed"]
  /\ UNCHANGED <<custody, relation, checkpoint, rebuild>>

\* Documents: a version is verified, rejected or deleted.
CustodyChanges(s) ==
  /\ \/ custody[s] = "quarantined" /\ custody' = [custody EXCEPT ![s] = "verified"]
     \/ custody[s] # "deleted" /\ custody' = [custody EXCEPT ![s] = "deleted"]
  /\ UNCHANGED <<claim, relation, timeline, checkpoint, disposition, rebuild>>

NextKnowledge ==
  \/ \E c \in Claim :
       \/ \E from \in Derivation : CreateClaim(c, from)
       \/ \E verdict \in {"accepted", "rejected"} : Review(c, verdict)
  \/ \E r \in RelationRow : RelateClaims(r)
  \/ \E k \in Projection :
       \/ \E e \in Event, c \in Claim \cup {NoRow} : Project(e, c, k)
       \/ \E input \in RebuildInput : RebuildBegins(k, input)
       \/ RebuildCommits(k)
       \/ RebuildAborts(k)
  \/ \E s \in Source : RequestDisposition(s) \/ ProcessDisposition(s) \/ CustodyChanges(s)

KnowledgeSpec == InitKnowledge /\ [][NextKnowledge]_knowledgeVars

-----------------------------------------------------------------------------
\* The rows are rows of their tables.
KnowledgeTypeOK ==
  /\ custody \in [Source -> {"quarantined", "verified", "deleted"}]
  /\ claim \in [Claim -> ClaimRow \cup {NoRow}]
  /\ relation \subseteq RelationRow
  /\ timeline \in [Event -> EntryRow \cup {NoRow}]
  /\ checkpoint \in [Projection -> (SUBSET Event) \cup {NoRow}]
  /\ disposition \in [Source -> DispositionRow \cup {NoRow}]
  /\ rebuild \in [Projection -> [input : RebuildInput, held : SUBSET Event] \cup {NoRow}]

\* The entries a reader of the timeline sees that rest on a claim.
Shown == {e \in Event : timeline[e] # NoRow /\ timeline[e].status = "active" /\ timeline[e].claim # NoRow}

\* Relations that gave the claim another status.
Overwritten(c) ==
  \E r \in relation : c = r.other \/ (r.type = "contradicts" /\ c = r.claim)

\* What the timeline shows rests on no claim that is invalidated, nor on one that a
\* disposition has ever invalidated, unless relate_claims gave it another status: not
\* after the claim was reviewed before its source was disposed of, and not by a rebuild
\* that began before the disposition and brings removed entries back after it.
TimelineOfLivingClaims ==
  \A e \in Shown :
    /\ claim[timeline[e].claim].status # "invalidated"
    /\ claim[timeline[e].claim].disposed => Overwritten(timeline[e].claim)

\* A claim that was contradicted, superseded or invalidated is never active
\* again, whatever is related, reviewed or disposed of in between.  (It may be
\* invalidated and then superseded: relate_claims does not look at the status.)
NeverActiveAgain ==
  [][\A c \in Claim :
       claim[c] # NoRow /\ claim[c].status # "active" => claim'[c].status # "active"]_knowledgeVars

(* What the documentation says *)

\* H3_IMPLEMENTATION_GUIDE.md: the disposition of a source invalidates the claims that
\* depend on it, and never reports false completion.  But relate_claims sets a status
\* without a look at "invalidated", and what it superseded so is projected again.
DisposedLeavesTimeline ==
  \A e \in Shown : ~claim[timeline[e].claim].disposed
=============================================================================
