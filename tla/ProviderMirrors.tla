-------------------------- MODULE ProviderMirrors --------------------------
(***************************************************************************)
(* The mirror of one external resource: ProviderMirrorService of           *)
(* app/provider_mirrors/service.py.  Mirrors share no row.                 *)
(*                                                                         *)
(* Every call locks the mirror's row, so it is one step (a resolution      *)
(* locks the conflict first, which no other call writes).  A call whose    *)
(* idempotency key has a comparison is answered from it and changes        *)
(* nothing; keys are locked, so a call is made once, and the comparisons,  *)
(* which nothing else reads, are left out.  An event takes the mirror's    *)
(* version as its sequence, and a call that cannot record its event is     *)
(* rolled back: no step.                                                   *)
(***************************************************************************)
EXTENDS Integers

CONSTANTS
  Version,           \* provider versions
  Hash,              \* normalized hashes
  Reference,         \* canonical references
  NoMirror,
  MaxMirrorVersion,  \* bound: a mirror is changed below this version
  MaxConflicts       \* bound on the conflicts of a mirror

VARIABLES
  mirror,     \* the mirror
  reference,  \* the canonical reference it is linked to
  conflict,   \* its conflicts, in the order they were detected: their status
  mirrorTold  \* sequences of its outbox events

mirrorVars == <<mirror, reference, conflict, mirrorTold>>

AuthorityPolicy == {"provider_authoritative", "atlas_authoritative", "user_resolved", "mergeable"}

\* The state "deleted" is written by no code.
MirrorRow ==
  [version : 1..MaxMirrorVersion, provider : Version, hash : Hash, authority : AuthorityPolicy,
   state : {"synced", "conflict", "tombstoned"}]

Observation == [provider : Version, hash : Hash, deleted : BOOLEAN]

InitMirror ==
  /\ mirror = NoMirror
  /\ reference = NoMirror
  /\ conflict = [n \in 1..MaxConflicts |-> NoMirror]
  /\ mirrorTold = {}

-----------------------------------------------------------------------------
(* Decisions *)

InboundDecision(o) ==
  CASE o.deleted -> "tombstone"
    [] ~o.deleted /\ o.provider = mirror.provider ->
         IF o.hash = mirror.hash THEN "no_change" ELSE "conflict"
    [] OTHER -> IF mirror.authority = "provider_authoritative" THEN "apply" ELSE "conflict"

OutboundDecision(expected) ==
  CASE mirror.authority = "provider_authoritative" -> "deny"
    [] mirror.authority # "provider_authoritative" /\ expected # mirror.provider -> "refresh_required"
    [] OTHER -> "permit"

-----------------------------------------------------------------------------
(* Rows *)

MirrorRecordable(sequence) == sequence \notin mirrorTold

SaveMirror(row) ==
  /\ row.version <= MaxMirrorVersion
  /\ MirrorRecordable(row.version)
  /\ mirror' = row
  /\ mirrorTold' = mirrorTold \cup {row.version}

Applied(o) ==
  [mirror EXCEPT !.provider = o.provider, !.hash = o.hash, !.version = @ + 1,
                 !.state = IF o.deleted THEN "tombstoned" ELSE "synced"]

InConflict == [mirror EXCEPT !.state = "conflict", !.version = @ + 1]

Unused(n) == conflict[n] = NoMirror /\ \A i \in 1..n - 1 : conflict[i] # NoMirror

OpenConflict == \E n \in DOMAIN conflict : conflict[n] = "open"

\* As a bug: any conflict that the mirror ever had is found.
AnyConflict == \E n \in DOMAIN conflict : conflict[n] # NoMirror

KnownConflict == OpenConflict

\* _ensure_conflict: one that is open is kept as it is.
EnsureConflict ==
  IF KnownConflict THEN UNCHANGED conflict
  ELSE \E n \in DOMAIN conflict : Unused(n) /\ conflict' = [conflict EXCEPT ![n] = "open"]

-----------------------------------------------------------------------------
(* Calls *)

ObserveNew(o, authority) ==
  /\ mirror = NoMirror
  /\ SaveMirror([version |-> 1, provider |-> o.provider, hash |-> o.hash, authority |-> authority,
           state |-> IF o.deleted THEN "tombstoned" ELSE "synced"])
  /\ UNCHANGED <<reference, conflict>>

\* An observation without change only leaves its comparison.
Observe(o) ==
  /\ mirror # NoMirror
  /\ \/ /\ InboundDecision(o) \in {"apply", "tombstone"}
        /\ SaveMirror(Applied(o))
        /\ UNCHANGED conflict
     \/ /\ InboundDecision(o) = "conflict"
        /\ SaveMirror(InConflict)
        /\ EnsureConflict
  /\ UNCHANGED reference

\* Every decision is told, also one that leaves the mirror and its version as they are.
DecideOutbound(expected) ==
  LET refused == OutboundDecision(expected) = "refresh_required"
  IN /\ mirror # NoMirror
     /\ SaveMirror(IF refused THEN InConflict ELSE mirror)
     /\ IF refused THEN EnsureConflict ELSE UNCHANGED conflict
     /\ UNCHANGED reference

LinkCanonical(r) ==
  /\ mirror # NoMirror
  /\ reference = NoMirror
  /\ reference' = r
  /\ SaveMirror([mirror EXCEPT !.version = @ + 1])
  /\ UNCHANGED conflict

\* The hash is the caller's, and the provider's version stays.
ResolveConflict(n, hash) ==
  /\ conflict[n] = "open"
  /\ conflict' = [conflict EXCEPT ![n] = "resolved"]
  /\ SaveMirror([mirror EXCEPT !.hash = hash, !.authority = "user_resolved", !.state = "synced",
                         !.version = @ + 1])
  /\ UNCHANGED reference

NextMirror ==
  \/ \E o \in Observation :
       Observe(o) \/ \E authority \in AuthorityPolicy : ObserveNew(o, authority)
  \/ \E expected \in Version : DecideOutbound(expected)
  \/ \E r \in Reference : LinkCanonical(r)
  \/ \E n \in DOMAIN conflict, hash \in Hash : ResolveConflict(n, hash)

MirrorSpec == InitMirror /\ [][NextMirror]_mirrorVars

-----------------------------------------------------------------------------
(* Properties *)

\* A mirror in conflict has a conflict that a user can resolve, however often its
\* conflicts were resolved, observed over and met again before.
ConflictOnRecord == mirror # NoMirror /\ mirror.state = "conflict" => OpenConflict

\* An outbound decision on a mirror, whatever it is, can be recorded.
OutboundRecordable ==
  mirror # NoMirror => \A expected \in Version :
    MirrorRecordable(IF OutboundDecision(expected) = "refresh_required" THEN mirror.version + 1
               ELSE mirror.version)
=============================================================================
