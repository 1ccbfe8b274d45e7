-------------------------- MODULE GovernedMemory --------------------------
(***************************************************************************)
(* Memory items derived from versioned sources, and from each other:       *)
(* GovernedMemoryService of app/memory/governed_service.py.                *)
(*                                                                         *)
(* As for knowledge, every call is authorized first and is one step.  A    *)
(* source outside memory (a document version, a claim, a resource) is what *)
(* _source_state sees of it: whether it is available, and its version.     *)
(***************************************************************************)
EXTENDS Integers, FiniteSets

CONSTANTS
  Memory,        \* identity digests of items
  Expiring,      \* those with an expires_at, which is part of the identity
  Confirmed,     \* those a human confirmed on creation, likewise
  External,      \* sources outside memory
  SourceReason,  \* why a source is disposed of
  NoItem,        \* no row
  LastVersion    \* bound: each item and source changes below its last version

VARIABLES
  source,  \* the sources outside memory
  late,    \* now is past the expiry of the items that have one
  item,    \* governed_memory_items with their governed_memory_sources
  receipt  \* reasons of the governed_memory_dispositions of each item

memoryVars == <<source, late, item, receipt>>

-----------------------------------------------------------------------------
(* The tables *)

Status == {"active", "superseded", "expired", "deleted", "invalidated"}

\* Identity and version of what an item was derived from.
SourceRow == [of : External \cup Memory, version : Nat \ {0}]

ItemRow == [status : Status, pinned : BOOLEAN, confirmed : BOOLEAN,
            by : Memory \cup {NoItem},
            sources : SUBSET SourceRow, version : Nat \ {0}]

Reason == {"user_deleted", "expired", "superseded"} \cup SourceReason

InitMemory ==
  /\ source = [s \in External |-> [available |-> TRUE, version |-> 1]]
  /\ late = FALSE
  /\ item = [m \in Memory |-> NoItem]
  /\ receipt = [m \in Memory |-> {}]

-----------------------------------------------------------------------------
(* Reading *)

Items == {m \in Memory : item[m] # NoItem}

\* evaluate_status: an item past its expiry has expired, unless it is pinned.
AvailableItem(m) ==
  /\ m \in Items
  /\ item[m].status = "active"
  /\ m \in Expiring /\ late => item[m].pinned

\* _source_state: of an item only its status is looked at.
SourceState(x) ==
  IF x \in External
  THEN IF source[x].available THEN {source[x].version} ELSE {}
  ELSE IF x \in Items /\ item[x].status = "active" THEN {item[x].version} ELSE {}

\* _revalidate_sources: each one available and still of the version recorded.
Current(row) == row.version \in SourceState(row.of)

\* get
ReadableItem(m) == AvailableItem(m) /\ \A row \in item[m].sources : Current(row)

-----------------------------------------------------------------------------
(* Creating *)

\* The provenance a caller can name that _validate_sources accepts.
Provenance(from) == {[of |-> x, version |-> CHOOSE v \in SourceState(x) : TRUE] : x \in from}

New(m, from) ==
  [status |-> "active", pinned |-> FALSE, confirmed |-> m \in Confirmed, by |-> NoItem, sources |-> Provenance(from), version |-> 1]

\* The sources of an item: at least one, and each once.
MemoryCreate == (SUBSET (External \cup Memory)) \ {{}}

ConsolidationCreate == {from \in SUBSET Memory : Cardinality(from) >= 2}

\* An item that exists is returned, whatever has become of it.
CreateItem(m, from) ==
  /\ m \notin Items
  /\ \A x \in from : SourceState(x) # {}
  /\ item' = [item EXCEPT ![m] = New(m, from)]
  /\ UNCHANGED <<source, late, receipt>>

\* The inputs must be available to a reader; the rest is create.  (Of an item
\* that exists it only writes the processor, which nothing here reads.)
Consolidate(m, from) ==
  /\ \A x \in from : AvailableItem(x)
  /\ CreateItem(m, from)

-----------------------------------------------------------------------------
(* Changing *)

\* _change, in the bound of this model
Change(m, row) ==
  /\ item[m].version < LastVersion[m]
  /\ item' = [item EXCEPT ![m] = [row EXCEPT !.version = @ + 1]]
  /\ UNCHANGED <<source, late, receipt>>

SetPinned(m, pinned) ==
  /\ m \in Items /\ item[m].status = "active" /\ item[m].pinned # pinned
  /\ Change(m, [item[m] EXCEPT !.pinned = pinned])

Confirm(m) ==
  /\ m \in Items /\ item[m].status = "active" /\ ~item[m].confirmed
  /\ Change(m, [item[m] EXCEPT !.confirmed = TRUE])

\* Of an item of any status.
AddFeedback(m) == m \in Items /\ Change(m, item[m])

-----------------------------------------------------------------------------
(* Disposing *)

\* _dispose of each item, once for a reason; a disposed item is unpinned.
Disposed(items, status, reason, by) ==
  LET fresh == {m \in items : reason \notin receipt[m]} IN
  /\ item' = [m \in Memory |->
       IF m \in fresh
       THEN [item[m] EXCEPT !.status = status, !.pinned = FALSE, !.version = @ + 1, !.by = by]
       ELSE item[m]]
  /\ receipt' = [m \in Memory |-> IF m \in fresh THEN receipt[m] \cup {reason} ELSE receipt[m]]
  /\ UNCHANGED <<source, late>>

Supersede(m, replacement) ==
  /\ m # replacement /\ m \in Items /\ item[m].status = "active"
  /\ AvailableItem(replacement)
  /\ Disposed({m}, "superseded", "superseded", replacement)

Due == {m \in Items \cap Expiring : late /\ item[m].status = "active" /\ ~item[m].pinned}

ExpireDue == Due # {} /\ Disposed(Due, "expired", "expired", NoItem)

DeleteItem(m) ==
  /\ m \in Items /\ item[m].status # "deleted"
  /\ Disposed({m}, "deleted", "user_deleted", item[m].by)

\* The items with a source among xs.
Dependents(xs) == {m \in Items : \E row \in item[m].sources : row.of \in xs}

\* The queue ends at an item that is not active any more.
VisitedThroughActive(x) ==
  {m \in Items : \A V \in SUBSET Items :
     Dependents({x} \cup {n \in V : item[n].status = "active"}) \subseteq V => m \in V}

\* The queue of dispose_source follows every item it takes, active or not, to
\* the end: it visits the least set with the dependents of x and of its members.
Visited(x) ==
  {m \in Items : \A V \in SUBSET Items : Dependents({x} \cup V) \subseteq V => m \in V}

DisposeMemorySource(x, reason) ==
  LET active == {m \in Visited(x) : item[m].status = "active"} IN
  /\ active # {}
  /\ Disposed(active, "invalidated", reason, NoItem)

-----------------------------------------------------------------------------
(* Around the service *)

TimePasses ==
  /\ ~late
  /\ late' = TRUE
  /\ UNCHANGED <<source, item, receipt>>

\* A document is deleted, a claim reviewed or invalidated, a resource updated or archived.
SourceChanges(s) ==
  /\ source[s].available
  /\ \/ source' = [source EXCEPT ![s].available = FALSE]
     \/ source[s].version < LastVersion[s] /\ source' = [source EXCEPT ![s].version = @ + 1]
  /\ UNCHANGED <<late, item, receipt>>

NextMemory ==
  \/ \E m \in Memory :
       \/ \E from \in MemoryCreate : CreateItem(m, from)
       \/ \E from \in ConsolidationCreate : Consolidate(m, from)
       \/ \E pinned \in BOOLEAN : SetPinned(m, pinned)
       \/ \E replacement \in Memory : Supersede(m, replacement)
       \/ Confirm(m) \/ AddFeedback(m) \/ DeleteItem(m)
  \/ ExpireDue \/ TimePasses
  \/ \E x \in External \cup Memory, reason \in SourceReason : DisposeMemorySource(x, reason)
  \/ \E s \in External : SourceChanges(s)

MemorySpec == InitMemory /\ [][NextMemory]_memoryVars

-----------------------------------------------------------------------------
\* The rows are rows of their tables.
MemoryTypeOK ==
  /\ source \in [External -> [available : BOOLEAN, version : Nat \ {0}]]
  /\ late \in BOOLEAN
  /\ item \in [Memory -> ItemRow \cup {NoItem}]
  /\ receipt \in [Memory -> SUBSET Reason]

\* What was derived from n, in any number of steps.
Derived(n) ==
  {m \in Items : \A V \in SUBSET Items : Dependents({n} \cup V) \subseteq V => m \in V}

\* Once an item fell with its source, nothing derived from it is active, however
\* many items lie between, whatever became of those, and whatever is created later.
InvalidationIsTransitive ==
  \A n \in Items :
    receipt[n] \cap SourceReason # {} => \A m \in Derived(n) : item[m].status # "active"

=============================================================================
