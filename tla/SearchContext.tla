--------------------------- MODULE SearchContext ---------------------------
(***************************************************************************)
(* The search index over resources, documents, claims and memory items:    *)
(* SearchContextService of app/search_context/service.py.                  *)
(*                                                                         *)
(* An index is rebuilt as a new generation beside the one that is          *)
(* searched, and activated when it is complete.  Who indexes and who       *)
(* disposes are jobs and other services: they come at any time, late and   *)
(* more than once.  Calls of a workspace run one after the other, as in    *)
(* ResourceGraph.  What a document may be shown to and how it is ranked    *)
(* are left out.                                                           *)
(***************************************************************************)
EXTENDS ResourceGraph

CONSTANTS
  Generation,     \* identities of generations, each with a version of its own
  Indexed,        \* sources that are indexed
  ResourceOf,     \* [Indexed -> Resource \cup {Null}], the documents' resource_id
  Digest,         \* states a source was in when it was read for the index
  DisposalReason  \* reasons of a disposal

VARIABLES
  generation,  \* search_index_generations.status
  document,    \* search_documents.status by generation and identity
  disposed,    \* search_reconciliations: sources and reasons
  buried       \* documents that were there when their source was disposed of

searchVars == <<generation, document, disposed, buried>>

Identity == [generation : Generation, source : Indexed, digest : Digest]

InitSearch ==
  /\ generation = [g \in Generation |-> Null]
  /\ document = [d \in Identity |-> Null]
  /\ disposed = {}
  /\ buried = {}

-----------------------------------------------------------------------------
(* Generations *)

\* A repeated request returns the generation as it is.
CreateGeneration(g) ==
  /\ generation[g] = Null
  /\ generation' = [generation EXCEPT ![g] = "building"]
  /\ UNCHANGED <<graphVars, document, disposed, buried>>

Served == {g \in Generation : generation[g] = "active"}

Available(g) == generation[g] \in {"building", "active"}

\* active_generation: one row, whichever comes first.
ActiveGeneration(g) == IF Served = {} THEN {g} ELSE Served

\* A generation that was disabled is not activated again.
ActivateGeneration(g) ==
  /\ Available(g)
  /\ \E h \in ActiveGeneration(g) :
       generation' = [generation EXCEPT ![h] = "disabled", ![g] = "active"]
  /\ UNCHANGED <<graphVars, document, disposed, buried>>

-----------------------------------------------------------------------------
(* Documents *)

\* An identity that is in the index is returned as it is, stale or not.  The row of the
\* resource must exist; neither its status nor an earlier disposal is looked at.
Index(d) ==
  /\ Available(d.generation)
  /\ document[d] = Null
  /\ ResourceOf[d.source] # Null => Exists(ResourceOf[d.source])
  /\ document' = [document EXCEPT ![d] = "active"]
  /\ UNCHANGED <<graphVars, generation, disposed, buried>>

\* As a bug: only the generation that is searched is cleaned.
MarkedWhereServed(source) ==
  [d \in Identity |-> IF d.source = source /\ d.generation \in Served /\ document[d] = "active"
                      THEN "stale" ELSE document[d]]

\* mark_source_unavailable, in all generations.
Marked(source) ==
  [d \in Identity |-> IF d.source = source /\ document[d] = "active" THEN "stale" ELSE document[d]]

\* Once per source and reason.
DisposeSource(source, reason) ==
  /\ <<source, reason>> \notin disposed
  /\ document' = Marked(source)
  /\ disposed' = disposed \cup {<<source, reason>>}
  /\ buried' = buried \cup {d \in Identity : d.source = source /\ document[d] # Null}
  /\ UNCHANGED <<graphVars, generation>>

\* What a search can find.
Found ==
  {d \in Identity :
     /\ d.generation \in Served
     /\ document[d] = "active"
     /\ ResourceOf[d.source] # Null => Living(ResourceOf[d.source])}

NextSearch ==
  \/ NextGraph /\ UNCHANGED searchVars
  \/ \E g \in Generation : CreateGeneration(g) \/ ActivateGeneration(g)
  \/ \E d \in Identity : Index(d)
  \/ \E source \in Indexed, reason \in DisposalReason : DisposeSource(source, reason)

SearchSpec == InitGraph /\ InitSearch /\ [][NextSearch]_<<graphVars, searchVars>>

-----------------------------------------------------------------------------
\* One generation is searched at a time, and nothing is found that was in the index
\* when its source was disposed of: not in the generation that was being rebuilt
\* meanwhile either, when that is activated.
SearchesCurrent == (\A g, h \in Served : g = h) /\ buried \cap Found = {}

\* H3_IMPLEMENTATION_GUIDE.md: disposed content is not retrievable any more.
DisposedIsGone == \A d \in Found : \A reason \in DisposalReason : <<d.source, reason>> \notin disposed
=============================================================================
