--------------------------- MODULE ResourceGraph ---------------------------
(***************************************************************************)
(* The resources of a workspace and their relationships:                   *)
(* ResourceGraphService over its tables and the trigger that validates     *)
(* relationships.                                                          *)
(*                                                                         *)
(* Every call is authorized first, which writes an audit row and so holds  *)
(* the workspace's audit chain: the calls of a workspace run one after the *)
(* other, and each is one step.  A call whose expected version is not the  *)
(* resource's is refused and is no step.                                   *)
(***************************************************************************)
EXTENDS Integers

CONSTANTS
  Resource,   \* identities of resources
  Kind,       \* [Resource -> kinds]
  Null,
  MaxChanges  \* bound: a resource is changed below this version

VARIABLES
  resource,  \* resources: each absent or a row
  edge       \* resource_relationships.status by source and target

graphVars == <<resource, edge>>

ResourceRow == [status : {"active", "deleted"}, version : 1..MaxChanges]

\* The relationships, told apart by the kinds of their ends.
Endpoints ==
  {<<"contact", "company">>, <<"project", "task">>, <<"document", "project">>,
   <<"communication", "project">>, <<"meeting", "project">>}

\* Kinds that have one relationship at a time (maximum_per_source is 1).
Exclusive == {"contact", "document"}

InitGraph ==
  /\ resource = [r \in Resource |-> Null]
  /\ edge = [p \in Resource \X Resource |-> Null]

-----------------------------------------------------------------------------
Exists(r) == resource[r] # Null

Living(r) == Exists(r) /\ resource[r].status = "active"

Create(r) ==
  /\ ~Exists(r)
  /\ resource' = [resource EXCEPT ![r] = [status |-> "active", version |-> 1]]
  /\ UNCHANGED edge

Changed(r, status) ==
  /\ resource[r].version < MaxChanges
  /\ resource' = [resource EXCEPT ![r] = [status |-> status, version |-> @.version + 1]]

\* As a bug: only the relationships to resources that are still there count.
HeldLiving(s) == {t \in Resource : edge[<<s, t>>] = "active" /\ Living(t)}

\* The active relationships of a source, which the service and the trigger count.
Held(s) == {t \in Resource : edge[<<s, t>>] = "active"}

\* Neither end's status is looked at; a pair that was related once is taken
\* (uq_resource_relationships_edge).
Relate(s, t) ==
  /\ Exists(s) /\ Exists(t)
  /\ <<Kind[s], Kind[t]>> \in Endpoints
  /\ Kind[s] \in Exclusive => Held(s) = {}
  /\ edge[<<s, t>>] = Null
  /\ edge' = [edge EXCEPT ![<<s, t>>] = "active"]
  /\ Changed(s, resource[s].status)

\* A tag, a note, an attachment, an owner, a grant or an external reference.
AddFeature(r) == Living(r) /\ Changed(r, "active") /\ UNCHANGED edge

\* The relationships go with the resource, at both ends.
Delete(r) ==
  /\ Living(r)
  /\ Changed(r, "deleted")
  /\ edge' = [p \in Resource \X Resource |->
                IF r \in {p[1], p[2]} /\ edge[p] = "active" THEN "deleted" ELSE edge[p]]

NextGraph ==
  \E r \in Resource :
    \/ Create(r) \/ AddFeature(r) \/ Delete(r)
    \/ \E t \in Resource : Relate(r, t)

GraphSpec == InitGraph /\ [][NextGraph]_graphVars

-----------------------------------------------------------------------------
\* A contact works for one company and a document belongs to one project at a time,
\* although companies and projects are deleted in between, relationships can be made
\* to deleted ones and none can be made twice.
ExclusiveEdges ==
  \A s, t, u \in Resource :
    Kind[s] \in Exclusive /\ edge[<<s, t>>] = "active" /\ edge[<<s, u>>] = "active" => t = u

\* An active relationship has two living ends.
EdgesOfLiving == \A s, t \in Resource : edge[<<s, t>>] = "active" => Living(s) /\ Living(t)
=============================================================================
