----------------------------- MODULE Documents -----------------------------
(***************************************************************************)
(* The custody of one document: DocumentService of                         *)
(* app/documents/service.py over its tables and an object store.           *)
(*                                                                         *)
(* The tables are transactional, the store is not: what a call has put,    *)
(* promoted or deleted in the store stays so when its transaction is       *)
(* rolled back.  Every call authorizes first and so holds the audit chain  *)
(* of the workspace to its end; one call runs at a time, and a call that   *)
(* touches the store in between is several steps, any of them the last.    *)
(*                                                                         *)
(* Objects are named by version, so the store has two keys a version.      *)
(***************************************************************************)
EXTENDS Integers, Sequences, FiniteSets

CONSTANTS
  Version,    \* version identities
  Processor,  \* (processor, processor version, policy version) of a derivative
  Deletion,   \* deletion requests
  Nothing,    \* no object, and no call
  MaxState    \* bound: governance changes and the store refuses below this state_version

VARIABLES
  doc,            \* the documents row and its outbox rows
  rows,           \* document_versions in the order of version_number
  custodyStatus,  \* custody_status of each version
  derivative,     \* document_derivatives with their chunks, per version and processor
  deletion,       \* document_deletions
  store,          \* the object store: what each key holds
  call            \* the call in progress that has used the store

documentVars == <<doc, rows, custodyStatus, derivative, deletion, store, call>>

Quarantine(v) == <<"quarantine", v>>
Permanent(v)  == <<"documents", v>>
ObjectKey     == {"quarantine", "documents"} \X Version

\* Content is what the version's SHA-256 was taken of, or something else.
Content == {"original", "other"}

Elements(s) == {s[i] : i \in DOMAIN s}

InitDocuments ==
  /\ doc \in [status : {"active"}, hold : BOOLEAN, retained : BOOLEAN,
                   version : {1}, published : {<<1>>}]
  /\ rows = <<>>
  /\ custodyStatus = [v \in Version |-> "absent"]
  /\ derivative = [v \in Version |-> [p \in Processor |-> [status |-> "absent", from |-> Nothing]]]
  /\ deletion = [d \in Deletion |-> [status |-> "absent", job |-> FALSE]]
  /\ store = [k \in ObjectKey |-> Nothing]
  /\ call = Nothing

-----------------------------------------------------------------------------
\* _changed: state_version += 1, and the event carries it.
DocumentChanged(r) == [r EXCEPT !.version = @ + 1, !.published = Append(@, r.version + 1)]

\* deletion_disposition is not ELIGIBLE.
Blocked(r) == r.hold \/ r.retained

\* put_quarantined never overwrites: accepted content is immutable.
Put(s, k) == IF s[k] = Nothing THEN [s EXCEPT ![k] = "original"] ELSE s

Ingest(v) ==
  /\ call = Nothing
  /\ doc.status = "active"
  /\ custodyStatus[v] = "absent"
  /\ store' = Put(store, Quarantine(v))
  /\ rows' = Append(rows, v)
  /\ custodyStatus' = [custodyStatus EXCEPT ![v] = "quarantined"]
  /\ doc' = DocumentChanged(doc)
  /\ UNCHANGED <<derivative, deletion, call>>

\* The content is put and the transaction rolled back: by a crash, by its
\* caller, or because the document already has a version of this content.
IngestLost(v) ==
  /\ call = Nothing
  /\ doc.status = "active"
  /\ custodyStatus[v] = "absent"
  /\ store' = Put(store, Quarantine(v))
  /\ UNCHANGED <<doc, rows, custodyStatus, derivative, deletion, call>>

-----------------------------------------------------------------------------
(* verify *)

Reject(v) ==
  /\ custodyStatus' = [custodyStatus EXCEPT ![v] = "rejected"]
  /\ doc' = DocumentChanged(doc)
  /\ call' = Nothing
  /\ UNCHANGED <<rows, derivative, deletion, store>>

\* The hash of what is read differs: custody-hash/1 rejects it.
VerifyMismatch(v) ==
  /\ call = Nothing
  /\ custodyStatus[v] = "quarantined"
  /\ store[Quarantine(v)] = "other"
  /\ Reject(v)

\* The content is read and handed to the verifier, which takes its time.
VerifyBegin(v) ==
  /\ call = Nothing
  /\ custodyStatus[v] = "quarantined"
  /\ store[Quarantine(v)] = "original"
  /\ call' = [op |-> "verify", version |-> v]
  /\ UNCHANGED <<doc, rows, custodyStatus, derivative, deletion, store>>

Verifying(v) == call # Nothing /\ call.op = "verify" /\ call.version = v

\* Malware, or not of its media type.
VerifyRefused(v) == Verifying(v) /\ Reject(v)

\* What promote copies is what the store holds by now.
Promoted(v) == [store EXCEPT ![Permanent(v)] = store[Quarantine(v)]]

Verify(v) ==
  /\ Verifying(v)
  /\ store[Quarantine(v)] # Nothing
  /\ store' = Promoted(v)
  /\ custodyStatus' = [custodyStatus EXCEPT ![v] = "verified"]
  /\ doc' = DocumentChanged(doc)
  /\ call' = Nothing
  /\ UNCHANGED <<rows, derivative, deletion>>

\* Promoted, and then rolled back.
VerifyLost(v) ==
  /\ Verifying(v)
  /\ store[Quarantine(v)] # Nothing
  /\ store' = Promoted(v)
  /\ call' = Nothing
  /\ UNCHANGED <<doc, rows, custodyStatus, derivative, deletion>>

-----------------------------------------------------------------------------
(* complete_extraction: of one processor a version has one derivative. *)

CompleteExtractionUnhashed(v, p) ==
  /\ call = Nothing
  /\ custodyStatus[v] = "verified"
  /\ derivative[v][p].status = "absent"
  /\ store[Permanent(v)] # Nothing
  /\ derivative' = [derivative EXCEPT ![v][p] =
                      [status |-> "verified", from |-> store[Permanent(v)]]]
  /\ doc' = DocumentChanged(doc)
  /\ UNCHANGED <<rows, custodyStatus, deletion, store, call>>

CompleteExtraction(v, p) ==
  /\ call = Nothing
  /\ custodyStatus[v] = "verified"
  /\ derivative[v][p].status = "absent"
  /\ store[Permanent(v)] = "original"
  /\ derivative' = [derivative EXCEPT ![v][p] =
                      [status |-> "verified", from |-> store[Permanent(v)]]]
  /\ doc' = DocumentChanged(doc)
  /\ UNCHANGED <<rows, custodyStatus, deletion, store, call>>

-----------------------------------------------------------------------------
(* delete and process_deletion *)

\* A request is blocked at once, or it is pending and a job is enqueued.
DeleteDocument(d) ==
  /\ call = Nothing
  /\ deletion[d].status = "absent"
  /\ deletion' = [deletion EXCEPT ![d] =
                    IF Blocked(doc) THEN [status |-> "blocked", job |-> FALSE]
                                         ELSE [status |-> "pending", job |-> TRUE]]
  /\ doc' = DocumentChanged(doc)
  /\ UNCHANGED <<rows, custodyStatus, derivative, store, call>>

Processable(d) == deletion[d].status \in {"pending", "exception"}

\* The hold and the retention are looked at again before anything is deleted.
DeletionBlocked(d) ==
  /\ call = Nothing
  /\ Processable(d)
  /\ Blocked(doc)
  /\ deletion' = [deletion EXCEPT ![d].status = "blocked"]
  /\ doc' = DocumentChanged(doc)
  /\ UNCHANGED <<rows, custodyStatus, derivative, store, call>>

DeletionBeginUnchecked(d) ==
  /\ call = Nothing
  /\ Processable(d)
  /\ call' = [op |-> "delete", deletion |-> d, next |-> 1]
  /\ UNCHANGED <<doc, rows, custodyStatus, derivative, deletion, store>>

DeletionBegin(d) ==
  /\ call = Nothing
  /\ Processable(d)
  /\ ~Blocked(doc)
  /\ call' = [op |-> "delete", deletion |-> d, next |-> 1]
  /\ UNCHANGED <<doc, rows, custodyStatus, derivative, deletion, store>>

Deleting(d) == call # Nothing /\ call.op = "delete" /\ call.deletion = d

\* Derivatives have no object of their own.  A version has one target.
Target(v) == IF custodyStatus[v] = "verified" THEN Permanent(v) ELSE Quarantine(v)

DeleteObject(d) ==
  /\ Deleting(d)
  /\ call.next <= Len(rows)
  /\ store' = [store EXCEPT ![Target(rows[call.next])] = Nothing]
  /\ call' = [call EXCEPT !.next = @ + 1]
  /\ UNCHANGED <<doc, rows, custodyStatus, derivative, deletion>>

\* The store refuses: what was deleted stays deleted, the request is kept.
DeletionException(d) ==
  /\ Deleting(d)
  /\ call.next <= Len(rows)
  /\ doc.version < MaxState
  /\ deletion' = [deletion EXCEPT ![d].status = "exception"]
  /\ doc' = DocumentChanged(doc)
  /\ call' = Nothing
  /\ UNCHANGED <<rows, custodyStatus, derivative, store>>

Deleted(d) ==
  /\ Deleting(d)
  /\ call.next > Len(rows)
  /\ custodyStatus' = [v \in Version |-> IF custodyStatus[v] = "absent" THEN "absent" ELSE "deleted"]
  /\ derivative' = [v \in Version |-> [p \in Processor |->
       IF derivative[v][p].status = "absent" THEN derivative[v][p]
       ELSE [status |-> "deleted", from |-> Nothing]]]
  /\ deletion' = [deletion EXCEPT ![d].status = "completed"]
  /\ doc' = DocumentChanged([doc EXCEPT !.status = "deleted"])
  /\ call' = Nothing
  /\ UNCHANGED <<rows, store>>

\* The call is rolled back where it is; the store keeps what was done to it.
CallLost ==
  /\ call # Nothing
  /\ call' = Nothing
  /\ UNCHANGED <<doc, rows, custodyStatus, derivative, deletion, store>>

-----------------------------------------------------------------------------
SetGovernance(hold, retained) ==
  /\ call = Nothing
  /\ doc.status = "active"
  /\ doc.version < MaxState
  /\ doc' = DocumentChanged([doc EXCEPT !.hold = hold, !.retained = retained])
  /\ UNCHANGED <<rows, custodyStatus, derivative, deletion, store, call>>

\* retain_until passes.
RetentionEnds ==
  /\ doc.retained
  /\ doc' = [doc EXCEPT !.retained = FALSE]
  /\ UNCHANGED <<rows, custodyStatus, derivative, deletion, store, call>>

\* An object is replaced or damaged in the store, at any moment.
ObjectChanges(k) ==
  /\ store[k] = "original"
  /\ store' = [store EXCEPT ![k] = "other"]
  /\ UNCHANGED <<doc, rows, custodyStatus, derivative, deletion, call>>

NextDocuments ==
  \/ \E v \in Version :
       \/ Ingest(v) \/ IngestLost(v)
       \/ VerifyMismatch(v) \/ VerifyBegin(v) \/ VerifyRefused(v) \/ Verify(v) \/ VerifyLost(v)
       \/ \E p \in Processor : CompleteExtraction(v, p)
  \/ \E d \in Deletion :
       \/ DeleteDocument(d) \/ DeletionBlocked(d) \/ DeletionBegin(d)
       \/ DeleteObject(d) \/ DeletionException(d) \/ Deleted(d)
  \/ CallLost
  \/ \E hold, retained \in BOOLEAN : SetGovernance(hold, retained)
  \/ RetentionEnds
  \/ \E k \in ObjectKey : ObjectChanges(k)

DocumentsSpec == InitDocuments /\ [][NextDocuments]_documentVars

-----------------------------------------------------------------------------
(* Types *)

CustodyStatus == {"absent", "quarantined", "verified", "rejected", "deleted"}

\* The rows hold what their CHECK constraints allow, the versions are numbered
\* in the order of their rows, and the events by state_version.
DocumentsTypeOK ==
  /\ doc.status \in {"active", "deleted"}
  /\ doc.hold \in BOOLEAN /\ doc.retained \in BOOLEAN
  /\ doc.published = [i \in 1..doc.version |-> i]
  /\ custodyStatus \in [Version -> CustodyStatus]
  /\ Elements(rows) = {v \in Version : custodyStatus[v] # "absent"}
  /\ Len(rows) = Cardinality(Elements(rows))
  /\ derivative \in [Version -> [Processor ->
       [status : {"absent", "verified", "deleted"}, from : Content \cup {Nothing}]]]
  /\ deletion \in [Deletion ->
       [status : {"absent", "pending", "blocked", "exception", "completed"}, job : BOOLEAN]]
  /\ store \in [ObjectKey -> Content \cup {Nothing}]
  /\ call = Nothing \/ (call.op = "verify" /\ call.version \in Version)
       \/ (call.op = "delete" /\ call.deletion \in Deletion /\ call.next \in 1..(Len(rows) + 1))

(* Safety *)

\* The content of a version stays what was ingested, wherever calls are cut off
\* between the store and the commit.  A version whose row is not deleted has content
\* under the key the row is read by, as long as no deletion was ever accepted (accepted
\* requests have a job); and every derivative was made from the content its version was
\* ingested with, though an object may change after it was verified, and even between
\* the reading and the promotion of verify, which nothing prevents.
ContentIntact ==
  /\ \A v \in Version :
       custodyStatus[v] \in {"quarantined", "verified", "rejected"} /\ store[Target(v)] = Nothing
         => \E d \in Deletion : deletion[d].job
  /\ \A v \in Version, p \in Processor :
       derivative[v][p].status = "verified" => derivative[v][p].from = "original"

\* A hold or a retention set after a deletion was accepted, interrupted or
\* left in an exception keeps every object that is still there.
HoldKeepsObjects ==
  [][Blocked(doc) => \A k \in ObjectKey : store[k] # Nothing => store'[k] # Nothing]_documentVars

(* What the documentation says *)

\* H3_IMPLEMENTATION_GUIDE.md: deletion verifies removal at every currently
\* owned target or records an exception.  A completed deletion leaves no
\* object of a version of the document.
DeletionErases ==
  (\E d \in Deletion : deletion[d].status = "completed") =>
    \A v \in Elements(rows) : store[Quarantine(v)] = Nothing /\ store[Permanent(v)] = Nothing
=============================================================================
