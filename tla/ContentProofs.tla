---------------------------- MODULE ContentProofs ----------------------------
(***************************************************************************)
(* Proofs about the content of a workspace: documents, knowledge, governed *)
(* memory, the resource graph and the search index, for any documents'     *)
(* versions, claims, items, resources and generations.                     *)
(*                                                                         *)
(* Documents.  A version has its content where its row says as long as no  *)
(* deletion was accepted, because nothing but a deletion in progress takes *)
(* an object out of the store, and that one belongs to a request that was  *)
(* accepted and found neither a hold nor a retention, which no call can    *)
(* set while it lasts.  The rows stay as they are under a deletion and     *)
(* nothing is put, so what it has visited is empty when it is completed.   *)
(*                                                                         *)
(* Knowledge.  Only a new claim is active that was not, and only a         *)
(* source's disposition invalidates one: it removes the entries of every   *)
(* claim it touches.  An entry comes back through a projection, alone or   *)
(* of a rebuild in flight, which reads the claim again.  A claim keeps the *)
(* mark of its disposition until a relation gives it another status.       *)
(*                                                                         *)
(* Memory.  What an item is derived from was active when it was made, so a *)
(* new item is derived from nothing that fell; and what a disposition      *)
(* visits is closed under derivation, whatever became of the items between.*)
(***************************************************************************)
EXTENDS Knowledge, SearchContext, Documents, GovernedMemory, TLAPS

-----------------------------------------------------------------------------
(* Documents *)

\* No object and no call is neither content nor a call.
NothingIsApart == Nothing \notin Content

InCustody == {"quarantined", "verified", "rejected"}

Accepted == \E d \in Deletion : deletion[d].job

DerivativeRow == [status : {"absent", "verified", "deleted"}, from : Content \cup {Nothing}]

DeletionRow ==
  [status : {"absent", "pending", "blocked", "exception", "completed"}, job : BOOLEAN]

\* What is pending or was refused by the store was accepted, and what was not asked not.
RequestIs(r) ==
  /\ r.status \in {"pending", "exception"} => r.job
  /\ r.status = "absent" => ~r.job

\* The call in progress deletes for a request that was accepted, and neither a hold nor
\* a retention is set meanwhile; or it verifies a version that is still quarantined.
CallOK(c, del, status, blocked) ==
  c # Nothing =>
    /\ c.op = "delete" => c.deletion \in Deletion /\ del[c.deletion].job /\ ~blocked
    /\ c.op = "verify" => c.version \in Version /\ status[c.version] = "quarantined"
    /\ c.op \in {"delete", "verify"}

DocumentsInv ==
  /\ custodyStatus \in [Version -> CustodyStatus]
  /\ derivative \in [Version -> [Processor -> DerivativeRow]]
  /\ deletion \in [Deletion -> DeletionRow]
  /\ store \in [ObjectKey -> Content \cup {Nothing}]
  /\ \A d \in Deletion : RequestIs(deletion[d])
  /\ CallOK(call, deletion, custodyStatus, Blocked(doc))
  /\ ContentIntact

LEMMA DocumentsStart == ASSUME InitDocuments PROVE DocumentsInv
<1>1. derivative \in [Version -> [Processor -> DerivativeRow]]
  BY DEF InitDocuments, DerivativeRow
<1>2. deletion \in [Deletion -> DeletionRow]
  BY DEF InitDocuments, DeletionRow
<1>3. ContentIntact
  BY DEF InitDocuments, ContentIntact
<1> QED
  BY <1>1, <1>2, <1>3 DEF InitDocuments, DocumentsInv, CustodyStatus, CallOK, RequestIs

\* The keys of a version, and what each holds.
LEMMA Keys ==
  /\ \A v \in Version : Quarantine(v) \in ObjectKey /\ Permanent(v) \in ObjectKey
  /\ \A v, w : Quarantine(v) # Permanent(w)
  /\ \A v \in Version : Target(v) \in ObjectKey
BY DEF Quarantine, Permanent, ObjectKey, Target

\* Nothing that was in the store is gone: put never overwrites and a promotion copies
\* what is there.
LEMMA PutHolds ==
  ASSUME NothingIsApart, store \in [ObjectKey -> Content \cup {Nothing}], NEW k \in ObjectKey
  PROVE  /\ Put(store, k) \in [ObjectKey -> Content \cup {Nothing}]
         /\ Put(store, k)[k] # Nothing
         /\ \A j \in ObjectKey : store[j] # Nothing => Put(store, k)[j] # Nothing
BY DEF Put, Content, NothingIsApart

LEMMA PromotedHolds ==
  ASSUME store \in [ObjectKey -> Content \cup {Nothing}], NEW v \in Version,
         store[Quarantine(v)] # Nothing
  PROVE  /\ Promoted(v) \in [ObjectKey -> Content \cup {Nothing}]
         /\ Promoted(v)[Permanent(v)] # Nothing
         /\ \A j \in ObjectKey : store[j] # Nothing => Promoted(v)[j] # Nothing
BY Keys DEF Promoted

-----------------------------------------------------------------------------
\* A call that changes no row, and takes nothing out of the store.
LEMMA StoreStep ==
  ASSUME DocumentsInv, UNCHANGED <<custodyStatus, derivative, deletion>>,
         CallOK(call', deletion, custodyStatus, Blocked(doc)'),
         store' \in [ObjectKey -> Content \cup {Nothing}],
         \A k \in ObjectKey : store[k] # Nothing => store'[k] # Nothing
  PROVE  DocumentsInv'
<1>1. UNCHANGED custodyStatus /\ UNCHANGED derivative /\ UNCHANGED deletion
  OBVIOUS
<1>2. \A v \in Version : Target(v)' = Target(v) /\ Target(v) \in ObjectKey
  BY <1>1, Keys DEF Target, Permanent, Quarantine
<1>3. ContentIntact'
  BY <1>1, <1>2 DEF ContentIntact, DocumentsInv
<1>4. CallOK(call', deletion', custodyStatus', Blocked(doc)')
  BY <1>1
<1> QED
  BY <1>1, <1>3, <1>4 DEF DocumentsInv

\* A call that ends and moves one version in custody, with its content where the row says.
LEMMA CustodyStep ==
  ASSUME DocumentsInv, NEW v \in Version, NEW s \in InCustody,
         custodyStatus' = [custodyStatus EXCEPT ![v] = s],
         UNCHANGED derivative, UNCHANGED deletion, call' = Nothing,
         store' \in [ObjectKey -> Content \cup {Nothing}],
         \A k \in ObjectKey : store[k] # Nothing => store'[k] # Nothing,
         store'[IF s = "verified" THEN Permanent(v) ELSE Quarantine(v)] # Nothing \/ Accepted
  PROVE  DocumentsInv'
<1>1. custodyStatus \in [Version -> CustodyStatus]
  BY DEF DocumentsInv
<1>2. custodyStatus' \in [Version -> CustodyStatus] /\ custodyStatus'[v] = s
  BY <1>1 DEF CustodyStatus, InCustody
<1>3. \A w \in Version \ {v} : custodyStatus'[w] = custodyStatus[w] /\ Target(w)' = Target(w)
  BY <1>1 DEF Target, Permanent, Quarantine
<1>4. Target(v)' = IF s = "verified" THEN Permanent(v) ELSE Quarantine(v)
  BY <1>2 DEF Target, Permanent, Quarantine
<1>5. \A w \in Version : custodyStatus'[w] \in InCustody /\ store'[Target(w)'] = Nothing => Accepted
  <2> TAKE w \in Version
  <2>1. CASE w = v
    BY <1>4, <2>1
  <2>2. CASE w # v
    <3>1. Target(w) \in ObjectKey
      BY Keys
    <3> QED
      BY <1>3, <2>2, <3>1 DEF DocumentsInv, ContentIntact, Accepted, InCustody
  <2> QED
    BY <2>1, <2>2
<1>6. ContentIntact'
  BY <1>5 DEF ContentIntact, DocumentsInv, Accepted, InCustody
<1>7. CallOK(call', deletion', custodyStatus', Blocked(doc)')
  BY DEF CallOK
<1> QED
  BY <1>2, <1>6, <1>7 DEF DocumentsInv

\* What a verification finds in quarantine was put there, or a deletion was accepted.
LEMMA QuarantineHolds ==
  ASSUME DocumentsInv, NEW v \in Version, custodyStatus[v] = "quarantined"
  PROVE  store[Quarantine(v)] # Nothing \/ Accepted
BY DEF DocumentsInv, ContentIntact, Target, Accepted

LEMMA IngestKeeps ==
  ASSUME NothingIsApart, DocumentsInv, NEW v \in Version, Ingest(v) PROVE DocumentsInv'
<1>1. store \in [ObjectKey -> Content \cup {Nothing}] /\ Quarantine(v) \in ObjectKey
  BY Keys DEF DocumentsInv
<1>2. /\ store' \in [ObjectKey -> Content \cup {Nothing}]
      /\ store'[Quarantine(v)] # Nothing
      /\ \A k \in ObjectKey : store[k] # Nothing => store'[k] # Nothing
  BY <1>1, PutHolds DEF Ingest
<1>3. /\ custodyStatus' = [custodyStatus EXCEPT ![v] = "quarantined"]
      /\ UNCHANGED derivative /\ UNCHANGED deletion /\ call' = Nothing
  BY DEF Ingest
<1>4. "quarantined" \in InCustody
  BY DEF InCustody
<1> QED
  BY <1>2, <1>3, <1>4, CustodyStep

LEMMA IngestLostKeeps ==
  ASSUME NothingIsApart, DocumentsInv, NEW v \in Version, IngestLost(v) PROVE DocumentsInv'
<1>1. store \in [ObjectKey -> Content \cup {Nothing}] /\ Quarantine(v) \in ObjectKey
  BY Keys DEF DocumentsInv
<1>2. /\ store' \in [ObjectKey -> Content \cup {Nothing}]
      /\ \A k \in ObjectKey : store[k] # Nothing => store'[k] # Nothing
  BY <1>1, PutHolds DEF IngestLost
<1>3. UNCHANGED <<custodyStatus, derivative, deletion>> /\ call' = Nothing
  BY DEF IngestLost
<1>4. CallOK(call', deletion, custodyStatus, Blocked(doc)')
  BY <1>3 DEF CallOK
<1> QED
  BY <1>2, <1>3, <1>4, StoreStep

LEMMA RejectKeeps ==
  ASSUME DocumentsInv, NEW v \in Version, custodyStatus[v] = "quarantined", Reject(v)
  PROVE  DocumentsInv'
<1>1. /\ custodyStatus' = [custodyStatus EXCEPT ![v] = "rejected"]
      /\ UNCHANGED derivative /\ UNCHANGED deletion /\ UNCHANGED store /\ call' = Nothing
  BY DEF Reject
<1>2. "rejected" \in InCustody
  BY DEF InCustody
<1>3. store' \in [ObjectKey -> Content \cup {Nothing}]
  BY <1>1 DEF DocumentsInv
<1> QED
  BY <1>1, <1>2, <1>3, QuarantineHolds, CustodyStep

LEMMA VerifyingIs ==
  ASSUME DocumentsInv, NEW v \in Version, Verifying(v) PROVE custodyStatus[v] = "quarantined"
BY DEF DocumentsInv, CallOK, Verifying

LEMMA VerifyKeeps ==
  ASSUME DocumentsInv, NEW v \in Version, Verify(v) PROVE DocumentsInv'
<1>1. /\ custodyStatus' = [custodyStatus EXCEPT ![v] = "verified"] /\ store' = Promoted(v)
      /\ UNCHANGED derivative /\ UNCHANGED deletion /\ call' = Nothing
  BY DEF Verify
<1>2. "verified" \in InCustody
  BY DEF InCustody
<1>3. /\ store' \in [ObjectKey -> Content \cup {Nothing}]
      /\ store'[Permanent(v)] # Nothing
      /\ \A k \in ObjectKey : store[k] # Nothing => store'[k] # Nothing
  BY <1>1, PromotedHolds DEF DocumentsInv, Verify
<1> QED
  BY <1>1, <1>2, <1>3, CustodyStep

LEMMA VerifyLostKeeps ==
  ASSUME DocumentsInv, NEW v \in Version, VerifyLost(v) PROVE DocumentsInv'
<1>1. UNCHANGED <<custodyStatus, derivative, deletion>> /\ call' = Nothing /\ store' = Promoted(v)
  BY DEF VerifyLost
<1>2. /\ store' \in [ObjectKey -> Content \cup {Nothing}]
      /\ \A k \in ObjectKey : store[k] # Nothing => store'[k] # Nothing
  BY <1>1, PromotedHolds DEF DocumentsInv, VerifyLost
<1>3. CallOK(call', deletion, custodyStatus, Blocked(doc)')
  BY <1>1 DEF CallOK
<1> QED
  BY <1>1, <1>2, <1>3, StoreStep

\* A derivative is made of what is in the store and was hashed again.
LEMMA ExtractionKeeps ==
  ASSUME DocumentsInv, NEW v \in Version, NEW p \in Processor, CompleteExtraction(v, p)
  PROVE  DocumentsInv'
<1> DEFINE r == [status |-> "verified", from |-> "original"]
<1>1. /\ derivative' = [derivative EXCEPT ![v] = [derivative[v] EXCEPT ![p] = r]]
      /\ UNCHANGED custodyStatus /\ UNCHANGED deletion /\ UNCHANGED store
      /\ call' = Nothing
  BY DEF CompleteExtraction
<1>2. r \in DerivativeRow /\ r.from = "original"
  BY DEF DerivativeRow, Content
<1> HIDE DEF r
<1>3. derivative \in [Version -> [Processor -> DerivativeRow]]
  BY DEF DocumentsInv
<1>4. derivative' \in [Version -> [Processor -> DerivativeRow]]
  BY <1>1, <1>2, <1>3
<1>5. \A w \in Version, q \in Processor :
        derivative'[w][q].status = "verified" => derivative'[w][q].from = "original"
  <2> TAKE w \in Version, q \in Processor
  <2>1. derivative'[w][q] = r \/ derivative'[w][q] = derivative[w][q]
    BY <1>1, <1>3
  <2> QED
    BY <1>2, <2>1 DEF DocumentsInv, ContentIntact
<1>6. \A w \in Version : Target(w)' = Target(w)
  BY <1>1 DEF Target, Permanent, Quarantine
<1>7. ContentIntact'
  BY <1>1, <1>5, <1>6 DEF DocumentsInv, ContentIntact
<1>8. CallOK(call', deletion', custodyStatus', Blocked(doc)')
  BY <1>1 DEF CallOK
<1> QED
  BY <1>1, <1>4, <1>7, <1>8 DEF DocumentsInv

-----------------------------------------------------------------------------
\* Requests change, none of those accepted becomes one that was not.
LEMMA DeletionStep ==
  ASSUME DocumentsInv, NEW d \in Deletion, NEW r \in DeletionRow,
         deletion' = [deletion EXCEPT ![d] = r],
         deletion[d].job => r.job, RequestIs(r),
         UNCHANGED custodyStatus, UNCHANGED derivative, UNCHANGED store, call' = Nothing
  PROVE  DocumentsInv'
<1>1. deletion \in [Deletion -> DeletionRow]
  BY DEF DocumentsInv
<1>2. deletion' \in [Deletion -> DeletionRow] /\ deletion'[d] = r
  BY <1>1
<1>3. \A e \in Deletion \ {d} : deletion'[e] = deletion[e]
  BY <1>1
<1>4. \A e \in Deletion : RequestIs(deletion'[e])
  BY <1>2, <1>3 DEF DocumentsInv
<1>5. Accepted => Accepted'
  BY <1>2, <1>3 DEF Accepted
<1>6. \A v \in Version : Target(v)' = Target(v)
  BY DEF Target, Permanent, Quarantine
<1>7. ContentIntact'
  BY <1>5, <1>6 DEF DocumentsInv, ContentIntact, Accepted
<1>8. CallOK(call', deletion', custodyStatus', Blocked(doc)')
  BY DEF CallOK
<1> QED
  BY <1>2, <1>4, <1>7, <1>8 DEF DocumentsInv

LEMMA RequestKeeps ==
  ASSUME DocumentsInv, NEW d \in Deletion,
         DeleteDocument(d) \/ DeletionBlocked(d) \/ DeletionException(d)
  PROVE  DocumentsInv'
<1>1. deletion[d] \in DeletionRow
  BY DEF DocumentsInv
<1>2. /\ UNCHANGED custodyStatus /\ UNCHANGED derivative /\ UNCHANGED store /\ call' = Nothing
  BY DEF DeleteDocument, DeletionBlocked, DeletionException
<1>3. CASE DeleteDocument(d)
  <2> PICK r : r = IF Blocked(doc) THEN [status |-> "blocked", job |-> FALSE]
                                   ELSE [status |-> "pending", job |-> TRUE]
    OBVIOUS
  <2>1. r \in DeletionRow /\ RequestIs(r)
    BY DEF DeletionRow, RequestIs
  <2>2. deletion' = [deletion EXCEPT ![d] = r] /\ ~deletion[d].job
    BY <1>3 DEF DeleteDocument, DocumentsInv, RequestIs
  <2> QED
    BY <1>2, <2>1, <2>2, DeletionStep
<1>4. CASE DeletionBlocked(d)
  <2> PICK r : r = [deletion[d] EXCEPT !.status = "blocked"]
    OBVIOUS
  <2>1. r \in DeletionRow /\ r.job = deletion[d].job /\ RequestIs(r)
    BY <1>1 DEF DeletionRow, RequestIs
  <2>2. deletion' = [deletion EXCEPT ![d] = r]
    BY <1>4 DEF DeletionBlocked
  <2> QED
    BY <1>2, <2>1, <2>2, DeletionStep
<1>5. CASE DeletionException(d)
  <2> PICK r : r = [deletion[d] EXCEPT !.status = "exception"]
    OBVIOUS
  <2>1. deletion' = [deletion EXCEPT ![d] = r] /\ Deleting(d)
    BY <1>5 DEF DeletionException
  <2>2. deletion[d].job
    BY <2>1 DEF DocumentsInv, CallOK, Deleting
  <2>3. r \in DeletionRow /\ r.job /\ RequestIs(r)
    BY <1>1, <2>2 DEF DeletionRow, RequestIs
  <2> QED
    BY <1>2, <2>1, <2>2, <2>3, DeletionStep
<1> QED
  BY <1>3, <1>4, <1>5

\* Nothing was deleted that was not accepted, and no version stays in custody.
LEMMA DeletedKeeps ==
  ASSUME DocumentsInv, NEW d \in Deletion, Deleted(d) PROVE DocumentsInv'
<1>1. deletion[d] \in DeletionRow /\ deletion \in [Deletion -> DeletionRow] /\ Deleting(d)
  BY DEF DocumentsInv, Deleted
<1>2. deletion[d].job
  BY <1>1 DEF DocumentsInv, CallOK, Deleting
<1> PICK r : r = [deletion[d] EXCEPT !.status = "completed"]
  OBVIOUS
<1>3. r \in DeletionRow /\ r.job /\ RequestIs(r)
  BY <1>1, <1>2 DEF DeletionRow, RequestIs
<1>4. deletion' = [deletion EXCEPT ![d] = r] /\ UNCHANGED store /\ call' = Nothing
  BY DEF Deleted
<1>5. deletion' \in [Deletion -> DeletionRow] /\ \A e \in Deletion : RequestIs(deletion'[e])
  BY <1>1, <1>3, <1>4 DEF DocumentsInv
<1>6. custodyStatus' = [v \in Version |-> IF custodyStatus[v] = "absent" THEN "absent" ELSE "deleted"]
  BY DEF Deleted
<1>7. custodyStatus' \in [Version -> CustodyStatus] /\ \A v \in Version : custodyStatus'[v] \notin InCustody
  BY <1>6 DEF CustodyStatus, InCustody
<1>8. /\ derivative' \in [Version -> [Processor -> DerivativeRow]]
      /\ \A v \in Version, p \in Processor : derivative'[v][p].status # "verified"
  <2> PICK gone : gone = [status |-> "deleted", from |-> Nothing]
    OBVIOUS
  <2>1. gone \in DerivativeRow /\ gone.status # "verified"
    BY DEF DerivativeRow
  <2>2. derivative' = [v \in Version |-> [p \in Processor |->
           IF derivative[v][p].status = "absent" THEN derivative[v][p] ELSE gone]]
    BY DEF Deleted
  <2>3. \A v \in Version, p \in Processor : derivative[v][p] \in DerivativeRow
    BY DEF DocumentsInv
  <2> QED
    BY <2>1, <2>2, <2>3
<1>9. ContentIntact'
  BY <1>7, <1>8 DEF ContentIntact, InCustody
<1>10. CallOK(call', deletion', custodyStatus', Blocked(doc)')
  BY <1>4 DEF CallOK
<1>11. store' \in [ObjectKey -> Content \cup {Nothing}]
  BY <1>4 DEF DocumentsInv
<1> QED
  BY <1>5, <1>7, <1>8, <1>9, <1>10, <1>11 DEF DocumentsInv

\* An object goes only for a request that was accepted.
LEMMA DeleteObjectKeeps ==
  ASSUME DocumentsInv, NEW d \in Deletion, DeleteObject(d) PROVE DocumentsInv'
<1>1. UNCHANGED doc /\ UNCHANGED custodyStatus /\ UNCHANGED derivative /\ UNCHANGED deletion
  BY DEF DeleteObject
<1>2. Deleting(d) /\ call' = [call EXCEPT !.next = @ + 1]
  BY DEF DeleteObject
<1>3. deletion[d].job
  BY <1>2 DEF DocumentsInv, CallOK, Deleting
<1>4. store' \in [ObjectKey -> Content \cup {Nothing}]
  <2> PICK k : store' = [store EXCEPT ![k] = Nothing]
    BY DEF DeleteObject
  <2> QED
    BY DEF DocumentsInv
<1>5. ContentIntact'
  BY <1>1, <1>3 DEF DocumentsInv, ContentIntact
<1>6. CallOK(call', deletion', custodyStatus', Blocked(doc)')
  <2>1. call'.op = "delete" /\ call'.deletion = d
    BY <1>2 DEF Deleting
  <2>2. ~Blocked(doc)
    BY <1>2 DEF DocumentsInv, CallOK, Deleting
  <2> QED
    BY <1>1, <1>3, <2>1, <2>2 DEF CallOK, Blocked
<1> QED
  BY <1>1, <1>4, <1>5, <1>6 DEF DocumentsInv

\* An object changes; what it holds is content still.
LEMMA ObjectChangesKeeps ==
  ASSUME NothingIsApart, DocumentsInv, NEW k \in ObjectKey, ObjectChanges(k)
  PROVE  DocumentsInv'
<1>1. UNCHANGED doc /\ UNCHANGED call /\ UNCHANGED <<custodyStatus, derivative, deletion>>
  BY DEF ObjectChanges
<1>2. /\ store' \in [ObjectKey -> Content \cup {Nothing}]
      /\ \A j \in ObjectKey : store[j] # Nothing => store'[j] # Nothing
  BY DEF DocumentsInv, ObjectChanges, Content, NothingIsApart
<1>3. CallOK(call', deletion, custodyStatus, Blocked(doc)')
  BY <1>1 DEF DocumentsInv, Blocked
<1> QED
  BY <1>1, <1>2, <1>3, StoreStep

\* The rest leaves the rows of versions and requests and the store alone: it begins or
\* ends a call, or sets what blocks a deletion while none is in progress.
LEMMA CallStep ==
  ASSUME DocumentsInv, UNCHANGED <<custodyStatus, derivative, deletion, store>>,
         CallOK(call', deletion, custodyStatus, Blocked(doc)')
  PROVE  DocumentsInv'
<1>1. UNCHANGED store /\ UNCHANGED <<custodyStatus, derivative, deletion>>
  OBVIOUS
<1>2. /\ store' \in [ObjectKey -> Content \cup {Nothing}]
      /\ \A j \in ObjectKey : store[j] # Nothing => store'[j] # Nothing
  BY <1>1 DEF DocumentsInv
<1> QED
  BY <1>1, <1>2, StoreStep

LEMMA DocumentsStep ==
  ASSUME NothingIsApart, DocumentsInv, [NextDocuments]_documentVars PROVE DocumentsInv'
<1>1. ASSUME NEW v \in Version, VerifyMismatch(v) \/ VerifyRefused(v) PROVE DocumentsInv'
  BY <1>1, RejectKeeps, VerifyingIs DEF VerifyMismatch, VerifyRefused
<1>2. ASSUME NEW v \in Version, VerifyBegin(v) PROVE DocumentsInv'
  <2>1. UNCHANGED <<custodyStatus, derivative, deletion, store>>
    BY <1>2 DEF VerifyBegin
  <2>2. call' = [op |-> "verify", version |-> v] /\ custodyStatus[v] = "quarantined"
    BY <1>2 DEF VerifyBegin
  <2>3. CallOK(call', deletion, custodyStatus, Blocked(doc)')
    BY <2>2 DEF CallOK
  <2> QED
    BY <2>1, <2>3, CallStep
<1>3. ASSUME NEW d \in Deletion, DeletionBegin(d) PROVE DocumentsInv'
  <2>1. UNCHANGED <<custodyStatus, derivative, deletion, store>> /\ UNCHANGED doc
    BY <1>3 DEF DeletionBegin
  <2>2. call' = [op |-> "delete", deletion |-> d, next |-> 1] /\ deletion[d].job /\ ~Blocked(doc)
    BY <1>3 DEF DeletionBegin, Processable, DocumentsInv, RequestIs
  <2>3. CallOK(call', deletion, custodyStatus, Blocked(doc)')
    BY <2>1, <2>2 DEF CallOK, Blocked
  <2> QED
    BY <2>1, <2>3, CallStep
<1>4. ASSUME CallLost PROVE DocumentsInv'
  BY <1>4, CallStep DEF CallLost, CallOK
<1>5. ASSUME NEW hold \in BOOLEAN, NEW retained \in BOOLEAN, SetGovernance(hold, retained)
      PROVE  DocumentsInv'
  <2>1. UNCHANGED <<custodyStatus, derivative, deletion, store>> /\ call' = Nothing
    BY <1>5 DEF SetGovernance
  <2> QED
    BY <2>1, CallStep DEF CallOK
<1>6. ASSUME RetentionEnds PROVE DocumentsInv'
  <2>1. UNCHANGED <<custodyStatus, derivative, deletion, store>> /\ UNCHANGED call
    BY <1>6 DEF RetentionEnds
  <2>2. Blocked(doc)' => Blocked(doc)
    BY <1>6 DEF RetentionEnds, Blocked
  <2>3. CallOK(call', deletion, custodyStatus, Blocked(doc)')
    BY <2>1, <2>2 DEF DocumentsInv, CallOK
  <2> QED
    BY <2>1, <2>3, CallStep
<1>7. ASSUME UNCHANGED documentVars PROVE DocumentsInv'
  <2>1. UNCHANGED doc /\ UNCHANGED call /\ UNCHANGED <<custodyStatus, derivative, deletion, store>>
    BY <1>7 DEF documentVars
  <2>2. CallOK(call', deletion, custodyStatus, Blocked(doc)')
    BY <2>1 DEF DocumentsInv, Blocked
  <2> QED
    BY <2>1, <2>2, CallStep
<1> QED
  BY <1>1, <1>2, <1>3, <1>4, <1>5, <1>6, <1>7, IngestKeeps, IngestLostKeeps, VerifyKeeps,
     VerifyLostKeeps, ExtractionKeeps, RequestKeeps, DeleteObjectKeeps, DeletedKeeps,
     ObjectChangesKeeps DEF NextDocuments

-----------------------------------------------------------------------------
\* An object is taken out of the store by a deletion in progress only.
LEMMA OnlyDeletionTakes ==
  ASSUME NothingIsApart, DocumentsInv, [NextDocuments]_documentVars,
         \A d \in Deletion : ~DeleteObject(d)
  PROVE  \A k \in ObjectKey : store[k] # Nothing => store'[k] # Nothing
<1>1. store \in [ObjectKey -> Content \cup {Nothing}]
  BY DEF DocumentsInv
<1>2. ASSUME UNCHANGED store PROVE \A k \in ObjectKey : store[k] # Nothing => store'[k] # Nothing
  BY <1>2
<1>3. ASSUME NEW v \in Version, Ingest(v) \/ IngestLost(v)
      PROVE  \A k \in ObjectKey : store[k] # Nothing => store'[k] # Nothing
  BY <1>1, <1>3, Keys, PutHolds DEF Ingest, IngestLost
<1>4. ASSUME NEW v \in Version, Verify(v) \/ VerifyLost(v)
      PROVE  \A k \in ObjectKey : store[k] # Nothing => store'[k] # Nothing
  BY <1>1, <1>4, PromotedHolds DEF Verify, VerifyLost
<1>5. ASSUME NEW j \in ObjectKey, ObjectChanges(j)
      PROVE  \A k \in ObjectKey : store[k] # Nothing => store'[k] # Nothing
  BY <1>1, <1>5 DEF ObjectChanges, Content, NothingIsApart
<1>6. ASSUME UNCHANGED documentVars PROVE UNCHANGED store
  BY <1>6 DEF documentVars
<1>7. ASSUME NEW v \in Version,
             \/ VerifyMismatch(v) \/ VerifyBegin(v) \/ VerifyRefused(v)
             \/ \E p \in Processor : CompleteExtraction(v, p)
      PROVE  UNCHANGED store
  BY <1>7 DEF VerifyMismatch, VerifyBegin, VerifyRefused, Reject, CompleteExtraction
<1>8. ASSUME NEW d \in Deletion,
             \/ DeleteDocument(d) \/ DeletionBlocked(d) \/ DeletionBegin(d)
             \/ DeletionException(d) \/ Deleted(d)
      PROVE  UNCHANGED store
  BY <1>8 DEF DeleteDocument, DeletionBlocked, DeletionBegin, DeletionException, Deleted
<1>9. ASSUME CallLost \/ RetentionEnds \/ \E hold, retained \in BOOLEAN : SetGovernance(hold, retained)
      PROVE  UNCHANGED store
  BY <1>9 DEF CallLost, RetentionEnds, SetGovernance
<1> QED
  BY <1>2, <1>3, <1>4, <1>5, <1>6, <1>7, <1>8, <1>9 DEF NextDocuments

\* The content of a version stays what was ingested, and what is made of it is made of
\* that, for every number of versions, processors and deletion requests.
THEOREM ContentIntactHolds ==
  ASSUME NothingIsApart PROVE DocumentsSpec => []ContentIntact
<1>1. InitDocuments => DocumentsInv
  BY DocumentsStart
<1>2. DocumentsInv /\ [NextDocuments]_documentVars => DocumentsInv'
  BY DocumentsStep
<1>3. DocumentsInv => ContentIntact
  BY DEF DocumentsInv
<1> QED
  BY <1>1, <1>2, <1>3, PTL DEF DocumentsSpec

\* A hold or a retention keeps what is in the store, as no deletion is in progress when
\* it is set and none begins while it lasts.
THEOREM HoldKeepsObjectsHolds ==
  ASSUME NothingIsApart PROVE DocumentsSpec => HoldKeepsObjects
<1>1. InitDocuments => DocumentsInv
  BY DocumentsStart
<1>2. DocumentsInv /\ [NextDocuments]_documentVars => DocumentsInv'
  BY DocumentsStep
<1>3. ASSUME DocumentsInv, [NextDocuments]_documentVars
      PROVE  [Blocked(doc) => \A k \in ObjectKey : store[k] # Nothing => store'[k] # Nothing]_documentVars
  <2> SUFFICES ASSUME Blocked(doc)
               PROVE  \A k \in ObjectKey : store[k] # Nothing => store'[k] # Nothing
    OBVIOUS
  <2>1. \A d \in Deletion : ~DeleteObject(d)
    BY <1>3 DEF DeleteObject, Deleting, DocumentsInv, CallOK
  <2> QED
    BY <1>3, <2>1, OnlyDeletionTakes
<1> QED
  BY <1>1, <1>2, <1>3, PTL DEF DocumentsSpec, HoldKeepsObjects

-----------------------------------------------------------------------------
\* A version has one row, in no call but the one that ingests it; and what a deletion
\* in progress has visited stays empty to its end.
VersionsHaveRows ==
  rows \in Seq(Version) /\ Elements(rows) = {v \in Version : custodyStatus[v] # "absent"}

TakenSoFar ==
  call # Nothing /\ call.op = "delete" =>
    /\ call.next \in 1..(Len(rows) + 1)
    /\ \A i \in 1..(call.next - 1) : store[Target(rows[i])] = Nothing

ErasureInv == VersionsHaveRows /\ TakenSoFar

LEMMA ErasureStarts == ASSUME InitDocuments PROVE ErasureInv
BY DEF InitDocuments, ErasureInv, VersionsHaveRows, TakenSoFar, Elements

\* A row in custody stays one, whatever its status becomes.
LEMMA SameRows ==
  ASSUME VersionsHaveRows, UNCHANGED rows,
         custodyStatus' \in [Version -> CustodyStatus],
         \A v \in Version : custodyStatus'[v] # "absent" <=> custodyStatus[v] # "absent"
  PROVE  VersionsHaveRows'
BY DEF VersionsHaveRows, Elements

LEMMA IngestedRow ==
  ASSUME VersionsHaveRows, custodyStatus \in [Version -> CustodyStatus],
         NEW v \in Version, Ingest(v)
  PROVE  VersionsHaveRows'
<1>1. rows \in Seq(Version) /\ rows' = Append(rows, v)
  BY DEF Ingest, VersionsHaveRows
<1>2. rows' \in Seq(Version) /\ Len(rows') = Len(rows) + 1 /\ rows'[Len(rows) + 1] = v
      /\ \A i \in 1..Len(rows) : rows'[i] = rows[i]
  BY <1>1
<1>3. Elements(rows') = Elements(rows) \cup {v}
  BY <1>1, <1>2 DEF Elements
<1>4. custodyStatus' = [custodyStatus EXCEPT ![v] = "quarantined"]
  BY DEF Ingest
<1>5. \A w \in Version : custodyStatus'[w] # "absent" <=> w = v \/ custodyStatus[w] # "absent"
  BY <1>4
<1> QED
  BY <1>2, <1>3, <1>5 DEF VersionsHaveRows

LEMMA VersionsHaveRowsStep ==
  ASSUME NothingIsApart, DocumentsInv, VersionsHaveRows, [NextDocuments]_documentVars
  PROVE  VersionsHaveRows'
<1>1. custodyStatus \in [Version -> CustodyStatus]
  BY DEF DocumentsInv
<1>2. custodyStatus' \in [Version -> CustodyStatus]
  BY DocumentsStep DEF DocumentsInv
<1>3. ASSUME NEW v \in Version, NEW s \in InCustody, custodyStatus[v] = "quarantined",
             custodyStatus' = [custodyStatus EXCEPT ![v] = s], UNCHANGED rows
      PROVE  VersionsHaveRows'
  <2>1. \A w \in Version : custodyStatus'[w] # "absent" <=> custodyStatus[w] # "absent"
    BY <1>1, <1>3 DEF InCustody
  <2> QED
    BY <1>2, <1>3, <2>1, SameRows
<1>4. ASSUME NEW v \in Version, VerifyMismatch(v) \/ VerifyRefused(v) PROVE VersionsHaveRows'
  BY <1>3, <1>4, VerifyingIs DEF VerifyMismatch, VerifyRefused, Reject, InCustody
<1>5. ASSUME NEW v \in Version, Verify(v) PROVE VersionsHaveRows'
  BY <1>3, <1>5, VerifyingIs DEF Verify, InCustody
<1>6. ASSUME NEW d \in Deletion, Deleted(d) PROVE VersionsHaveRows'
  <2>1. UNCHANGED rows /\ \A v \in Version :
          custodyStatus'[v] = IF custodyStatus[v] = "absent" THEN "absent" ELSE "deleted"
    BY <1>6 DEF Deleted
  <2> QED
    BY <1>2, <2>1, SameRows
<1>7. ASSUME UNCHANGED <<rows, custodyStatus>> PROVE VersionsHaveRows'
  BY <1>7 DEF VersionsHaveRows
<1>8. ASSUME NEW v \in Version,
             \/ IngestLost(v) \/ VerifyBegin(v) \/ VerifyLost(v)
             \/ \E p \in Processor : CompleteExtraction(v, p)
      PROVE  UNCHANGED <<rows, custodyStatus>>
  BY <1>8 DEF IngestLost, VerifyBegin, VerifyLost, CompleteExtraction
<1>9. ASSUME NEW d \in Deletion,
             \/ DeleteDocument(d) \/ DeletionBlocked(d) \/ DeletionBegin(d)
             \/ DeleteObject(d) \/ DeletionException(d)
      PROVE  UNCHANGED <<rows, custodyStatus>>
  BY <1>9 DEF DeleteDocument, DeletionBlocked, DeletionBegin, DeleteObject, DeletionException
<1>10. ASSUME \/ CallLost \/ RetentionEnds \/ \E k \in ObjectKey : ObjectChanges(k)
              \/ \E hold, retained \in BOOLEAN : SetGovernance(hold, retained)
              \/ UNCHANGED documentVars
       PROVE  UNCHANGED <<rows, custodyStatus>>
  BY <1>10 DEF CallLost, RetentionEnds, ObjectChanges, SetGovernance, documentVars
<1> QED
  BY <1>1, <1>4, <1>5, <1>6, <1>7, <1>8, <1>9, <1>10, IngestedRow DEF NextDocuments

\* Nothing is put back under a deletion: meanwhile the rows stay, and objects only change
\* to other content.
LEMMA TakenStays ==
  ASSUME TakenSoFar, UNCHANGED <<rows, custodyStatus, call>>,
         \A k \in ObjectKey : store[k] = Nothing => store'[k] = Nothing, VersionsHaveRows
  PROVE  TakenSoFar'
<1>1. UNCHANGED rows /\ UNCHANGED custodyStatus /\ UNCHANGED call
  OBVIOUS
<1> SUFFICES ASSUME call # Nothing, call.op = "delete"
             PROVE  /\ call.next \in 1..(Len(rows) + 1)
                    /\ \A i \in 1..(call.next - 1) : store'[Target(rows[i])'] = Nothing
  BY <1>1 DEF TakenSoFar
<1>2. call.next \in 1..(Len(rows) + 1)
  BY DEF TakenSoFar
<1>3. ASSUME NEW i \in 1..(call.next - 1) PROVE store'[Target(rows[i])'] = Nothing
  <2>1. rows[i] \in Version
    BY <1>2, <1>3 DEF VersionsHaveRows
  <2>2. Target(rows[i])' = Target(rows[i]) /\ Target(rows[i]) \in ObjectKey
    BY <1>1, <2>1, Keys DEF Target, Permanent, Quarantine
  <2> QED
    BY <1>3, <2>2 DEF TakenSoFar
<1> QED
  BY <1>2, <1>3

LEMMA TakenMore ==
  ASSUME DocumentsInv, VersionsHaveRows, TakenSoFar, NEW d \in Deletion, DeleteObject(d)
  PROVE  TakenSoFar'
<1> DEFINE n == call.next
<1>1. call # Nothing /\ call.op = "delete" /\ n <= Len(rows)
  BY DEF DeleteObject, Deleting
<1>2. /\ UNCHANGED rows /\ UNCHANGED custodyStatus
      /\ store' = [store EXCEPT ![Target(rows[n])] = Nothing]
      /\ call' = [call EXCEPT !.next = n + 1]
  BY DEF DeleteObject
<1>3. n \in 1..(Len(rows) + 1) /\ \A i \in 1..(n - 1) : store[Target(rows[i])] = Nothing
  BY <1>1 DEF TakenSoFar
<1>4. Len(rows) \in Nat /\ \A i \in 1..Len(rows) : rows[i] \in Version
  BY DEF VersionsHaveRows
<1>5. \A i \in 1..Len(rows) : Target(rows[i])' = Target(rows[i]) /\ Target(rows[i]) \in ObjectKey
  BY <1>2, <1>4, Keys DEF Target, Permanent, Quarantine
<1>6. store \in [ObjectKey -> Content \cup {Nothing}]
  BY DEF DocumentsInv
\* (a call without a next would keep none)
<1>7. call'.next = n + 1 \/ call'.next = n
  BY <1>2
<1>8. \A i \in 1..n : store'[Target(rows[i])'] = Nothing
  <2> TAKE i \in 1..n
  <2>1. i \in 1..Len(rows) /\ (i = n \/ i \in 1..(n - 1))
    BY <1>1, <1>3, <1>4
  <2> HIDE DEF n
  <2> QED
    BY <1>2, <1>3, <1>5, <1>6, <2>1
<1> QED
  BY <1>1, <1>2, <1>3, <1>4, <1>7, <1>8 DEF TakenSoFar

LEMMA TakenSoFarStep ==
  ASSUME NothingIsApart, DocumentsInv, ErasureInv, [NextDocuments]_documentVars
  PROVE  TakenSoFar'
<1> USE DEF ErasureInv
<1>1. ASSUME call' = Nothing \/ call'.op = "verify" PROVE TakenSoFar'
  BY <1>1 DEF TakenSoFar
<1>2. ASSUME NEW v \in Version,
             \/ Ingest(v) \/ IngestLost(v) \/ VerifyMismatch(v) \/ VerifyBegin(v)
             \/ VerifyRefused(v) \/ Verify(v) \/ VerifyLost(v)
             \/ \E p \in Processor : CompleteExtraction(v, p)
      PROVE  call' = Nothing \/ call'.op = "verify"
  BY <1>2 DEF Ingest, IngestLost, VerifyMismatch, VerifyBegin, VerifyRefused, Verify, VerifyLost,
     CompleteExtraction, Reject
<1>3. ASSUME NEW d \in Deletion,
             DeleteDocument(d) \/ DeletionBlocked(d) \/ DeletionException(d) \/ Deleted(d)
      PROVE  call' = Nothing
  BY <1>3 DEF DeleteDocument, DeletionBlocked, DeletionException, Deleted
<1>4. ASSUME CallLost \/ \E hold, retained \in BOOLEAN : SetGovernance(hold, retained)
      PROVE  call' = Nothing
  BY <1>4 DEF CallLost, SetGovernance
<1>5. ASSUME NEW d \in Deletion, DeletionBegin(d) PROVE TakenSoFar'
  <2>1. call' = [op |-> "delete", deletion |-> d, next |-> 1] /\ UNCHANGED rows
    BY <1>5 DEF DeletionBegin
  <2>2. call'.next = 1 /\ Len(rows') \in Nat
    BY <2>1 DEF VersionsHaveRows
  <2> QED
    BY <2>2 DEF TakenSoFar
<1>6. ASSUME RetentionEnds \/ UNCHANGED documentVars PROVE TakenSoFar'
  <2>1. UNCHANGED <<rows, custodyStatus, call>> /\ UNCHANGED store
    BY <1>6 DEF RetentionEnds, documentVars
  <2> QED
    BY <2>1, TakenStays
<1>7. ASSUME NEW k \in ObjectKey, ObjectChanges(k) PROVE TakenSoFar'
  <2>1. UNCHANGED <<rows, custodyStatus, call>>
    BY <1>7 DEF ObjectChanges
  <2>2. \A j \in ObjectKey : store[j] = Nothing => store'[j] = Nothing
    BY <1>7 DEF ObjectChanges, DocumentsInv, Content, NothingIsApart
  <2> QED
    BY <2>1, <2>2, TakenStays
<1> QED
  BY <1>1, <1>2, <1>3, <1>4, <1>5, <1>6, <1>7, TakenMore DEF NextDocuments

\* A request is completed by the end of a deletion only.
LEMMA OnlyDeletedCompletes ==
  ASSUME DocumentsInv, [NextDocuments]_documentVars, NEW d \in Deletion,
         deletion[d].status # "completed", deletion'[d].status = "completed"
  PROVE  Deleted(d)
<1>1. deletion \in [Deletion -> DeletionRow]
  BY DEF DocumentsInv
<1>2. deletion' # deletion
  OBVIOUS
<1>3. ASSUME NEW e \in Deletion, NEW r, deletion' = [deletion EXCEPT ![e] = r]
      PROVE  e = d /\ r.status = "completed"
  BY <1>1, <1>3
<1>4. ASSUME NEW e \in Deletion, DeleteDocument(e) PROVE FALSE
  <2> PICK r : r = IF Blocked(doc) THEN [status |-> "blocked", job |-> FALSE]
                                   ELSE [status |-> "pending", job |-> TRUE]
    OBVIOUS
  <2>1. deletion' = [deletion EXCEPT ![e] = r] /\ r.status # "completed"
    BY <1>4 DEF DeleteDocument
  <2> QED
    BY <1>3, <2>1
<1>5. ASSUME NEW e \in Deletion, NEW s \in {"blocked", "exception", "completed"},
             deletion' = [deletion EXCEPT ![e].status = s]
      PROVE  e = d /\ s = "completed"
  <2> PICK r : r = [deletion[e] EXCEPT !.status = s]
    OBVIOUS
  <2>1. r.status = s
    BY <1>1 DEF DeletionRow
  <2> QED
    BY <1>3, <1>5, <2>1
<1>6. ASSUME NEW e \in Deletion, DeletionBlocked(e) \/ DeletionException(e) PROVE FALSE
  BY <1>5, <1>6 DEF DeletionBlocked, DeletionException
<1>7. ASSUME NEW e \in Deletion, Deleted(e) PROVE Deleted(d)
  BY <1>5, <1>7 DEF Deleted
<1>8. ASSUME NEW v \in Version,
             \/ Ingest(v) \/ IngestLost(v) \/ VerifyMismatch(v) \/ VerifyBegin(v)
             \/ VerifyRefused(v) \/ Verify(v) \/ VerifyLost(v)
             \/ \E p \in Processor : CompleteExtraction(v, p)
      PROVE  UNCHANGED deletion
  BY <1>8 DEF Ingest, IngestLost, VerifyMismatch, VerifyBegin, VerifyRefused, Verify, VerifyLost,
     CompleteExtraction, Reject
<1>9. ASSUME \/ \E e \in Deletion : DeletionBegin(e) \/ DeleteObject(e)
             \/ CallLost \/ RetentionEnds \/ \E k \in ObjectKey : ObjectChanges(k)
             \/ \E hold, retained \in BOOLEAN : SetGovernance(hold, retained)
             \/ UNCHANGED documentVars
      PROVE  UNCHANGED deletion
  BY <1>9 DEF DeletionBegin, DeleteObject, CallLost, RetentionEnds, ObjectChanges, SetGovernance,
     documentVars
<1> QED
  BY <1>2, <1>4, <1>6, <1>7, <1>8, <1>9 DEF NextDocuments

\* When a deletion is completed there is nothing at the key any row of the document names:
\* a later version, a refusal of the store or a retry by another request leaves none of
\* them.  What DeletionErases finds left is therefore under the other key of a version:
\* the object in quarantine that a promotion copied, or a copy whose row was rolled back.
ErasesWhatRowsName ==
  [][\A d \in Deletion : deletion[d].status # "completed" /\ deletion'[d].status = "completed" =>
       \A v \in Version : custodyStatus[v] # "absent" => store'[Target(v)] = Nothing]_documentVars

THEOREM ErasesWhatRowsNameHolds ==
  ASSUME NothingIsApart PROVE DocumentsSpec => ErasesWhatRowsName
<1> DEFINE Erased ==
  \A d \in Deletion : deletion[d].status # "completed" /\ deletion'[d].status = "completed" =>
    \A v \in Version : custodyStatus[v] # "absent" => store'[Target(v)] = Nothing
<1>1. InitDocuments => DocumentsInv /\ ErasureInv
  BY DocumentsStart, ErasureStarts
<1>2. DocumentsInv /\ ErasureInv /\ [NextDocuments]_documentVars => (DocumentsInv /\ ErasureInv)'
  BY DocumentsStep, VersionsHaveRowsStep, TakenSoFarStep DEF ErasureInv
<1>3. ASSUME DocumentsInv, ErasureInv, [NextDocuments]_documentVars PROVE [Erased]_documentVars
  <2> SUFFICES ASSUME NEW d \in Deletion, deletion[d].status # "completed",
                      deletion'[d].status = "completed",
                      NEW v \in Version, custodyStatus[v] # "absent"
               PROVE  store'[Target(v)] = Nothing
    OBVIOUS
  <2>1. Deleted(d)
    BY <1>3, OnlyDeletedCompletes
  <2>2. UNCHANGED store /\ call # Nothing /\ call.op = "delete" /\ call.next > Len(rows)
    BY <2>1 DEF Deleted, Deleting
  <2>3. PICK i \in 1..Len(rows) : rows[i] = v
    BY <1>3 DEF ErasureInv, VersionsHaveRows, Elements
  <2>4. call.next \in 1..(Len(rows) + 1) /\ Len(rows) \in Nat
    BY <1>3, <2>2 DEF ErasureInv, VersionsHaveRows, TakenSoFar
  <2>5. i \in 1..(call.next - 1)
    BY <2>2, <2>3, <2>4
  <2> QED
    BY <1>3, <2>2, <2>3, <2>5 DEF ErasureInv, TakenSoFar
<1> QED
  BY <1>1, <1>2, <1>3, PTL DEF DocumentsSpec, ErasesWhatRowsName

-----------------------------------------------------------------------------
(* Knowledge *)

\* NULL is no row and no claim.
NullIsNoRow == NoRow \notin ClaimRow \cup EntryRow \cup Claim

EntriesRestOnClaims ==
  \A e \in Event : timeline[e] # NoRow /\ timeline[e].claim # NoRow => timeline[e].claim \in Existing

\* A claim keeps the mark of its disposition until a relation overwrites it.
MarksStay ==
  \A c \in Claim :
    claim[c] # NoRow /\ claim[c].disposed => claim[c].status = "invalidated" \/ Overwritten(c)

\* With MarksStay, what TimelineOfLivingClaims says.
ShownAreValid == \A e \in Shown : claim[timeline[e].claim].status # "invalidated"

HeldAreRows ==
  \A k \in Projection : rebuild[k] # NoRow => \A e \in rebuild[k].held : timeline[e] # NoRow

KnowledgeInv == KnowledgeTypeOK /\ EntriesRestOnClaims /\ MarksStay /\ ShownAreValid /\ HeldAreRows

\* A step leaves every claim as firm as it was: it stays, and is not active again.
Firm ==
  \A c \in Claim : claim[c] # NoRow =>
    /\ claim'[c] # NoRow
    /\ claim'[c].status = "active" => claim[c].status = "active"

-----------------------------------------------------------------------------
LEMMA KnowledgeStarts == ASSUME NullIsNoRow, InitKnowledge PROVE KnowledgeInv
  BY DEF InitKnowledge, KnowledgeInv, KnowledgeTypeOK, EntriesRestOnClaims, MarksStay, ShownAreValid, Shown,
         HeldAreRows, NullIsNoRow

LEMMA ChangedRow ==
  ASSUME NEW row \in ClaimRow, NEW status \in {"active", "contradicted", "superseded", "invalidated"}
  PROVE  /\ ChangedClaim(row, status) \in ClaimRow
         /\ ChangedClaim(row, status).status = status
         /\ ChangedClaim(row, status).disposed => row.disposed \/ status = "invalidated"
<1>1. row.version + 1 \in Nat \ {0}
  BY DEF ClaimRow
<1>2. DOMAIN row = {"status", "review", "from", "version", "disposed"}
  BY DEF ClaimRow
<1> QED BY <1>1, <1>2 DEF ChangedClaim, ClaimRow

\* Claims are created, related and reviewed; entries stay as they are.
LEMMA ClaimsKeep ==
  ASSUME NullIsNoRow, KnowledgeInv, UNCHANGED <<custody, timeline, checkpoint, disposition, rebuild>>,
         relation \subseteq relation', relation' \subseteq RelationRow,
         claim' \in [Claim -> ClaimRow \cup {NoRow}],
         \A c \in Claim : claim[c] # NoRow =>
           /\ claim'[c] # NoRow
           /\ claim'[c].status = "active" => claim[c].status = "active"
           /\ claim'[c].status = "invalidated" => claim[c].status = "invalidated",
         \A c \in Claim : claim'[c] # NoRow /\ claim'[c].disposed =>
           \/ claim'[c].status = "invalidated"
           \/ claim[c] # NoRow /\ claim[c].disposed /\ claim'[c].status = claim[c].status
           \/ Overwritten(c)'
  PROVE  KnowledgeInv' /\ Firm
<1>1. KnowledgeTypeOK'
  BY DEF KnowledgeInv, KnowledgeTypeOK
<1>2. \A e \in Event : timeline[e] # NoRow /\ timeline[e].claim # NoRow =>
        timeline[e].claim \in Claim /\ claim[timeline[e].claim] # NoRow
  BY DEF KnowledgeInv, EntriesRestOnClaims, Existing
<1>3. EntriesRestOnClaims'
  BY <1>2 DEF EntriesRestOnClaims, Existing
<1>4. ShownAreValid'
  BY <1>2 DEF KnowledgeInv, ShownAreValid, Shown
<1>5. MarksStay'
  <2>1. \A c \in Claim : Overwritten(c) => Overwritten(c)'
    BY DEF Overwritten
  <2> QED BY <2>1 DEF KnowledgeInv, MarksStay
<1>6. HeldAreRows'
  BY DEF KnowledgeInv, HeldAreRows
<1> QED BY <1>1, <1>3, <1>4, <1>5, <1>6 DEF KnowledgeInv, Firm

LEMMA ClaimCreateKeeps ==
  ASSUME NullIsNoRow, KnowledgeInv, NEW c \in Claim, NEW from \in Derivation, CreateClaim(c, from)
  PROVE  KnowledgeInv' /\ Firm
<1>1. claim' \in [Claim -> ClaimRow \cup {NoRow}]
  BY DEF CreateClaim, KnowledgeInv, KnowledgeTypeOK, ClaimRow
<1>2. /\ \A d \in Claim : claim[d] # NoRow => claim'[d] = claim[d]
      /\ \A d \in Claim : claim[d] = NoRow /\ claim'[d] # NoRow => ~claim'[d].disposed
  BY DEF CreateClaim, KnowledgeInv, KnowledgeTypeOK
<1> QED BY <1>1, <1>2, ClaimsKeep DEF CreateClaim, KnowledgeInv, KnowledgeTypeOK

LEMMA ReviewKeeps ==
  ASSUME NullIsNoRow, KnowledgeInv, NEW c \in Claim, NEW verdict \in {"accepted", "rejected"}, Review(c, verdict)
  PROVE  KnowledgeInv' /\ Firm
<1>1. claim[c] \in ClaimRow
  BY DEF Review, Existing, KnowledgeInv, KnowledgeTypeOK
<1>2. PICK row : row = ChangedClaim([claim[c] EXCEPT !.review = verdict], claim[c].status)
  OBVIOUS
<1>3. /\ row \in ClaimRow /\ row.status = claim[c].status
      /\ row.disposed => claim[c].disposed \/ row.status = "invalidated"
  <2>1. /\ [claim[c] EXCEPT !.review = verdict] \in ClaimRow
        /\ [claim[c] EXCEPT !.review = verdict].disposed = claim[c].disposed
    BY <1>1 DEF ClaimRow
  <2> QED BY <1>1, <1>2, <2>1, ChangedRow DEF ClaimRow
<1>4. claim' = [claim EXCEPT ![c] = row]
  BY <1>2 DEF Review
<1>5. /\ claim' \in [Claim -> ClaimRow \cup {NoRow}]
      /\ claim'[c] = row /\ row # NoRow /\ claim[c] # NoRow
  BY <1>1, <1>3, <1>4 DEF KnowledgeInv, KnowledgeTypeOK, NullIsNoRow
<1>6. \A d \in Claim : d # c => claim'[d] = claim[d]
  BY <1>4 DEF KnowledgeInv, KnowledgeTypeOK
<1> QED BY <1>3, <1>5, <1>6, ClaimsKeep DEF Review, KnowledgeInv, KnowledgeTypeOK

LEMMA RelateKeeps ==
  ASSUME NullIsNoRow, KnowledgeInv, NEW r \in RelationRow, RelateClaims(r) PROVE KnowledgeInv' /\ Firm
<1>1. r.claim \in Claim /\ r.other \in Claim /\ claim[r.claim] \in ClaimRow /\ claim[r.other] \in ClaimRow
  BY DEF RelateClaims, Existing, RelationRow, KnowledgeInv, KnowledgeTypeOK
<1>2. \A d \in {r.claim, r.other} : \A status \in {"contradicted", "superseded"} :
        ChangedClaim(claim[d], status) \in ClaimRow /\ ChangedClaim(claim[d], status).status = status
  BY <1>1, ChangedRow
<1>3. /\ claim' \in [Claim -> ClaimRow \cup {NoRow}]
      /\ \A d \in Claim :
           \/ claim'[d] = claim[d]
           \/ /\ claim[d] # NoRow /\ claim'[d] \in ClaimRow
              /\ claim'[d].status \in {"contradicted", "superseded"}
              /\ d = r.other \/ (r.type = "contradicts" /\ d = r.claim)
  <2>1. CASE r.type = "contradicts"
    BY <1>1, <1>2, <2>1 DEF RelateClaims, KnowledgeInv, KnowledgeTypeOK, NullIsNoRow
  <2>2. CASE r.type # "contradicts"
    BY <1>1, <1>2, <2>2 DEF RelateClaims, KnowledgeInv, KnowledgeTypeOK, NullIsNoRow
  <2> QED BY <2>1, <2>2
<1>4. relation \subseteq relation' /\ relation' \subseteq RelationRow /\ r \in relation'
  BY DEF RelateClaims, KnowledgeInv, KnowledgeTypeOK
<1>5. \A d \in Claim : claim'[d] = claim[d] \/ Overwritten(d)'
  BY <1>3, <1>4 DEF Overwritten
<1> QED BY <1>3, <1>4, <1>5, ClaimsKeep DEF RelateClaims, NullIsNoRow

-----------------------------------------------------------------------------
(* Entries are projected and removed; claims stay as they are. *)

LEMMA ProjectedRow ==
  ASSUME NullIsNoRow, KnowledgeInv, NEW e \in Event, NEW c \in Claim \cup {NoRow}, NEW k \in Projection,
         Projectable(e, c)
  PROVE  /\ Projected(e, c, k) \in EntryRow
         /\ Projected(e, c, k).claim = c
         /\ c # NoRow => c \in Existing /\ claim[c].status # "invalidated"
  BY DEF Projectable, Projected, EntryRow, Readable, Existing, KnowledgeInv, KnowledgeTypeOK

LEMMA EntriesKeep ==
  ASSUME NullIsNoRow, KnowledgeInv, UNCHANGED <<custody, claim, relation, disposition>>,
         checkpoint' \in [Projection -> (SUBSET Event) \cup {NoRow}],
         rebuild' \in [Projection -> [input : RebuildInput, held : SUBSET Event] \cup {NoRow}],
         \A k \in Projection : rebuild'[k] \in {rebuild[k], NoRow},
         \A e \in Event : timeline[e] # NoRow => timeline'[e] # NoRow,
         timeline' \in [Event -> EntryRow \cup {NoRow}],
         \A e \in Event : timeline'[e] # NoRow =>
           \/ /\ timeline[e] # NoRow /\ timeline'[e].claim = timeline[e].claim
              /\ timeline'[e].status \in {timeline[e].status, "removed"}
           \/ timeline'[e].claim # NoRow =>
                timeline'[e].claim \in Existing /\ claim[timeline'[e].claim].status # "invalidated"
  PROVE  KnowledgeInv' /\ Firm
<1>1. KnowledgeTypeOK'
  BY DEF KnowledgeInv, KnowledgeTypeOK
<1>2. EntriesRestOnClaims'
  BY DEF KnowledgeInv, EntriesRestOnClaims, Existing
<1>3. ShownAreValid'
  BY DEF KnowledgeInv, ShownAreValid, Shown
<1>4. MarksStay'
  BY DEF KnowledgeInv, MarksStay, Overwritten
<1>5. HeldAreRows'
  BY DEF KnowledgeInv, HeldAreRows, KnowledgeTypeOK
<1> QED BY <1>1, <1>2, <1>3, <1>4, <1>5 DEF KnowledgeInv, Firm

LEMMA ProjectKeeps ==
  ASSUME NullIsNoRow, KnowledgeInv, NEW e \in Event, NEW c \in Claim \cup {NoRow}, NEW k \in Projection,
         Project(e, c, k)
  PROVE  KnowledgeInv' /\ Firm
<1>1. PICK row : row = Projected(e, c, k)
  OBVIOUS
<1>2. row \in EntryRow /\ row.claim = c /\ (c # NoRow => c \in Existing /\ claim[c].status # "invalidated")
  BY <1>1, ProjectedRow DEF Project
<1>3. timeline' = [timeline EXCEPT ![e] = row]
  BY <1>1 DEF Project
<1>4. timeline' \in [Event -> EntryRow \cup {NoRow}] /\ timeline'[e] = row
      /\ \A f \in Event : f # e => timeline'[f] = timeline[f]
  BY <1>2, <1>3 DEF KnowledgeInv, KnowledgeTypeOK
<1>5. UNCHANGED <<checkpoint, rebuild>> /\ KnowledgeTypeOK
  BY DEF Project, KnowledgeInv
<1> QED BY <1>2, <1>4, <1>5, EntriesKeep DEF Project, KnowledgeTypeOK, NullIsNoRow

\* What a rebuild brings back it projects, and so reads the claim again.
LEMMA RebuildKeeps ==
  ASSUME NullIsNoRow, KnowledgeInv, NEW k \in Projection, RebuildCommits(k)
  PROVE  KnowledgeInv' /\ Firm
<1>1. PICK input \in RebuildInput : input = rebuild[k].input
  BY DEF RebuildCommits, KnowledgeInv, KnowledgeTypeOK
<1>2. DOMAIN input \subseteq Event /\ \A e \in DOMAIN input : input[e] \in Claim \cup {NoRow}
  BY DEF RebuildInput
<1>3. /\ checkpoint' \in [Projection -> (SUBSET Event) \cup {NoRow}]
      /\ rebuild' \in [Projection -> [input : RebuildInput, held : SUBSET Event] \cup {NoRow}]
      /\ \A l \in Projection : rebuild'[l] \in {rebuild[l], NoRow}
  BY <1>1, <1>2 DEF RebuildCommits, KnowledgeInv, KnowledgeTypeOK
<1>4. \A e \in DOMAIN input :
        /\ timeline'[e] = Projected(e, input[e], k)
        /\ timeline'[e] \in EntryRow /\ timeline'[e] # NoRow
        /\ timeline'[e].claim # NoRow => timeline'[e].claim \in Existing
                                        /\ claim[timeline'[e].claim].status # "invalidated"
  BY <1>1, <1>2, ProjectedRow DEF RebuildCommits, NullIsNoRow
<1>5. \A e \in Event \ DOMAIN input :
        /\ timeline'[e] \in EntryRow \cup {NoRow}
        /\ timeline[e] # NoRow => timeline'[e] # NoRow
        /\ timeline'[e] # NoRow =>
             /\ timeline[e] # NoRow /\ timeline'[e].claim = timeline[e].claim
             /\ timeline'[e].status \in {timeline[e].status, "removed"}
  BY <1>1 DEF RebuildCommits, KnowledgeInv, HeldAreRows, KnowledgeTypeOK, EntryRow, NullIsNoRow
<1>6. timeline' \in [Event -> EntryRow \cup {NoRow}]
  <2>1. timeline' = [e \in Event |-> timeline'[e]]
    BY DEF RebuildCommits
  <2> QED BY <1>4, <1>5, <2>1
<1> QED BY <1>3, <1>4, <1>5, <1>6, EntriesKeep DEF RebuildCommits

\* The entries of a claim that becomes invalid are removed with it.
LEMMA DispositionKeeps ==
  ASSUME NullIsNoRow, KnowledgeInv, NEW s \in Source, ProcessDisposition(s) PROVE KnowledgeInv' /\ Firm
<1> DEFINE gone == ClaimsForSource(s)
<1>1. \A c \in Claim :
        /\ claim'[c] \in ClaimRow \cup {NoRow}
        /\ claim[c] # NoRow <=> claim'[c] # NoRow
        /\ \/ claim'[c] = claim[c]
           \/ c \in gone /\ claim'[c] \in ClaimRow /\ claim'[c].status = "invalidated"
  <2> SUFFICES ASSUME NEW c \in Claim, claim'[c] # claim[c]
               PROVE  /\ claim[c] # NoRow
                      /\ c \in gone /\ claim'[c] \in ClaimRow /\ claim'[c].status = "invalidated"
    BY DEF KnowledgeInv, KnowledgeTypeOK, NullIsNoRow
  <2>1. c \in gone /\ claim'[c] = ChangedClaim(claim[c], "invalidated")
    BY DEF ProcessDisposition
  <2>2. claim[c] \in ClaimRow
    BY <2>1 DEF ClaimsForSource, Existing, KnowledgeInv, KnowledgeTypeOK
  <2> QED BY <2>1, <2>2, ChangedRow DEF ClaimsForSource, Existing
<1>2. \A e \in Event :
        /\ timeline'[e] \in EntryRow \cup {NoRow}
        /\ timeline'[e] # NoRow <=> timeline[e] # NoRow
        /\ timeline[e] # NoRow => timeline'[e].claim = timeline[e].claim
        /\ timeline[e] # NoRow /\ timeline'[e].status = "active" =>
             timeline[e].status = "active" /\ timeline[e].claim \notin gone
  BY DEF ProcessDisposition, EntriesOf, EntryRow, KnowledgeInv, KnowledgeTypeOK, NullIsNoRow
<1>3. KnowledgeTypeOK'
  <2>1. claim' = [c \in Claim |-> claim'[c]] /\ timeline' = [e \in Event |-> timeline'[e]]
    BY DEF ProcessDisposition
  <2>2. disposition' \in [Source -> DispositionRow \cup {NoRow}]
    BY DEF ProcessDisposition, KnowledgeInv, KnowledgeTypeOK, DispositionRow
  <2>3. claim' \in [Claim -> ClaimRow \cup {NoRow}] /\ timeline' \in [Event -> EntryRow \cup {NoRow}]
    BY <1>1, <1>2, <2>1
  <2> QED BY <2>2, <2>3 DEF ProcessDisposition, KnowledgeInv, KnowledgeTypeOK
<1>4. EntriesRestOnClaims'
  BY <1>1, <1>2 DEF KnowledgeInv, EntriesRestOnClaims, Existing
<1>5. ShownAreValid'
  BY <1>1, <1>2 DEF KnowledgeInv, EntriesRestOnClaims, ShownAreValid, Shown, Existing
<1>6. MarksStay'
  BY <1>1 DEF ProcessDisposition, KnowledgeInv, MarksStay, Overwritten
<1>7. HeldAreRows'
  BY <1>2 DEF ProcessDisposition, KnowledgeInv, HeldAreRows, KnowledgeTypeOK
<1>8. Firm
  BY <1>1 DEF Firm
<1> QED BY <1>3, <1>4, <1>5, <1>6, <1>7, <1>8 DEF KnowledgeInv

LEMMA OthersKeep ==
  ASSUME NullIsNoRow, KnowledgeInv,
         \/ \E s \in Source : RequestDisposition(s) \/ CustodyChanges(s)
         \/ \E k \in Projection :
              RebuildAborts(k) \/ \E input \in RebuildInput : RebuildBegins(k, input)
         \/ UNCHANGED knowledgeVars
  PROVE  KnowledgeInv' /\ Firm
<1>1. UNCHANGED <<claim, timeline, relation, checkpoint>>
  BY DEF RequestDisposition, CustodyChanges, RebuildBegins, RebuildAborts, knowledgeVars
<1>2. /\ rebuild' \in [Projection -> [input : RebuildInput, held : SUBSET Event] \cup {NoRow}]
      /\ HeldAreRows'
  <2>1. EntriesRestOnClaims /\ KnowledgeTypeOK /\ HeldAreRows
    BY DEF KnowledgeInv
  <2>2. ASSUME NEW k \in Projection, NEW input \in RebuildInput, RebuildBegins(k, input)
        PROVE  /\ rebuild' \in [Projection -> [input : RebuildInput, held : SUBSET Event] \cup {NoRow}]
               /\ HeldAreRows'
    <3>1. EntriesUnder(k) \subseteq Event /\ \A e \in EntriesUnder(k) : timeline[e] # NoRow
      BY DEF EntriesUnder
    <3> QED BY <1>1, <2>1, <2>2, <3>1 DEF RebuildBegins, KnowledgeTypeOK, HeldAreRows
  <2>3. ASSUME NEW k \in Projection, RebuildAborts(k)
        PROVE  /\ rebuild' \in [Projection -> [input : RebuildInput, held : SUBSET Event] \cup {NoRow}]
               /\ HeldAreRows'
    BY <1>1, <2>1, <2>3 DEF RebuildAborts, KnowledgeTypeOK, HeldAreRows
  <2>4. CASE UNCHANGED rebuild
    BY <1>1, <2>1, <2>4 DEF KnowledgeTypeOK, HeldAreRows
  <2> QED BY <2>2, <2>3, <2>4 DEF RequestDisposition, CustodyChanges, knowledgeVars
<1>3. KnowledgeTypeOK'
  BY <1>1, <1>2 DEF RequestDisposition, CustodyChanges, RebuildBegins, RebuildAborts, knowledgeVars,
                    KnowledgeInv, KnowledgeTypeOK, DispositionRow
<1> QED BY <1>1, <1>2, <1>3 DEF KnowledgeInv, EntriesRestOnClaims, ShownAreValid, Shown, MarksStay,
                                Overwritten, Existing, Firm

LEMMA Inductive == ASSUME NullIsNoRow, KnowledgeInv, [NextKnowledge]_knowledgeVars PROVE KnowledgeInv' /\ Firm
  BY ClaimCreateKeeps, ReviewKeeps, RelateKeeps, ProjectKeeps, RebuildKeeps, DispositionKeeps, OthersKeep
     DEF NextKnowledge

-----------------------------------------------------------------------------
\* Every row is a row of its table: the statuses and versions the service writes.
THEOREM KnowledgeTypeCorrect == ASSUME NullIsNoRow PROVE KnowledgeSpec => []KnowledgeTypeOK
<1>1. KnowledgeInv => KnowledgeTypeOK
  BY DEF KnowledgeInv
<1> QED BY <1>1, KnowledgeStarts, Inductive, PTL DEF KnowledgeSpec

\* What the timeline shows rests on no claim that is invalidated, nor on one that was and
\* that no relation gave another status, through every order of reviews, relations,
\* projections, dispositions and rebuilds in flight: KnowledgeService.
THEOREM TimelineOfLivingClaimsHolds == ASSUME NullIsNoRow PROVE KnowledgeSpec => []TimelineOfLivingClaims
<1>1. KnowledgeInv => TimelineOfLivingClaims
  BY DEF KnowledgeInv, EntriesRestOnClaims, Existing, MarksStay, ShownAreValid, Shown,
         TimelineOfLivingClaims
<1> QED BY <1>1, KnowledgeStarts, Inductive, PTL DEF KnowledgeSpec

\* No call makes a claim active again that was contradicted, superseded or invalidated.
THEOREM NeverActiveAgainHolds == ASSUME NullIsNoRow PROVE KnowledgeSpec => NeverActiveAgain
<1>1. ASSUME KnowledgeInv, [NextKnowledge]_knowledgeVars
      PROVE  [\A c \in Claim : claim[c] # NoRow /\ claim[c].status # "active"
                                 => claim'[c].status # "active"]_knowledgeVars
  BY <1>1, Inductive DEF Firm
<1> QED BY <1>1, KnowledgeStarts, Inductive, PTL DEF KnowledgeSpec, NeverActiveAgain

-----------------------------------------------------------------------------
\* Null stands for a row that is not there.
NullIsApart == Null \notin {"active", "stale"}

-----------------------------------------------------------------------------
(* The resource graph *)

EdgesTyped == edge \in [Resource \X Resource -> {Null, "active", "deleted"}]

GraphInv == EdgesTyped /\ ExclusiveEdges

LEMMA GraphStarts ==
  ASSUME NullIsApart, InitGraph PROVE GraphInv
  BY DEF NullIsApart, InitGraph, GraphInv, EdgesTyped, ExclusiveEdges

\* A new relationship is the only one of an exclusive source; deletion only ends them.
LEMMA GraphKept ==
  ASSUME GraphInv, [NextGraph]_edge PROVE GraphInv'
<1>1. CASE UNCHANGED edge
  BY <1>1 DEF GraphInv, EdgesTyped, ExclusiveEdges
<1>2. ASSUME NEW s \in Resource, NEW t \in Resource, Relate(s, t) PROVE GraphInv'
  <2>1. EdgesTyped'
    BY <1>2 DEF GraphInv, EdgesTyped, Relate
  <2>2. ASSUME NEW r \in Resource, NEW u \in Resource, NEW v \in Resource,
               Kind[r] \in Exclusive, edge'[<<r, u>>] = "active", edge'[<<r, v>>] = "active"
        PROVE u = v
    <3>1. CASE r = s
      <4>1. Held(s) = {}
        BY <1>2, <2>2, <3>1 DEF Relate
      <4>2. \A w \in Resource : w # t => edge'[<<s, w>>] # "active"
        BY <1>2, <4>1 DEF Relate, Held, GraphInv, EdgesTyped
      <4> QED BY <2>2, <3>1, <4>2
    <3>2. CASE r # s
      <4>1. edge[<<r, u>>] = "active" /\ edge[<<r, v>>] = "active"
        BY <1>2, <2>2, <3>2 DEF Relate, GraphInv, EdgesTyped
      <4> QED BY <2>2, <4>1 DEF GraphInv, ExclusiveEdges
    <3> QED BY <3>1, <3>2
  <2> QED BY <2>1, <2>2 DEF GraphInv, ExclusiveEdges
<1>3. ASSUME NEW r \in Resource, Delete(r) PROVE GraphInv'
  <2>1. EdgesTyped'
    BY <1>3 DEF GraphInv, EdgesTyped, Delete
  <2>2. \A p \in Resource \X Resource : edge'[p] = "active" => edge[p] = "active"
    BY <1>3 DEF Delete
  <2> QED BY <2>1, <2>2 DEF GraphInv, ExclusiveEdges
<1>4. ASSUME NEW r \in Resource, Create(r) \/ AddFeature(r) PROVE GraphInv'
  BY <1>1, <1>4 DEF Create, AddFeature
<1> QED BY <1>1, <1>2, <1>3, <1>4 DEF NextGraph

\* A contact works for one company at a time, in every order of creations, relationships
\* and deletions: ResourceGraphService.relate and delete.
THEOREM ExclusiveEdgesHolds ==
  ASSUME NullIsApart PROVE GraphSpec => []ExclusiveEdges
<1>1. InitGraph => GraphInv
  BY GraphStarts
<1>2. GraphInv /\ [NextGraph]_graphVars => GraphInv'
  BY GraphKept DEF graphVars
<1>3. GraphInv => ExclusiveEdges
  BY DEF GraphInv
<1> QED BY <1>1, <1>2, <1>3, PTL DEF GraphSpec

-----------------------------------------------------------------------------
(* The search index *)

IndexTyped ==
  /\ generation \in [Generation -> {Null, "building", "active", "disabled"}]
  /\ document \in [Identity -> {Null, "active", "stale"}]
  /\ buried \subseteq Identity

OneServed == \A g, h \in Served : g = h

\* A document that was there when its source was disposed of is stale for good, and so
\* cannot be indexed again.
BuriedIsStale == \A d \in buried : document[d] = "stale"

IndexInv == IndexTyped /\ OneServed /\ BuriedIsStale

LEMMA IndexStarts ==
  ASSUME NullIsApart, InitSearch PROVE IndexInv
  BY DEF NullIsApart, InitSearch, IndexInv, IndexTyped, OneServed, BuriedIsStale, Served

LEMMA IndexKept ==
  ASSUME NullIsApart, IndexInv, [NextSearch]_searchVars PROVE IndexInv'
<1> USE DEF IndexInv, IndexTyped, OneServed, BuriedIsStale, Served
<1>1. CASE UNCHANGED searchVars
  BY <1>1 DEF searchVars
<1>2. ASSUME NEW g \in Generation, CreateGeneration(g) PROVE IndexInv'
  BY <1>2 DEF CreateGeneration, NullIsApart
<1>3. ASSUME NEW g \in Generation, ActivateGeneration(g) PROVE IndexInv'
  <2>1. PICK h \in ActiveGeneration(g) :
          generation' = [generation EXCEPT ![h] = "disabled", ![g] = "active"]
    BY <1>3 DEF ActivateGeneration
  <2>2. h \in Generation /\ \A k \in Served : k = h
    BY <2>1 DEF ActiveGeneration
  <2>3. \A k \in Served' : k = g
    BY <2>1, <2>2
  <2> QED BY <1>3, <2>1, <2>2, <2>3 DEF ActivateGeneration
<1>4. ASSUME NEW d \in Identity, Index(d) PROVE IndexInv'
  BY <1>4 DEF Index, NullIsApart
<1>5. ASSUME NEW s \in Indexed, NEW reason \in DisposalReason, DisposeSource(s, reason)
      PROVE IndexInv'
  <2>1. IndexTyped'
    BY <1>5 DEF DisposeSource, Marked
  <2>2. ASSUME NEW d \in buried' PROVE document'[d] = "stale"
    BY <1>5, <2>2 DEF DisposeSource, Marked
  <2> QED BY <1>5, <2>1, <2>2 DEF DisposeSource
<1> QED BY <1>1, <1>2, <1>3, <1>4, <1>5 DEF NextSearch

\* One generation is searched, and what was in any generation when its source was disposed
\* of is not found, whichever generation is activated later: SearchContextService's
\* activate_generation, index and dispose_source.
THEOREM SearchesCurrentHolds ==
  ASSUME NullIsApart PROVE SearchSpec => []SearchesCurrent
<1>1. InitSearch => IndexInv
  BY IndexStarts
<1>2. IndexInv /\ [NextSearch]_<<graphVars, searchVars>> => IndexInv'
  BY IndexKept DEF searchVars
<1>3. IndexInv => SearchesCurrent
  BY NullIsApart DEF IndexInv, OneServed, BuriedIsStale, SearchesCurrent, Found
<1> QED BY <1>1, <1>2, <1>3, PTL DEF SearchSpec

-----------------------------------------------------------------------------
(* Governed memory *)

\* Items are nothing outside memory, NoItem is no item, and the reasons for which a
\* source is disposed of are not those for which an item alone is.
MemoryApart ==
  /\ External \cap Memory = {}
  /\ NoItem \notin ItemRow \cup Memory
  /\ SourceReason \cap {"user_deleted", "expired", "superseded"} = {}

Fallen(n) == receipt[n] \cap SourceReason # {}

MemoryInv ==
  /\ MemoryTypeOK
  /\ \A m \in Items : \A row \in item[m].sources : row.of \in Memory => row.of \in Items
  /\ \A m \in Memory \ Items : receipt[m] = {}
  /\ \A n \in Items : Fallen(n) => item[n].status # "active"
  /\ InvalidationIsTransitive

LEMMA MemoryStarts == ASSUME MemoryApart, InitMemory PROVE MemoryInv
<1>1. Items = {}
  BY DEF InitMemory, Items
<1>2. MemoryTypeOK
  <2>1. source \in [External -> [available : BOOLEAN, version : Nat \ {0}]]
    <3>1. [available |-> TRUE, version |-> 1] \in [available : BOOLEAN, version : Nat \ {0}]
      OBVIOUS
    <3> QED
      BY <3>1 DEF InitMemory
  <2> QED
    BY <2>1 DEF InitMemory, MemoryTypeOK
<1> QED
  BY <1>1, <1>2 DEF InitMemory, MemoryInv, InvalidationIsTransitive

-----------------------------------------------------------------------------
\* What is derived from n is the least set that holds its dependents and theirs.
LEMMA DerivedIsClosed ==
  ASSUME NEW n
  PROVE  /\ Derived(n) \in SUBSET Items
         /\ Dependents({n} \cup Derived(n)) \subseteq Derived(n)
         /\ \A V \in SUBSET Items : Dependents({n} \cup V) \subseteq V => Derived(n) \subseteq V
<1>1. Derived(n) \in SUBSET Items
  BY DEF Derived
<1>2. \A V \in SUBSET Items : Dependents({n} \cup V) \subseteq V => Derived(n) \subseteq V
  BY DEF Derived
<1>3. ASSUME NEW m \in Dependents({n} \cup Derived(n)), NEW V \in SUBSET Items,
             Dependents({n} \cup V) \subseteq V
      PROVE  m \in V
  <2>1. m \in Items /\ \E row \in item[m].sources : row.of \in {n} \cup Derived(n)
    BY <1>3 DEF Dependents
  <2>2. \E row \in item[m].sources : row.of \in {n} \cup V
    BY <1>2, <1>3, <2>1
  <2> QED
    BY <1>3, <2>1, <2>2 DEF Dependents
<1>4. \A m \in Dependents({n} \cup Derived(n)) : m \in Items
  BY DEF Dependents
<1> QED
  BY <1>1, <1>2, <1>3, <1>4 DEF Derived

\* What the queue of dispose_source visits is what is derived from where it starts; with
\* an item it visits whatever is derived from that.
LEMMA VisitedHoldsDerived ==
  ASSUME NEW x, NEW n \in Visited(x)
  PROVE  Derived(n) \subseteq Visited(x)
<1>1. Visited(x) = Derived(x)
  BY DEF Visited, Derived
<1>2. /\ Derived(x) \in SUBSET Items
      /\ Dependents({x} \cup Derived(x)) \subseteq Derived(x)
  BY DerivedIsClosed
<1>3. Dependents({n} \cup Derived(x)) \subseteq Dependents({x} \cup Derived(x))
  BY <1>1 DEF Dependents
<1>4. Dependents({n} \cup Derived(x)) \subseteq Derived(x)
  BY <1>2, <1>3
<1>5. \A V \in SUBSET Items : Dependents({n} \cup V) \subseteq V => Derived(n) \subseteq V
  BY DerivedIsClosed
<1>6. Derived(n) \subseteq Derived(x)
  BY <1>2, <1>4, <1>5
<1> QED
  BY <1>1, <1>6

\* While every item keeps its sources, the same is derived from it.
LEMMA SameDerived ==
  ASSUME Items' = Items, \A m \in Items : item'[m].sources = item[m].sources,
         NEW n \in Items
  PROVE  Derived(n)' = Derived(n)
<1>1. \A S : {m \in Items' : \E row \in item'[m].sources : row.of \in S} = Dependents(S)
  BY DEF Dependents
<1> QED
  BY <1>1 DEF Derived, Dependents

-----------------------------------------------------------------------------
\* A step that makes no item and none active again, and lets none fall.
LEMMA WornStep ==
  ASSUME MemoryInv, MemoryTypeOK', Items' = Items,
         \A m \in Items : /\ item'[m].sources = item[m].sources
                          /\ item'[m].status = "active" => item[m].status = "active",
         \A m \in Memory : /\ receipt'[m] \cap SourceReason = receipt[m] \cap SourceReason
                           /\ m \notin Items => receipt'[m] = receipt[m]
  PROVE  MemoryInv'
<1>1. Items \subseteq Memory
  BY DEF Items
<1>2. (\A m \in Items : \A row \in item[m].sources : row.of \in Memory => row.of \in Items)'
  BY DEF MemoryInv
<1>3. (\A m \in Memory \ Items : receipt[m] = {})'
  BY DEF MemoryInv
<1>4. (\A n \in Items : Fallen(n) => item[n].status # "active")'
  BY <1>1 DEF MemoryInv, Fallen
<1>5. InvalidationIsTransitive'
  <2> SUFFICES ASSUME NEW n \in Items, receipt'[n] \cap SourceReason # {},
                      NEW m \in Derived(n)'
               PROVE  item'[m].status # "active"
    BY DEF InvalidationIsTransitive
  <2>1. Derived(n)' = Derived(n)
    BY SameDerived
  <2>2. m \in Items /\ item[m].status # "active"
    BY <1>1, <2>1 DEF Derived, MemoryInv, InvalidationIsTransitive
  <2> QED
    BY <2>2
<1> QED
  BY <1>2, <1>3, <1>4, <1>5 DEF MemoryInv

\* Rows are changed in place: each stays a row, of the same sources.
LEMMA ItemKeeps ==
  ASSUME MemoryApart, MemoryTypeOK, NEW r \in [Memory -> ItemRow],
         NEW S \in SUBSET Items, item' = [m \in Memory |-> IF m \in S THEN r[m] ELSE item[m]],
         \A m \in S : r[m].sources = item[m].sources
  PROVE  /\ item' \in [Memory -> ItemRow \cup {NoItem}]
         /\ Items' = Items
         /\ \A m \in Items : item'[m].sources = item[m].sources
<1>1. \A m \in Memory : r[m] # NoItem
  BY DEF MemoryApart
<1> QED
  BY <1>1 DEF MemoryTypeOK, Items

\* One item is changed.
LEMMA OneItemKeeps ==
  ASSUME MemoryApart, MemoryInv, NEW k \in Items, NEW r \in ItemRow,
         item' = [item EXCEPT ![k] = r], r.sources = item[k].sources,
         r.status = "active" => item[k].status = "active",
         UNCHANGED <<source, late, receipt>>
  PROVE  MemoryInv'
<1>1. k \in Memory /\ r # NoItem /\ MemoryTypeOK
  BY DEF Items, MemoryApart, MemoryInv
<1>2. UNCHANGED source /\ UNCHANGED late /\ UNCHANGED receipt
  OBVIOUS
<1>3. item' \in [Memory -> ItemRow \cup {NoItem}] /\ Items' = Items
  BY <1>1 DEF MemoryTypeOK, Items
<1>4. MemoryTypeOK'
  BY <1>1, <1>2, <1>3 DEF MemoryTypeOK
<1>5. \A m \in Items : /\ item'[m].sources = item[m].sources
                       /\ item'[m].status = "active" => item[m].status = "active"
  BY <1>1 DEF MemoryTypeOK, Items
<1> QED
  BY <1>2, <1>3, <1>4, <1>5, WornStep

LEMMA ItemIsRow ==
  ASSUME MemoryTypeOK, NEW m \in Items PROVE m \in Memory /\ item[m] \in ItemRow
BY DEF MemoryTypeOK, Items

\* The next version of a row that differs in nothing the invariant is about.
LEMMA NextRow ==
  ASSUME NEW r \in ItemRow
  PROVE  /\ r.version + 1 \in Nat \ {0}
         /\ \A b \in BOOLEAN : [r EXCEPT !.pinned = b] \in ItemRow
         /\ [r EXCEPT !.confirmed = TRUE] \in ItemRow
         /\ [r EXCEPT !.version = @ + 1] \in ItemRow
         /\ \A st \in Status, by \in Memory \cup {NoItem} :
              [r EXCEPT !.status = st, !.pinned = FALSE, !.version = @ + 1, !.by = by] \in ItemRow
<1>1. r.version + 1 \in Nat \ {0}
  BY DEF ItemRow
<1> QED
  BY <1>1 DEF ItemRow

LEMMA ChangeKeeps ==
  ASSUME MemoryApart, MemoryInv, NEW m \in Items, NEW r \in ItemRow, Change(m, r),
         r.sources = item[m].sources, r.status = item[m].status
  PROVE  MemoryInv'
<1> DEFINE q == [r EXCEPT !.version = @ + 1]
<1>1. q \in ItemRow
  BY NextRow
<1>2. q.sources = r.sources /\ q.status = r.status
  BY DEF ItemRow
<1>3. item' = [item EXCEPT ![m] = q] /\ UNCHANGED <<source, late, receipt>>
  BY DEF Change
<1> HIDE DEF q
<1> QED
  BY <1>1, <1>2, <1>3, OneItemKeeps

\* Items are disposed of: each once for a reason, whatever disposed of it before.
LEMMA DisposedKeeps ==
  ASSUME MemoryApart, MemoryTypeOK, NEW S \in SUBSET Items, NEW st \in Status,
         NEW reason \in Reason, NEW by \in Memory \cup {NoItem}, Disposed(S, st, reason, by)
  PROVE  /\ MemoryTypeOK'
         /\ Items' = Items
         /\ \A m \in Items : item'[m].sources = item[m].sources
         /\ \A m \in S : reason \notin receipt[m] => item'[m].status = st
         /\ \A m \in Items \ S : item'[m].status = item[m].status
         /\ \A m \in S : reason \in receipt[m] => item'[m].status = item[m].status
         /\ \A m \in Memory : receipt'[m] = IF m \in S THEN receipt[m] \cup {reason} ELSE receipt[m]
<1> PICK T : T = {m \in S : reason \notin receipt[m]}
  OBVIOUS
<1> DEFINE q(m) == [item[m] EXCEPT !.status = st, !.pinned = FALSE, !.version = @ + 1, !.by = by]
<1>1. \A m \in Items : m \in Memory /\ item[m] \in ItemRow
  BY ItemIsRow
<1>2. \A m \in Items : q(m) \in ItemRow
  BY <1>1, NextRow
<1>3. \A m \in Items : q(m).sources = item[m].sources /\ q(m).status = st
  BY <1>1 DEF ItemRow
<1>4. /\ item' = [m \in Memory |-> IF m \in T THEN q(m) ELSE item[m]]
      /\ receipt' = [m \in Memory |-> IF m \in T THEN receipt[m] \cup {reason} ELSE receipt[m]]
  BY DEF Disposed
<1>5. UNCHANGED source /\ UNCHANGED late
  BY DEF Disposed
<1> HIDE DEF q
<1>6. T \subseteq Items
  OBVIOUS
<1>7. item \in [Memory -> ItemRow \cup {NoItem}] /\ receipt \in [Memory -> SUBSET Reason]
  BY DEF MemoryTypeOK
<1>8. item' \in [Memory -> ItemRow \cup {NoItem}]
  <2>1. \A m \in Memory : (IF m \in T THEN q(m) ELSE item[m]) \in ItemRow \cup {NoItem}
    BY <1>2, <1>6, <1>7
  <2> QED
    BY <1>4, <2>1
<1>9. Items' = Items
  <2>1. \A m \in T : q(m) # NoItem
    BY <1>2, <1>6 DEF MemoryApart
  <2>2. \A m \in Memory : item'[m] = IF m \in T THEN q(m) ELSE item[m]
    BY <1>4
  <2>3. \A m \in Memory : item'[m] # NoItem <=> item[m] # NoItem
    BY <1>6, <2>1, <2>2 DEF Items
  <2> QED
    BY <2>3 DEF Items
<1>10. receipt' \in [Memory -> SUBSET Reason]
  BY <1>4, <1>7
<1>11. MemoryTypeOK'
  BY <1>5, <1>8, <1>10 DEF MemoryTypeOK
<1> QED
  BY <1>1, <1>3, <1>4, <1>6, <1>7, <1>9, <1>11

\* An item superseded, expired or deleted has not fallen with a source.
LEMMA DisposedAlone ==
  ASSUME MemoryApart, MemoryInv, NEW S \in SUBSET Items, NEW st \in Status \ {"active"},
         NEW reason \in {"user_deleted", "expired", "superseded"},
         NEW by \in Memory \cup {NoItem}, Disposed(S, st, reason, by)
  PROVE  MemoryInv'
<1>1. reason \in Reason /\ reason \notin SourceReason
  BY DEF Reason, MemoryApart
<1>2. MemoryTypeOK
  BY DEF MemoryInv
<1>3. /\ MemoryTypeOK'
      /\ Items' = Items
      /\ \A m \in Items : item'[m].sources = item[m].sources
      /\ \A m \in S : reason \notin receipt[m] => item'[m].status = st
      /\ \A m \in Items \ S : item'[m].status = item[m].status
      /\ \A m \in S : reason \in receipt[m] => item'[m].status = item[m].status
      /\ \A m \in Memory : receipt'[m] = IF m \in S THEN receipt[m] \cup {reason} ELSE receipt[m]
  BY <1>1, <1>2, DisposedKeeps
<1>4. \A m \in Memory : /\ receipt'[m] \cap SourceReason = receipt[m] \cap SourceReason
                        /\ m \notin Items => receipt'[m] = receipt[m]
  BY <1>1, <1>3
<1>5. \A m \in Items : item'[m].status = "active" => item[m].status = "active"
  BY <1>3
<1> QED
  BY <1>3, <1>4, <1>5, WornStep

\* Items fall with a source, for a reason.
LEMMA DisposedWithSource ==
  ASSUME MemoryApart, MemoryTypeOK, NEW S \in SUBSET Items, NEW reason \in SourceReason,
         Disposed(S, "invalidated", reason, NoItem)
  PROVE  /\ MemoryTypeOK'
         /\ Items' = Items
         /\ \A m \in Items : item'[m].sources = item[m].sources
         /\ \A m \in S : reason \notin receipt[m] => item'[m].status = "invalidated"
         /\ \A m \in Items \ S : item'[m].status = item[m].status
         /\ \A m \in S : reason \in receipt[m] => item'[m].status = item[m].status
         /\ \A m \in Memory : receipt'[m] = IF m \in S THEN receipt[m] \cup {reason} ELSE receipt[m]
<1>1. reason \in Reason /\ "invalidated" \in Status /\ NoItem \in Memory \cup {NoItem}
  BY DEF Reason, Status
<1> QED
  BY <1>1, DisposedKeeps

\* A source falls: every active item derived from it is invalidated, so of a newly
\* fallen item nothing derived stays active either.
LEMMA VisitedFall ==
  ASSUME MemoryApart, MemoryInv, NEW x, NEW reason \in SourceReason, NEW S \in SUBSET Items,
         \A m \in Items : m \in S <=> m \in Visited(x) /\ item[m].status = "active",
         Disposed(S, "invalidated", reason, NoItem)
  PROVE  MemoryInv'
<1>1. Items \subseteq Memory
  BY DEF Items
<1>2. MemoryTypeOK
  BY DEF MemoryInv
<1>4. \A m \in S : reason \notin receipt[m]
  BY <1>1 DEF MemoryInv, Fallen
<1>5. /\ MemoryTypeOK'
      /\ Items' = Items
      /\ \A m \in Items : item'[m].sources = item[m].sources
      /\ \A m \in S : reason \notin receipt[m] => item'[m].status = "invalidated"
      /\ \A m \in Items \ S : item'[m].status = item[m].status
      /\ \A m \in S : reason \in receipt[m] => item'[m].status = item[m].status
      /\ \A m \in Memory : receipt'[m] = IF m \in S THEN receipt[m] \cup {reason} ELSE receipt[m]
  BY <1>2, DisposedWithSource
<1>6. \A m \in S : item'[m].status = "invalidated"
  BY <1>4, <1>5
<1>7. (\A m \in Items : \A row \in item[m].sources : row.of \in Memory => row.of \in Items)'
  BY <1>5 DEF MemoryInv
<1>8. (\A m \in Memory \ Items : receipt[m] = {})'
  BY <1>1, <1>5 DEF MemoryInv
<1>9. \A n \in Items : receipt'[n] \cap SourceReason # {} => n \in S \/ Fallen(n)
  BY <1>1, <1>5 DEF Fallen
<1>10. (\A n \in Items : Fallen(n) => item[n].status # "active")'
  BY <1>1, <1>5, <1>6, <1>9 DEF MemoryInv, Fallen
<1>11. InvalidationIsTransitive'
  <2> SUFFICES ASSUME NEW n \in Items, receipt'[n] \cap SourceReason # {},
                      NEW m \in Derived(n)'
               PROVE  item'[m].status # "active"
    BY <1>5 DEF InvalidationIsTransitive
  <2>1. m \in Derived(n) /\ m \in Items
    BY <1>5, SameDerived DEF Derived
  <2>2. CASE m \in S
    BY <1>6, <2>2
  <2>3. CASE m \notin S /\ Fallen(n)
    <3>1. item[m].status # "active"
      BY <2>1, <2>3 DEF MemoryInv, InvalidationIsTransitive, Fallen
    <3> QED
      BY <1>5, <2>1, <2>3, <3>1
  <2>4. CASE m \notin S /\ n \in S
    <3>1. Derived(n) \subseteq Visited(x)
      BY <2>4, VisitedHoldsDerived
    <3>2. item[m].status # "active"
      BY <2>1, <2>4, <3>1
    <3> QED
      BY <1>5, <2>1, <2>4, <3>2
  <2> QED
    BY <1>9, <2>2, <2>3, <2>4
<1> QED
  BY <1>5, <1>7, <1>8, <1>10, <1>11 DEF MemoryInv

LEMMA DisposeSourceKeeps ==
  ASSUME MemoryApart, MemoryInv, NEW x, NEW reason \in SourceReason,
         DisposeMemorySource(x, reason)
  PROVE  MemoryInv'
<1> PICK S : S = {m \in Visited(x) : item[m].status = "active"}
  OBVIOUS
<1>1. S \in SUBSET Items /\ \A m \in Items : m \in S <=> m \in Visited(x) /\ item[m].status = "active"
  BY DEF Visited
<1>2. Disposed(S, "invalidated", reason, NoItem)
  BY DEF DisposeMemorySource
<1> QED
  BY <1>1, <1>2, VisitedFall

-----------------------------------------------------------------------------
\* What a caller names as provenance: rows, of what is named.
LEMMA ProvenanceIs ==
  ASSUME MemoryTypeOK, NEW from \in SUBSET (External \cup Memory),
         \A y \in from : SourceState(y) # {}
  PROVE  /\ Provenance(from) \in SUBSET SourceRow
         /\ \A row \in Provenance(from) : row.of \in from
<1>1. \A y \in from : SourceState(y) \subseteq Nat \ {0}
  <2> TAKE y \in from
  <2>1. CASE y \in External
    <3>1. source[y].version \in Nat \ {0}
      BY <2>1 DEF MemoryTypeOK
    <3> QED
      BY <2>1, <3>1 DEF SourceState
  <2>2. CASE y \notin External
    <3>1. y \in Items => item[y].version \in Nat \ {0}
      BY ItemIsRow DEF ItemRow
    <3> QED
      BY <2>2, <3>1 DEF SourceState
  <2> QED
    BY <2>1, <2>2
<1>2. \A y \in from : (CHOOSE v \in SourceState(y) : TRUE) \in Nat \ {0}
  <2> TAKE y \in from
  <2>1. \E v : v \in SourceState(y)
    OBVIOUS
  <2>2. (CHOOSE v \in SourceState(y) : TRUE) \in SourceState(y)
    BY <2>1
  <2> QED
    BY <1>1, <2>2
<1> QED
  BY <1>2 DEF Provenance, SourceRow

\* An item is made of what is available, so of nothing that fell or was derived from
\* what fell; and of it nothing is made yet.
LEMMA ItemCreateKeeps ==
  ASSUME MemoryApart, MemoryInv, NEW n \in Memory,
         NEW from \in SUBSET (External \cup Memory), CreateItem(n, from)
  PROVE  MemoryInv'
<1> DEFINE q == New(n, from)
<1>1. MemoryTypeOK /\ n \notin Items /\ \A y \in from : SourceState(y) # {}
  BY DEF MemoryInv, CreateItem
<1>2. UNCHANGED source /\ UNCHANGED late /\ UNCHANGED receipt
  BY DEF CreateItem
<1>3. /\ Provenance(from) \in SUBSET SourceRow
      /\ \A row \in Provenance(from) : row.of \in from
  BY <1>1, ProvenanceIs
<1>4. q \in ItemRow /\ q.sources = Provenance(from)
  <2>1. 1 \in Nat \ {0}
    OBVIOUS
  <2> QED
    BY <1>3, <2>1 DEF New, ItemRow, Status
<1>5. item' = [item EXCEPT ![n] = q]
  BY DEF CreateItem
<1> HIDE DEF q
<1>6. item' \in [Memory -> ItemRow \cup {NoItem}] /\ Items' = Items \cup {n} /\ Items \subseteq Memory
  <2>1. q # NoItem
    BY <1>4 DEF MemoryApart
  <2> QED
    BY <1>1, <1>4, <1>5, <2>1 DEF MemoryTypeOK, Items
<1>7. item'[n] = q /\ \A m \in Items : item'[m] = item[m]
  BY <1>1, <1>5, <1>6 DEF MemoryTypeOK
<1>8. MemoryTypeOK'
  BY <1>1, <1>2, <1>6 DEF MemoryTypeOK
<1>9. \A y \in from : y \in Memory => y \in Items /\ item[y].status = "active"
  BY <1>1 DEF SourceState, MemoryApart
<1>10. \A row \in item'[n].sources : row.of \in Memory => row.of \in Items /\ item[row.of].status = "active"
  BY <1>3, <1>4, <1>7, <1>9
<1>11. (\A m \in Items : \A row \in item[m].sources : row.of \in Memory => row.of \in Items)'
  BY <1>6, <1>7, <1>10 DEF MemoryInv
<1>12. (\A m \in Memory \ Items : receipt[m] = {})'
  BY <1>2, <1>6 DEF MemoryInv
<1>13. receipt[n] = {}
  BY <1>1 DEF MemoryInv
<1>14. (\A k \in Items : Fallen(k) => item[k].status # "active")'
  BY <1>2, <1>6, <1>7, <1>13 DEF MemoryInv, Fallen
<1>15. InvalidationIsTransitive'
  <2> SUFFICES ASSUME NEW k \in Items', receipt[k] \cap SourceReason # {}
               PROVE  \A m \in Derived(k)' : item'[m].status # "active"
    BY <1>2 DEF InvalidationIsTransitive
  <2>1. k \in Items /\ item[k].status # "active"
    BY <1>6, <1>13 DEF MemoryInv, Fallen
  <2>2. Derived(k) \in SUBSET Items /\ \A m \in Derived(k) : item[m].status # "active"
    BY <2>1 DEF MemoryInv, InvalidationIsTransitive, Derived
  <2>3. Dependents({k} \cup Derived(k)) \subseteq Derived(k)
    BY DerivedIsClosed
  <2> PICK V : V = Derived(k)
    OBVIOUS
  <2>4. {m \in Items' : \E row \in item'[m].sources : row.of \in {k} \cup V} \subseteq V
    <3> SUFFICES ASSUME NEW m \in Items', NEW row \in item'[m].sources, row.of \in {k} \cup V
                 PROVE  m \in V
      OBVIOUS
    <3>1. row.of \in Memory /\ item[row.of].status # "active"
      BY <1>6, <2>1, <2>2
    <3>2. m # n
      BY <1>10, <3>1
    <3>3. m \in Items /\ row \in item[m].sources
      BY <1>6, <1>7, <3>2
    <3> QED
      BY <2>3, <3>3 DEF Dependents
  <2>5. \A m \in Derived(k)' : m \in V
    <3>1. V \in SUBSET Items'
      BY <1>6, <2>2
    <3> QED
      BY <2>4, <3>1 DEF Derived, Dependents
  <2> QED
    BY <1>7, <2>2, <2>5
<1> QED
  BY <1>8, <1>11, <1>12, <1>14, <1>15 DEF MemoryInv

-----------------------------------------------------------------------------
\* Nothing happens to the items.
LEMMA ItemsStay ==
  ASSUME MemoryInv, MemoryTypeOK', UNCHANGED <<item, receipt>> PROVE MemoryInv'
<1>1. UNCHANGED item /\ UNCHANGED receipt
  OBVIOUS
<1>2. Items' = Items
  BY <1>1 DEF Items
<1> QED
  BY <1>1, <1>2, WornStep

LEMMA SourceChangesKeeps ==
  ASSUME MemoryInv, NEW s \in External, SourceChanges(s) PROVE MemoryInv'
<1>1. UNCHANGED late /\ UNCHANGED item /\ UNCHANGED receipt
  BY DEF SourceChanges
<1>2. source \in [External -> [available : BOOLEAN, version : Nat \ {0}]]
  BY DEF MemoryInv, MemoryTypeOK
<1>3. source' \in [External -> [available : BOOLEAN, version : Nat \ {0}]]
  <2>1. source[s] \in [available : BOOLEAN, version : Nat \ {0}] /\ source[s].version + 1 \in Nat \ {0}
    BY <1>2
  <2>2. CASE source' = [source EXCEPT ![s].available = FALSE]
    BY <1>2, <2>1, <2>2
  <2>3. CASE source' = [source EXCEPT ![s].version = @ + 1]
    BY <1>2, <2>1, <2>3
  <2> QED
    BY <2>2, <2>3 DEF SourceChanges
<1>4. MemoryTypeOK'
  BY <1>1, <1>3 DEF MemoryInv, MemoryTypeOK
<1> QED
  BY <1>1, <1>4, ItemsStay

LEMMA MemoryStepKeeps ==
  ASSUME MemoryApart, MemoryInv, [NextMemory]_memoryVars PROVE MemoryInv'
<1> USE DEF MemoryInv
<1>1. MemoryTypeOK
  OBVIOUS
<1> HIDE DEF MemoryInv
<1>2. \A m \in Items : m \in Memory /\ item[m] \in ItemRow
  BY <1>1, ItemIsRow
<1>3. ASSUME NEW m \in Memory, NEW from \in MemoryCreate, CreateItem(m, from) PROVE MemoryInv'
  BY <1>3, ItemCreateKeeps DEF MemoryCreate
<1>4. ASSUME NEW m \in Memory, NEW from \in ConsolidationCreate, Consolidate(m, from) PROVE MemoryInv'
  BY <1>4, ItemCreateKeeps DEF ConsolidationCreate, Consolidate
<1>5. ASSUME NEW m \in Memory, NEW pinned \in BOOLEAN, SetPinned(m, pinned) PROVE MemoryInv'
  <2> PICK r : r = [item[m] EXCEPT !.pinned = pinned]
    OBVIOUS
  <2>1. m \in Items /\ Change(m, r)
    BY <1>5 DEF SetPinned
  <2>2. r \in ItemRow
    BY <1>2, <2>1, NextRow
  <2>3. r.sources = item[m].sources /\ r.status = item[m].status
    BY <1>2, <2>1 DEF ItemRow
  <2> QED
    BY <2>1, <2>2, <2>3, ChangeKeeps
<1>6. ASSUME NEW m \in Memory, Confirm(m) PROVE MemoryInv'
  <2> PICK r : r = [item[m] EXCEPT !.confirmed = TRUE]
    OBVIOUS
  <2>1. m \in Items /\ Change(m, r)
    BY <1>6 DEF Confirm
  <2>2. r \in ItemRow
    BY <1>2, <2>1, NextRow
  <2>3. r.sources = item[m].sources /\ r.status = item[m].status
    BY <1>2, <2>1 DEF ItemRow
  <2> QED
    BY <2>1, <2>2, <2>3, ChangeKeeps
<1>7. ASSUME NEW m \in Memory, AddFeedback(m) PROVE MemoryInv'
  <2> PICK r : r = item[m]
    OBVIOUS
  <2>1. m \in Items /\ Change(m, r)
    BY <1>7 DEF AddFeedback
  <2> QED
    BY <1>2, <2>1, ChangeKeeps
<1>8. ASSUME NEW m \in Memory, NEW other \in Memory, Supersede(m, other) PROVE MemoryInv'
  <2>1. {m} \in SUBSET Items /\ Disposed({m}, "superseded", "superseded", other)
    BY <1>8 DEF Supersede
  <2>2. "superseded" \in Status \ {"active"}
    BY DEF Status
  <2> QED
    BY <2>1, <2>2, DisposedAlone
<1>9. ASSUME NEW m \in Memory, DeleteItem(m) PROVE MemoryInv'
  <2> PICK b : b = item[m].by
    OBVIOUS
  <2>1. {m} \in SUBSET Items /\ Disposed({m}, "deleted", "user_deleted", b)
    BY <1>9 DEF DeleteItem
  <2>2. "deleted" \in Status \ {"active"} /\ b \in Memory \cup {NoItem}
    BY <1>2, <2>1 DEF Status, ItemRow
  <2> QED
    BY <2>1, <2>2, DisposedAlone
<1>10. ASSUME ExpireDue PROVE MemoryInv'
  <2> PICK S : S = Due
    OBVIOUS
  <2>1. S \in SUBSET Items /\ Disposed(S, "expired", "expired", NoItem)
    BY <1>10 DEF ExpireDue, Due
  <2>2. "expired" \in Status \ {"active"}
    BY DEF Status
  <2> QED
    BY <2>1, <2>2, DisposedAlone
<1>11. ASSUME TimePasses PROVE MemoryInv'
  <2>1. UNCHANGED source /\ UNCHANGED item /\ UNCHANGED receipt /\ late' \in BOOLEAN
    BY <1>11 DEF TimePasses
  <2>2. MemoryTypeOK'
    BY <1>1, <2>1 DEF MemoryTypeOK
  <2> QED
    BY <2>1, <2>2, ItemsStay
<1>12. ASSUME UNCHANGED memoryVars PROVE MemoryInv'
  <2>1. UNCHANGED source /\ UNCHANGED item /\ UNCHANGED receipt /\ UNCHANGED late
    BY <1>12 DEF memoryVars
  <2>2. MemoryTypeOK'
    BY <1>1, <2>1 DEF MemoryTypeOK
  <2> QED
    BY <2>1, <2>2, ItemsStay
<1> QED
  BY <1>3, <1>4, <1>5, <1>6, <1>7, <1>8, <1>9, <1>10, <1>11, <1>12, DisposeSourceKeeps,
     SourceChangesKeeps DEF NextMemory

\* Nothing derived from what fell is active: in every state, of items and sources however
\* many and derived from each other however deep.
THEOREM InvalidationIsTransitiveHolds ==
  ASSUME MemoryApart PROVE MemorySpec => []InvalidationIsTransitive
<1>1. InitMemory => MemoryInv
  BY MemoryStarts
<1>2. MemoryInv /\ [NextMemory]_memoryVars => MemoryInv'
  BY MemoryStepKeeps
<1>3. MemoryInv => InvalidationIsTransitive
  BY DEF MemoryInv
<1> QED
  BY <1>1, <1>2, <1>3, PTL DEF MemorySpec
=============================================================================
