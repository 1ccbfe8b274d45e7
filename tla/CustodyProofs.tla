--------------------------- MODULE CustodyProofs ---------------------------
(***************************************************************************)
(* Proofs about OAuthTransactions: a connection, its credential and the    *)
(* transactions that bring it, for any number of transactions, generations,*)
(* sources, rotations, capabilities and contexts.                          *)
(*                                                                         *)
(* Every step does one of two things to the generations: it wears them     *)
(* (none becomes usable, none is added), or it adds one and wears the      *)
(* rest.  The invariants follow from that and from what a step does to the *)
(* connection's version, which tells an operator's change whether the      *)
(* connection it read is still the one it changes.                         *)
(***************************************************************************)
EXTENDS OAuthTransactions, CapabilityRoutes, SequenceTheorems, FiniteSetTheorems, TLAPS

ConnRow == [status : ConnectionStatus, version : Nat]

TxnRow ==
  {None} \cup [op : {"refresh"}] \cup [op : {"migrate"}, source : Source]
    \cup [op : {"change"}, seen : ConnRow, latest : Nat] \cup [op : {"callback"}, oauth : Nat]

GrantRow ==
  [status : OAuthStatus, context : Context, lapsed : BOOLEAN,
   failure : {None, "binding_mismatch", "provider"}, credential : Nat]

CustodyTypeOK ==
  /\ conn = None \/ conn \in ConnRow
  /\ credential \in Seq(CredentialRow)
  /\ txn \in [Txn -> TxnRow]
  /\ oauth \in Seq(GrantRow)

UsableLocked == \A g \in DOMAIN credential : Usable(g) => Locked(g)

\* A generation that was usable when the operator read the connection, or came since,
\* has only shadows after it, unless the connection has changed.
SeenLast ==
  \A x \in Txn : Runs(x, "change") =>
    /\ conn \in ConnRow
    /\ txn[x].seen.version <= conn.version
    /\ txn[x].seen.version = conn.version =>
         \A g, h \in DOMAIN credential :
           txn[x].latest <= g /\ g < h /\ Usable(g) => credential[h].from = "shadow"

\* The latest generation of a connection that was revoked or closed.
LatestSpent ==
  conn # None /\ ~Open /\ credential # <<>> /\ Usable(Latest)
    => credential[Latest].from = "shadow"

\* A callback holds the row of a pending transaction that no other callback holds.
CallbackHolds ==
  \A x \in Txn : Runs(x, "callback") =>
    /\ txn[x].oauth \in DOMAIN oauth
    /\ oauth[txn[x].oauth].status = "pending"
    /\ \A y \in Txn : Runs(y, "callback") /\ txn[y].oauth = txn[x].oauth => y = x

CompletedWith(g) == {i \in DOMAIN oauth : oauth[i].status = "completed" /\ oauth[i].credential = g}

HandedOff ==
  /\ \A i \in DOMAIN oauth : oauth[i].status = "completed" => oauth[i].credential \in DOMAIN credential
  /\ \A i, j \in DOMAIN oauth :
       /\ oauth[i].status = "completed" /\ oauth[j].status = "completed"
       /\ oauth[i].credential = oauth[j].credential
       => i = j
  /\ \A g \in DOMAIN credential : credential[g].from = "callback" => CompletedWith(g) # {}

IInv ==
  /\ CustodyTypeOK
  /\ UsableLocked
  /\ SeenLast
  /\ LatestSpent
  /\ CallbackHolds
  /\ HandedOff

-----------------------------------------------------------------------------
(* What a step does to the generations *)

\* No generation up to n changes its origin or becomes usable.
Worn(n) ==
  \A h \in 1..n :
    /\ credential'[h] \in CredentialRow
    /\ credential'[h].from = credential[h].from
    /\ credential'[h].status \in {"active", "shadow_verified"} =>
         Usable(h) /\ credential'[h].envelope.status = "active"

Kept ==
  /\ credential' \in Seq(CredentialRow)
  /\ Len(credential') = Len(credential)
  /\ Worn(Len(credential))

Grown(row) ==
  /\ credential' \in Seq(CredentialRow)
  /\ Len(credential') = Len(credential) + 1
  /\ credential'[Len(credential) + 1] = row
  /\ Worn(Len(credential))

\* Leaving the generations alone keeps them.
LEMMA UnchangedKeeps ==
  ASSUME CustodyTypeOK, UsableLocked, UNCHANGED credential
  PROVE  Kept
  BY DEF CustodyTypeOK, UsableLocked, Kept, Worn, Usable, Locked

\* Changing one row of a sequence of generations.
LEMMA OneRow ==
  ASSUME NEW s \in Seq(CredentialRow), NEW g \in DOMAIN s, NEW r \in CredentialRow,
         NEW t, t = [s EXCEPT ![g] = r]
  PROVE  /\ t \in Seq(CredentialRow)
         /\ Len(t) = Len(s)
         /\ t[g] = r
         /\ \A h \in 1..Len(s) : h # g => t[h] = s[h]
  <1>1. g \in 1..Len(s)
    BY LenProperties
  <1>. QED
    BY <1>1, ExceptSeq

\* A credential made unavailable, with its envelope.
LEMMA DisablingKeeps ==
  ASSUME CustodyTypeOK, UsableLocked, NEW g \in DOMAIN credential,
         NEW status \in {"revoked", "disabled", "reauthorization_required"},
         credential' = WithoutCredential(g, status)
  PROVE  Kept /\ credential'[g].status = status
  <1>. DEFINE r == [credential[g] EXCEPT !.status = status, !.envelope.status = "disabled"]
  <1>1. credential[g] \in CredentialRow /\ g \in 1..Len(credential)
    BY LenProperties DEF CustodyTypeOK
  <1>2. r \in CredentialRow /\ r.from = credential[g].from /\ r.status = status
    BY <1>1 DEF CredentialRow, CredentialStatus, EnvelopeRow
  <1>3. credential' = [credential EXCEPT ![g] = r]
    BY DEF WithoutCredential
  <1>. HIDE DEF r
  <1>4. /\ credential' \in Seq(CredentialRow)
        /\ Len(credential') = Len(credential)
        /\ credential'[g] = r
        /\ \A h \in 1..Len(credential) : h # g => credential'[h] = credential[h]
    BY <1>2, <1>3, OneRow DEF CustodyTypeOK
  <1>5. \A h \in 1..Len(credential) : credential[h] \in CredentialRow /\ h \in DOMAIN credential
    BY LenProperties DEF CustodyTypeOK
  <1>. QED
    BY <1>1, <1>2, <1>4, <1>5 DEF UsableLocked, Kept, Worn, Usable, Locked

\* A rotation recorded on an envelope.
LEMMA RotatingKeeps ==
  ASSUME CustodyTypeOK, UsableLocked, NEW g \in DOMAIN credential, NEW r \in Rotation, Rotated(g, r)
  PROVE  Kept
  <1>. DEFINE row == [credential[g] EXCEPT !.envelope.rotation = r]
  <1>1. credential[g] \in CredentialRow /\ g \in 1..Len(credential)
    BY LenProperties DEF CustodyTypeOK
  <1>2. /\ row \in CredentialRow /\ row.from = credential[g].from
        /\ row.status = credential[g].status
        /\ row.envelope.status = credential[g].envelope.status
    BY <1>1 DEF CredentialRow, CredentialStatus, EnvelopeRow
  <1>3. credential' = [credential EXCEPT ![g] = row] /\ Locked(g)
    BY DEF Rotated
  <1>. HIDE DEF row
  <1>4. /\ credential' \in Seq(CredentialRow)
        /\ Len(credential') = Len(credential)
        /\ credential'[g] = row
        /\ \A h \in 1..Len(credential) : h # g => credential'[h] = credential[h]
    BY <1>2, <1>3, OneRow DEF CustodyTypeOK
  <1>5. \A h \in 1..Len(credential) : credential[h] \in CredentialRow /\ h \in DOMAIN credential
    BY LenProperties DEF CustodyTypeOK
  <1>. QED
    BY <1>1, <1>2, <1>3, <1>4, <1>5 DEF UsableLocked, Kept, Worn, Usable, Locked

\* A fresh generation is a row of the table.
LEMMA GenerationRow ==
  ASSUME NEW status \in CredentialStatus, NEW from \in {"callback", "refresh", "shadow", "rotation"}
  PROVE  /\ Generation(status, from) \in CredentialRow
         /\ Generation(status, from).from = from
         /\ Generation(status, from).envelope.status = "active"
  BY DEF Generation, CredentialRow, EnvelopeRow, Encrypted

\* A generation appended to the others as they are (a migration).
LEMMA AppendingGrows ==
  ASSUME CustodyTypeOK, UsableLocked, NEW row \in CredentialRow, Appended(credential, row)
  PROVE  Grown(row)
  <1>1. \A h \in 1..Len(credential) : credential[h] \in CredentialRow /\ h \in DOMAIN credential
    BY LenProperties DEF CustodyTypeOK
  <1>2. /\ credential' \in Seq(CredentialRow)
        /\ Len(credential') = Len(credential) + 1
        /\ \A h \in 1..Len(credential) : credential'[h] = credential[h]
        /\ credential'[Len(credential) + 1] = row
    BY AppendProperties DEF Appended, CustodyTypeOK
  <1>. QED
    BY <1>1, <1>2 DEF UsableLocked, Grown, Worn, Usable, Locked

\* A generation appended after its predecessor was retired (a rotation, the sink).
LEMMA ReplacingGrows ==
  ASSUME CustodyTypeOK, UsableLocked, NEW row \in CredentialRow,
         NEW g \in DOMAIN credential, Appended([credential EXCEPT ![g].status = "revoked"], row)
  PROVE  Grown(row) /\ credential'[g].status = "revoked"
  <1>. DEFINE r == [credential[g] EXCEPT !.status = "revoked"]
              t == [credential EXCEPT ![g] = r]
  <1>1. \A h \in 1..Len(credential) : credential[h] \in CredentialRow /\ h \in DOMAIN credential
    BY LenProperties DEF CustodyTypeOK
  <1>2. g \in 1..Len(credential)
    BY LenProperties DEF CustodyTypeOK
  <1>3. r \in CredentialRow /\ r.from = credential[g].from /\ r.status = "revoked"
    BY <1>1, <1>2 DEF CredentialRow, CredentialStatus
  <1>4. credential' = Append(t, row)
    BY DEF Appended
  <1>. HIDE DEF r
  <1>5. /\ t \in Seq(CredentialRow)
        /\ Len(t) = Len(credential)
        /\ t[g] = r
        /\ \A h \in 1..Len(credential) : h # g => t[h] = credential[h]
    BY <1>3, OneRow DEF CustodyTypeOK
  <1>. HIDE DEF t
  <1>6. /\ credential' \in Seq(CredentialRow)
        /\ Len(credential') = Len(credential) + 1
        /\ \A h \in 1..Len(credential) : credential'[h] = t[h]
        /\ credential'[Len(credential) + 1] = row
    BY <1>4, <1>5, AppendProperties
  <1>. QED
    BY <1>1, <1>2, <1>3, <1>5, <1>6 DEF UsableLocked, Grown, Worn, Usable, Locked

\* The sink.
LEMMA StoringGrows ==
  ASSUME CustodyTypeOK, UsableLocked, NEW from \in {"callback", "refresh"}, Store(from)
  PROVE  Grown(Generation("active", from))
  <1>. DEFINE row == Generation("active", from)
  <1>1. row \in CredentialRow
    BY GenerationRow DEF CredentialStatus
  <1>2. Appended(Retired, row)
    BY DEF Store
  <1>. HIDE DEF row
  <1>3. credential = <<>> => Grown(row)
    BY <1>1, <1>2, AppendingGrows DEF Retired
  <1>4. ASSUME credential # <<>> PROVE Grown(row)
    <2>1. Latest \in DOMAIN credential
      BY <1>4, LenProperties, EmptySeq DEF CustodyTypeOK, Latest
    <2>2. Appended([credential EXCEPT ![Latest].status = "revoked"], row)
      BY <1>2, <1>4 DEF Retired
    <2>. QED
      BY <1>1, <2>1, <2>2, ReplacingGrows
  <1>. QED
    BY <1>3, <1>4 DEF row

-----------------------------------------------------------------------------
(* What a step does to the invariants *)

\* No transaction starts the operation or changes the record it keeps of it.
NoneStarts(op) == \A y \in Txn : Runs(y, op)' => Runs(y, op) /\ txn'[y] = txn[y]

\* The connection is changed, and open afterwards.
Advanced ==
  /\ conn \in ConnRow /\ conn' \in ConnRow
  /\ conn'.version = conn.version + 1

OpenAfter == conn' # None => conn'.status \notin {"revoked", "closed"}

LEMMA GenerationsTyped ==
  ASSUME CustodyTypeOK
  PROVE  /\ Len(credential) \in Nat /\ DOMAIN credential = 1..Len(credential)
         /\ \A g \in DOMAIN credential : credential[g] \in CredentialRow
         /\ Latest = Len(credential)
         /\ credential # <<>> <=> Latest \in DOMAIN credential
  BY LenProperties, EmptySeq DEF CustodyTypeOK, Latest

\* An operator's change that read the connection before it was changed has read another.
LEMMA AdvancedSeen ==
  ASSUME IInv, Advanced, NoneStarts("change"), txn \in [Txn -> TxnRow]
  PROVE  SeenLast'
  <1>1. ASSUME NEW x \in Txn, Runs(x, "change")'
        PROVE  txn'[x].seen.version < conn'.version
    <2>1. Runs(x, "change") /\ txn'[x] = txn[x]
      BY <1>1 DEF NoneStarts
    <2>2. txn[x].seen.version \in Nat
      BY <2>1 DEF TxnRow, Runs, ConnRow
    <2>. QED
      BY <2>1, <2>2 DEF IInv, SeenLast, Advanced, ConnRow
  <1>2. \A x \in Txn : Runs(x, "change")' => txn'[x].seen.version \in Nat
    BY DEF NoneStarts, TxnRow, Runs, ConnRow
  <1>3. conn'.version \in Nat
    BY DEF Advanced, ConnRow
  <1>. QED
    BY <1>1, <1>2, <1>3 DEF SeenLast, Advanced

LEMMA KeptSeen ==
  ASSUME IInv, Kept, conn' = conn, NoneStarts("change")
  PROVE  SeenLast'
  <1>1. ASSUME NEW x \in Txn, Runs(x, "change")',
               txn'[x].seen.version = conn'.version,
               NEW g \in DOMAIN credential', NEW h \in DOMAIN credential',
               txn'[x].latest <= g, g < h, Usable(g)'
        PROVE  credential'[h].from = "shadow"
    <2>1. Runs(x, "change") /\ txn'[x] = txn[x]
      BY <1>1 DEF NoneStarts
    <2>2. /\ DOMAIN credential' = DOMAIN credential
          /\ DOMAIN credential = 1..Len(credential)
      BY LenProperties DEF Kept, IInv, CustodyTypeOK
    <2>3. Usable(g) /\ credential'[h].from = credential[h].from
      BY <1>1, <2>2 DEF Kept, Worn, Usable
    <2>. QED
      BY <1>1, <2>1, <2>2, <2>3 DEF IInv, SeenLast
  <1>2. \A x \in Txn : Runs(x, "change")' =>
          conn' \in ConnRow /\ txn'[x].seen.version <= conn'.version
    BY DEF NoneStarts, IInv, SeenLast
  <1>. QED
    BY <1>1, <1>2 DEF SeenLast

\* Where the origin of an added generation comes from when the connection stays.
ShadowAdded(row) ==
  \/ row.from = "shadow"
  \/ /\ credential # <<>>
     /\ Usable(Latest)
     /\ credential'[Latest].status = "revoked"
     /\ row.from = AfterRotation(Latest)

LEMMA GrownSeen ==
  ASSUME IInv, NEW row, Grown(row), ShadowAdded(row), conn' = conn, NoneStarts("change")
  PROVE  SeenLast'
  <1>0. /\ DOMAIN credential = 1..Len(credential) /\ Len(credential) \in Nat
        /\ DOMAIN credential' = 1..(Len(credential) + 1)
        /\ Latest = Len(credential)
    BY LenProperties DEF Grown, IInv, CustodyTypeOK, Latest
  <1>1. ASSUME NEW x \in Txn, Runs(x, "change")',
               txn'[x].seen.version = conn'.version,
               NEW g \in DOMAIN credential', NEW h \in DOMAIN credential',
               txn'[x].latest <= g, g < h, Usable(g)'
        PROVE  credential'[h].from = "shadow"
    <2>1. Runs(x, "change") /\ txn'[x] = txn[x]
      BY <1>1 DEF NoneStarts
    <2>2. g \in 1..Len(credential)
      BY <1>0, <1>1
    <2>3. Usable(g)
      BY <1>1, <2>2 DEF Grown, Worn, Usable
    <2>4. \A k \in DOMAIN credential : g < k => credential[k].from = "shadow"
      BY <1>0, <1>1, <2>1, <2>2, <2>3 DEF IInv, SeenLast
    <2>5. CASE h \in 1..Len(credential)
      BY <1>0, <1>1, <2>4, <2>5 DEF Grown, Worn
    <2>6. CASE h = Len(credential) + 1
      <3>1. credential'[h] = row
        BY <2>6 DEF Grown
      <3>2. CASE row.from = "shadow"
        BY <3>1, <3>2
      <3>3. CASE /\ credential'[Latest].status = "revoked"
                 /\ row.from = AfterRotation(Latest)
        <4>1. g # Latest
          BY <1>1, <3>3 DEF Usable
        <4>2. credential[Latest].from = "shadow"
          BY <1>0, <2>2, <2>4, <4>1
        <4>. QED
          BY <3>1, <3>3, <4>2 DEF AfterRotation
      <3>. QED
        BY <3>2, <3>3 DEF ShadowAdded
    <2>. QED
      BY <1>0, <1>1, <2>5, <2>6
  <1>2. \A x \in Txn : Runs(x, "change")' =>
          conn' \in ConnRow /\ txn'[x].seen.version <= conn'.version
    BY DEF NoneStarts, IInv, SeenLast
  <1>. QED
    BY <1>1, <1>2 DEF SeenLast

-----------------------------------------------------------------------------
(* What becomes of the rest of the invariant *)

\* An added generation comes with an envelope that is active.
Fresh(row) == Grown(row) /\ row.envelope.status = "active"

LEMMA WornLocked ==
  ASSUME IInv, NEW row, Kept \/ Fresh(row)
  PROVE  UsableLocked'
  <1>1. DOMAIN credential = 1..Len(credential) /\ Len(credential) \in Nat
    BY GenerationsTyped DEF IInv
  <1>2. CASE Kept
    <2>1. DOMAIN credential' = DOMAIN credential
      BY <1>1, <1>2, LenProperties DEF Kept
    <2>. QED
      BY <1>1, <1>2, <2>1 DEF Kept, Worn, UsableLocked, Usable, Locked
  <1>3. CASE Fresh(row)
    <2>1. DOMAIN credential' = 1..(Len(credential) + 1)
      BY <1>1, <1>3, LenProperties DEF Grown, Fresh
    <2>. QED
      BY <1>1, <1>3, <2>1 DEF Fresh, Grown, Worn, UsableLocked, Usable, Locked
  <1>. QED
    BY <1>2, <1>3

\* The connection stays as it is, so what was revoked or closed has only shadows after.
LEMMA StillSpent ==
  ASSUME IInv, NEW row, Kept \/ (Grown(row) /\ ShadowAdded(row)), conn' = conn
  PROVE  LatestSpent'
  <1>1. /\ DOMAIN credential = 1..Len(credential) /\ Len(credential) \in Nat
        /\ Latest = Len(credential)
        /\ credential # <<>> <=> Latest \in DOMAIN credential
    BY GenerationsTyped DEF IInv
  <1>. SUFFICES ASSUME conn # None, ~Open, credential' # <<>>, Usable(Latest)'
                PROVE  credential'[Latest'].from = "shadow"
    BY DEF LatestSpent, Open
  <1>2. CASE Kept
    <2>1. Latest' = Latest /\ Latest \in 1..Len(credential)
      BY <1>1, <1>2, LenProperties, EmptySeq DEF Kept, Latest
    <2>. QED
      BY <1>1, <1>2, <2>1 DEF Kept, Worn, Usable, IInv, LatestSpent
  <1>3. CASE Grown(row) /\ ShadowAdded(row)
    <2>1. credential'[Latest'] = row
      BY <1>1, <1>3 DEF Grown, Latest
    <2>. QED
      BY <1>1, <1>3, <2>1 DEF ShadowAdded, AfterRotation, IInv, LatestSpent
  <1>. QED
    BY <1>2, <1>3

\* No transaction becomes completed or has its credential changed.
NoneCompletes ==
  /\ \A i \in DOMAIN oauth' : oauth'[i].status = "completed" =>
       i \in DOMAIN oauth /\ oauth[i].status = "completed" /\ oauth[i].credential = oauth'[i].credential
  /\ \A i \in DOMAIN oauth : oauth[i].status = "completed" =>
       i \in DOMAIN oauth' /\ oauth'[i].status = "completed" /\ oauth[i].credential = oauth'[i].credential

LEMMA StillHandedOff ==
  ASSUME IInv, NEW row, Kept \/ (Grown(row) /\ row.from # "callback"), NoneCompletes
  PROVE  HandedOff'
  <1>1. DOMAIN credential = 1..Len(credential) /\ Len(credential) \in Nat
    BY GenerationsTyped DEF IInv
  <1>2. /\ DOMAIN credential \subseteq DOMAIN credential'
        /\ \A g \in DOMAIN credential' : credential'[g].from = "callback" =>
             g \in DOMAIN credential /\ credential[g].from = "callback"
    <2>1. CASE Kept
      <3>1. DOMAIN credential' = DOMAIN credential
        BY <1>1, <2>1, LenProperties DEF Kept
      <3>. QED
        BY <1>1, <2>1, <3>1 DEF Kept, Worn
    <2>2. CASE Grown(row) /\ row.from # "callback"
      <3>1. DOMAIN credential' = 1..(Len(credential) + 1)
        BY <1>1, <2>2, LenProperties DEF Grown
      <3>. QED
        BY <1>1, <2>2, <3>1 DEF Grown, Worn
    <2>. QED
      BY <2>1, <2>2
  <1>3. \A i \in DOMAIN oauth' : oauth'[i].status = "completed" =>
          oauth'[i].credential \in DOMAIN credential'
    BY <1>2 DEF IInv, HandedOff, NoneCompletes
  <1>4. \A i, j \in DOMAIN oauth' :
          /\ oauth'[i].status = "completed" /\ oauth'[j].status = "completed"
          /\ oauth'[i].credential = oauth'[j].credential
          => i = j
    BY DEF IInv, HandedOff, NoneCompletes
  <1>5. \A g \in DOMAIN credential' : credential'[g].from = "callback" => CompletedWith(g)' # {}
    BY <1>2 DEF IInv, HandedOff, NoneCompletes, CompletedWith
  <1>. QED
    BY <1>3, <1>4, <1>5 DEF HandedOff

\* What a callback that is still under way holds stays pending.
StillPending ==
  \A x \in Txn : Runs(x, "callback")' =>
    txn[x].oauth \in DOMAIN oauth' /\ oauth'[txn[x].oauth].status = "pending"

LEMMA StillHolds ==
  ASSUME IInv, NoneStarts("callback"), StillPending
  PROVE  CallbackHolds'
  BY DEF IInv, CallbackHolds, NoneStarts, StillPending

\* A connection is created.
Appeared == conn = None /\ conn' \in ConnRow

NoneIsApart == None \notin ConnRow /\ None # "active"

\* A step that is not the operator's, nor a callback's.
LEMMA OrdinaryStep ==
  ASSUME NoneIsApart, IInv, NEW row,
         Kept \/ (Fresh(row) /\ row.from # "callback"),
         \/ conn' = conn /\ (Kept \/ ShadowAdded(row))
         \/ Advanced /\ OpenAfter
         \/ Appeared /\ OpenAfter,
         NoneStarts("change"), NoneStarts("callback"), txn' \in [Txn -> TxnRow],
         NoneCompletes, StillPending, oauth' \in Seq(GrantRow)
  PROVE  IInv'
  <1>1. CustodyTypeOK'
    BY DEF IInv, CustodyTypeOK, Kept, Fresh, Grown, Advanced, Appeared
  <1>2. UsableLocked'
    BY WornLocked
  <1>3. SeenLast'
    <2>1. CASE conn' = conn /\ Kept
      BY <2>1, KeptSeen
    <2>2. CASE conn' = conn /\ Grown(row) /\ ShadowAdded(row)
      BY <2>2, GrownSeen
    <2>3. CASE Advanced
      BY <2>3, AdvancedSeen DEF IInv, CustodyTypeOK
    <2>4. CASE Appeared
      BY <2>4 DEF NoneIsApart, Appeared, IInv, SeenLast, NoneStarts
    <2>. QED
      BY <2>1, <2>2, <2>3, <2>4 DEF Fresh
  <1>4. LatestSpent'
    <2>1. CASE conn' = conn /\ Kept
      BY <2>1, StillSpent
    <2>2. CASE conn' = conn /\ Grown(row) /\ ShadowAdded(row)
      BY <2>2, StillSpent
    <2>3. CASE OpenAfter
      BY <2>3 DEF OpenAfter, LatestSpent, Open
    <2>. QED
      BY <2>1, <2>2, <2>3 DEF Fresh
  <1>5. CallbackHolds'
    BY StillHolds
  <1>6. HandedOff'
    BY StillHandedOff DEF Fresh
  <1>. QED
    BY <1>1, <1>2, <1>3, <1>4, <1>5, <1>6 DEF IInv

-----------------------------------------------------------------------------
(* What a step does to the transactions and the connection *)

\* A transaction that ends starts nothing.
LEMMA Ending ==
  ASSUME CustodyTypeOK, NEW x \in Txn, Ended(x)
  PROVE  /\ txn' \in [Txn -> TxnRow]
         /\ NoneStarts("change") /\ NoneStarts("callback")
         /\ \A op : ~Runs(x, op)'
  <1>1. None \in TxnRow
    BY DEF TxnRow
  <1>2. txn' \in [Txn -> TxnRow]
    BY <1>1 DEF Ended, CustodyTypeOK
  <1>3. txn'[x] = None /\ \A y \in Txn : y # x => txn'[y] = txn[y]
    BY DEF Ended, CustodyTypeOK
  <1>. QED
    BY <1>2, <1>3 DEF NoneStarts, Runs

\* A transaction that begins an operation starts no other.
LEMMA Beginning ==
  ASSUME CustodyTypeOK, NEW x \in Txn, NEW record \in TxnRow, Began(x, record),
         NEW op, record.op # op
  PROVE  txn' \in [Txn -> TxnRow] /\ NoneStarts(op)
  <1>1. txn' \in [Txn -> TxnRow]
    BY DEF Began, CustodyTypeOK
  <1>2. txn'[x] = record /\ \A y \in Txn : y # x => txn'[y] = txn[y]
    BY DEF Began, CustodyTypeOK
  <1>. QED
    BY <1>1, <1>2 DEF NoneStarts, Runs

LEMMA Standing ==
  ASSUME CustodyTypeOK, UNCHANGED txn
  PROVE  txn' \in [Txn -> TxnRow] /\ NoneStarts("change") /\ NoneStarts("callback")
  BY DEF CustodyTypeOK, NoneStarts, Runs

\* The transactions of OAuth left alone.
LEMMA OAuthStands ==
  ASSUME IInv, UNCHANGED oauth
  PROVE  /\ oauth' \in Seq(GrantRow)
         /\ NoneCompletes
         /\ NoneStarts("callback") => StillPending
  BY DEF IInv, CustodyTypeOK, NoneCompletes, StillPending, CallbackHolds, NoneStarts

\* A transaction added.
LEMMA Issuing ==
  ASSUME IInv, NEW context \in Context, Issue(context), NoneStarts("callback")
  PROVE  oauth' \in Seq(GrantRow) /\ NoneCompletes /\ StillPending
  <1>. DEFINE row == [status |-> "pending", context |-> context, lapsed |-> FALSE,
                      failure |-> None, credential |-> 0]
  <1>1. row \in GrantRow /\ row.status = "pending"
    BY DEF GrantRow, OAuthStatus
  <1>2. oauth \in Seq(GrantRow) /\ oauth' = Append(oauth, row)
    BY DEF Issue, IInv, CustodyTypeOK
  <1>. HIDE DEF row
  <1>3. /\ oauth' \in Seq(GrantRow)
        /\ DOMAIN oauth = 1..Len(oauth) /\ Len(oauth) \in Nat
        /\ DOMAIN oauth' = 1..(Len(oauth) + 1)
        /\ \A i \in 1..Len(oauth) : oauth'[i] = oauth[i]
        /\ oauth'[Len(oauth) + 1] = row
    BY <1>1, <1>2, AppendProperties, LenProperties
  <1>4. NoneCompletes
    BY <1>1, <1>3 DEF NoneCompletes
  <1>5. StillPending
    BY <1>3 DEF StillPending, IInv, CallbackHolds, NoneStarts
  <1>. QED
    BY <1>3, <1>4, <1>5

\* A change of one transaction: how its row and the others are afterwards.
LEMMA OneGrant ==
  ASSUME IInv, NEW i \in DOMAIN oauth, NEW r \in GrantRow, oauth' = [oauth EXCEPT ![i] = r]
  PROVE  /\ oauth' \in Seq(GrantRow)
         /\ DOMAIN oauth' = DOMAIN oauth
         /\ oauth'[i] = r
         /\ \A j \in DOMAIN oauth : j # i => oauth'[j] = oauth[j]
  <1>1. oauth \in Seq(GrantRow) /\ i \in 1..Len(oauth) /\ DOMAIN oauth = 1..Len(oauth)
    BY LenProperties DEF IInv, CustodyTypeOK
  <1>2. /\ oauth' \in Seq(GrantRow)
        /\ Len(oauth') = Len(oauth)
        /\ \A j \in 1..Len(oauth) : oauth'[j] = IF j = i THEN r ELSE oauth[j]
    BY <1>1, ExceptSeq
  <1>. QED
    BY <1>1, <1>2, LenProperties

\* A pending transaction that is closed, by no callback that holds it.
LEMMA Closing ==
  ASSUME IInv, NEW i \in DOMAIN oauth, NEW context \in Context, Accepted(i, context),
         NEW status \in {"expired", "failed", "cancelled"},
         NEW failure \in {None, "binding_mismatch", "provider"}, Closed(i, status, failure),
         NoneStarts("callback")
  PROVE  oauth' \in Seq(GrantRow) /\ NoneCompletes /\ StillPending
  <1>. DEFINE r == [oauth[i] EXCEPT !.status = status, !.failure = failure]
  <1>1. oauth[i] \in GrantRow /\ oauth[i].status = "pending"
    BY DEF Accepted, IInv, CustodyTypeOK
  <1>2. r \in GrantRow /\ r.status = status
    BY <1>1 DEF GrantRow, OAuthStatus
  <1>3. oauth' = [oauth EXCEPT ![i] = r]
    BY DEF Closed
  <1>. HIDE DEF r
  <1>4. /\ oauth' \in Seq(GrantRow)
        /\ DOMAIN oauth' = DOMAIN oauth
        /\ oauth'[i] = r
        /\ \A j \in DOMAIN oauth : j # i => oauth'[j] = oauth[j]
    BY <1>2, <1>3, OneGrant
  <1>5. NoneCompletes
    BY <1>1, <1>2, <1>4 DEF NoneCompletes
  <1>6. StillPending
    BY <1>4 DEF StillPending, Accepted, Unlocked, IInv, CallbackHolds, NoneStarts
  <1>. QED
    BY <1>4, <1>5, <1>6

\* A pending transaction whose time passes.
LEMMA Lapsing ==
  ASSUME IInv, NEW i \in DOMAIN oauth, Lapse(i), NoneStarts("callback")
  PROVE  oauth' \in Seq(GrantRow) /\ NoneCompletes /\ StillPending
  <1>. DEFINE r == [oauth[i] EXCEPT !.lapsed = TRUE]
  <1>1. oauth[i] \in GrantRow /\ oauth[i].status = "pending"
    BY DEF Lapse, IInv, CustodyTypeOK
  <1>2. r \in GrantRow /\ r.status = "pending"
    BY <1>1 DEF GrantRow, OAuthStatus
  <1>3. oauth' = [oauth EXCEPT ![i] = r]
    BY DEF Lapse
  <1>. HIDE DEF r
  <1>4. /\ oauth' \in Seq(GrantRow)
        /\ DOMAIN oauth' = DOMAIN oauth
        /\ oauth'[i] = r
        /\ \A j \in DOMAIN oauth : j # i => oauth'[j] = oauth[j]
    BY <1>2, <1>3, OneGrant
  <1>5. NoneCompletes
    BY <1>1, <1>2, <1>4 DEF NoneCompletes
  <1>6. StillPending
    BY <1>2, <1>4 DEF StillPending, IInv, CallbackHolds, NoneStarts
  <1>. QED
    BY <1>4, <1>5, <1>6

\* A change saved by the connection's service or the sink.
LEMMA Saving ==
  ASSUME CustodyTypeOK, conn # None, NEW status \in ConnectionStatus, Save(Moved(conn, status))
  PROVE  Advanced /\ conn'.status = status
  BY DEF CustodyTypeOK, ConnRow, Save, Moved, Advanced

LEMMA Creating ==
  ASSUME NEW asked, Create(asked)
  PROVE  Appeared /\ OpenAfter
  BY DEF Create, Created, Appeared, OpenAfter, ConnRow, ConnectionStatus

-----------------------------------------------------------------------------
(* The steps *)

\* Services of the connection change it or create it, and touch nothing else.
LEMMA ConnectionStep ==
  ASSUME NoneIsApart, IInv, NextConnection, UNCHANGED <<credentialVars, oauthVars>>
  PROVE  IInv'
  <1>. DEFINE row == None
  <1>1. CustodyTypeOK
    BY DEF IInv
  <1>2. Kept
    BY UnchangedKeeps DEF credentialVars, IInv
  <1>3. txn' \in [Txn -> TxnRow] /\ NoneStarts("change") /\ NoneStarts("callback")
    BY <1>1, Standing DEF credentialVars
  <1>4. oauth' \in Seq(GrantRow) /\ NoneCompletes /\ StillPending
    BY <1>3, OAuthStands DEF oauthVars
  <1>5. (Advanced /\ OpenAfter) \/ (Appeared /\ OpenAfter)
    <2>1. ASSUME NEW target \in ConnectionStatus \ {"revoked", "closed"}, Transition(target)
          PROVE  Advanced /\ OpenAfter
      BY <1>1, <2>1, Saving DEF Transition, OpenAfter
    <2>2. ASSUME NEW k \in Capability, GrantCapability(k) \/ RevokeCapability(k)
          PROVE  Advanced /\ OpenAfter
      <3>1. conn # None /\ conn.status \in ConnectionStatus \ {"revoked", "closed"}
        BY <1>1, <2>2 DEF GrantCapability, RevokeCapability, Open, CustodyTypeOK, ConnRow
      <3>2. Save(Moved(conn, conn.status))
        BY <2>2 DEF GrantCapability, RevokeCapability
      <3>. QED
        BY <1>1, <3>1, <3>2, Saving DEF OpenAfter
    <2>3. ASSUME NEW asked \in SUBSET Capability, Create(asked)
          PROVE  Appeared /\ OpenAfter
      BY <2>3, Creating
    <2>. QED
      BY <2>1, <2>2, <2>3 DEF NextConnection, Change
  <1>. QED
    BY <1>2, <1>3, <1>4, <1>5, OrdinaryStep

\* A step in which only the generations change, and no transaction of theirs or of OAuth.
LEMMA GenerationStep ==
  ASSUME NoneIsApart, IInv, NEW g \in DOMAIN credential,
         \/ \E r \in Rotation : Rotated(g, r)
         \/ Rotate(g)
         \/ EmergencyDisable(g)
         \/ \E status \in {"revoked", "reauthorization_required"} : MakeUnavailable(g, status),
         UNCHANGED oauthVars
  PROVE  IInv'
  <1>1. CustodyTypeOK /\ UsableLocked
    BY DEF IInv
  <1>2. conn' = conn /\ UNCHANGED txn
    BY DEF Rotated, Rotate, EmergencyDisable, MakeUnavailable, connVars
  <1>3. txn' \in [Txn -> TxnRow] /\ NoneStarts("change") /\ NoneStarts("callback")
    BY <1>1, <1>2, Standing
  <1>4. oauth' \in Seq(GrantRow) /\ NoneCompletes /\ StillPending
    BY <1>3, OAuthStands DEF oauthVars
  <1>5. CASE Kept
    BY <1>2, <1>3, <1>4, <1>5, OrdinaryStep
  <1>6. CASE Rotate(g)
    <2>. DEFINE row == Generation("shadow_verified", AfterRotation(g))
    <2>1. /\ row \in CredentialRow
          /\ row.from = AfterRotation(g)
          /\ row.envelope.status = "active"
          /\ AfterRotation(g) # "callback"
      BY GenerationRow DEF CredentialStatus, AfterRotation
    <2>2. /\ Appended([credential EXCEPT ![g].status = "revoked"], row)
          /\ g = Latest /\ Usable(g)
      BY <1>6 DEF Rotate
    <2>. HIDE DEF row
    <2>3. Grown(row) /\ credential'[g].status = "revoked"
      BY <1>1, <2>1, <2>2, ReplacingGrows
    <2>4. credential # <<>>
      BY <1>1, <2>2, GenerationsTyped
    <2>5. ShadowAdded(row) /\ Fresh(row) /\ row.from # "callback"
      BY <2>1, <2>2, <2>3, <2>4 DEF ShadowAdded, Fresh
    <2>. QED
      BY <1>2, <1>3, <1>4, <2>5, OrdinaryStep
  <1>7. Kept \/ Rotate(g)
    <2>1. ASSUME NEW r \in Rotation, Rotated(g, r) PROVE Kept
      BY <1>1, <2>1, RotatingKeeps
    <2>2. EmergencyDisable(g) => Kept
      BY <1>1, DisablingKeeps DEF EmergencyDisable
    <2>3. ASSUME NEW status \in {"revoked", "reauthorization_required"}, MakeUnavailable(g, status)
          PROVE  Kept
      BY <1>1, <2>3, DisablingKeeps DEF MakeUnavailable
    <2>. QED
      BY <2>1, <2>2, <2>3
  <1>. QED
    BY <1>5, <1>6, <1>7

\* The loader refreshes through the sink, a legacy row is migrated, a transaction ends.
LEMMA TransactionStep ==
  ASSUME NoneIsApart, IInv, NEW x \in Txn,
         \/ StartRefresh(x) \/ Refresh(x)
         \/ \E s \in Source : StartMigration(x, s)
         \/ Migrate(x) \/ Rollback(x),
         UNCHANGED oauthVars
  PROVE  IInv'
  <1>1. CustodyTypeOK /\ UsableLocked
    BY DEF IInv
  <1>2. txn' \in [Txn -> TxnRow] /\ NoneStarts("change") /\ NoneStarts("callback")
    <2>1. CASE StartRefresh(x)
      <3>1. [op |-> "refresh"] \in TxnRow /\ [op |-> "refresh"].op = "refresh"
        BY DEF TxnRow
      <3>. QED
        BY <1>1, <2>1, <3>1, Beginning DEF StartRefresh
    <2>2. ASSUME NEW s \in Source, StartMigration(x, s)
          PROVE  txn' \in [Txn -> TxnRow] /\ NoneStarts("change") /\ NoneStarts("callback")
      <3>. DEFINE record == [op |-> "migrate", source |-> s]
      <3>1. record \in TxnRow /\ record.op = "migrate" /\ Began(x, record)
        BY <2>2 DEF TxnRow, StartMigration
      <3>. HIDE DEF record
      <3>. QED
        BY <1>1, <3>1, Beginning
    <2>3. CASE Refresh(x) \/ Migrate(x) \/ Rollback(x)
      BY <1>1, <2>3, Ending DEF Refresh, Migrate, Rollback
    <2>. QED
      BY <2>1, <2>2, <2>3
  <1>3. oauth' \in Seq(GrantRow) /\ NoneCompletes /\ StillPending
    BY <1>2, OAuthStands DEF oauthVars
  <1>4. CASE Refresh(x)
    <2>. DEFINE row == Generation("active", "refresh")
    <2>1. row.from = "refresh" /\ row.envelope.status = "active"
      BY GenerationRow DEF CredentialStatus
    <2>2. Grown(row) /\ conn # None /\ Save(Moved(conn, "active"))
      BY <1>1, <1>4, StoringGrows DEF Refresh, Store, Bindable, Open
    <2>. HIDE DEF row
    <2>3. Advanced /\ OpenAfter
      BY <1>1, <2>2, Saving DEF OpenAfter, ConnectionStatus
    <2>. QED
      BY <1>2, <1>3, <2>1, <2>2, <2>3, OrdinaryStep DEF Fresh
  <1>5. CASE Migrate(x)
    <2>. DEFINE row == Generation("shadow_verified", "shadow")
    <2>1. row \in CredentialRow /\ row.from = "shadow" /\ row.envelope.status = "active"
      BY GenerationRow DEF CredentialStatus
    <2>2. Appended(credential, row) /\ conn' = conn
      BY <1>5 DEF Migrate, connVars
    <2>. HIDE DEF row
    <2>3. Fresh(row) /\ ShadowAdded(row)
      BY <1>1, <2>1, <2>2, AppendingGrows DEF Fresh, ShadowAdded
    <2>. QED
      BY <1>2, <1>3, <2>1, <2>2, <2>3, OrdinaryStep
  <1>6. CASE ~Refresh(x) /\ ~Migrate(x)
    <2>1. conn' = conn /\ UNCHANGED credential
      BY <1>6 DEF StartRefresh, StartMigration, Rollback, connVars
    <2>2. Kept
      BY <1>1, <2>1, UnchangedKeeps
    <2>. QED
      BY <1>2, <1>3, <2>1, <2>2, OrdinaryStep
  <1>. QED
    BY <1>4, <1>5, <1>6

\* The operator reads the connection: no generation is newer than the latest.
LEMMA ReadingStep ==
  ASSUME NoneIsApart, IInv, NEW x \in Txn, ReadConnection(x), UNCHANGED oauthVars
  PROVE  IInv'
  <1>. DEFINE record == [op |-> "change", seen |-> conn, latest |-> Latest]
  <1>1. CustodyTypeOK /\ UsableLocked
    BY DEF IInv
  <1>2. /\ DOMAIN credential = 1..Len(credential) /\ Len(credential) \in Nat
        /\ Latest = Len(credential)
    BY <1>1, GenerationsTyped
  <1>3. /\ conn \in ConnRow /\ conn' = conn /\ credential' = credential
        /\ oauth' = oauth /\ Began(x, record)
    BY <1>1 DEF ReadConnection, CustodyTypeOK, connVars, oauthVars
  <1>4. record \in TxnRow /\ record.op = "change" /\ record.seen = conn /\ record.latest = Latest
    BY <1>2, <1>3 DEF TxnRow
  <1>. HIDE DEF record
  <1>5. txn' \in [Txn -> TxnRow] /\ NoneStarts("callback")
    BY <1>1, <1>3, <1>4, Beginning
  <1>6. txn'[x] = record /\ \A y \in Txn : y # x => txn'[y] = txn[y]
    BY <1>1, <1>3 DEF Began, CustodyTypeOK
  <1>7. Kept
    BY <1>1, <1>3, UnchangedKeeps
  <1>8. SeenLast'
    <2>1. ASSUME NEW y \in Txn, Runs(y, "change")'
          PROVE  /\ conn' \in ConnRow
                 /\ txn'[y].seen.version <= conn'.version
                 /\ txn'[y].seen.version = conn'.version =>
                      \A g, h \in DOMAIN credential' :
                        txn'[y].latest <= g /\ g < h /\ Usable(g)' => credential'[h].from = "shadow"
      <3>1. CASE y = x
        BY <1>2, <1>3, <1>4, <1>6, <3>1 DEF ConnRow
      <3>2. CASE y # x
        BY <1>3, <1>6, <2>1, <3>2 DEF IInv, SeenLast, Runs, Usable
      <3>. QED
        BY <3>1, <3>2
    <2>. QED
      BY <2>1 DEF SeenLast
  <1>9. oauth' \in Seq(GrantRow) /\ NoneCompletes /\ StillPending
    BY <1>3, <1>5, OAuthStands
  <1>10. CustodyTypeOK'
    BY <1>1, <1>3, <1>5, <1>9 DEF CustodyTypeOK
  <1>. QED
    BY <1>3, <1>5, <1>7, <1>8, <1>9, <1>10, WornLocked, StillSpent, StillHolds, StillHandedOff DEF IInv

\* The operator's change goes through only if the connection is still the one that was
\* read; then every generation after the one it takes is a shadow.
LEMMA ChangingStep ==
  ASSUME NoneIsApart, IInv, NEW x \in Txn,
         NEW target \in {"revoked", "closed"}, NEW status \in {"revoked", "disabled"},
         OperatorChange(x, target, status), UNCHANGED oauthVars
  PROVE  IInv'
  <1>1. CustodyTypeOK /\ UsableLocked
    BY DEF IInv
  <1>2. /\ DOMAIN credential = 1..Len(credential) /\ Len(credential) \in Nat
        /\ Latest = Len(credential)
    BY <1>1, GenerationsTyped
  <1>3. txn' \in [Txn -> TxnRow] /\ NoneStarts("change") /\ NoneStarts("callback")
    BY <1>1, Ending DEF OperatorChange
  <1>4. PICK g \in DOMAIN credential :
          g >= txn[x].latest /\ Usable(g) /\ credential' = WithoutCredential(g, status)
    BY DEF OperatorChange
  <1>5. Kept /\ credential'[g].status = status
    BY <1>1, <1>4, DisablingKeeps
  <1>6. txn[x].seen \in ConnRow /\ txn[x].latest \in Nat /\ conn \in ConnRow /\ Runs(x, "change")
    BY <1>1 DEF OperatorChange, Runs, TxnRow, CustodyTypeOK, IInv, SeenLast
  <1>7. Advanced /\ txn[x].seen.version = conn.version
    BY <1>6 DEF OperatorChange, FromSeen, Save, Moved, UpdateAccepted, Advanced, ConnRow, ConnectionStatus
  <1>8. \A h \in DOMAIN credential : g < h => credential[h].from = "shadow"
    BY <1>2, <1>4, <1>6, <1>7 DEF IInv, SeenLast
  <1>9. LatestSpent'
    <2>. SUFFICES ASSUME credential' # <<>>, Usable(Latest)'
                  PROVE  credential'[Latest'].from = "shadow"
      BY DEF LatestSpent
    <2>1. Latest' = Latest /\ Latest \in 1..Len(credential)
      BY <1>2, <1>5, LenProperties, EmptySeq DEF Kept, Latest
    <2>2. g # Latest
      BY <1>5, <2>1 DEF Usable
    <2>3. credential[Latest].from = "shadow"
      BY <1>2, <1>4, <1>8, <2>1, <2>2
    <2>. QED
      BY <1>5, <2>1, <2>3 DEF Kept, Worn
  <1>10. oauth' \in Seq(GrantRow) /\ NoneCompletes /\ StillPending
    BY <1>3, OAuthStands DEF oauthVars
  <1>11. CustodyTypeOK'
    BY <1>3, <1>5, <1>7, <1>10 DEF CustodyTypeOK, Kept, Advanced
  <1>12. SeenLast'
    BY <1>1, <1>3, <1>7, AdvancedSeen DEF CustodyTypeOK
  <1>. QED
    BY <1>3, <1>5, <1>9, <1>10, <1>11, <1>12, WornLocked, StillHolds, StillHandedOff DEF IInv

\* What happens to a transaction of OAuth outside the callback's two halves.
LEMMA RequestStep ==
  ASSUME NoneIsApart, IInv,
         \/ \E context \in Context :
              \/ Start(context)
              \/ \E asked \in SUBSET Capability : Connect(asked, context)
              \/ \E i \in DOMAIN oauth :
                   \/ Expire(i, context) \/ Cancel(i, context)
                   \/ \E failure \in {"binding_mismatch", "provider"} : Fail(i, context, failure)
         \/ \E i \in DOMAIN oauth : Lapse(i) \/ Consent(i)
  PROVE  IInv'
  <1>1. CustodyTypeOK /\ UsableLocked
    BY ZenonT(60) DEF IInv
  <1>2. UNCHANGED <<credential, txn>>
    BY ZenonT(60) DEF Start, Connect, Expire, Cancel, Fail, Closed, Lapse, Consent, credentialVars
  <1>3. Kept
    BY <1>1, <1>2, UnchangedKeeps
  <1>4. txn' \in [Txn -> TxnRow] /\ NoneStarts("change") /\ NoneStarts("callback")
    BY <1>1, <1>2, Standing
  <1>5. conn' = conn \/ (Appeared /\ OpenAfter)
    BY Creating, ZenonT(60) DEF Start, Connect, Expire, Cancel, Fail, Closed, Lapse, Consent, connVars
  <1>6. oauth' \in Seq(GrantRow) /\ NoneCompletes /\ StillPending
    <2>1. ASSUME NEW context \in Context, Issue(context)
          PROVE  oauth' \in Seq(GrantRow) /\ NoneCompletes /\ StillPending
      BY <1>4, <2>1, Issuing
    <2>2. ASSUME NEW context \in Context, NEW i \in DOMAIN oauth,
                 \/ Expire(i, context) \/ Cancel(i, context)
                 \/ \E failure \in {"binding_mismatch", "provider"} : Fail(i, context, failure)
          PROVE  oauth' \in Seq(GrantRow) /\ NoneCompletes /\ StillPending
      BY <1>4, <2>2, Closing DEF Expire, Cancel, Fail
    <2>3. ASSUME NEW i \in DOMAIN oauth, Lapse(i)
          PROVE  oauth' \in Seq(GrantRow) /\ NoneCompletes /\ StillPending
      BY <1>4, <2>3, Lapsing
    <2>4. ASSUME NEW i \in DOMAIN oauth, Consent(i)
          PROVE  oauth' \in Seq(GrantRow) /\ NoneCompletes /\ StillPending
      BY <1>4, <2>4, OAuthStands DEF Consent
    <2>. QED
      BY <2>1, <2>2, <2>3, <2>4 DEF Start, Connect
  <1>. QED
    BY <1>3, <1>4, <1>5, <1>6, OrdinaryStep

\* The provider exchanges the code of a transaction that no other callback holds.
LEMMA ExchangeStep ==
  ASSUME NoneIsApart, IInv, NEW x \in Txn, NEW i \in DOMAIN oauth, NEW context \in Context,
         Exchange(x, i, context)
  PROVE  IInv'
  <1>. DEFINE record == [op |-> "callback", oauth |-> i]
  <1>1. CustodyTypeOK /\ UsableLocked
    BY DEF IInv
  <1>2. i \in Nat
    BY <1>1, LenProperties DEF CustodyTypeOK
  <1>3. record \in TxnRow /\ record.op = "callback" /\ record.oauth = i /\ Began(x, record)
    BY <1>2 DEF TxnRow, Exchange
  <1>. HIDE DEF record
  <1>4. txn' \in [Txn -> TxnRow] /\ NoneStarts("change")
    BY <1>1, <1>3, Beginning
  <1>5. txn'[x] = record /\ \A y \in Txn : y # x => txn'[y] = txn[y]
    BY <1>1, <1>3 DEF Began, CustodyTypeOK
  <1>6. UNCHANGED <<conn, credential, oauth>>
    BY DEF Exchange, connVars
  <1>7. Kept
    BY <1>1, <1>6, UnchangedKeeps
  <1>8. CallbackHolds'
    <2>1. \A y \in Txn : y # x /\ Runs(y, "callback")' => Runs(y, "callback") /\ txn[y].oauth # i
      BY <1>5 DEF Exchange, Accepted, Unlocked, Runs
    <2>2. oauth[i].status = "pending"
      BY DEF Exchange, Accepted
    <2>. QED
      BY <1>3, <1>5, <1>6, <2>1, <2>2 DEF IInv, CallbackHolds
  <1>9. NoneCompletes
    BY <1>6, OAuthStands
  <1>10. CustodyTypeOK'
    BY <1>1, <1>4, <1>6 DEF CustodyTypeOK
  <1>. QED
    BY <1>4, <1>6, <1>7, <1>8, <1>9, <1>10, WornLocked, KeptSeen, StillSpent, StillHandedOff DEF IInv

\* The callback hands the grant over and completes the transaction that it holds.
LEMMA CompletingStep ==
  ASSUME NoneIsApart, IInv, NEW x \in Txn, Complete(x)
  PROVE  IInv'
  <1>. DEFINE row == Generation("active", "callback")
              i == txn[x].oauth
              r == [oauth[i] EXCEPT !.status = "completed", !.credential = Len(credential')]
  <1>1. CustodyTypeOK /\ UsableLocked /\ Store("callback") /\ Runs(x, "callback")
    BY DEF IInv, Complete
  <1>2. DOMAIN credential = 1..Len(credential) /\ Len(credential) \in Nat
    BY <1>1, GenerationsTyped
  <1>3. row.from = "callback" /\ row.envelope.status = "active"
    BY GenerationRow DEF CredentialStatus
  <1>4. Grown(row) /\ conn # None /\ Save(Moved(conn, "active"))
    BY <1>1, StoringGrows DEF Store, Bindable, Open
  <1>5. Advanced /\ OpenAfter
    BY <1>1, <1>4, Saving DEF OpenAfter, ConnectionStatus
  <1>6. /\ txn' \in [Txn -> TxnRow]
        /\ NoneStarts("change") /\ NoneStarts("callback")
        /\ ~Runs(x, "callback")'
    BY <1>1, Ending DEF Complete
  <1>7. i \in DOMAIN oauth /\ oauth[i] \in GrantRow /\ oauth[i].status = "pending"
    BY <1>1 DEF IInv, CallbackHolds, CustodyTypeOK
  <1>8. Len(credential') = Len(credential) + 1 /\ DOMAIN credential' = 1..(Len(credential) + 1)
    BY <1>2, <1>4, LenProperties DEF Grown
  <1>9. r \in GrantRow /\ r.status = "completed" /\ r.credential = Len(credential) + 1
    <2>1. ASSUME NEW n \in Nat, NEW old \in GrantRow
          PROVE  LET new == [old EXCEPT !.status = "completed", !.credential = n]
                 IN  new \in GrantRow /\ new.status = "completed" /\ new.credential = n
      BY DEF GrantRow, OAuthStatus
    <2>2. Len(credential') \in Nat
      BY <1>2, <1>8
    <2>. HIDE DEF i
    <2>. QED
      BY <1>7, <1>8, <2>1, <2>2
  <1>10. oauth' = [oauth EXCEPT ![i] = r]
    BY DEF Complete
  <1>. HIDE DEF row, i, r
  <1>11. /\ oauth' \in Seq(GrantRow)
         /\ DOMAIN oauth' = DOMAIN oauth
         /\ oauth'[i] = r
         /\ \A j \in DOMAIN oauth : j # i => oauth'[j] = oauth[j]
    BY <1>7, <1>9, <1>10, OneGrant
  <1>12. CallbackHolds'
    <2>1. \A y \in Txn : Runs(y, "callback")' => y # x /\ Runs(y, "callback") /\ txn[y].oauth # i
      BY <1>1, <1>6 DEF NoneStarts, IInv, CallbackHolds, i
    <2>. QED
      BY <1>6, <1>11, <2>1 DEF NoneStarts, IInv, CallbackHolds
  <1>13. HandedOff'
    <2>1. \A j \in DOMAIN oauth : j # i /\ oauth[j].status = "completed" =>
            oauth[j].credential \in 1..Len(credential)
      BY <1>2 DEF IInv, HandedOff
    <2>2. \A j \in DOMAIN oauth' : oauth'[j].status = "completed" =>
            oauth'[j].credential \in DOMAIN credential'
      BY <1>2, <1>8, <1>9, <1>11, <2>1
    <2>3. \A j, k \in DOMAIN oauth' :
            /\ oauth'[j].status = "completed" /\ oauth'[k].status = "completed"
            /\ oauth'[j].credential = oauth'[k].credential
            => j = k
      <3>. SUFFICES ASSUME NEW j \in DOMAIN oauth', NEW k \in DOMAIN oauth',
                           oauth'[j].status = "completed", oauth'[k].status = "completed",
                           oauth'[j].credential = oauth'[k].credential
                    PROVE  j = k
        OBVIOUS
      <3>1. CASE j # i /\ k # i
        BY <1>11, <3>1 DEF IInv, HandedOff
      <3>2. ~(j = i /\ k # i) /\ ~(k = i /\ j # i)
        BY <1>2, <1>9, <1>11, <2>1
      <3>. QED
        BY <3>1, <3>2
    <2>4. ASSUME NEW g \in DOMAIN credential', credential'[g].from = "callback"
          PROVE  CompletedWith(g)' # {}
      <3>1. CASE g = Len(credential) + 1
        <4>1. i \in CompletedWith(g)'
          BY <1>7, <1>9, <1>11, <3>1 DEF CompletedWith
        <4>. QED
          BY <4>1
      <3>2. CASE g \in 1..Len(credential)
        <4>1. credential[g].from = "callback"
          BY <1>4, <2>4, <3>2 DEF Grown, Worn
        <4>2. PICK j \in DOMAIN oauth : oauth[j].status = "completed" /\ oauth[j].credential = g
          BY <1>2, <3>2, <4>1 DEF IInv, HandedOff, CompletedWith
        <4>3. j \in CompletedWith(g)'
          BY <1>7, <1>11, <4>2 DEF CompletedWith
        <4>. QED
          BY <4>3
      <3>. QED
        BY <1>2, <1>8, <3>1, <3>2
    <2>. QED
      BY <2>2, <2>3, <2>4 DEF HandedOff
  <1>14. CustodyTypeOK'
    BY <1>4, <1>5, <1>6, <1>11 DEF CustodyTypeOK, Grown, Advanced
  <1>15. SeenLast'
    BY <1>1, <1>5, <1>6, AdvancedSeen DEF CustodyTypeOK
  <1>16. LatestSpent'
    BY <1>5 DEF OpenAfter, LatestSpent, Open
  <1>. QED
    BY <1>3, <1>4, <1>12, <1>13, <1>14, <1>15, <1>16, WornLocked DEF IInv, Fresh

-----------------------------------------------------------------------------
(* The theorems *)

LEMMA CustodyInit ==
  ASSUME NoneIsApart, InitCustody
  PROVE  IInv
  <1>1. conn = None /\ credential = <<>> /\ txn = [x \in Txn |-> None] /\ oauth = <<>>
    BY DEF InitCustody, Init, InitCredentials, InitOAuth
  <1>2. CustodyTypeOK
    BY <1>1 DEF CustodyTypeOK, TxnRow
  <1>3. DOMAIN credential = {} /\ DOMAIN oauth = {}
    BY <1>1
  <1>4. \A x \in Txn : \A op : ~Runs(x, op)
    BY <1>1 DEF Runs
  <1>. QED
    BY <1>1, <1>2, <1>3, <1>4
       DEF IInv, UsableLocked, SeenLast, LatestSpent, CallbackHolds, HandedOff

LEMMA CustodyNext ==
  ASSUME NoneIsApart, IInv, [NextCustody]_custodyVars
  PROVE  IInv'
  <1>1. CASE NextConnection /\ UNCHANGED <<credentialVars, oauthVars>>
    BY <1>1, ConnectionStep
  <1>2. CASE NextCredential /\ UNCHANGED oauthVars
    <2>1. ASSUME NEW g \in DOMAIN credential,
                 \/ \E r \in Rotation : Rewrap(g, r) \/ ReplaceDataKey(g, r)
                 \/ Rotate(g) \/ EmergencyDisable(g)
                 \/ \E status \in {"revoked", "reauthorization_required"} : MakeUnavailable(g, status)
          PROVE  IInv'
      BY <1>2, <2>1, GenerationStep DEF Rewrap, ReplaceDataKey
    <2>2. ASSUME NEW x \in Txn,
                 \/ StartRefresh(x) \/ Refresh(x)
                 \/ \E s \in Source : StartMigration(x, s)
                 \/ Migrate(x) \/ Rollback(x)
          PROVE  IInv'
      BY <1>2, <2>2, TransactionStep
    <2>3. ASSUME NEW x \in Txn, ReadConnection(x) PROVE IInv'
      BY <1>2, <2>3, ReadingStep
    <2>4. ASSUME NEW x \in Txn, OperatorRevoke(x) \/ OperatorEmergencyDisable(x) PROVE IInv'
      BY <1>2, <2>4, ChangingStep DEF OperatorRevoke, OperatorEmergencyDisable
    <2>. QED
      BY <1>2, <2>1, <2>2, <2>3, <2>4 DEF NextCredential
  <1>3. CASE NextOAuth
    <2>1. ASSUME NEW x \in Txn, NEW i \in DOMAIN oauth, NEW context \in Context,
                 Exchange(x, i, context)
          PROVE  IInv'
      BY <2>1, ExchangeStep
    <2>2. ASSUME NEW x \in Txn, Complete(x) PROVE IInv'
      BY <2>2, CompletingStep
    <2>. QED
      BY <1>3, <2>1, <2>2, RequestStep DEF NextOAuth
  <1>4. CASE UNCHANGED custodyVars
    BY <1>4 DEF custodyVars, connVars, credentialVars, oauthVars, IInv, CustodyTypeOK, UsableLocked,
         SeenLast, LatestSpent, CallbackHolds, HandedOff, CompletedWith, Usable, Locked, Runs, Open, Latest
  <1>. QED
    BY <1>1, <1>2, <1>3, <1>4 DEF NextCustody

\* Whatever a connection's services, its operator, its callbacks, its refreshes and its
\* migrations do at the same time, IInv holds: the rows have their types, a usable
\* generation has an active envelope, and callbacks hold distinct pending transactions.
THEOREM CustodyInvariant ==
  ASSUME NoneIsApart
  PROVE  CustodySpec => []IInv
  <1>1. InitCustody => IInv
    BY CustodyInit
  <1>2. IInv /\ [NextCustody]_custodyVars => IInv'
    BY CustodyNext
  <1>. QED
    BY <1>1, <1>2, PTL DEF CustodySpec

\* Once the operator has revoked or closed a connection, nothing that the sink stored
\* for it can be loaded, for any number of generations and of concurrent transactions.
THEOREM RevokedIsUnusable ==
  ASSUME NoneIsApart
  PROVE  CustodySpec => []RevokedUnusable
  <1>1. IInv => RevokedUnusable
    BY DEF IInv, LatestSpent, RevokedUnusable, Loadable
  <1>. QED
    BY <1>1, CustodyInvariant, PTL

\* Every credential that a callback stored came from exactly one completed transaction,
\* for any number of transactions and of callbacks that race for them.
THEOREM HandedOffOnce ==
  ASSUME NoneIsApart
  PROVE  CustodySpec => []OneHandoff
  <1>1. IInv => OneHandoff
    <2>. SUFFICES ASSUME IInv, NEW g \in DOMAIN credential, credential[g].from = "callback"
                  PROVE  Cardinality(CompletedWith(g)) = 1
      BY DEF OneHandoff, CompletedWith
    <2>1. PICK i \in CompletedWith(g) : TRUE
      BY DEF IInv, HandedOff
    <2>2. CompletedWith(g) = {i}
      BY <2>1 DEF IInv, HandedOff, CompletedWith
    <2>. QED
      BY <2>2, FS_Singleton
  <1>. QED
    BY <1>1, CustodyInvariant, PTL

\* A connection that the operator is shown as active has a credential that can be
\* loaded, and every capability it grants resolves.
THEOREM ShownActiveWorks ==
  ASSUME NoneIsApart
  PROVE  CustodySpec => []ShownActive
  <1>1. IInv => ShownActive
    <2>. SUFFICES ASSUME IInv, conn # None, State = "active"
                  PROVE  Loadable /\ \A k \in EffectiveCapabilities : Resolvable(k)
      BY DEF ShownActive
    <2>1. /\ conn.status = "active"
          /\ (IF credential = <<>> THEN None ELSE credential[Latest].status) = "active"
      BY DEF State
    <2>2. credential # <<>> /\ credential[Latest].status = "active"
      BY <2>1 DEF NoneIsApart
    <2>3. Latest \in DOMAIN credential
      BY <2>2, GenerationsTyped DEF IInv
    <2>. QED
      BY <2>1, <2>2, <2>3 DEF IInv, UsableLocked, Usable, Loadable, Resolvable, EffectiveCapabilities
  <1>. QED
    BY <1>1, CustodyInvariant, PTL

\* Every change of a connection is recorded as an event, in order and without a gap, and
\* an open connection can be changed again, whoever changes it.
THEOREM ChangesAreTold ==
  ASSUME NoneIsApart
  PROVE  CustodySpec => [](EveryChangeTold /\ NextChangeRecordable)
  <1>1. InitCustody => EveryChangeTold
    BY DEF InitCustody, Init, EveryChangeTold
  <1>2. ASSUME IInv, EveryChangeTold, [NextCustody]_custodyVars
        PROVE  EveryChangeTold'
    <2>1. CASE UNCHANGED <<conn, told>>
      BY <1>2, <2>1 DEF EveryChangeTold
    <2>2. ASSUME NEW new, new.version \in Int, conn # None, Save(new), new # None
          PROVE  EveryChangeTold'
      <3>1. conn.version \in Nat /\ told = 1..conn.version
        BY <1>2, <2>2 DEF IInv, CustodyTypeOK, ConnRow, EveryChangeTold
      <3>2. conn' = new /\ new.version = conn.version + 1 /\ told' = told \cup {new.version}
        BY <2>2 DEF Save, UpdateAccepted
      <3>3. told' = 1..conn'.version
        BY <3>1, <3>2
      <3>. QED
        BY <2>2, <3>2, <3>3 DEF EveryChangeTold
    <2>3. ASSUME NEW old \in ConnRow, NEW status \in ConnectionStatus, conn # None,
                 Save(Moved(old, status))
          PROVE  EveryChangeTold'
      <3>1. Moved(old, status) \in ConnRow /\ Moved(old, status).version \in Int
        BY DEF Moved, ConnRow
      <3>2. Moved(old, status) # None
        BY <3>1 DEF NoneIsApart
      <3>. QED
        BY <2>2, <2>3, <3>1, <3>2
    <2>4. ASSUME NEW asked, Create(asked) PROVE EveryChangeTold'
      <3>1. conn' # None /\ conn'.version = 1 /\ told' = 1..1
        BY <2>4 DEF Create, NoneIsApart, ConnRow, ConnectionStatus
      <3>. QED
        BY <3>1 DEF EveryChangeTold
    <2>5. ASSUME NextConnection PROVE EveryChangeTold'
      <3>1. ASSUME NEW target \in ConnectionStatus, Transition(target) PROVE EveryChangeTold'
        BY <1>2, <2>3, <3>1 DEF Transition, IInv, CustodyTypeOK
      <3>2. ASSUME NEW k \in Capability, GrantCapability(k) \/ RevokeCapability(k)
            PROVE  EveryChangeTold'
        <4>1. conn \in ConnRow /\ conn # None /\ conn.status \in ConnectionStatus
          BY <1>2, <3>2 DEF GrantCapability, RevokeCapability, Open, IInv, CustodyTypeOK, ConnRow
        <4>. QED
          BY <2>3, <3>2, <4>1 DEF GrantCapability, RevokeCapability
      <3>. QED
        BY <2>4, <2>5, <3>1, <3>2 DEF NextConnection, Change
    <2>6. ASSUME NEW from, Store(from) PROVE EveryChangeTold'
      BY <1>2, <2>3, <2>6 DEF Store, Bindable, Open, IInv, CustodyTypeOK, ConnectionStatus
    <2>7. ASSUME NEW x \in Txn, OperatorRevoke(x) \/ OperatorEmergencyDisable(x)
          PROVE  EveryChangeTold'
      <3>1. txn[x].seen \in ConnRow /\ conn \in ConnRow /\ conn # None
        BY <1>2, <2>7 DEF OperatorRevoke, OperatorEmergencyDisable, OperatorChange, Runs, TxnRow,
             IInv, CustodyTypeOK, SeenLast, NoneIsApart
      <3>. QED
        BY <2>3, <2>7, <3>1 DEF OperatorRevoke, OperatorEmergencyDisable, OperatorChange, FromSeen,
             ConnectionStatus
    <2>8. CASE NextCredential
      BY <2>1, <2>6, <2>7, <2>8 DEF NextCredential, Rewrap, ReplaceDataKey, Rotated, Rotate,
           EmergencyDisable, MakeUnavailable, StartRefresh, Refresh, StartMigration, Migrate,
           ReadConnection, Rollback, connVars
    <2>9. CASE NextOAuth
      BY <2>1, <2>4, <2>6, <2>9 DEF NextOAuth, Start, Connect, Expire, Cancel, Fail, Closed, Exchange,
           Lapse, Consent, Complete, connVars
    <2>. QED
      BY <1>2, <2>1, <2>5, <2>8, <2>9 DEF NextCustody, custodyVars, connVars
  <1>3. IInv /\ EveryChangeTold => NextChangeRecordable
    BY DEF IInv, CustodyTypeOK, ConnRow, EveryChangeTold, NextChangeRecordable, Open, Recordable
  <1>. QED
    BY <1>1, <1>2, <1>3, CustodyInvariant, PTL DEF CustodySpec

-----------------------------------------------------------------------------
(* The routes of the capabilities *)

RoutedRow ==
  [read : CapabilityRoute, mutation : {"legacy", "canonical"}, version : Nat]

RowIsNoNull == None \notin RoutedRow

\* The routes' own events are of versions that a route has had, whoever changed it since.
RoutesTold ==
  /\ route \in [Integration -> RoutedRow \cup {None}]
  /\ routeTold \in [Integration -> SUBSET Nat]
  /\ \A c \in Integration :
       \A n \in routeTold[c] : route[c] # None /\ n <= route[c].version

\* A change that gives the route a later version, and tells at most that version.
LEMMA RouteMoves ==
  ASSUME RowIsNoNull, RoutesTold, NEW c \in Integration, NEW row \in RoutedRow,
         route' = [route EXCEPT ![c] = row],
         route[c] # None => route[c].version <= row.version,
         UNCHANGED routeTold \/ routeTold' = [routeTold EXCEPT ![c] = @ \cup {row.version}]
  PROVE  RoutesTold'
  <1>1. route' \in [Integration -> RoutedRow \cup {None}]
    BY DEF RoutesTold
  <1>2. row.version \in Nat /\ row # None
    BY DEF RoutedRow, RowIsNoNull
  <1>3. routeTold' \in [Integration -> SUBSET Nat]
    BY <1>2 DEF RoutesTold
  <1>4. ASSUME NEW d \in Integration, NEW n \in routeTold'[d]
        PROVE  route'[d] # None /\ n <= route'[d].version
    <2>1. CASE d # c
      BY <1>4, <2>1 DEF RoutesTold
    <2>2. CASE d = c
      <3>1. route'[d] = row
        BY <2>2 DEF RoutesTold
      <3>2. n = row.version \/ n \in routeTold[c]
        BY <1>4, <2>2 DEF RoutesTold
      <3>3. n \in routeTold[c] => route[c] # None /\ n \in Nat /\ n <= route[c].version
                                  /\ route[c].version \in Nat
        BY DEF RoutesTold, RoutedRow
      <3>. QED
        BY <1>2, <3>1, <3>2, <3>3
    <2>. QED
      BY <2>1, <2>2
  <1>. QED
    BY <1>1, <1>3, <1>4 DEF RoutesTold

\* A route's next version.
LEMMA NextVersion ==
  ASSUME NEW e \in RoutedRow, NEW r \in CapabilityRoute
  PROVE  /\ [e EXCEPT !.read = r, !.version = @ + 1] \in RoutedRow
         /\ [e EXCEPT !.read = r, !.version = @ + 1].version = e.version + 1
         /\ r # "shadow" => [e EXCEPT !.mutation = r, !.version = @ + 1] \in RoutedRow
         /\ [e EXCEPT !.mutation = r, !.version = @ + 1].version = e.version + 1
  <1>0. e.version \in Nat
    BY DEF RoutedRow
  <1>1. ASSUME NEW f \in RoutedRow
        PROVE  /\ [f EXCEPT !.version = e.version + 1] \in RoutedRow
               /\ [f EXCEPT !.version = e.version + 1].version = e.version + 1
    BY <1>0 DEF RoutedRow
  <1>2. [e EXCEPT !.read = r] \in RoutedRow
    BY DEF RoutedRow
  <1>3. r # "shadow" => [e EXCEPT !.mutation = r] \in RoutedRow
    BY DEF RoutedRow, CapabilityRoute
  <1>4. [e EXCEPT !.mutation = r, !.version = @ + 1].version = e.version + 1
    BY DEF RoutedRow
  <1>. QED
    BY <1>1, <1>2, <1>3, <1>4

LEMMA SetRouteKeeps ==
  ASSUME RowIsNoNull, RoutesTold, NEW c \in Integration, NEW r \in CapabilityRoute, SetRoute(c, r)
  PROVE  RoutesTold'
  <1>1. route[c] # None => route[c] \in RoutedRow
    BY DEF RoutesTold
  <1>2. ControlledRow(c, r) \in RoutedRow
    <2>1. CASE route[c] = None
      BY <2>1 DEF ControlledRow, RoutedRow
    <2>2. CASE route[c] # None
      BY <1>1, <2>2, NextVersion DEF ControlledRow
    <2>. QED
      BY <2>1, <2>2
  <1>3. route[c] # None => route[c].version <= ControlledRow(c, r).version
    BY <1>1 DEF ControlledRow, RoutedRow
  <1>. QED
    BY <1>2, <1>3, RouteMoves DEF SetRoute

LEMMA CutoverKeeps ==
  ASSUME RowIsNoNull, RoutesTold, NEW c \in Integration, NEW kind \in {"read", "mutation"},
         NEW r \in CapabilityRoute, Cutover(c, kind, r)
  PROVE  RoutesTold'
  <1>1. route[c] # None => route[c] \in RoutedRow
    BY DEF RoutesTold
  <1>2. kind = "mutation" => r \in {"legacy", "canonical"}
    BY DEF Cutover, CapabilityRoute
  <1>3. CutoverRow(c, kind, r) \in RoutedRow
    <2>1. CASE route[c] = None
      BY <2>1 DEF CutoverRow, RoutedRow, CapabilityRoute
    <2>2. CASE route[c] # None /\ kind = "read"
      BY <1>1, <2>2, NextVersion DEF CutoverRow
    <2>3. CASE route[c] # None /\ kind = "mutation"
      BY <1>1, <1>2, <2>3, NextVersion DEF CutoverRow
    <2>. QED
      BY <2>1, <2>2, <2>3
  <1>4. route[c] # None => route[c].version <= CutoverRow(c, kind, r).version
    BY <1>1 DEF CutoverRow, RoutedRow
  <1>. QED
    BY <1>3, <1>4, RouteMoves DEF Cutover

\* The route control and the cutover do not get into each other's way: whatever the two have
\* changed, the sequence of the next event of a route is free.
THEOREM RouteChangesAreTold ==
  ASSUME RowIsNoNull
  PROVE  RoutesSpec => []RouteChangeRecordable
  <1>1. InitRoutes => RoutesTold
    BY DEF InitRoutes, RoutesTold
  <1>2. ASSUME RoutesTold, [NextRouted]_<<connVars, routeVars>> PROVE RoutesTold'
    <2>1. CASE UNCHANGED <<route, routeTold>>
      BY <1>2, <2>1 DEF RoutesTold
    <2>2. ASSUME NEW c \in Integration, NEW kind \in {"read", "mutation"}, NEW r \in CapabilityRoute,
                 Cutover(c, kind, r)
          PROVE  RoutesTold'
      BY <1>2, <2>2, CutoverKeeps
    <2>3. ASSUME NEW r \in CapabilityRoute, SetEmailRoute(r) \/ SetCalendarRoute(r) \/ SetStorageRoute(r)
          PROVE  RoutesTold'
      BY <1>2, <2>3, SetRouteKeeps DEF SetEmailRoute, SetCalendarRoute, SetStorageRoute
    <2>. QED
      BY <1>2, <2>1, <2>2, <2>3 DEF NextRouted, NextRoutes, Backfill, StartShadowRead,
           RecordComparison, FailRead, routeVars
  <1>3. RoutesTold => RouteChangeRecordable
    BY DEF RoutesTold, RoutedRow, RouteChangeRecordable
  <1>. QED
    BY <1>1, <1>2, <1>3, PTL DEF RoutesSpec
=============================================================================
