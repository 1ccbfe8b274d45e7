--------------------------- MODULE ServicesProofs ---------------------------
(***************************************************************************)
(* Proofs about services that stand alone: the closure of a workspace,     *)
(* provider mirrors, sessions with their recovery, job schedules and the   *)
(* fair dispatcher; for any rows, keys, users and concurrent transactions, *)
(* and for any calendar that CalendarAssumption admits.                    *)
(*                                                                         *)
(* Mirrors, closures and schedules are one step a call.  A request of a    *)
(* session is several, and row locks carry the argument: what a request    *)
(* has locked is as it found it, for every other step that writes waits    *)
(* for the lock (RequestOK); a recovery holds or still waits for every row *)
(* that its statements saw.                                                *)
(***************************************************************************)
EXTENDS IdentityLifecycle, ProviderMirrors, WorkspaceClosure, Schedules, FairClaims,
        NaturalsInduction, WellFoundedInduction, FiniteSetTheorems, TLAPS

-----------------------------------------------------------------------------
(* The closure of a workspace *)

\* What a closure leaves behind for good: the freeze lets no hold in any more, so a
\* later closure of the workspace never takes the branch that would reopen it.
ClosureInv ==
  /\ closure \in [Key -> {Absent, "retention_blocked", "closed"}]
  /\ (\E k \in Key : closure[k] = "closed") => workspace = "closed" /\ ~held

\* Absent is no state of a closure.
AbsentIsNoState == Absent \notin {"retention_blocked", "closed"}

LEMMA ClosureStarts == ASSUME AbsentIsNoState, InitClosure PROVE ClosureInv
  BY DEF InitClosure, ClosureInv, AbsentIsNoState

\* A close under a hold means that no closure was completed.
LEMMA BlockKeeps ==
  ASSUME ClosureInv, NEW x \in ClosureTxn, Block(x)
  PROVE  ClosureInv'
<1>1. \A k \in Key : closure[k] # "closed"
  BY DEF Block, ClosureInv
<1>2. closure' \in [Key -> {Absent, "retention_blocked", "closed"}]
  BY DEF Block, ClosureInv
<1>3. \A k \in Key : closure'[k] \in {closure[k], "retention_blocked"}
  BY DEF Block, ClosureInv
<1> QED
  BY <1>1, <1>2, <1>3 DEF ClosureInv

LEMMA CloseKeeps ==
  ASSUME ClosureInv, NEW x \in ClosureTxn, Close(x)
  PROVE  ClosureInv'
  BY DEF Close, ClosureInv

LEMMA ClosureStep ==
  ASSUME ClosureInv, [NextClosure]_closureVars
  PROVE  ClosureInv'
<1>1. ASSUME NEW x \in ClosureTxn, NEW r \in Row, Insert(x, r)
      PROVE  ClosureInv'
  BY <1>1 DEF Insert, ClosureInv
<1>2. ASSUME NEW x \in ClosureTxn, Share(x) \/ Commit(x) \/ RollbackTxn(x)
      PROVE  ClosureInv'
  BY <1>2 DEF Share, Commit, RollbackTxn, ClosureInv
<1>3. ASSUME NEW x \in ClosureTxn, NEW k \in Key, StartClose(x, k)
      PROVE  ClosureInv'
  BY <1>3 DEF StartClose, ClosureInv
<1>4. ASSUME Hold \/ Release
      PROVE  ClosureInv'
  BY <1>4 DEF Hold, Release, Writable, ClosureInv
<1>5. ASSUME NEW k \in Key, CreateExport(k)
      PROVE  ClosureInv'
  BY <1>5 DEF CreateExport, ClosureInv
<1>6. ASSUME NEW b \in Backup, NEW digest \in Digest,
             RecordBackup(b, digest) \/ RecordRestore(b, digest) \/ RecordKeyRecovery(b, digest)
      PROVE  ClosureInv'
  BY <1>6 DEF RecordBackup, RecordRestore, RecordKeyRecovery, Recorded, ClosureInv
<1>7. ASSUME UNCHANGED closureVars
      PROVE  ClosureInv'
  BY <1>7 DEF closureVars, ClosureInv
<1> QED
  BY <1>1, <1>2, <1>3, <1>4, <1>5, <1>6, <1>7, BlockKeeps, CloseKeeps DEF NextClosure

\* A closed workspace stays closed (WorkspaceRecoveryService.close beside the freeze),
\* for any transactions, keys, rows and uses of envelopes.
THEOREM ClosedForGoodHolds == ASSUME AbsentIsNoState PROVE ClosureSpec => []ClosedForGood
<1>1. InitClosure => ClosureInv
  BY ClosureStarts
<1>2. ClosureInv /\ [NextClosure]_closureVars => ClosureInv'
  BY ClosureStep
<1>3. ClosureInv => ClosedForGood
  BY DEF ClosureInv, ClosedForGood
<1> QED
  BY <1>1, <1>2, <1>3, PTL DEF ClosureSpec

-----------------------------------------------------------------------------
(* Provider mirrors *)

\* Rows of a mirror, without the bound on their version.
MirrorOf == [version : Nat, provider : Version, hash : Hash, authority : AuthorityPolicy,
             state : {"synced", "conflict", "tombstoned"}]

\* NoMirror is neither a mirror nor the status of a conflict.
NoMirrorIsApart == NoMirror \notin MirrorOf \cup {"open", "resolved"}

MirrorInv ==
  /\ mirror \in MirrorOf \cup {NoMirror}
  /\ conflict \in [1..MaxConflicts -> {NoMirror, "open", "resolved"}]
  /\ mirror = NoMirror => \A n \in 1..MaxConflicts : conflict[n] = NoMirror
  /\ ConflictOnRecord

\* What a call writes into a row.
LEMMA MirrorWrites ==
  ASSUME mirror \in MirrorOf
  PROVE  /\ \A o \in Observation : Applied(o) \in MirrorOf /\ Applied(o).state # "conflict"
         /\ InConflict \in MirrorOf
         /\ LET linked == [mirror EXCEPT !.version = @ + 1]
            IN  linked \in MirrorOf /\ linked.state = mirror.state
         /\ \A hash \in Hash :
              LET resolved == [mirror EXCEPT !.hash = hash, !.authority = "user_resolved",
                                             !.state = "synced", !.version = @ + 1]
              IN  resolved \in MirrorOf /\ resolved.state # "conflict"
<1>1. mirror.version + 1 \in Nat
  BY DEF MirrorOf
<1>2. DOMAIN mirror = {"version", "provider", "hash", "authority", "state"}
  BY DEF MirrorOf
<1>3. "user_resolved" \in AuthorityPolicy
  BY DEF AuthorityPolicy
<1>4. ASSUME NEW o \in Observation
      PROVE  Applied(o) \in MirrorOf /\ Applied(o).state # "conflict"
  BY <1>1, <1>2 DEF Applied, MirrorOf, Observation
<1>5. InConflict \in MirrorOf
  BY <1>1, <1>2 DEF InConflict, MirrorOf
<1>6. LET linked == [mirror EXCEPT !.version = @ + 1]
      IN  linked \in MirrorOf /\ linked.state = mirror.state
  BY <1>1, <1>2 DEF MirrorOf
<1>7. ASSUME NEW hash \in Hash
      PROVE  LET resolved == [mirror EXCEPT !.hash = hash, !.authority = "user_resolved",
                                            !.state = "synced", !.version = @ + 1]
             IN  resolved \in MirrorOf /\ resolved.state # "conflict"
  BY <1>1, <1>2, <1>3 DEF MirrorOf
<1> QED BY <1>4, <1>5, <1>6, <1>7

\* Whoever asks for a conflict finds or opens one.
LEMMA EnsureConflictOpens ==
  ASSUME conflict \in [1..MaxConflicts -> {NoMirror, "open", "resolved"}], EnsureConflict
  PROVE  conflict' \in [1..MaxConflicts -> {NoMirror, "open", "resolved"}] /\ OpenConflict'
<1>1. CASE KnownConflict
  BY <1>1 DEF EnsureConflict, KnownConflict, OpenConflict
<1>2. CASE ~KnownConflict
  BY <1>2 DEF EnsureConflict, KnownConflict, OpenConflict
<1> QED BY <1>1, <1>2

\* A row is saved that is not in conflict, beside any conflicts.
LEMMA SavedInPeace ==
  ASSUME NoMirrorIsApart, NEW m \in MirrorOf, m.state # "conflict", SaveMirror(m),
         conflict' \in [1..MaxConflicts -> {NoMirror, "open", "resolved"}]
  PROVE  MirrorInv'
  BY DEF SaveMirror, MirrorInv, ConflictOnRecord, NoMirrorIsApart

LEMMA MirrorStep ==
  ASSUME NoMirrorIsApart, MirrorInv, [NextMirror]_mirrorVars
  PROVE  MirrorInv'
<1>0. /\ conflict \in [1..MaxConflicts -> {NoMirror, "open", "resolved"}]
      /\ mirror # NoMirror => mirror \in MirrorOf
  BY DEF MirrorInv
<1>1. ASSUME NEW o \in Observation, NEW authority \in AuthorityPolicy, ObserveNew(o, authority)
      PROVE  MirrorInv'
  <2> DEFINE m == [version |-> 1, provider |-> o.provider, hash |-> o.hash, authority |-> authority,
                     state |-> IF o.deleted THEN "tombstoned" ELSE "synced"]
  <2>1. m \in MirrorOf /\ m.state # "conflict"
    BY DEF MirrorOf, Observation
  <2>2. SaveMirror(m) /\ conflict' = conflict
    BY <1>1 DEF ObserveNew
  <2> QED
    BY <1>0, <2>1, <2>2, SavedInPeace
<1>2. ASSUME NEW o \in Observation, Observe(o)
      PROVE  MirrorInv'
  <2>1. mirror \in MirrorOf
    BY <1>0, <1>2 DEF Observe
  <2>2. CASE SaveMirror(Applied(o)) /\ UNCHANGED conflict
    BY <1>0, <2>1, <2>2, MirrorWrites, SavedInPeace
  <2>3. CASE SaveMirror(InConflict) /\ EnsureConflict
    BY <1>0, <2>1, <2>3, MirrorWrites, EnsureConflictOpens
       DEF SaveMirror, MirrorInv, ConflictOnRecord, NoMirrorIsApart
  <2> QED
    BY <1>2, <2>2, <2>3 DEF Observe
<1>3. ASSUME NEW expected \in Version, DecideOutbound(expected)
      PROVE  MirrorInv'
  <2>1. mirror \in MirrorOf
    BY <1>0, <1>3 DEF DecideOutbound
  <2>2. CASE OutboundDecision(expected) = "refresh_required"
    BY <1>0, <1>3, <2>1, <2>2, MirrorWrites, EnsureConflictOpens
       DEF DecideOutbound, SaveMirror, MirrorInv, ConflictOnRecord, NoMirrorIsApart
  <2>3. CASE OutboundDecision(expected) # "refresh_required"
    BY <1>3, <2>3 DEF DecideOutbound, SaveMirror, MirrorInv, ConflictOnRecord, OpenConflict
  <2> QED
    BY <2>2, <2>3
<1>4. ASSUME NEW r \in Reference, LinkCanonical(r)
      PROVE  MirrorInv'
  <2>1. mirror \in MirrorOf
    BY <1>0, <1>4 DEF LinkCanonical
  <2>2. mirror' \in MirrorOf /\ mirror'.state = mirror.state
    BY <1>4, <2>1, MirrorWrites DEF LinkCanonical, SaveMirror
  <2> QED
    BY <1>0, <1>4, <2>1, <2>2 DEF LinkCanonical, MirrorInv, ConflictOnRecord, OpenConflict, NoMirrorIsApart
<1>5. ASSUME NEW n \in DOMAIN conflict, NEW hash \in Hash, ResolveConflict(n, hash)
      PROVE  MirrorInv'
  <2>1. mirror \in MirrorOf
    BY <1>0, <1>5 DEF ResolveConflict, MirrorInv, NoMirrorIsApart
  <2>2. conflict' \in [1..MaxConflicts -> {NoMirror, "open", "resolved"}]
    BY <1>0, <1>5 DEF ResolveConflict
  <2> QED
    BY <1>5, <2>1, <2>2, MirrorWrites, SavedInPeace DEF ResolveConflict
<1>6. ASSUME UNCHANGED mirrorVars
      PROVE  MirrorInv'
  BY <1>6 DEF mirrorVars, MirrorInv, ConflictOnRecord, OpenConflict
<1> QED
  BY <1>1, <1>2, <1>3, <1>4, <1>5, <1>6 DEF NextMirror

\* A mirror in conflict has a conflict that can be resolved (_ensure_conflict and
\* resolve_conflict), for any observations, hashes, references and number of conflicts.
THEOREM ConflictOnRecordHolds == ASSUME NoMirrorIsApart PROVE MirrorSpec => []ConflictOnRecord
<1>1. InitMirror => MirrorInv
  BY DEF InitMirror, MirrorInv, ConflictOnRecord
<1>2. MirrorInv /\ [NextMirror]_mirrorVars => MirrorInv'
  BY MirrorStep
<1>3. MirrorInv => ConflictOnRecord
  BY DEF MirrorInv
<1> QED
  BY <1>1, <1>2, <1>3, PTL DEF MirrorSpec

-----------------------------------------------------------------------------
(* Sessions and recovery *)

LinkRow == [status : {"absent", "active", "review_pending"}, version : Nat]

RequestRow ==
  [op : {"use", "act", "recover", "bootstrap", "review"},
   row : Session \cup Token \cup User,
   held : SUBSET (Session \cup Token \cup User), todo : SUBSET (Session \cup Token),
   sees : SUBSET Session, seen : {NoRow} \cup LinkRow \cup SUBSET Token]

\* Sessions, tokens and users are rows of different tables, and NoRow is none of them.
TablesApart ==
  /\ Session \cap Token = {} /\ Session \cap User = {} /\ Token \cap User = {}
  /\ NoRow \notin SessionRow \cup TokenRow \cup RequestRow \cup LinkRow \cup SUBSET Token

\* What a request under way relies on: the rows it has locked are there and as it left
\* them, and a recovery has the rows its statements saw or still waits for them.
RequestOK(q, ss, tt) ==
  /\ q.op \in {"use", "act"} =>
       /\ q.row \in Session /\ q.held = {q.row}
       /\ ss[q.row] # NoRow /\ ~ss[q.row].revoked
  /\ q.op = "review" =>
       /\ q.row \in Session /\ ss[q.row] # NoRow
       /\ q.held = {} /\ q.seen \in LinkRow
  /\ q.op = "bootstrap" => q.row \in User /\ q.held = {q.row}
  /\ q.op = "recover" =>
       /\ q.row \in Token /\ q.row \in q.held /\ ~tt[q.row].consumed /\ ~tt[q.row].closed
       /\ \A s \in (q.held \cup q.todo) \cap Session : ss[s] # NoRow
       /\ \A t \in (q.held \cup q.todo) \cap Token : tt[t] # NoRow
       /\ \A u \in q.held : u \notin User
       /\ q.seen = NoRow => q.sees \subseteq q.held \cup q.todo
       /\ q.seen # NoRow =>
            /\ q.seen \in SUBSET Token
            /\ q.sees \subseteq q.held
            /\ q.seen \subseteq q.held \cup q.todo

RequestsOK ==
  /\ request \in [Request -> RequestRow \cup {NoRow}]
  /\ \A x \in Request : request[x] # NoRow => RequestOK(request[x], session, token)
  /\ \A x, y \in Request : x # y => Held(x) \cap Held(y) = {}

\* Only revoked sessions have an heir, and each has one.
HeirsOK ==
  \A r, s \in Session :
    session[r] # NoRow /\ session[r].from # NoRow =>
      /\ session[r].from \in Session /\ session[session[r].from] # NoRow
      /\ session[session[r].from].revoked
      /\ r # s /\ session[s] # NoRow /\ session[s].from # NoRow => session[r].from # session[s].from

\* A consumed token ended the sessions it saw; the tokens it knew of are of no use.
RecoveriesOK ==
  \A t \in Token : token[t] # NoRow =>
    /\ \A s \in token[t].ends : session[s] # NoRow /\ session[s].revoked
    /\ token[t].consumed => \A o \in token[t].known \ {t} :
         /\ token[o] # NoRow /\ (token[o].consumed \/ token[o].closed)
         /\ token[o].consumed => t \notin token[o].known

IdentityInv == IdentityTypeOK /\ RequestsOK /\ HeirsOK /\ RecoveriesOK

LEMMA IdentityStarts == ASSUME TablesApart, InitIdentity PROVE IdentityInv
<1>1. IdentityTypeOK
  BY DEF InitIdentity, IdentityTypeOK, NoLink
<1>2. RequestsOK
  BY DEF InitIdentity, RequestsOK, Held
<1> QED
  BY <1>1, <1>2 DEF InitIdentity, IdentityInv, HeirsOK, RecoveriesOK

-----------------------------------------------------------------------------
\* A request is not disturbed by what happens to rows that it has not locked.
LEMMA RequestStays ==
  ASSUME NEW q \in RequestRow, NEW ss, NEW tt, NEW ss2, NEW tt2, RequestOK(q, ss, tt),
         \A s \in Session : ss[s] # NoRow => ss2[s] # NoRow,
         \A s \in q.held \cap Session : ss2[s].revoked = ss[s].revoked,
         \A t \in Token : tt[t] # NoRow => tt2[t] # NoRow,
         \A t \in q.held \cap Token : tt2[t] = tt[t]
  PROVE  RequestOK(q, ss2, tt2)
<1>1. q.op \in {"use", "act"} => RequestOK(q, ss2, tt2)
  BY DEF RequestOK
<1>2. q.op = "recover" => RequestOK(q, ss2, tt2)
  BY DEF RequestOK
<1>3. q.op \in {"bootstrap", "review"} => RequestOK(q, ss2, tt2)
  BY DEF RequestOK
<1> QED
  BY <1>1, <1>2, <1>3 DEF RequestRow

\* One request moves on, to a record that is in order; the others stay.
LEMMA RequestMoves ==
  ASSUME RequestsOK, NEW x \in Request, NEW q \in RequestRow \cup {NoRow},
         request' = [request EXCEPT ![x] = q],
         q # NoRow => RequestOK(q, session', token'),
         q # NoRow => \A y \in Request \ {x} : q.held \cap Held(y) = {},
         \A y \in Request \ {x} : request[y] # NoRow => RequestOK(request[y], session', token')
  PROVE  RequestsOK'
<1>1. request' \in [Request -> RequestRow \cup {NoRow}]
  BY DEF RequestsOK
<1>2. request'[x] = q /\ \A y \in Request \ {x} : request'[y] = request[y]
  BY DEF RequestsOK
<1>3. \A y \in Request : request'[y] # NoRow => RequestOK(request'[y], session', token')
  BY <1>2
<1>4. \A y \in Request \ {x} : Held(y)' = Held(y)
  BY <1>2 DEF Held
<1>5. Held(x)' = IF q = NoRow THEN {} ELSE q.held
  BY <1>2 DEF Held
<1>6. \A y, z \in Request : y # z => Held(y)' \cap Held(z)' = {}
  BY <1>4, <1>5 DEF RequestsOK
<1> QED
  BY <1>1, <1>3, <1>6 DEF RequestsOK

\* Nothing but a request changes.
LEMMA RequestMovesAlone ==
  ASSUME IdentityInv, UNCHANGED <<user, link, session, token>>,
         NEW x \in Request, NEW q \in RequestRow \cup {NoRow},
         request' = [request EXCEPT ![x] = q],
         q # NoRow => RequestOK(q, session, token),
         q # NoRow => \A y \in Request \ {x} : q.held \cap Held(y) = {}
  PROVE  IdentityInv'
<1>1. RequestsOK'
  BY RequestMoves DEF IdentityInv, RequestsOK
<1>2. IdentityTypeOK' /\ HeirsOK' /\ RecoveriesOK'
  BY DEF IdentityInv, IdentityTypeOK, HeirsOK, RecoveriesOK
<1> QED
  BY <1>1, <1>2 DEF IdentityInv

\* A request ends without a change.
LEMMA RequestEnds ==
  ASSUME IdentityInv, UNCHANGED <<user, link, session, token>>,
         NEW x \in Request, request' = RequestEnded(x)
  PROVE  IdentityInv'
  BY RequestMovesAlone DEF RequestEnded

\* A row that is free is held by nobody.
LEMMA FreeRow ==
  ASSUME NEW lock, Free(lock)
  PROVE  \A y \in Request : {lock} \cap Held(y) = {}
  BY DEF Free

\* What one request has locked, no other has.
LEMMA LocksExclude ==
  ASSUME TablesApart, RequestsOK, NEW x \in Request, request[x] \in RequestRow
  PROVE  \A y \in Request \ {x} : request[x].held \cap Held(y) = {}
<1>1. Held(x) = request[x].held
  BY DEF Held, TablesApart
<1> QED
  BY <1>1 DEF RequestsOK

-----------------------------------------------------------------------------
\* The steps that only move a request.
LEMMA AuthenticateKeeps ==
  ASSUME TablesApart, IdentityInv, NEW x \in Request, NEW s \in Session, Authenticate(x, s)
  PROVE  IdentityInv'
<1> DEFINE q == Started("use", s)
<1>1. q \in RequestRow
  BY DEF Started, RequestRow
<1>2. RequestOK(q, session, token)
  BY DEF Authenticate, Live, Started, RequestOK
<1>3. \A y \in Request : q.held \cap Held(y) = {}
  BY FreeRow DEF Authenticate, Started
<1> QED
  BY <1>1, <1>2, <1>3, RequestMovesAlone DEF Authenticate

LEMMA AuthorizeKeeps ==
  ASSUME TablesApart, IdentityInv, NEW x \in Request, Authorize(x)
  PROVE  IdentityInv'
<1> DEFINE q == [request[x] EXCEPT !.op = "act"]
<1>1. request[x] \in RequestRow /\ request[x].op = "use" /\ RequestOK(request[x], session, token)
  BY DEF Authorize, Serves, IdentityInv, RequestsOK
<1>2. q \in RequestRow /\ q.op = "act" /\ q.row = request[x].row /\ q.held = request[x].held
  BY <1>1 DEF RequestRow
<1>3. RequestOK(q, session, token)
  BY <1>1, <1>2 DEF RequestOK
<1>4. \A y \in Request \ {x} : q.held \cap Held(y) = {}
  BY <1>1, <1>2, LocksExclude DEF IdentityInv
<1>5. request' = [request EXCEPT ![x] = q]
  BY DEF Authorize, IdentityInv, RequestsOK
<1> HIDE DEF q
<1> QED
  BY <1>2, <1>3, <1>4, <1>5, RequestMovesAlone DEF Authorize

LEMMA ReviewLinkKeeps ==
  ASSUME TablesApart, IdentityInv, NEW x \in Request, NEW s \in Session, ReviewLink(x, s)
  PROVE  IdentityInv'
<1> DEFINE q == [Started("review", s) EXCEPT !.held = {}, !.seen = link[session[s].user]]
<1>1. session[s] # NoRow /\ session[s].user \in User
  BY DEF ReviewLink, Live, IdentityInv, IdentityTypeOK, SessionRow
<1>2. link[session[s].user] \in LinkRow
  BY <1>1 DEF IdentityInv, IdentityTypeOK, LinkRow
<1>3. q \in RequestRow /\ q.op = "review" /\ q.row = s /\ q.held = {} /\ q.seen \in LinkRow
  BY <1>2 DEF Started, RequestRow
<1>4. RequestOK(q, session, token)
  BY <1>1, <1>3 DEF RequestOK
<1>5. request' = [request EXCEPT ![x] = q]
  BY DEF ReviewLink
<1>6. \A y \in Request : q.held \cap Held(y) = {}
  BY <1>3
<1>7. UNCHANGED <<user, link, session, token>>
  BY DEF ReviewLink
<1> HIDE DEF q
<1> QED
  BY <1>3, <1>4, <1>5, <1>6, <1>7, RequestMovesAlone

LEMMA BootstrapKeeps ==
  ASSUME TablesApart, IdentityInv, NEW x \in Request, NEW u \in User, Bootstrap(x, u)
  PROVE  IdentityInv'
<1> DEFINE q == Started("bootstrap", u)
<1>1. q \in RequestRow
  BY DEF Started, RequestRow
<1>2. RequestOK(q, session, token)
  BY DEF Started, RequestOK
<1>3. \A y \in Request : q.held \cap Held(y) = {}
  BY FreeRow DEF Bootstrap, Started
<1> QED
  BY <1>1, <1>2, <1>3, RequestMovesAlone DEF Bootstrap

LEMMA RecoverSessionsKeeps ==
  ASSUME TablesApart, IdentityInv, NEW x \in Request, NEW t \in Token, RecoverSessions(x, t)
  PROVE  IdentityInv'
<1> DEFINE S == SessionsOf(token[t].user)
           q == [Started("recover", t) EXCEPT !.todo = S, !.sees = S]
<1>1. S \subseteq Session /\ \A s \in S : session[s] # NoRow
  BY DEF SessionsOf
<1>2. q \in RequestRow /\ q.op = "recover" /\ q.row = t /\ q.held = {t} /\ q.todo = S /\ q.sees = S
      /\ q.seen = NoRow
  BY <1>1 DEF Started, RequestRow
<1>3. token[t] # NoRow /\ ~token[t].consumed /\ ~token[t].closed /\ Free(t)
  BY DEF RecoverSessions, UsableToken
<1>4. RequestOK(q, session, token)
  BY <1>1, <1>2, <1>3 DEF RequestOK, TablesApart
<1>5. \A y \in Request : q.held \cap Held(y) = {}
  BY <1>2, <1>3, FreeRow
<1>6. request' = [request EXCEPT ![x] = q]
  BY DEF RecoverSessions
<1> HIDE DEF q
<1>7. UNCHANGED <<user, link, session, token>>
  BY DEF RecoverSessions
<1> QED
  BY <1>2, <1>4, <1>5, <1>6, <1>7, RequestMovesAlone

LEMMA TakeKeeps ==
  ASSUME TablesApart, IdentityInv, NEW x \in Request, NEW lock \in Session \cup Token, Take(x, lock)
  PROVE  IdentityInv'
<1> DEFINE r == request[x]
           q == [r EXCEPT !.todo = @ \ {lock}, !.held = @ \cup {lock}]
<1>1. r \in RequestRow /\ r.op = "recover" /\ lock \in r.todo /\ Free(lock) /\ RequestOK(r, session, token)
  BY DEF Take, Wants, Serves, IdentityInv, RequestsOK
<1>2. q \in RequestRow /\ q.op = "recover" /\ q.row = r.row /\ q.held = r.held \cup {lock}
      /\ q.todo = r.todo \ {lock} /\ q.sees = r.sees /\ q.seen = r.seen
  BY <1>1 DEF RequestRow
<1>3. RequestOK(q, session, token)
  BY <1>1, <1>2 DEF RequestOK, TablesApart
<1>4. \A y \in Request \ {x} : q.held \cap Held(y) = {}
  <2>1. \A y \in Request \ {x} : r.held \cap Held(y) = {}
    BY <1>1, LocksExclude DEF IdentityInv
  <2>2. \A y \in Request : {lock} \cap Held(y) = {}
    BY <1>1, FreeRow
  <2> QED
    BY <1>2, <2>1, <2>2
<1>5. request' = [request EXCEPT ![x] = q]
  BY DEF Take, IdentityInv, RequestsOK
<1> HIDE DEF q
<1> QED
  BY <1>2, <1>3, <1>4, <1>5, RequestMovesAlone DEF Take

LEMMA RecoverTokensKeeps ==
  ASSUME TablesApart, IdentityInv, NEW x \in Request, RecoverTokens(x)
  PROVE  IdentityInv'
<1> DEFINE r == request[x]
           T == TokensOf(token[r.row].user)
           q == [r EXCEPT !.seen = T, !.todo = T \ {r.row}]
<1>1. r \in RequestRow /\ r.op = "recover" /\ r.todo = {} /\ r.seen = NoRow /\ RequestOK(r, session, token)
  BY DEF RecoverTokens, Wants, Serves, IdentityInv, RequestsOK
<1>2. T \subseteq Token /\ \A t \in T : token[t] # NoRow
  BY DEF TokensOf, UsableToken
<1>3. q \in RequestRow /\ q.op = "recover" /\ q.row = r.row /\ q.held = r.held
      /\ q.todo = T \ {r.row} /\ q.sees = r.sees /\ q.seen = T
  BY <1>1, <1>2 DEF RequestRow
<1>4. RequestOK(q, session, token)
  BY <1>1, <1>2, <1>3 DEF RequestOK, TablesApart
<1>5. \A y \in Request \ {x} : q.held \cap Held(y) = {}
  BY <1>1, <1>3, LocksExclude DEF IdentityInv
<1>6. request' = [request EXCEPT ![x] = q]
  BY DEF RecoverTokens, IdentityInv, RequestsOK
<1> HIDE DEF q
<1> QED
  BY <1>3, <1>4, <1>5, <1>6, RequestMovesAlone DEF RecoverTokens

-----------------------------------------------------------------------------
\* The steps that write sessions, tokens, links and users.

\* What a request has locked is there.
LEMMA HeldRowsAreThere ==
  ASSUME TablesApart, NEW q \in RequestRow, NEW ss, NEW tt, RequestOK(q, ss, tt)
  PROVE  /\ \A s \in q.held \cap Session : ss[s] # NoRow
         /\ \A t \in q.held \cap Token : tt[t] # NoRow
<1>1. CASE q.op \in {"use", "act", "review"}
  BY <1>1 DEF RequestOK, TablesApart
<1>2. CASE q.op = "bootstrap"
  BY <1>2 DEF RequestOK, TablesApart
<1>3. CASE q.op = "recover"
  BY <1>3 DEF RequestOK
<1> QED
  BY <1>1, <1>2, <1>3 DEF RequestRow

\* Sessions are only revoked or come anew, tokens only wear out or come anew; rows that
\* a request has locked stay as they are for all but the one that writes.
LEMMA TablesKeep ==
  ASSUME TablesApart, IdentityInv, NEW others \in SUBSET Request,
         \A s \in Session : session[s] # NoRow => session'[s] # NoRow,
         \A s \in Session : session[s] # NoRow /\ session'[s].revoked # session[s].revoked =>
           \A y \in others : s \notin Held(y),
         \A t \in Token : token[t] # NoRow => token'[t] # NoRow,
         \A t \in Token : token[t] # NoRow /\ token'[t] # token[t] => \A y \in others : t \notin Held(y)
  PROVE  \A y \in others : request[y] # NoRow => RequestOK(request[y], session', token')
<1> SUFFICES ASSUME NEW y \in others, request[y] # NoRow
             PROVE  RequestOK(request[y], session', token')
  OBVIOUS
<1>1. request[y] \in RequestRow /\ RequestOK(request[y], session, token)
  BY DEF IdentityInv, RequestsOK
<1>2. request[y].held = Held(y)
  BY DEF Held
<1>3. /\ \A s \in request[y].held \cap Session : session[s] # NoRow
      /\ \A t \in request[y].held \cap Token : token[t] # NoRow
  BY <1>1, HeldRowsAreThere
<1>4. \A t \in request[y].held \cap Token : token[t] # NoRow
  BY <1>3
<1>5. \A s \in request[y].held \cap Session : session'[s].revoked = session[s].revoked
  BY <1>2, <1>3
<1>6. \A t \in request[y].held \cap Token : token'[t] = token[t]
  BY <1>2, <1>4
<1> QED
  BY <1>1, <1>5, <1>6, RequestStays

\* A session that comes anew, from none or from one that is revoked with it and was no
\* session's origin; and sessions that are revoked.
LEMMA HeirsKeep ==
  ASSUME TablesApart, IdentityTypeOK, HeirsOK, NEW new \in Session, NEW old \in Session \cup {NoRow},
         session[new] = NoRow,
         session'[new] # NoRow, session'[new].from = old,
         old # NoRow => session[old] # NoRow /\ ~session[old].revoked /\ session'[old].revoked,
         \A s \in Session \ {new} :
           /\ (session[s] = NoRow) <=> (session'[s] = NoRow)
           /\ session[s] # NoRow => /\ session'[s].from = session[s].from
                                    /\ session[s].revoked => session'[s].revoked
  PROVE  HeirsOK'
<1>1. \A s \in Session : session[s] # NoRow /\ session[s].from # NoRow =>
        /\ session[s].from \in Session /\ session[session[s].from] # NoRow /\ session[session[s].from].revoked
        /\ session[s].from # old /\ session[s].from # new
  BY DEF HeirsOK
<1>2. \A s \in Session : session[s] # NoRow =>
        s # new /\ session'[s] # NoRow /\ session'[s].from = session[s].from
                /\ (session[s].revoked => session'[s].revoked)
  OBVIOUS
<1>3. \A s \in Session \ {new} : session'[s] # NoRow => session[s] # NoRow
  OBVIOUS
<1> SUFFICES ASSUME NEW r \in Session, NEW s \in Session, session'[r] # NoRow, session'[r].from # NoRow
             PROVE  /\ session'[r].from \in Session /\ session'[session'[r].from] # NoRow
                    /\ session'[session'[r].from].revoked
                    /\ r # s /\ session'[s] # NoRow /\ session'[s].from # NoRow
                         => session'[r].from # session'[s].from
  BY DEF HeirsOK
<1>4. CASE r = new
  BY <1>1, <1>2, <1>3, <1>4
<1>5. CASE r # new
  <2>1. session[r] # NoRow /\ session'[r].from = session[r].from
    BY <1>2, <1>3, <1>5
  <2>2. session'[r].from \in Session /\ session'[session'[r].from] # NoRow /\ session'[session'[r].from].revoked
    BY <1>1, <1>2, <2>1
  <2>3. CASE s = new
    BY <1>1, <2>1, <2>2, <2>3
  <2>4. CASE s # new
    <3>1. session'[s] # NoRow => session[s] # NoRow /\ session'[s].from = session[s].from
      BY <1>2, <1>3, <2>4
    <3> QED
      BY <2>1, <2>2, <3>1 DEF HeirsOK
  <2> QED
    BY <2>3, <2>4
<1> QED
  BY <1>4, <1>5

\* Sessions are revoked, and that is all.
LEMMA HeirsKeepRevoked ==
  ASSUME HeirsOK,
         \A s \in Session :
           /\ (session[s] = NoRow) <=> (session'[s] = NoRow)
           /\ session[s] # NoRow => /\ session'[s].from = session[s].from
                                    /\ session[s].revoked => session'[s].revoked
  PROVE  HeirsOK'
  BY DEF HeirsOK

\* What recoveries ended stays ended.
LEMMA RecoveriesKeep ==
  ASSUME IdentityTypeOK, RecoveriesOK, UNCHANGED token,
         \A s \in Session : session[s] # NoRow =>
           session'[s] # NoRow /\ (session[s].revoked => session'[s].revoked)
  PROVE  RecoveriesOK'
  BY DEF RecoveriesOK, IdentityTypeOK, TokenRow

LEMMA InsertedKeeps ==
  ASSUME TablesApart, IdentityInv, NEW s \in Session, NEW u \in User, NEW strength \in {"oidc", "mfa"},
         Inserted(s, u, strength)
  PROVE  IdentityInv'
<1> DEFINE n == Issued(u, strength, NoRow)
<1>0. n \in SessionRow
  BY DEF Issued, SessionRow
<1>1. n # NoRow /\ n.from = NoRow
  BY <1>0 DEF Issued, TablesApart
<1>2. session[s] = NoRow /\ session' = [session EXCEPT ![s] = n] /\ UNCHANGED <<user, link, token, request>>
  BY DEF Inserted
<1> HIDE DEF n
<1>3. session'[s] = n /\ \A o \in Session \ {s} : session'[o] = session[o]
  BY <1>2 DEF IdentityInv, IdentityTypeOK
<1>4. IdentityTypeOK'
  BY <1>0, <1>2 DEF IdentityInv, IdentityTypeOK
<1>5. HeirsOK'
  BY <1>1, <1>2, <1>3, HeirsKeep DEF IdentityInv
<1>6. RecoveriesOK'
  BY <1>1, <1>2, <1>3, RecoveriesKeep DEF IdentityInv
<1>7. \A y \in Request : request[y] # NoRow => RequestOK(request[y], session', token')
  BY <1>1, <1>2, <1>3, TablesKeep
<1>8. RequestsOK'
  BY <1>2, <1>7 DEF RequestsOK, IdentityInv, Held
<1> QED
  BY <1>4, <1>5, <1>6, <1>8 DEF IdentityInv

\* The one that holds a session's row writes it and ends.
LEMMA RotateSessionKeeps ==
  ASSUME TablesApart, IdentityInv, NEW x \in Request, NEW new \in Session, RotateSession(x, new)
  PROVE  IdentityInv'
<1> DEFINE old == request[x].row
           n   == Issued(session[old].user, session[old].strength, old)
<1>1. request[x] \in RequestRow /\ request[x].op = "use" /\ RequestOK(request[x], session, token)
  BY DEF RotateSession, Serves, IdentityInv, RequestsOK
<1>2. old \in Session /\ request[x].held = {old} /\ session[old] # NoRow /\ ~session[old].revoked
  BY <1>1 DEF RequestOK
<1>3. session[old] \in SessionRow
  BY <1>2 DEF IdentityInv, IdentityTypeOK
<1>4. n \in SessionRow
  BY <1>2, <1>3 DEF Issued, SessionRow
<1>5. n # NoRow /\ n.from = old
  BY <1>4 DEF Issued, TablesApart
<1>6. /\ session[new] = NoRow
      /\ session' = [[session EXCEPT ![old].revoked = TRUE] EXCEPT ![new] = n]
      /\ request' = [request EXCEPT ![x] = NoRow]
      /\ UNCHANGED <<user, link, token>>
  BY DEF RotateSession, RequestEnded
<1> HIDE DEF n, old
<1>7. [session[old] EXCEPT !.revoked = TRUE] \in SessionRow
      /\ [session[old] EXCEPT !.revoked = TRUE].revoked
      /\ [session[old] EXCEPT !.revoked = TRUE].from = session[old].from
  BY <1>3 DEF SessionRow
<1>8. /\ session'[new] = n
      /\ session'[old] = [session[old] EXCEPT !.revoked = TRUE]
      /\ old # new
      /\ \A o \in Session \ {old, new} : session'[o] = session[o]
  BY <1>2, <1>6 DEF IdentityInv, IdentityTypeOK
<1>9. session' \in [Session -> SessionRow \cup {NoRow}]
  BY <1>2, <1>4, <1>6, <1>7 DEF IdentityInv, IdentityTypeOK
<1>10. IdentityTypeOK'
  BY <1>6, <1>9 DEF IdentityInv, IdentityTypeOK
<1>11. session'[old] # NoRow /\ session'[old].revoked /\ session'[old].from = session[old].from
  BY <1>7, <1>8 DEF TablesApart
<1>12. HeirsOK'
  <2>1. IdentityTypeOK /\ HeirsOK
    BY DEF IdentityInv
  <2>2. session'[new] # NoRow /\ session'[new].from = old
    BY <1>5, <1>8
  <2>3. old # NoRow => session[old] # NoRow /\ ~session[old].revoked /\ session'[old].revoked
    BY <1>2, <1>11
  <2>4. \A s \in Session \ {new} :
          /\ (session[s] = NoRow) <=> (session'[s] = NoRow)
          /\ session[s] # NoRow => /\ session'[s].from = session[s].from
                                   /\ session[s].revoked => session'[s].revoked
    BY <1>2, <1>8, <1>11
  <2> QED
    BY <1>2, <1>6, <2>1, <2>2, <2>3, <2>4, HeirsKeep
<1>13. RecoveriesOK'
  BY <1>6, <1>8, <1>11, RecoveriesKeep DEF IdentityInv
<1>14. \A y \in Request \ {x} : old \notin Held(y)
  BY <1>1, <1>2, LocksExclude DEF IdentityInv
<1>15. \A y \in Request \ {x} : request[y] # NoRow => RequestOK(request[y], session', token')
  BY <1>6, <1>8, <1>11, <1>14, TablesKeep
<1>16. RequestsOK'
  BY <1>6, <1>15, RequestMoves DEF IdentityInv
<1> QED
  BY <1>10, <1>12, <1>13, <1>16 DEF IdentityInv

\* A session is revoked whose row no request but those that end has locked.
LEMMA RevokedKeeps ==
  ASSUME TablesApart, IdentityInv, NEW S \in SUBSET Session,
         \A s \in S : session[s] # NoRow,
         session' = [s \in Session |-> IF s \in S THEN [session[s] EXCEPT !.revoked = TRUE] ELSE session[s]]
  PROVE  /\ session' \in [Session -> SessionRow \cup {NoRow}]
         /\ \A s \in Session : (session[s] = NoRow) <=> (session'[s] = NoRow)
         /\ \A s \in Session : session[s] # NoRow =>
              /\ session'[s].from = session[s].from
              /\ session[s].revoked => session'[s].revoked
              /\ s \in S => session'[s].revoked
              /\ s \notin S => session'[s] = session[s]
         /\ HeirsOK'
<1>1. \A s \in Session : session[s] # NoRow => session[s] \in SessionRow
  BY DEF IdentityInv, IdentityTypeOK
<1>2. ASSUME NEW s \in S
      PROVE  /\ session'[s] \in SessionRow
             /\ session'[s].revoked
             /\ session'[s].from = session[s].from
  <2>1. session[s] \in SessionRow /\ session'[s] = [session[s] EXCEPT !.revoked = TRUE]
    BY <1>1
  <2> QED
    BY <2>1 DEF SessionRow
<1>3. \A s \in Session \ S : session'[s] = session[s]
  OBVIOUS
<1>4. \A s \in S : session'[s] # NoRow
  BY <1>2 DEF TablesApart
<1>5. session' \in [Session -> SessionRow \cup {NoRow}]
  BY <1>1, <1>2, <1>3
<1>6. /\ \A s \in Session : (session[s] = NoRow) <=> (session'[s] = NoRow)
      /\ \A s \in Session : session[s] # NoRow =>
              /\ session'[s].from = session[s].from
              /\ session[s].revoked => session'[s].revoked
              /\ s \in S => session'[s].revoked
              /\ s \notin S => session'[s] = session[s]
  BY <1>2, <1>3, <1>4
<1>7. HeirsOK'
  BY <1>6, HeirsKeepRevoked DEF IdentityInv
<1> QED
  BY <1>5, <1>6, <1>7

LEMMA RevokeKeeps ==
  ASSUME TablesApart, IdentityInv, NEW s \in Session, Revoke(s)
  PROVE  IdentityInv'
<1>1. session' = [o \in Session |-> IF o \in {s} THEN [session[o] EXCEPT !.revoked = TRUE] ELSE session[o]]
  BY DEF Revoke, IdentityInv, IdentityTypeOK
<1>2. session[s] # NoRow /\ Free(s) /\ UNCHANGED <<user, link, token, request>>
  BY DEF Revoke
<1>3. /\ session' \in [Session -> SessionRow \cup {NoRow}]
      /\ \A o \in Session : (session[o] = NoRow) <=> (session'[o] = NoRow)
      /\ \A o \in Session : session[o] # NoRow =>
              /\ session[o].revoked => session'[o].revoked
              /\ o # s => session'[o] = session[o]
      /\ HeirsOK'
  <2>1. {s} \in SUBSET Session /\ \A o \in {s} : session[o] # NoRow
    BY <1>2
  <2> QED
    BY <1>1, <2>1, RevokedKeeps
<1>4. IdentityTypeOK'
  BY <1>2, <1>3 DEF IdentityInv, IdentityTypeOK
<1>5. RecoveriesOK'
  BY <1>2, <1>3, RecoveriesKeep DEF IdentityInv
<1>6. \A y \in Request : s \notin Held(y)
  BY <1>2 DEF Free
<1>7. \A y \in Request : request[y] # NoRow => RequestOK(request[y], session', token')
  BY <1>2, <1>3, <1>6, TablesKeep
<1>8. RequestsOK'
  BY <1>2, <1>7 DEF RequestsOK, IdentityInv, Held
<1> QED
  BY <1>3, <1>4, <1>5, <1>8 DEF IdentityInv

LEMMA SignOutKeeps ==
  ASSUME TablesApart, IdentityInv, NEW x \in Request, SignOut(x)
  PROVE  IdentityInv'
<1> DEFINE s == request[x].row
<1>1. request[x] \in RequestRow /\ request[x].op = "use" /\ RequestOK(request[x], session, token)
  BY DEF SignOut, Serves, IdentityInv, RequestsOK
<1>2. s \in Session /\ request[x].held = {s} /\ session[s] # NoRow
  BY <1>1 DEF RequestOK
<1>3. session' = [o \in Session |-> IF o \in {s} THEN [session[o] EXCEPT !.revoked = TRUE] ELSE session[o]]
  BY <1>2 DEF SignOut, IdentityInv, IdentityTypeOK
<1>4. request' = [request EXCEPT ![x] = NoRow] /\ UNCHANGED <<user, link, token>>
  BY DEF SignOut, RequestEnded
<1> HIDE DEF s
<1>5. /\ session' \in [Session -> SessionRow \cup {NoRow}]
      /\ \A o \in Session : (session[o] = NoRow) <=> (session'[o] = NoRow)
      /\ \A o \in Session : session[o] # NoRow =>
              /\ session[o].revoked => session'[o].revoked
              /\ o # s => session'[o] = session[o]
      /\ HeirsOK'
  BY <1>2, <1>3, RevokedKeeps
<1>6. IdentityTypeOK'
  BY <1>4, <1>5 DEF IdentityInv, IdentityTypeOK
<1>7. RecoveriesOK'
  BY <1>4, <1>5, RecoveriesKeep DEF IdentityInv
<1>8. \A y \in Request \ {x} : s \notin Held(y)
  BY <1>1, <1>2, LocksExclude DEF IdentityInv
<1>9. \A y \in Request \ {x} : request[y] # NoRow => RequestOK(request[y], session', token')
  BY <1>4, <1>5, <1>8, TablesKeep
<1>10. RequestsOK'
  BY <1>4, <1>9, RequestMoves DEF IdentityInv
<1> QED
  BY <1>5, <1>6, <1>7, <1>10 DEF IdentityInv

\* Links and users change, and perhaps a request ends.
LEMMA SurroundingsKeep ==
  ASSUME IdentityInv, UNCHANGED <<session, token>>,
         user' \in [User -> [active : BOOLEAN, allowed : BOOLEAN]],
         link' \in [User -> LinkRow],
         \/ UNCHANGED request
         \/ \E x \in Request : request' = RequestEnded(x)
  PROVE  IdentityInv'
<1>1. IdentityTypeOK' /\ HeirsOK' /\ RecoveriesOK'
  BY DEF IdentityInv, IdentityTypeOK, HeirsOK, RecoveriesOK, LinkRow
<1>2. \A y \in Request : request[y] # NoRow => RequestOK(request[y], session', token')
  BY DEF IdentityInv, RequestsOK
<1>3. CASE UNCHANGED request
  BY <1>1, <1>2, <1>3 DEF RequestsOK, IdentityInv, Held
<1>4. ASSUME NEW x \in Request, request' = RequestEnded(x)
      PROVE  IdentityInv'
  <2>1. RequestsOK'
    BY <1>2, <1>4, RequestMoves DEF RequestEnded, IdentityInv
  <2> QED
    BY <1>1, <2>1 DEF IdentityInv
<1> QED
  BY <1>3, <1>4

LEMMA LinksKeep ==
  ASSUME TablesApart, IdentityInv, NEW x \in Request, Bootstrapped(x) \/ LinkReviewed(x)
  PROVE  IdentityInv'
<1>1. request[x] \in RequestRow /\ RequestOK(request[x], session, token)
  BY DEF Bootstrapped, LinkReviewed, Serves, IdentityInv, RequestsOK
<1>2. link \in [User -> LinkRow] /\ user \in [User -> [active : BOOLEAN, allowed : BOOLEAN]]
  BY DEF IdentityInv, IdentityTypeOK, LinkRow
<1>3. CASE Bootstrapped(x)
  <2>1. request[x].row \in User
    BY <1>1, <1>3 DEF Bootstrapped, Serves, RequestOK
  <2>2. [status |-> "active", version |-> link[request[x].row].version + 1] \in LinkRow
    BY <1>2, <2>1 DEF LinkRow
  <2>3. link' \in [User -> LinkRow]
    BY <1>2, <1>3, <2>1, <2>2 DEF Bootstrapped
  <2> QED
    BY <1>2, <1>3, <2>3, SurroundingsKeep DEF Bootstrapped
<1>4. CASE LinkReviewed(x)
  <2>1. request[x].seen \in LinkRow
    BY <1>1, <1>4 DEF LinkReviewed, Serves, RequestOK
  <2>2. [status |-> "review_pending", version |-> request[x].seen.version + 1] \in LinkRow
    BY <2>1 DEF LinkRow
  <2>3. link' \in [User -> LinkRow]
    BY <1>2, <1>4, <2>2 DEF LinkReviewed
  <2> QED
    BY <1>2, <1>4, <2>3, SurroundingsKeep DEF LinkReviewed
<1> QED
  BY <1>3, <1>4

LEMMA UsersKeep ==
  ASSUME IdentityInv, NEW u \in User, Surroundings(u)
  PROVE  IdentityInv'
<1>1. link \in [User -> LinkRow] /\ user \in [User -> [active : BOOLEAN, allowed : BOOLEAN]]
  BY DEF IdentityInv, IdentityTypeOK, LinkRow
<1>2. user' \in [User -> [active : BOOLEAN, allowed : BOOLEAN]]
  BY <1>1 DEF Surroundings
<1> QED
  BY <1>1, <1>2, SurroundingsKeep DEF Surroundings

-----------------------------------------------------------------------------
(* Tokens *)

LEMMA IssueTokenKeeps ==
  ASSUME TablesApart, IdentityInv, NEW t \in Token, NEW u \in User, IssueToken(t, u)
  PROVE  IdentityInv'
<1> DEFINE n == [user |-> u, consumed |-> FALSE, closed |-> FALSE, ends |-> {}, known |-> {}]
<1>1. n \in TokenRow /\ ~n.consumed /\ n.ends = {}
  BY DEF TokenRow
<1>2. token[t] = NoRow /\ token' = [token EXCEPT ![t] = n] /\ UNCHANGED <<user, link, session, request>>
  BY DEF IssueToken
<1> HIDE DEF n
<1>3. n # NoRow
  BY <1>1 DEF TablesApart
<1>4. token'[t] = n /\ \A o \in Token \ {t} : token'[o] = token[o]
  BY <1>2 DEF IdentityInv, IdentityTypeOK
<1>5. IdentityTypeOK'
  BY <1>1, <1>2 DEF IdentityInv, IdentityTypeOK
<1>6. HeirsOK'
  BY <1>2 DEF IdentityInv, HeirsOK
<1>7. RecoveriesOK'
  <2>1. \A o \in Token : token[o] # NoRow => token[o] \in TokenRow
    BY DEF IdentityInv, IdentityTypeOK
  <2> SUFFICES ASSUME NEW o \in Token \ {t}, token[o] # NoRow
               PROVE  /\ \A s \in token[o].ends : session[s] # NoRow /\ session[s].revoked
                      /\ token[o].consumed => \A p \in token[o].known \ {o} :
                           /\ token'[p] # NoRow /\ (token'[p].consumed \/ token'[p].closed)
                           /\ token'[p].consumed => o \notin token'[p].known
    BY <1>1, <1>2, <1>4 DEF RecoveriesOK
  <2>2. \A p \in token[o].known : p \in Token
    BY <2>1 DEF TokenRow
  <2> QED
    BY <1>2, <1>4, <2>2 DEF IdentityInv, RecoveriesOK
<1>8. \A y \in Request : request[y] # NoRow => RequestOK(request[y], session', token')
  BY <1>2, <1>3, <1>4, TablesKeep
<1>9. RequestsOK'
  BY <1>2, <1>8 DEF RequestsOK, IdentityInv, Held
<1> QED
  BY <1>5, <1>6, <1>7, <1>9 DEF IdentityInv

LEMMA CloseTokenKeeps ==
  ASSUME TablesApart, IdentityInv, NEW t \in Token, CloseToken(t)
  PROVE  IdentityInv'
<1> DEFINE n == [token[t] EXCEPT !.closed = TRUE]
<1>1. /\ token[t] # NoRow /\ ~token[t].consumed /\ Free(t)
      /\ token' = [token EXCEPT ![t] = n] /\ UNCHANGED <<user, link, session, request>>
  BY DEF CloseToken, UsableToken
<1>2. token[t] \in TokenRow
  BY <1>1 DEF IdentityInv, IdentityTypeOK
<1>3. n \in TokenRow /\ ~n.consumed /\ n.closed /\ n.ends = token[t].ends
  BY <1>1, <1>2 DEF TokenRow
<1> HIDE DEF n
<1>4. n # NoRow
  BY <1>3 DEF TablesApart
<1>5. token'[t] = n /\ \A o \in Token \ {t} : token'[o] = token[o]
  BY <1>1 DEF IdentityInv, IdentityTypeOK
<1>6. IdentityTypeOK'
  BY <1>1, <1>3 DEF IdentityInv, IdentityTypeOK
<1>7. HeirsOK'
  BY <1>1 DEF IdentityInv, HeirsOK
<1>8. RecoveriesOK'
  <2>1. \A o \in Token : token[o] # NoRow => token[o] \in TokenRow
    BY DEF IdentityInv, IdentityTypeOK
  <2>2. \A s \in token[t].ends : session[s] # NoRow /\ session[s].revoked
    BY <1>1 DEF IdentityInv, RecoveriesOK
  <2>3. ASSUME NEW o \in Token \ {t}, token[o] # NoRow
        PROVE  /\ \A s \in token[o].ends : session[s] # NoRow /\ session[s].revoked
               /\ token[o].consumed => \A p \in token[o].known \ {o} :
                    /\ token'[p] # NoRow /\ (token'[p].consumed \/ token'[p].closed)
                    /\ token'[p].consumed => o \notin token'[p].known
    <3>1. \A p \in token[o].known : p \in Token
      BY <2>1, <2>3 DEF TokenRow
    <3> QED
      BY <1>3, <1>4, <1>5, <2>3, <3>1 DEF IdentityInv, RecoveriesOK
  <2> QED
    BY <1>1, <1>3, <1>5, <2>2, <2>3 DEF RecoveriesOK
<1>9. \A y \in Request : t \notin Held(y)
  BY <1>1 DEF Free
<1>10. \A y \in Request : request[y] # NoRow => RequestOK(request[y], session', token')
  BY <1>1, <1>4, <1>5, <1>9, TablesKeep
<1>11. RequestsOK'
  BY <1>1, <1>10 DEF RequestsOK, IdentityInv, Held
<1> QED
  BY <1>6, <1>7, <1>8, <1>11 DEF IdentityInv

\* The rows of the tokens after a recovery.
LEMMA RecoveredTokens ==
  ASSUME TablesApart, IdentityInv, NEW x \in Request, Recover(x)
  PROVE  LET r == request[x]
             t == request[x].row
         IN  /\ r \in RequestRow /\ RequestOK(r, session, token)
             /\ r.op = "recover" /\ r.todo = {} /\ r.seen # NoRow
             /\ t \in Token /\ token[t] # NoRow
             /\ token' \in [Token -> TokenRow \cup {NoRow}]
             /\ token'[t] # NoRow /\ token'[t].consumed /\ token'[t].known = r.seen /\ token'[t].ends = r.sees
             /\ \A o \in Token \ {t} :
                  /\ (token[o] = NoRow) <=> (token'[o] = NoRow)
                  /\ o \notin r.held => token'[o] = token[o]
                  /\ token[o] # NoRow =>
                       /\ token'[o].consumed = token[o].consumed
                       /\ token'[o].known = token[o].known /\ token'[o].ends = token[o].ends
                       /\ token[o].closed => token'[o].closed
                       /\ o \in r.held => token'[o].consumed \/ token'[o].closed
<1> DEFINE r == request[x]
           t == r.row
           c == [token[t] EXCEPT !.consumed = TRUE, !.known = r.seen, !.ends = r.sees]
<1>1. r \in RequestRow /\ RequestOK(r, session, token) /\ r.op = "recover" /\ r.todo = {} /\ r.seen # NoRow
  BY DEF Recover, Serves, Wants, IdentityInv, RequestsOK
<1>2. t \in Token /\ t \in r.held /\ token[t] # NoRow /\ r.seen \in SUBSET Token
  BY <1>1 DEF RequestOK
<1>3. \A o \in Token : token[o] # NoRow => token[o] \in TokenRow
  BY DEF IdentityInv, IdentityTypeOK
<1>4. r.sees \in SUBSET Session
  BY <1>1 DEF RequestRow
<1>5. c \in TokenRow /\ c.consumed /\ c.known = r.seen /\ c.ends = r.sees
  BY <1>2, <1>3, <1>4 DEF TokenRow
<1>0. c # NoRow
  BY <1>5 DEF TablesApart
<1>6. ASSUME NEW o \in Token, token[o] # NoRow
      PROVE  LET d == [token[o] EXCEPT !.closed = TRUE]
             IN  /\ d \in TokenRow /\ d.closed /\ d.consumed = token[o].consumed
                 /\ d.known = token[o].known /\ d.ends = token[o].ends
  BY <1>3, <1>6 DEF TokenRow
<1>7. token' = [o \in Token |->
       IF o = t THEN c
       ELSE IF o \in r.held /\ UsableToken(o) THEN [token[o] EXCEPT !.closed = TRUE]
       ELSE token[o]]
  BY DEF Recover
<1> HIDE DEF c
<1>8. token'[t] = c
  BY <1>2, <1>7
<1>9. ASSUME NEW o \in Token \ {t}
      PROVE  /\ token'[o] \in TokenRow \cup {NoRow}
             /\ (token[o] = NoRow) <=> (token'[o] = NoRow)
             /\ o \notin r.held => token'[o] = token[o]
             /\ token[o] # NoRow =>
                  /\ token'[o].consumed = token[o].consumed
                  /\ token'[o].known = token[o].known /\ token'[o].ends = token[o].ends
                  /\ token[o].closed => token'[o].closed
                  /\ o \in r.held => token'[o].consumed \/ token'[o].closed
  <2>1. CASE o \in r.held /\ UsableToken(o)
    <3>1. token[o] # NoRow /\ token'[o] = [token[o] EXCEPT !.closed = TRUE]
      BY <1>7, <2>1 DEF UsableToken
    <3>2. token'[o] \in TokenRow /\ token'[o].closed /\ token'[o].consumed = token[o].consumed
          /\ token'[o].known = token[o].known /\ token'[o].ends = token[o].ends
      BY <1>6, <3>1
    <3> QED
      BY <2>1, <3>1, <3>2 DEF TablesApart
  <2>2. CASE ~(o \in r.held /\ UsableToken(o))
    <3>1. token'[o] = token[o]
      BY <1>7, <2>2
    <3> QED
      BY <1>3, <2>2, <3>1 DEF UsableToken
  <2> QED
    BY <2>1, <2>2
<1>10. token' \in [Token -> TokenRow \cup {NoRow}]
  <2>1. \A o \in Token : token'[o] \in TokenRow \cup {NoRow}
    BY <1>5, <1>8, <1>9
  <2> QED
    BY <1>7, <2>1
<1> QED
  BY <1>1, <1>2, <1>0, <1>5, <1>8, <1>9, <1>10

LEMMA RecoverKeeps ==
  ASSUME TablesApart, IdentityInv, NEW x \in Request, Recover(x)
  PROVE  IdentityInv'
<1> DEFINE r == request[x]
           t == r.row
           S == r.held \cap Session
<1>1. /\ r \in RequestRow /\ RequestOK(r, session, token)
      /\ r.op = "recover" /\ r.todo = {} /\ r.seen # NoRow
      /\ t \in Token /\ token[t] # NoRow
      /\ token' \in [Token -> TokenRow \cup {NoRow}]
      /\ token'[t] # NoRow /\ token'[t].consumed /\ token'[t].known = r.seen /\ token'[t].ends = r.sees
  BY RecoveredTokens
<1>2. \A o \in Token \ {t} :
        /\ (token[o] = NoRow) <=> (token'[o] = NoRow)
        /\ o \notin r.held => token'[o] = token[o]
        /\ token[o] # NoRow =>
             /\ token'[o].consumed = token[o].consumed
             /\ token'[o].known = token[o].known /\ token'[o].ends = token[o].ends
             /\ token[o].closed => token'[o].closed
             /\ o \in r.held => token'[o].consumed \/ token'[o].closed
  BY RecoveredTokens
<1>3. /\ \A s \in S : session[s] # NoRow
      /\ r.sees \subseteq S /\ t \in r.held /\ r.seen \in SUBSET Token /\ r.seen \subseteq r.held
      /\ ~token[t].consumed /\ ~token[t].closed
      /\ \A o \in r.seen : token[o] # NoRow
  BY <1>1 DEF RequestOK, RequestRow
<1>4. session' = [s \in Session |-> IF s \in S THEN [session[s] EXCEPT !.revoked = TRUE] ELSE session[s]]
      /\ request' = [request EXCEPT ![x] = NoRow] /\ UNCHANGED <<user, link>>
  BY DEF Recover, RequestEnded
<1>5. /\ session' \in [Session -> SessionRow \cup {NoRow}]
      /\ \A s \in Session : (session[s] = NoRow) <=> (session'[s] = NoRow)
      /\ \A s \in Session : session[s] # NoRow =>
              /\ session[s].revoked => session'[s].revoked
              /\ s \in S => session'[s].revoked
              /\ s \notin S => session'[s] = session[s]
      /\ HeirsOK'
  BY <1>3, <1>4, RevokedKeeps
<1>6. \A y \in Request \ {x} : r.held \cap Held(y) = {}
  BY <1>1, LocksExclude DEF IdentityInv
<1> HIDE DEF r, S, t
<1>7. IdentityTypeOK'
  BY <1>1, <1>4, <1>5 DEF IdentityInv, IdentityTypeOK
<1>8. \A o \in Token : token[o] # NoRow => token'[o] # NoRow
  BY <1>1, <1>2
<1>9. \A o \in Token : token[o] # NoRow /\ token'[o] # token[o] => o \in r.held
  BY <1>2, <1>3
<1>10. \A s \in Session : session[s] # NoRow /\ session'[s].revoked # session[s].revoked => s \in S
  BY <1>5
<1>11. RecoveriesOK'
  <2>1. \A o \in Token : token[o] # NoRow => token[o] \in TokenRow
    BY DEF IdentityInv, IdentityTypeOK
  <2>2. \A s \in r.sees : session'[s] # NoRow /\ session'[s].revoked
    BY <1>3, <1>5 DEF S
  <2>3. ASSUME NEW o \in Token, token[o] # NoRow
        PROVE  /\ \A s \in token[o].ends : session[s] # NoRow /\ session[s].revoked
               /\ token[o].consumed => \A p \in token[o].known \ {o} :
                    /\ p \in Token /\ token[p] # NoRow /\ (token[p].consumed \/ token[p].closed)
                    /\ token[p].consumed => o \notin token[p].known
               /\ token[o].ends \subseteq Session
    BY <2>1, <2>3 DEF IdentityInv, RecoveriesOK, TokenRow
  <2>4. ASSUME NEW p \in r.seen \ {t}
        PROVE  /\ token'[p] # NoRow /\ (token'[p].consumed \/ token'[p].closed)
               /\ token'[p].consumed => t \notin token'[p].known
    <3>1. p \in Token \ {t} /\ token[p] # NoRow /\ p \in r.held
      BY <1>3, <2>4
    <3>2. /\ token'[p] # NoRow /\ (token'[p].consumed \/ token'[p].closed)
          /\ token'[p].consumed = token[p].consumed /\ token'[p].known = token[p].known
      BY <1>2, <3>1
    <3>3. token[p].consumed => t \notin token[p].known
      BY <1>3, <2>3, <3>1
    <3> QED
      BY <3>2, <3>3
  <2>5. ASSUME NEW o \in Token \ {t}, token'[o] # NoRow
        PROVE  /\ \A s \in token'[o].ends : session'[s] # NoRow /\ session'[s].revoked
               /\ token'[o].consumed => \A p \in token'[o].known \ {o} :
                    /\ token'[p] # NoRow /\ (token'[p].consumed \/ token'[p].closed)
                    /\ token'[p].consumed => o \notin token'[p].known
    <3>1. /\ token[o] # NoRow /\ token'[o].consumed = token[o].consumed
          /\ token'[o].known = token[o].known /\ token'[o].ends = token[o].ends
      BY <1>2, <2>5
    <3>2. \A s \in token[o].ends : session'[s] # NoRow /\ session'[s].revoked
      BY <1>5, <2>3, <3>1
    <3>3. ASSUME token[o].consumed, NEW p \in token[o].known \ {o}
          PROVE  /\ token'[p] # NoRow /\ (token'[p].consumed \/ token'[p].closed)
                 /\ token'[p].consumed => o \notin token'[p].known
      <4>1. /\ p \in Token /\ token[p] # NoRow /\ (token[p].consumed \/ token[p].closed)
            /\ token[p].consumed => o \notin token[p].known
        BY <2>3, <3>1, <3>3
      <4>2. p # t
        BY <1>3, <4>1
      <4> QED
        BY <1>2, <4>1, <4>2
    <3> QED
      BY <3>1, <3>2, <3>3
  <2> QED
    BY <1>1, <2>2, <2>4, <2>5 DEF RecoveriesOK
<1>12. \A y \in Request \ {x} : request[y] # NoRow => RequestOK(request[y], session', token')
  <2>1. \A s \in Session : session[s] # NoRow => session'[s] # NoRow
    BY <1>5
  <2>2. \A s \in Session : session[s] # NoRow /\ session'[s].revoked # session[s].revoked =>
           \A y \in Request \ {x} : s \notin Held(y)
    BY <1>6, <1>10 DEF S
  <2>3. \A o \in Token : token[o] # NoRow /\ token'[o] # token[o] => \A y \in Request \ {x} : o \notin Held(y)
    BY <1>6, <1>9
  <2> QED
    BY <1>8, <2>1, <2>2, <2>3, TablesKeep
<1>13. RequestsOK'
  BY <1>4, <1>12, RequestMoves DEF IdentityInv
<1> QED
  BY <1>5, <1>7, <1>11, <1>13 DEF IdentityInv

-----------------------------------------------------------------------------
LEMMA IdentityStep ==
  ASSUME TablesApart, IdentityInv, [NextIdentity]_idVars
  PROVE  IdentityInv'
<1>1. ASSUME NEW x \in Request, Act(x) \/ RollbackRequest(x) \/ DeadlockVictim(x)
      PROVE  IdentityInv'
  BY <1>1, RequestEnds DEF Act, RollbackRequest, DeadlockVictim
<1>2. ASSUME NEW s \in Session, NEW u \in User, SignIn(s, u) \/ IssueSession(s, u)
      PROVE  IdentityInv'
  BY <1>2, InsertedKeeps DEF SignIn, IssueSession
<1>3. ASSUME UNCHANGED idVars
      PROVE  IdentityInv'
  <2>1. \A x \in Request : request[x] # NoRow => RequestOK(request[x], session', token')
    BY <1>3 DEF idVars, IdentityInv, RequestsOK
  <2>2. IdentityTypeOK' /\ HeirsOK' /\ RecoveriesOK'
    BY <1>3 DEF idVars, IdentityInv, IdentityTypeOK, HeirsOK, RecoveriesOK
  <2>3. RequestsOK'
    BY <1>3, <2>1 DEF idVars, IdentityInv, RequestsOK, Held
  <2> QED
    BY <2>2, <2>3 DEF IdentityInv
<1>4. ASSUME NEW x \in Request,
             \/ \E s \in Session : Authenticate(x, s) \/ RotateSession(x, s) \/ ReviewLink(x, s)
             \/ \E t \in Token : RecoverSessions(x, t)
             \/ \E lock \in Session \cup Token : Take(x, lock)
             \/ \E u \in User : Bootstrap(x, u)
      PROVE  IdentityInv'
  BY <1>4, AuthenticateKeeps, RotateSessionKeeps, ReviewLinkKeeps, RecoverSessionsKeeps, TakeKeeps,
     BootstrapKeeps
<1>5. ASSUME NEW x \in Request,
             \/ Authorize(x) \/ SignOut(x) \/ RecoverTokens(x) \/ Recover(x)
             \/ Bootstrapped(x) \/ LinkReviewed(x)
      PROVE  IdentityInv'
  BY <1>5, AuthorizeKeeps, SignOutKeeps, RecoverTokensKeeps, RecoverKeeps, LinksKeep
<1>6. ASSUME \/ \E s \in Session : Revoke(s)
             \/ \E t \in Token : CloseToken(t) \/ \E u \in User : IssueToken(t, u)
             \/ \E u \in User : Surroundings(u)
      PROVE  IdentityInv'
  BY <1>6, RevokeKeeps, CloseTokenKeeps, IssueTokenKeeps, UsersKeep
<1> QED
  BY <1>1, <1>2, <1>3, <1>4, <1>5, <1>6 DEF NextIdentity

\* The rows are rows of their tables and the requests hold what they rely on.
THEOREM IdentityInvariant == ASSUME TablesApart PROVE IdentitySpec => []IdentityInv
<1>1. InitIdentity => IdentityInv
  BY IdentityStarts
<1>2. IdentityInv /\ [NextIdentity]_idVars => IdentityInv'
  BY IdentityStep
<1> QED
  BY <1>1, <1>2, PTL DEF IdentitySpec

\* Nothing is done in the name of a revoked session, and a session has one heir at most
\* (authenticate_session and rotate_session beside revocations and recoveries), for any
\* users, sessions, tokens and concurrent requests.
THEOREM UsedSessionsLiveHolds == ASSUME TablesApart PROVE IdentitySpec => []UsedSessionsLive
<1>1. IdentityInv => UsedSessionsLive
  <2> SUFFICES ASSUME IdentityInv PROVE UsedSessionsLive
    OBVIOUS
  <2>1. ASSUME NEW x \in Request, Serves(x, "use") \/ Serves(x, "act")
        PROVE  ~session[request[x].row].revoked
    BY <2>1 DEF Serves, IdentityInv, RequestsOK, RequestOK
  <2>2. ASSUME NEW r \in Session, NEW s \in Session,
               r # s, session[r] # NoRow, session[s] # NoRow, session[r].from # NoRow
        PROVE  session[r].from # session[s].from
    BY <2>2 DEF IdentityInv, HeirsOK
  <2> QED
    BY <2>1, <2>2 DEF UsedSessionsLive
<1> QED
  BY <1>1, IdentityInvariant, PTL

\* A recovery ends every session that it saw, and of recovery tokens that knew of each
\* other one is consumed (recover_account beside itself), for any number of each.
THEOREM RecoveryEndsOthersHolds == ASSUME TablesApart PROVE IdentitySpec => []RecoveryEndsOthers
<1>1. IdentityInv => RecoveryEndsOthers
  <2> SUFFICES ASSUME IdentityInv, NEW t \in Token, token[t] # NoRow
               PROVE  /\ \A s \in token[t].ends : session[s].revoked
                      /\ \A o \in Token \ {t} :
                           token[o] # NoRow /\ token[t].consumed /\ token[o].consumed
                             => ~(o \in token[t].known /\ t \in token[o].known)
    BY DEF RecoveryEndsOthers
  <2> QED
    BY DEF IdentityInv, RecoveriesOK
<1> QED
  BY <1>1, IdentityInvariant, PTL

-----------------------------------------------------------------------------
(* Schedules: numbers, rows and the calendar *)

LEMMA Division ==
  ASSUME NEW a \in Int, NEW n \in Nat \ {0}
  PROVE  /\ a \div n \in Int
         /\ a % n \in 0..(n - 1)
         /\ a = n * (a \div n) + (a % n)
OBVIOUS

LEMMA NextMultiple ==
  ASSUME NEW a \in Nat, NEW n \in Nat \ {0}
  PROVE  /\ (a \div n + 1) * n \in Nat
         /\ a < (a \div n + 1) * n
         /\ ((a \div n + 1) * n) % n = 0
<1> DEFINE q == a \div n
<1>1. q \in Nat /\ a < n * q + n
  BY Division
<1>2. (q + 1) * n = n * q + n /\ (q + 1) * n \in Nat
  BY <1>1
<1>3. ASSUME NEW k \in Int PROVE (n * k) % n = 0
  <2>1. PICK d : d = (n * k) \div n
    OBVIOUS
  <2>2. PICK m : m = (n * k) % n
    OBVIOUS
  <2>3. d \in Int /\ m \in 0..(n - 1) /\ n * k = n * d + m
    <3>1. n * k \in Int
      OBVIOUS
    <3> QED BY <2>1, <2>2, <3>1, Division
  <2>4. CASE k > d
    <3>1. n * (k - d) >= n
      BY <2>3, <2>4
    <3> QED BY <2>3, <3>1
  <2>5. CASE k < d
    <3>1. n * (d - k) >= n
      BY <2>3, <2>5
    <3> QED BY <2>3, <3>1
  <2>6. CASE k = d
    BY <2>2, <2>3, <2>6
  <2> QED BY <2>3, <2>4, <2>5, <2>6
<1> QED BY <1>1, <1>2, <1>3

LEMMA Least ==
  ASSUME NEW S \in SUBSET Nat, S # {}
  PROVE  Min(S) \in S /\ \A v \in S : Min(S) <= v
<1>1. PICK x \in S : \A y \in S : <<y, x>> \notin OpToRel(<, Nat)
  BY WFMin, NatLessThanWellFounded, Zenon
<1>2. \A y \in S : ~ (y < x)
  BY <1>1, Zenon DEF OpToRel
<1>3. \E z \in S : \A y \in S : z <= y
  BY <1>2
<1> QED BY <1>3, Zenon DEF Min

LEMMA Greatest ==
  ASSUME NEW n \in Nat, NEW S \in SUBSET (0..n), S # {}
  PROVE  Max(S) \in S /\ \A v \in S : v <= Max(S)
<1> DEFINE T == {n - x : x \in S}
<1>1. T \in SUBSET Nat /\ T # {}
  <2>1. \A x \in S : n - x \in Nat
    OBVIOUS
  <2>2. \A t \in T : t \in Nat
    BY <2>1
  <2>3. PICK x \in S : TRUE
    OBVIOUS
  <2>4. n - x \in T
    BY <2>3
  <2> QED BY <2>2, <2>4
<1>2. Min(T) \in T /\ \A v \in T : Min(T) <= v
  BY <1>1, Least
<1>3. PICK x \in S : Min(T) = n - x
  BY <1>2
<1>4. \A y \in S : x >= y
  BY <1>2, <1>3
<1>5. \E z \in S : \A y \in S : z >= y
  BY <1>4
<1> QED BY <1>5, Zenon DEF Max

LEMMA Later == ASSUME NEW a \in Int, NEW b \in Int PROVE Max({a, b}) \in {a, b} /\ Max({a, b}) >= a
<1>1. \E x \in {a, b} : \A y \in {a, b} : x >= y
  OBVIOUS
<1> QED BY <1>1 DEF Max

\* The rows of jobs and schedules.
JobRow == [cause : Schedule, createdAt : Int, status : {"live", "done"}]

SchedRow ==
  [status : {"absent", "active", "paused", "completed"}, spec : ClientSpec \cup {NoValue},
   next : Nat \cup {NoValue}, last : Int \cup {NoValue}, version : Nat, published : Seq(Nat)]

SchedulesTyped ==
  /\ clock \in 0..MaxClock
  /\ schedule \in [Schedule -> SchedRow]
  /\ \A s \in Registered : schedule[s].spec \in ClientSpec /\ schedule[s].next \in Nat
  /\ job \in [DOMAIN job -> JobRow]
  /\ \A k \in DOMAIN job :
       /\ job[k].cause \in Registered
       /\ k = <<schedule[job[k].cause].spec.prefix, k[2]>> /\ k[2] \in Int

\* The jobs `fired` of a fire-once schedule with row r: there is an occurrence between any
\* two of them, and one is next after them all.
OneForAllMissed(r, fired) ==
  r.spec.policy = "fire_once" =>
    /\ \A k \in fired : r.status # "completed" => k[2] < r.next /\ r.next \in Calendar(r.spec, r.next)
    /\ \A j, k \in fired : j[2] < k[2] => \E u \in Calendar(r.spec, k[2]) : j[2] < u

\* The jobs of a daily schedule that catches up are occurrences of their days.
OnTheirDays(r, fired) ==
  r.spec.kind = "daily_local" /\ r.spec.policy = "catch_up" =>
    \A k \in fired : k[2] \in ResolveLocal(r.spec, DayOf(r.spec.zone, k[2]))

SchedulesInv ==
  /\ SchedulesTyped
  /\ \A s \in Registered :
       OneForAllMissed(schedule[s], JobsOf(s)) /\ OnTheirDays(schedule[s], JobsOf(s))


LEMMA ResolvedOnce ==
  ASSUME NEW p, NEW d, NEW u \in ResolveLocal(p, d), NEW v \in ResolveLocal(p, d) PROVE u = v
BY DEF ResolveLocal

LEMMA ResolvedIsInstant ==
  ASSUME NEW p, NEW d, NEW u \in ResolveLocal(p, d), LastInstant \in Nat PROVE u \in Instant
<1>1. ASSUME NEW w, Showing(p.zone, w) # {}
      PROVE  Min(Showing(p.zone, w)) \in Instant /\ Max(Showing(p.zone, w)) \in Instant
  <2>1. Showing(p.zone, w) \in SUBSET (0..LastInstant) /\ Showing(p.zone, w) \in SUBSET Nat
    BY DEF Showing, Instant
  <2> QED BY <1>1, <2>1, Least, Greatest DEF Instant
<1> DEFINE wanted == d * Day + p.hour
           exact  == Showing(p.zone, wanted)
           shifts == {n \in 1..MaxShift : Showing(p.zone, wanted + n) # {}}
<1>2. CASE exact # {}
  <2>1. u = Max(exact) \/ u = Min(exact)
    BY <1>2 DEF ResolveLocal
  <2> QED BY <1>1, <1>2, <2>1
<1>3. CASE exact = {}
  <2>1. shifts # {} /\ u = Min(Showing(p.zone, wanted + Min(shifts)))
    BY <1>3 DEF ResolveLocal
  <2>2. shifts \in SUBSET Nat
    OBVIOUS
  <2>3. Min(shifts) \in shifts
    BY <2>1, <2>2, Least
  <2> QED BY <1>1, <2>1, <2>3
<1> QED BY <1>2, <1>3

LEMMA DaysAreNumbers ==
  ASSUME NEW p \in ClientSpec, NEW u \in Instant PROVE DayOf(p.zone, u) \in Int
<1>1. p.zone \in Zone /\ Offset[p.zone][u] \in Int /\ u \in Int /\ Day \in Nat \ {0}
  BY ScheduleAssumption DEF ScheduleSpec, Instant, Zone
<1> QED BY <1>1 DEF DayOf, Wall

LEMMA CalendarGrows ==
  ASSUME NEW p \in ScheduleSpec, NEW u \in Int, NEW v \in Int, u <= v, u \in Calendar(p, u)
  PROVE  u \in Calendar(p, v)
<1>1. p.first \in Int
  BY DEF ScheduleSpec, Instant
<1>2. CASE p.kind = "once"
  BY <1>2 DEF Calendar
<1>3. CASE p.kind = "interval"
  BY <1>1, <1>3 DEF Calendar
<1>4. CASE p.kind = "daily_local"
  BY <1>1, <1>4 DEF Calendar, Daily
<1> QED BY <1>2, <1>3, <1>4 DEF ScheduleSpec

LEMMA NextIsOccurrence ==
  ASSUME NEW p \in ClientSpec, NEW now \in 0..MaxClock, NextOccurrence(p, now) # NoValue
  PROVE  /\ NextOccurrence(p, now) \in Int /\ NextOccurrence(p, now) > now
         /\ NextOccurrence(p, now) \in Calendar(p, NextOccurrence(p, now))
<1>0. /\ p \in ScheduleSpec /\ LastInstant \in Nat /\ now \in Nat /\ p.first \in Nat
      /\ p.interval \in Nat \ {0} /\ p.kind \in {"once", "interval", "daily_local"}
  BY ScheduleAssumption DEF ScheduleSpec, Instant
<1>1. CASE p.kind = "once"
  BY <1>0, <1>1 DEF NextOccurrence, Calendar
<1>2. CASE p.kind = "interval"
  <2>1. CASE now < p.first
    <3>1. NextOccurrence(p, now) = p.first
      BY <1>2, <2>1 DEF NextOccurrence
    <3>2. (p.first - p.first) % p.interval = 0
      BY <1>0
    <3> QED BY <1>0, <1>2, <2>1, <3>1, <3>2 DEF Calendar
  <2>2. CASE ~(now < p.first)
    <3> DEFINE n == p.interval
               a == now - p.first
               m == (a \div n + 1) * n
    <3>1. NextOccurrence(p, now) = p.first + m
      BY <1>2, <2>2 DEF NextOccurrence
    <3>2. a \in Nat /\ n \in Nat \ {0}
      BY <1>0, <2>2
    <3>3. m \in Nat /\ a < m /\ m % n = 0
      BY <3>2, NextMultiple
    <3> HIDE DEF m
    <3>4. p.first + m > now /\ (p.first + m) - p.first = m /\ p.first + m \in p.first..(p.first + m)
      BY <1>0, <3>3
    <3> QED BY <1>0, <1>2, <3>1, <3>3, <3>4 DEF Calendar
  <2> QED BY <2>1, <2>2
<1>3. CASE p.kind = "daily_local"
  <2> DEFINE Ahead == (UNION {ResolveLocal(p, d) : d \in {DayOf(p.zone, u) : u \in now..LastInstant}})
                        \cap {u \in Instant : u >= p.first /\ u > now}
  <2>1. NextOccurrence(p, now) = Min(Ahead)
    BY <1>3 DEF NextOccurrence
  <2>2. Ahead # {}
    <3>1. PICK u \in now..LastInstant :
            \E v \in ResolveLocal(p, DayOf(p.zone, u)) : v >= p.first /\ v > now
      BY <1>3, CalendarAssumption
    <3>2. PICK v \in ResolveLocal(p, DayOf(p.zone, u)) : v >= p.first /\ v > now
      BY <3>1
    <3>3. v \in Instant
      BY <1>0, <3>2, ResolvedIsInstant
    <3> QED BY <3>1, <3>2, <3>3
  <2>3. Ahead \in SUBSET Nat
    BY <1>0 DEF Instant
  <2>4. Min(Ahead) \in Ahead
    BY <2>2, <2>3, Least
  <2>5. now..LastInstant \subseteq Instant
    BY <1>0 DEF Instant
  <2> DEFINE m == Min(Ahead)
  <2>6. m \in Nat /\ m > now /\ m \in p.first..m
    BY <1>0, <2>3, <2>4
  <2>7. m \in UNION {ResolveLocal(p, d) : d \in {DayOf(p.zone, u) : u \in Instant}}
    BY <2>4, <2>5
  <2> HIDE DEF m, Ahead
  <2> QED BY <1>3, <2>1, <2>6, <2>7 DEF Calendar, Daily, m
<1> QED BY <1>0, <1>1, <1>2, <1>3

\* What an evaluation fires: now, or occurrences of their days.
LEMMA Fired ==
  ASSUME NEW p \in ClientSpec, NEW now \in 0..MaxClock, NEW u \in DueOccurrences(p, now)
  PROVE  /\ u \in Int
         /\ p.policy = "fire_once" => u = now
         /\ p.kind = "daily_local" /\ p.policy = "catch_up" =>
              u \in ResolveLocal(p, DayOf(p.zone, u))
<1>0. /\ p \in ScheduleSpec /\ LastInstant \in Nat /\ now \in Nat /\ now \in Instant
      /\ p.first \in Nat /\ p.first \in Instant
      /\ p.kind \in {"once", "interval", "daily_local"} /\ p.policy \in {"skip", "fire_once", "catch_up"}
  BY ScheduleAssumption DEF ScheduleSpec, Instant
<1>1. CASE p.policy # "catch_up"
  BY <1>0, <1>1 DEF DueOccurrences
<1>2. CASE p.policy = "catch_up"
  <2>1. u \in AllDue(p, now) /\ AllDue(p, now) # {}
    BY <1>2 DEF DueOccurrences
  <2>0. ~(p.first > now)
    BY <2>1 DEF AllDue
  <2>2. CASE p.kind = "once"
    BY <1>0, <1>2, <2>0, <2>1, <2>2 DEF AllDue
  <2>3. CASE p.kind = "interval"
    BY <1>0, <1>2, <2>0, <2>1, <2>3 DEF AllDue, Newest, Every
  <2>4. CASE p.kind = "daily_local"
    <3> DEFINE today == DayOf(p.zone, now)
               back  == Max({DayOf(p.zone, p.first), today - CatchUp})
    <3>1. today \in Int /\ DayOf(p.zone, p.first) \in Int /\ CatchUp \in Nat
      BY <1>0, ScheduleAssumption, DaysAreNumbers
    <3>2. back \in Int /\ back >= DayOf(p.zone, p.first)
      BY <3>1, Later
    <3>3. u \in Daily(p, now, back..today)
      BY <2>0, <2>1, <2>4 DEF AllDue, Newest
    <3>4. PICK d \in back..today : u \in ResolveLocal(p, d)
      BY <3>3 DEF Daily
    <3>5. d \in DayOf(p.zone, p.first)..DayOf(p.zone, now)
      BY <3>1, <3>2
    <3>6. DayOf(p.zone, u) = d
      BY <1>0, <2>4, <3>4, <3>5, CalendarAssumption
    <3>7. u \in Int
      BY <1>0, <3>4, ResolvedIsInstant DEF Instant
    <3> QED BY <1>2, <3>4, <3>6, <3>7
  <2> QED BY <1>0, <2>2, <2>3, <2>4
<1> QED BY <1>1, <1>2

-----------------------------------------------------------------------------
(* Schedules: steps *)

LEMMA RecordedRow ==
  ASSUME NEW r \in SchedRow
  PROVE  /\ Record(r) \in SchedRow /\ Record(r).status = r.status
         /\ Record(r).spec = r.spec /\ Record(r).next = r.next /\ Record(r).last = r.last
<1>1. r.version + 1 \in Nat /\ Append(r.published, r.version + 1) \in Seq(Nat)
  BY DEF SchedRow
<1> QED BY <1>1 DEF Record, SchedRow

LEMMA SchedulesStart == ASSUME InitSchedules PROVE SchedulesInv
<1>1. AbsentSchedule \in SchedRow /\ AbsentSchedule.status = "absent"
  BY DEF AbsentSchedule, SchedRow
<1>2. clock \in 0..MaxClock
  BY ScheduleAssumption DEF InitSchedules, Instant
<1>3. Registered = {}
  BY <1>1 DEF InitSchedules, Registered
<1>4. DOMAIN job = {} /\ job \in [DOMAIN job -> JobRow]
  BY DEF InitSchedules
<1>5. schedule \in [Schedule -> SchedRow]
  BY <1>1 DEF InitSchedules
<1> QED BY <1>2, <1>3, <1>4, <1>5 DEF SchedulesInv, SchedulesTyped

\* The row of one schedule changes, and no job; its spec stays, and it is active again only
\* with the next occurrence it had.
LEMMA RowChanges ==
  ASSUME SchedulesInv, NEW s \in Schedule, NEW r \in SchedRow, UNCHANGED job,
         clock' = clock, schedule' = [schedule EXCEPT ![s] = r],
         r.status # "absent", r.spec \in ClientSpec, r.next \in Nat,
         \/ JobsOf(s) = {}
         \/ /\ s \in Registered /\ r.spec = schedule[s].spec /\ r.next = schedule[s].next
            /\ schedule[s].status # "completed"
  PROVE  SchedulesInv'
<1>1. /\ schedule' \in [Schedule -> SchedRow] /\ schedule'[s] = r
      /\ \A t \in Schedule : t # s => schedule'[t] = schedule[t]
  BY DEF SchedulesInv, SchedulesTyped
<1>2. Registered' = Registered \cup {s} /\ \A t \in Schedule : JobsOf(t)' = JobsOf(t)
  BY <1>1 DEF Registered, JobsOf
<1>3. \A k \in DOMAIN job : job[k].cause = s => k \in JobsOf(s)
  BY DEF JobsOf
<1>4. \A t \in Registered : schedule'[t].spec = schedule[t].spec \/ (t = s /\ JobsOf(s) = {})
  BY <1>1 DEF Registered
<1>5. SchedulesTyped'
  <2>1. \A k \in DOMAIN job : job[k].cause \in Registered
          /\ k = <<schedule'[job[k].cause].spec.prefix, k[2]>> /\ k[2] \in Int
    BY <1>3, <1>4 DEF SchedulesInv, SchedulesTyped
  <2> QED BY <1>1, <1>2, <2>1 DEF SchedulesInv, SchedulesTyped, Registered
<1>6. ASSUME NEW t \in Registered'
      PROVE  /\ OneForAllMissed(schedule'[t], JobsOf(t))
             /\ OnTheirDays(schedule'[t], JobsOf(t))
  <2>0. t \in Schedule
    BY <1>6 DEF Registered
  <2>1. CASE t # s
    BY <1>1, <1>2, <1>6, <2>0, <2>1 DEF SchedulesInv
  <2>2. CASE t = s /\ JobsOf(s) = {}
    BY <2>2 DEF OneForAllMissed, OnTheirDays
  <2>3. CASE t = s /\ JobsOf(s) # {}
    BY <1>1, <2>3 DEF SchedulesInv, OneForAllMissed, OnTheirDays
  <2> QED BY <2>1, <2>2, <2>3
<1>7. \A t \in Registered' : JobsOf(t)' = JobsOf(t)
  BY <1>2 DEF Registered
<1> QED BY <1>5, <1>6, <1>7 DEF SchedulesInv

LEMMA RegisterScheduleKeeps ==
  ASSUME SchedulesInv, NEW s \in Schedule, NEW p \in ClientSpec, RegisterSchedule(s, p)
  PROVE  SchedulesInv'
<1> PICK e : e = [schedule[s] EXCEPT !.status = "active", !.spec = p, !.next = p.first]
  OBVIOUS
<1>1. schedule[s] \in SchedRow /\ p.first \in Nat
  BY ScheduleAssumption DEF SchedulesInv, SchedulesTyped, ScheduleSpec, Instant
<1>2. e \in SchedRow /\ e.status = "active" /\ e.spec = p /\ e.next = p.first
  BY <1>1 DEF SchedRow
<1>3. Record(e) \in SchedRow /\ Record(e).status = "active" /\ Record(e).spec = p
      /\ Record(e).next = p.first
  BY <1>2, RecordedRow
<1>4. JobsOf(s) = {}
  BY DEF RegisterSchedule, JobsOf, SchedulesInv, SchedulesTyped, Registered
<1>5. schedule' = [schedule EXCEPT ![s] = Record(e)] /\ UNCHANGED <<clock, job>>
  BY DEF RegisterSchedule
<1> QED BY <1>1, <1>3, <1>4, <1>5, RowChanges

LEMMA SetPausedKeeps ==
  ASSUME SchedulesInv, NEW s \in Schedule, NEW paused \in BOOLEAN, NEW v, SetPaused(s, paused, v)
  PROVE  SchedulesInv'
<1> PICK e : e = [schedule[s] EXCEPT !.status = IF paused THEN "paused" ELSE "active"]
  OBVIOUS
<1>1. schedule[s] \in SchedRow /\ s \in Registered /\ schedule[s].spec \in ClientSpec
      /\ schedule[s].next \in Nat /\ schedule[s].status # "completed"
  BY DEF SetPaused, SchedulesInv, SchedulesTyped, Registered
<1>2. e \in SchedRow /\ e.status \in {"active", "paused"} /\ e.spec = schedule[s].spec
      /\ e.next = schedule[s].next
  BY <1>1 DEF SchedRow
<1>3. Record(e) \in SchedRow /\ Record(e).status = e.status /\ Record(e).spec = e.spec
      /\ Record(e).next = e.next
  BY <1>2, RecordedRow
<1>4. schedule' = [schedule EXCEPT ![s] = Record(e)] /\ UNCHANGED job /\ clock' = clock
  BY DEF SetPaused
<1>5. Record(e).status # "absent" /\ Record(e).spec \in ClientSpec /\ Record(e).next \in Nat
  BY <1>1, <1>2, <1>3
<1>6. Record(e).spec = schedule[s].spec /\ Record(e).next = schedule[s].next
  BY <1>2, <1>3
<1> QED BY <1>1, <1>3, <1>4, <1>5, <1>6, RowChanges, Zenon

LEMMA JobEndsKeeps ==
  ASSUME SchedulesInv, NEW k \in DOMAIN job, JobEnds(k) PROVE SchedulesInv'
<1>1. UNCHANGED <<clock, schedule>> /\ DOMAIN job' = DOMAIN job
      /\ job' \in [DOMAIN job -> JobRow] /\ \A l \in DOMAIN job : job'[l].cause = job[l].cause
  BY DEF JobEnds, JobRow, SchedulesInv, SchedulesTyped
<1>2. Registered' = Registered /\ \A s : JobsOf(s)' = JobsOf(s)
  BY <1>1 DEF Registered, JobsOf
<1> QED BY <1>1, <1>2 DEF SchedulesInv, SchedulesTyped

LEMMA TickKeeps == ASSUME SchedulesInv, Tick PROVE SchedulesInv'
<1>1. clock' \in 0..MaxClock /\ UNCHANGED <<schedule, job>>
  BY ScheduleAssumption DEF Tick, SchedulesInv, SchedulesTyped, Instant
<1>2. Registered' = Registered /\ \A s : JobsOf(s)' = JobsOf(s)
  BY <1>1 DEF Registered, JobsOf
<1> QED BY <1>1, <1>2 DEF SchedulesInv, SchedulesTyped

\* An evaluation goes on to an occurrence after now, or ends the schedule.
LEMMA EvaluatedRow ==
  ASSUME NEW r \in SchedRow, r.spec \in ClientSpec, r.status = "active", r.next \in Nat,
         NEW now \in 0..MaxClock
  PROVE  /\ Evaluated(r, now) \in SchedRow /\ Evaluated(r, now).spec = r.spec
         /\ Evaluated(r, now).status # "absent" /\ Evaluated(r, now).next \in Nat
         /\ Evaluated(r, now).last = now
         /\ \/ Evaluated(r, now).status = "completed"
            \/ /\ Evaluated(r, now).next > now
               /\ Evaluated(r, now).next \in Calendar(r.spec, Evaluated(r, now).next)
<1> PICK following : following = NextOccurrence(r.spec, now)
  OBVIOUS
<1>0. now \in Nat /\ now \in Int
  BY ScheduleAssumption DEF Instant
<1>1. CASE following = NoValue
  <2> PICK e : e = [r EXCEPT !.last = now, !.status = "completed"]
    OBVIOUS
  <2>1. e \in SchedRow /\ e.status = "completed" /\ e.spec = r.spec /\ e.next = r.next
        /\ e.last = now
    BY <1>0 DEF SchedRow
  <2>2. Evaluated(r, now) = Record(e)
    BY <1>1 DEF Evaluated
  <2> QED BY <2>1, <2>2, RecordedRow
<1>2. CASE following # NoValue
  <2> PICK e : e = [r EXCEPT !.last = now, !.next = following]
    OBVIOUS
  <2>1. following \in Nat /\ following > now /\ following \in Calendar(r.spec, following)
    BY <1>0, <1>2, NextIsOccurrence
  <2>2. e \in SchedRow /\ e.status = "active" /\ e.spec = r.spec /\ e.next = following
        /\ e.last = now
    BY <1>0, <2>1 DEF SchedRow
  <2>3. Evaluated(r, now) = Record(e)
    BY <1>2 DEF Evaluated
  <2> QED BY <2>1, <2>2, <2>3, RecordedRow
<1> QED BY <1>1, <1>2

\* A fire-once schedule that was due fires at most now, after all that it fired before.
LEMMA OneMore ==
  ASSUME NEW r \in SchedRow, NEW e \in SchedRow, NEW now \in 0..MaxClock, NEW fired, NEW more,
         r.spec \in ClientSpec, r.status = "active", r.next \in Nat, r.next <= now,
         e.spec = r.spec, e.next \in Nat,
         e.status = "completed" \/ (e.next > now /\ e.next \in Calendar(r.spec, e.next)),
         \A k \in fired : k[2] \in Int,
         OneForAllMissed(r, fired),
         \A k \in more : k \in fired \/ k[2] = now
  PROVE  OneForAllMissed(e, more)
<1> SUFFICES ASSUME r.spec.policy = "fire_once" PROVE OneForAllMissed(e, more)
  BY DEF OneForAllMissed
<1>1. now \in Int /\ r.spec \in ScheduleSpec
  BY ScheduleAssumption DEF Instant
<1>2. \A k \in fired : k[2] < r.next /\ k[2] < now /\ r.next \in Calendar(r.spec, now)
  BY <1>1, CalendarGrows DEF OneForAllMissed
<1>3. ASSUME NEW k \in more, e.status # "completed"
      PROVE  k[2] < e.next /\ e.next \in Calendar(e.spec, e.next)
  BY <1>1, <1>2, <1>3
<1>4. ASSUME NEW j \in more, NEW k \in more, j[2] < k[2]
      PROVE  \E u \in Calendar(e.spec, k[2]) : j[2] < u
  <2>1. CASE j \in fired /\ k \in fired
    BY <1>4, <2>1 DEF OneForAllMissed
  <2>2. CASE j \in fired /\ k[2] = now
    BY <1>2, <2>2
  <2>3. CASE j[2] = now
    BY <1>1, <1>2, <1>4, <2>3
  <2> QED BY <2>1, <2>2, <2>3
<1> QED BY <1>3, <1>4 DEF OneForAllMissed

LEMMA DispatchKeeps ==
  ASSUME SchedulesInv, NEW now \in 0..MaxClock, Dispatch(now) PROVE SchedulesInv'
<1>1. PICK B \in Batches(now) \ {{}} :
        /\ job' = [k \in DOMAIN job \cup {q.key : q \in New(Requests(B, now))} |->
                     IF k \in DOMAIN job THEN job[k]
                     ELSE [cause |-> (CHOOSE q \in New(Requests(B, now)) : q.key = k).cause,
                           createdAt |-> now, status |-> "live"]]
        /\ schedule' = [s \in Schedule |->
                          IF s \in B THEN Evaluated(schedule[s], now) ELSE schedule[s]]
        /\ UNCHANGED clock
  BY DEF Dispatch
<1>2. \A s \in B : s \in Schedule /\ schedule[s].status = "active" /\ schedule[s].next <= now
                   /\ s \in Registered
  BY DEF Batches, Due, Registered
<1>3. \A s \in B : /\ schedule[s] \in SchedRow /\ schedule[s].spec \in ClientSpec
                   /\ schedule[s].next \in Nat
  BY <1>2 DEF SchedulesInv, SchedulesTyped
<1>4. ASSUME NEW k \in DOMAIN job'
      PROVE  \/ k \in DOMAIN job /\ job'[k] = job[k]
             \/ \E s \in B : \E u \in DueOccurrences(schedule[s].spec, now) :
                  k = <<schedule[s].spec.prefix, u>> /\ job'[k].cause = s /\ job'[k] \in JobRow
  <2>1. CASE k \in DOMAIN job
    BY <1>1, <2>1
  <2>2. CASE k \notin DOMAIN job
    <3>1. \E q \in New(Requests(B, now)) : q.key = k
      BY <1>1, <2>2
    <3>2. PICK e : /\ e = CHOOSE q \in New(Requests(B, now)) : q.key = k
                   /\ e \in New(Requests(B, now)) /\ e.key = k
      BY <3>1
    <3>3. job'[k] = [cause |-> e.cause, createdAt |-> now, status |-> "live"]
      BY <1>1, <1>4, <2>2, <3>2
    <3>4. PICK s \in B :
            e \in {[key |-> <<schedule[s].spec.prefix, u>>, cause |-> s] :
                     u \in DueOccurrences(schedule[s].spec, now)}
      BY <3>2, Zenon DEF New, Requests
    <3>5. PICK u \in DueOccurrences(schedule[s].spec, now) :
            e = [key |-> <<schedule[s].spec.prefix, u>>, cause |-> s]
      BY <3>4
    <3>6. job'[k] \in JobRow /\ job'[k].cause = s
      BY <1>2, <3>3, <3>5, ScheduleAssumption DEF JobRow, Instant
    <3>7. k = <<schedule[s].spec.prefix, u>>
      BY <3>2, <3>5
    <3> QED BY <3>3, <3>4, <3>5, <3>6, <3>7
  <2> QED BY <2>1, <2>2
<1>5. /\ \A s \in B : schedule'[s] = Evaluated(schedule[s], now)
      /\ \A s \in Schedule : s \notin B => schedule'[s] = schedule[s]
      /\ schedule' \in [Schedule -> SchedRow]
  BY <1>1, <1>2, <1>3, EvaluatedRow DEF SchedulesInv, SchedulesTyped
<1>6. /\ \A s \in Registered : schedule'[s].spec = schedule[s].spec
      /\ Registered' = Registered
  BY <1>2, <1>3, <1>5, EvaluatedRow DEF Registered
<1>7. SchedulesTyped'
  <2>1. \A s \in Registered : schedule'[s].spec \in ClientSpec /\ schedule'[s].next \in Nat
    BY <1>2, <1>3, <1>5, EvaluatedRow DEF SchedulesInv, SchedulesTyped, Registered
  <2>2. ASSUME NEW k \in DOMAIN job'
        PROVE  /\ job'[k] \in JobRow /\ job'[k].cause \in Registered
               /\ k = <<schedule'[job'[k].cause].spec.prefix, k[2]>> /\ k[2] \in Int
    <3>1. CASE k \in DOMAIN job /\ job'[k] = job[k]
      BY <1>6, <3>1 DEF SchedulesInv, SchedulesTyped
    <3>2. CASE ~(k \in DOMAIN job /\ job'[k] = job[k])
      <4>0. PICK s \in B : \E u \in DueOccurrences(schedule[s].spec, now) :
              k = <<schedule[s].spec.prefix, u>> /\ job'[k].cause = s /\ job'[k] \in JobRow
        BY <1>4, <3>2
      <4>1. PICK u \in DueOccurrences(schedule[s].spec, now) :
              k = <<schedule[s].spec.prefix, u>> /\ job'[k].cause = s /\ job'[k] \in JobRow
        BY <4>0
      <4>2. u \in Int
        BY <1>3, <4>1, Fired
      <4> QED BY <1>2, <1>6, <4>1, <4>2
    <3> QED BY <3>1, <3>2
  <2>3. job' \in [DOMAIN job' -> JobRow]
    BY <1>1, <2>2
  <2>4. clock' \in 0..MaxClock
    BY <1>1 DEF SchedulesInv, SchedulesTyped
  <2> QED BY <1>5, <1>6, <2>1, <2>2, <2>3, <2>4 DEF SchedulesTyped
<1>8. ASSUME NEW s \in Registered, s \notin B
      PROVE  OneForAllMissed(schedule'[s], JobsOf(s)') /\ OnTheirDays(schedule'[s], JobsOf(s)')
  <2>1. JobsOf(s)' \subseteq JobsOf(s)
    BY <1>4, <1>8 DEF JobsOf
  <2>2. schedule'[s] = schedule[s]
    BY <1>5, <1>8 DEF Registered
  <2> QED BY <1>8, <2>1, <2>2 DEF SchedulesInv, OneForAllMissed, OnTheirDays
<1>9. ASSUME NEW s \in B
      PROVE  OneForAllMissed(schedule'[s], JobsOf(s)') /\ OnTheirDays(schedule'[s], JobsOf(s)')
  <2>1. ASSUME NEW k \in JobsOf(s)', k \notin JobsOf(s)
        PROVE  k[2] \in DueOccurrences(schedule[s].spec, now)
    BY <1>4, <2>1 DEF JobsOf
  <2>2. \A k \in JobsOf(s) : k[2] \in Int
    BY DEF JobsOf, SchedulesInv, SchedulesTyped
  <2>3. OneForAllMissed(schedule'[s], JobsOf(s)')
    <3> SUFFICES ASSUME schedule[s].spec.policy = "fire_once"
                 PROVE  OneForAllMissed(schedule'[s], JobsOf(s)')
      BY <1>2, <1>6 DEF OneForAllMissed
    <3>1. \A k \in JobsOf(s)' : k \in JobsOf(s) \/ k[2] = now
      BY <1>3, <2>1, Fired
    <3>2. OneForAllMissed(schedule[s], JobsOf(s))
      BY <1>2 DEF SchedulesInv
    <3>3. /\ schedule'[s] \in SchedRow /\ schedule'[s].spec = schedule[s].spec
          /\ schedule'[s].next \in Nat
          /\ \/ schedule'[s].status = "completed"
             \/ /\ schedule'[s].next > now
                /\ schedule'[s].next \in Calendar(schedule[s].spec, schedule'[s].next)
      BY <1>2, <1>3, <1>5, EvaluatedRow
    <3> QED BY <1>2, <1>3, <2>2, <3>1, <3>2, <3>3, OneMore
  <2>4. OnTheirDays(schedule'[s], JobsOf(s)')
    BY <1>2, <1>3, <1>6, <2>1, Fired DEF SchedulesInv, OnTheirDays
  <2> QED BY <2>3, <2>4
<1> QED BY <1>6, <1>7, <1>8, <1>9 DEF SchedulesInv

LEMMA SchedulesStep == ASSUME SchedulesInv, [NextSchedules]_scheduleVars PROVE SchedulesInv'
<1>1. CASE UNCHANGED scheduleVars
  <2>1. Registered' = Registered /\ \A s : JobsOf(s)' = JobsOf(s)
    BY <1>1 DEF scheduleVars, Registered, JobsOf
  <2> QED BY <1>1, <2>1 DEF scheduleVars, SchedulesInv, SchedulesTyped
<1>2. ASSUME NEW now \in Max({0, clock - Skew})..clock, Dispatch(now) PROVE SchedulesInv'
  <2>1. clock \in Nat /\ clock <= MaxClock /\ MaxClock \in Nat /\ Skew \in Nat
    BY ScheduleAssumption DEF SchedulesInv, SchedulesTyped, Instant
  <2>2. Max({0, clock - Skew}) \in Int /\ Max({0, clock - Skew}) >= 0
    BY <2>1, Later
  <2>3. now \in 0..MaxClock
    BY <2>1, <2>2
  <2> QED BY <1>2, <2>3, DispatchKeeps
<1> QED BY <1>1, <1>2, RegisterScheduleKeeps, SetPausedKeeps, JobEndsKeeps, TickKeeps DEF NextSchedules

\* No occurrence fires twice: a fire-once schedule makes one job for all that it missed, and a
\* daily one that catches up one for a local day, whatever clocks the dispatchers read
\* (dispatch_due_schedules, due_occurrences, next_occurrence).
THEOREM FireOncePerWindowHolds == SchedulesSpec => []FireOncePerWindow
<1>1. ASSUME SchedulesInv PROVE FireOncePerWindow
  <2> SUFFICES ASSUME NEW s \in Registered, NEW j \in JobsOf(s), NEW k \in JobsOf(s)
               PROVE  LET p == schedule[s].spec
                      IN  /\ p.policy = "fire_once" /\ j[2] < k[2] => \E u \in Calendar(p, k[2]) : j[2] < u
                          /\ p.kind = "daily_local" /\ p.policy = "catch_up"
                             /\ DayOf(p.zone, j[2]) = DayOf(p.zone, k[2]) => j = k
    BY DEF FireOncePerWindow
  <2> PICK p : p = schedule[s].spec
    OBVIOUS
  <2>1. p.policy = "fire_once" /\ j[2] < k[2] => \E u \in Calendar(p, k[2]) : j[2] < u
    BY <1>1 DEF SchedulesInv, OneForAllMissed
  <2>2. ASSUME p.kind = "daily_local", p.policy = "catch_up", DayOf(p.zone, j[2]) = DayOf(p.zone, k[2])
        PROVE  j = k
    <3>1. j[2] \in ResolveLocal(p, DayOf(p.zone, j[2])) /\ k[2] \in ResolveLocal(p, DayOf(p.zone, k[2]))
      BY <1>1, <2>2 DEF SchedulesInv, OnTheirDays
    <3>2. j[2] = k[2]
      BY <2>2, <3>1, ResolvedOnce
    <3>3. j = <<p.prefix, j[2]>> /\ k = <<p.prefix, k[2]>>
      BY <1>1 DEF SchedulesInv, SchedulesTyped, JobsOf
    <3> QED BY <3>2, <3>3
  <2> QED BY <2>1, <2>2
<1> QED BY <1>1, SchedulesStart, SchedulesStep, PTL DEF SchedulesSpec

-----------------------------------------------------------------------------
(* Schedules: catch-up *)

LEMMA ResolvedOnItsDay ==
  ASSUME NEW p \in ClientSpec, p.kind = "daily_local", NEW u \in Instant, NEW v \in Instant,
         NEW d \in DayOf(p.zone, u)..DayOf(p.zone, v), NEW w \in ResolveLocal(p, d)
  PROVE  w \in Instant /\ DayOf(p.zone, w) = d
<1>1. w \in Instant
  BY ScheduleAssumption, ResolvedIsInstant
<1>2. DayOf(p.zone, w) = d
  BY CalendarAssumption
<1> QED BY <1>1, <1>2

\* Looking back CatchUp days finds the newest CatchUp occurrences.
LEMMA DailyWindow ==
  ASSUME NEW p \in ClientSpec, p.kind = "daily_local", NEW now \in 0..MaxClock,
         NEW u \in Newest(CatchUp, Calendar(p, now)), ~OutOfReach(p, u, now),
         NEW back, back = Max({DayOf(p.zone, p.first), DayOf(p.zone, now) - CatchUp})
  PROVE  u \in Newest(CatchUp, Daily(p, now, back..DayOf(p.zone, now)))
<1> DEFINE day(v) == DayOf(p.zone, v)
           today == day(now)
           S == Calendar(p, now)
           D == Daily(p, now, back..today)
<1>0. /\ now \in Instant /\ p.first \in Instant /\ now \in Nat /\ p.first \in Nat
      /\ Instant \subseteq Nat /\ CatchUp \in Nat \ {0}
  BY ScheduleAssumption DEF ScheduleSpec, Instant
<1>1. \A v \in Instant : day(v) \in Int
  BY DaysAreNumbers
<1>2. S = Daily(p, now, {day(v) : v \in Instant})
  BY DEF Calendar
<1>3. back \in Int /\ back \in {day(p.first), today - CatchUp} /\ back >= day(p.first)
  <2>1. day(p.first) \in Int /\ today \in Int /\ CatchUp \in Int
    BY <1>0, <1>1
  <2>2. back = Max({day(p.first), today - CatchUp})
    OBVIOUS
  <2> HIDE DEF day, today
  <2>3. today - CatchUp \in Int
    BY <2>1
  <2> QED BY <2>1, <2>2, <2>3, Later
<1>4. \A v, w \in Instant : v <= w => day(v) <= day(w)
  BY CalendarAssumption
<1> HIDE DEF day, today, S, D
<1>5. ASSUME NEW v \in S
      PROVE  v \in Instant /\ p.first <= v /\ v <= now /\ v \in ResolveLocal(p, day(v))
  <2>1. PICK w \in Instant : v \in ResolveLocal(p, day(w))
    BY <1>2, <1>5 DEF Daily
  <2>2. v \in Instant /\ day(v) = day(w)
    BY <1>1, <2>1, ResolvedOnItsDay DEF day
  <2>3. v \in p.first..now
    BY <1>2, <1>5 DEF Daily
  <2> QED BY <1>0, <2>1, <2>2, <2>3
<1>6. ASSUME NEW d \in day(p.first)..today, NEW v \in ResolveLocal(p, d), p.first <= v, v <= now
      PROVE  v \in S
  <2>1. v \in Instant /\ day(v) = d
    BY <1>0, <1>6, ResolvedOnItsDay DEF day, today
  <2>2. v \in p.first..now
    BY <1>0, <1>6, <2>1
  <2> QED BY <1>2, <1>6, <2>1, <2>2 DEF Daily
<1>7. D \subseteq S
  <2> SUFFICES ASSUME NEW v \in D PROVE v \in S
    OBVIOUS
  <2>1. PICK d \in back..today : v \in ResolveLocal(p, d)
    BY DEF D, Daily
  <2>2. v \in p.first..now
    BY DEF D, Daily
  <2>3. d \in day(p.first)..today
    BY <1>0, <1>1, <1>3 DEF today
  <2> QED BY <1>0, <1>6, <2>1, <2>2, <2>3
<1>8. IsFiniteSet(S)
  <2>1. ASSUME NEW v \in S PROVE v \in p.first..now
    <3>1. v \in Nat /\ p.first <= v /\ v <= now
      BY <1>0, <1>5, <2>1
    <3> QED BY <1>0, <3>1
  <2>2. IsFiniteSet(p.first..now)
    BY <1>0, FS_Interval
  <2> QED BY <2>1, <2>2, FS_Subset
<1> DEFINE Newer == {v \in S : v > u}
<1>9. u \in S /\ Cardinality(Newer) < CatchUp /\ IsFiniteSet(Newer)
  BY <1>8, FS_Subset DEF Newest, S
<1>10. /\ u \in Instant /\ u \in Nat /\ p.first <= u /\ u <= now /\ u \in ResolveLocal(p, day(u))
       /\ today \in Int /\ day(u) \in Int
  BY <1>0, <1>1, <1>5, <1>9 DEF today
<1>11. today - CatchUp <= day(u)
  <2> SUFFICES ASSUME day(u) < today - CatchUp PROVE FALSE
    BY <1>0, <1>10
  <2>0. \A d \in (day(u) + 1)..(today - 1) : ResolveLocal(p, d) # {}
    BY DEF OutOfReach, day, today
  <2>1. ASSUME NEW i \in 1..CatchUp
        PROVE  \E v \in ResolveLocal(p, today - i) : v \in Newer /\ day(v) = today - i
    <3>1. today \in Int /\ day(u) \in Int /\ day(p.first) \in Int /\ u \in Instant
          /\ day(p.first) <= day(u)
      BY <1>0, <1>1, <1>4, <1>5, <1>9 DEF today
    <3>2. today - i \in (day(u) + 1)..(today - 1) /\ today - i \in day(p.first)..today
          /\ today - i \in day(u)..today
      BY <1>0, <3>1
    <3>3. PICK v : v \in ResolveLocal(p, today - i)
      BY <2>0, <3>2
    <3>4. v \in Instant /\ day(v) = today - i
      BY <1>0, <3>1, <3>2, <3>3, ResolvedOnItsDay DEF day, today
    <3>5. v > u
      BY <1>0, <1>4, <3>1, <3>2, <3>4
    <3>6. v <= now
      BY <1>0, <1>4, <3>1, <3>2, <3>4 DEF today
    <3>7. p.first <= v
      BY <1>0, <1>5, <1>9, <3>1, <3>4, <3>5
    <3> QED BY <1>6, <3>2, <3>3, <3>4, <3>5, <3>6, <3>7
  <2> DEFINE f == [i \in 1..CatchUp |-> CHOOSE v \in ResolveLocal(p, today - i) :
                                          v \in Newer /\ day(v) = today - i]
  <2>2. \A i \in 1..CatchUp : f[i] \in Newer /\ day(f[i]) = today - i
    BY <2>1
  <2>3. f \in [1..CatchUp -> Newer]
    BY <2>2
  <2> HIDE DEF f, Newer
  <2>4. \A i, j \in 1..CatchUp : f[i] = f[j] => i = j
    BY <1>0, <1>1, <2>2 DEF today
  <2>5. f \in Injection(1..CatchUp, Newer)
    BY <2>3, <2>4 DEF Injection, IsInjective
  <2>6. IsFiniteSet(1..CatchUp) /\ Cardinality(1..CatchUp) = CatchUp
    BY <1>0, FS_Interval
  <2>7. Cardinality(1..CatchUp) <= Cardinality(Newer)
    BY <1>9, <2>5, <2>6, FS_Injection
  <2> QED BY <1>0, <1>9, <2>6, <2>7, FS_CardinalityType
<1>12. u \in D
  <2>1. u \in Instant /\ u \in p.first..now /\ u \in ResolveLocal(p, day(u))
    BY <1>0, <1>10
  <2>2. day(p.first) <= day(u) /\ day(u) <= today
    BY <1>0, <1>4, <1>5, <1>9 DEF today
  <2>3. day(u) \in back..today
    BY <1>0, <1>1, <1>3, <1>10, <1>11, <2>1, <2>2 DEF today
  <2> QED BY <2>1, <2>3 DEF D, Daily
<1>13. Cardinality({v \in D : v > u}) < CatchUp
  <2>1. {v \in D : v > u} \subseteq Newer
    BY <1>7
  <2>2. Cardinality({v \in D : v > u}) <= Cardinality(Newer)
    BY <1>9, <2>1, FS_Subset
  <2>3. Cardinality({v \in D : v > u}) \in Nat /\ Cardinality(Newer) \in Nat
    BY <1>9, <2>1, FS_Subset, FS_CardinalityType
  <2> QED BY <1>0, <1>9, <2>2, <2>3
<1> QED BY <1>12, <1>13 DEF Newest, D, today, day

\* The newest occurrences are due: none of them is further back than an evaluation looks.
LEMMA NewestAreDue ==
  ASSUME NEW p \in ClientSpec, p.policy = "catch_up", NEW now \in 0..MaxClock,
         NEW u \in Newest(CatchUp, Calendar(p, now)), ~OutOfReach(p, u, now)
  PROVE  u \in DueOccurrences(p, now)
<1>0. /\ p.kind \in {"once", "interval", "daily_local"} /\ p.first \in Int /\ now \in Int
      /\ u \in Calendar(p, now)
  BY ScheduleAssumption DEF ScheduleSpec, Instant, Newest
<1>1. ~(p.first > now)
  <2>1. CASE p.kind = "once"
    BY <1>0, <2>1 DEF Calendar
  <2>2. CASE p.kind = "interval"
    BY <1>0, <2>2 DEF Calendar
  <2>3. CASE p.kind = "daily_local"
    BY <1>0, <2>3 DEF Calendar, Daily
  <2> QED BY <1>0, <2>1, <2>2, <2>3
<1>2. u \in AllDue(p, now)
  <2>1. CASE p.kind = "once"
    BY <1>0, <1>1, <2>1 DEF Calendar, AllDue
  <2>2. CASE p.kind = "interval"
    <3>1. Calendar(p, now) = Every(p, now)
      BY <2>2 DEF Calendar, Every
    <3> QED BY <1>1, <2>2, <3>1 DEF AllDue
  <2>3. CASE p.kind = "daily_local"
    <3>1. PICK back : back = Max({DayOf(p.zone, p.first), DayOf(p.zone, now) - CatchUp})
      OBVIOUS
    <3>2. u \in Newest(CatchUp, Daily(p, now, back..DayOf(p.zone, now)))
      BY <2>3, <3>1, DailyWindow
    <3> QED BY <1>1, <2>3, <3>1, <3>2 DEF AllDue
  <2> QED BY <1>0, <2>1, <2>2, <2>3
<1> QED BY <1>2 DEF DueOccurrences

\* The row of a schedule with the jobs made for it: nothing it had to catch up is missing.
CaughtUp(r, made) ==
  /\ r.status = "absent" => r.last = NoValue
  /\ r.status # "absent" /\ r.last # NoValue /\ r.spec.policy = "catch_up" =>
       \A u \in Newest(CatchUp, Calendar(r.spec, r.last)) :
         <<r.spec.prefix, u>> \in made \/ OutOfReach(r.spec, u, r.last)

AllCaughtUp == \A s \in Schedule : CaughtUp(schedule[s], JobsOf(s))

LEMMA CaughtUpStays ==
  ASSUME NEW r, NEW e, NEW made, NEW more, CaughtUp(r, made), made \subseteq more,
         e.last = r.last, \/ r.status = "absent" /\ e.status # "absent"
                          \/ e.spec = r.spec /\ (e.status = "absent" <=> r.status = "absent")
  PROVE  CaughtUp(e, more)
BY DEF CaughtUp

LEMMA RowStaysCaughtUp ==
  ASSUME SchedulesInv, AllCaughtUp, NEW s \in Schedule, NEW e, UNCHANGED job,
         schedule' = [schedule EXCEPT ![s] = e], e.last = schedule[s].last, e.status # "absent",
         schedule[s].status = "absent" \/ e.spec = schedule[s].spec
  PROVE  AllCaughtUp'
<1>1. schedule'[s] = e /\ \A t \in Schedule : t # s => schedule'[t] = schedule[t]
  BY DEF SchedulesInv, SchedulesTyped
<1> SUFFICES ASSUME NEW t \in Schedule PROVE CaughtUp(schedule'[t], JobsOf(t)')
  BY DEF AllCaughtUp
<1>2. JobsOf(t)' = JobsOf(t) /\ CaughtUp(schedule[t], JobsOf(t))
  BY DEF JobsOf, AllCaughtUp
<1>3. CASE t = s
  BY <1>1, <1>2, <1>3, CaughtUpStays
<1>4. CASE t # s
  BY <1>1, <1>2, <1>4
<1> QED BY <1>3, <1>4

LEMMA DispatchCatchesUp ==
  ASSUME SchedulesInv, AllCaughtUp, NEW now \in 0..MaxClock, Dispatch(now)
  PROVE  AllCaughtUp'
<1>1. PICK B \in Batches(now) \ {{}} :
        /\ NoneRefused(B, now)
        /\ job' = [k \in DOMAIN job \cup {q.key : q \in New(Requests(B, now))} |->
                     IF k \in DOMAIN job THEN job[k]
                     ELSE [cause |-> (CHOOSE q \in New(Requests(B, now)) : q.key = k).cause,
                           createdAt |-> now, status |-> "live"]]
        /\ schedule' = [s \in Schedule |->
                          IF s \in B THEN Evaluated(schedule[s], now) ELSE schedule[s]]
  BY DEF Dispatch
<1>2. \A s \in Schedule : JobsOf(s) \subseteq JobsOf(s)'
  BY <1>1 DEF JobsOf
<1> SUFFICES ASSUME NEW s \in Schedule PROVE CaughtUp(schedule'[s], JobsOf(s)')
  BY DEF AllCaughtUp
<1>3. CASE s \notin B
  <2>1. schedule'[s] = schedule[s]
    BY <1>1, <1>3
  <2> QED BY <1>2, <2>1, CaughtUpStays DEF AllCaughtUp
<1>4. CASE s \in B
  <2> PICK p : p = schedule[s].spec
    OBVIOUS
  <2>1. /\ schedule[s].status = "active" /\ schedule[s] \in SchedRow /\ p \in ClientSpec
        /\ schedule[s].spec = p /\ schedule[s].next \in Nat
    BY <1>1, <1>4 DEF Batches, Due, SchedulesInv, SchedulesTyped, Registered
  <2>2. schedule'[s].last = now /\ schedule'[s].spec = p /\ schedule'[s].status # "absent"
    BY <1>1, <1>4, <2>1, EvaluatedRow
  <2>3. ASSUME NEW u \in DueOccurrences(p, now) PROVE <<p.prefix, u>> \in JobsOf(s)'
    <3> DEFINE q == [key |-> <<p.prefix, u>>, cause |-> s]
    <3>1. q \in Requests(B, now)
      <4>1. q \in {[key |-> <<schedule[s].spec.prefix, o>>, cause |-> s] :
                     o \in DueOccurrences(schedule[s].spec, now)}
        BY <2>1
      <4> QED BY <1>4, <4>1, Zenon DEF Requests
    <3>2. CASE q.key \in DOMAIN job
      BY <1>1, <3>1, <3>2 DEF NoneRefused, SameRequest, JobsOf
    <3>3. CASE q.key \notin DOMAIN job
      <4>1. q \in New(Requests(B, now))
        BY <3>1, <3>3 DEF New
      <4>2. PICK e : /\ e = CHOOSE o \in New(Requests(B, now)) : o.key = q.key
                     /\ e \in New(Requests(B, now)) /\ e.key = q.key
        BY <4>1
      <4>3. e = q
        BY <1>1, <3>1, <4>2 DEF NoneRefused, SameRequest, New
      <4>4. q.key \in DOMAIN job'
        BY <1>1, <4>1
      <4>5. job'[q.key] = [cause |-> e.cause, createdAt |-> now, status |-> "live"]
        BY <1>1, <3>3, <4>2, <4>4
      <4> QED BY <4>3, <4>4, <4>5 DEF JobsOf
    <3> QED BY <3>2, <3>3
  <2> QED BY <2>1, <2>2, <2>3, NewestAreDue DEF CaughtUp
<1> QED BY <1>3, <1>4

LEMMA CatchUpStep ==
  ASSUME SchedulesInv, AllCaughtUp, [NextSchedules]_scheduleVars PROVE AllCaughtUp'
<1>1. CASE UNCHANGED scheduleVars
  BY <1>1 DEF scheduleVars, AllCaughtUp, JobsOf
<1>2. ASSUME NEW s \in Schedule, NEW p \in ClientSpec, RegisterSchedule(s, p) PROVE AllCaughtUp'
  <2> PICK e : e = [schedule[s] EXCEPT !.status = "active", !.spec = p, !.next = p.first]
    OBVIOUS
  <2>1. schedule[s] \in SchedRow /\ p.first \in Nat /\ schedule[s].status = "absent"
    BY <1>2, ScheduleAssumption
       DEF RegisterSchedule, SchedulesInv, SchedulesTyped, ScheduleSpec, Instant
  <2>2. e \in SchedRow /\ e.status = "active" /\ e.last = schedule[s].last
    BY <2>1 DEF SchedRow
  <2>3. Record(e).status = "active" /\ Record(e).last = schedule[s].last
    BY <2>2, RecordedRow
  <2>4. schedule' = [schedule EXCEPT ![s] = Record(e)] /\ UNCHANGED job
    BY <1>2 DEF RegisterSchedule
  <2> QED BY <2>1, <2>3, <2>4, RowStaysCaughtUp
<1>3. ASSUME NEW s \in Schedule, NEW paused \in BOOLEAN, NEW v, SetPaused(s, paused, v)
      PROVE  AllCaughtUp'
  <2> PICK e : e = [schedule[s] EXCEPT !.status = IF paused THEN "paused" ELSE "active"]
    OBVIOUS
  <2>1. schedule[s] \in SchedRow
    BY DEF SchedulesInv, SchedulesTyped
  <2>2. /\ e \in SchedRow /\ e.status # "absent" /\ e.spec = schedule[s].spec
        /\ e.last = schedule[s].last
    BY <2>1 DEF SchedRow
  <2>3. /\ Record(e).status # "absent" /\ Record(e).spec = schedule[s].spec
        /\ Record(e).last = schedule[s].last
    BY <2>2, RecordedRow
  <2>4. schedule' = [schedule EXCEPT ![s] = Record(e)] /\ UNCHANGED job
    BY <1>3 DEF SetPaused
  <2> QED BY <2>3, <2>4, RowStaysCaughtUp
<1>4. ASSUME NEW k \in DOMAIN job, JobEnds(k) PROVE AllCaughtUp'
  <2>1. schedule' = schedule /\ \A s : JobsOf(s) \subseteq JobsOf(s)'
    BY <1>4 DEF JobEnds, JobsOf, SchedulesInv, SchedulesTyped, JobRow
  <2> QED BY <2>1, CaughtUpStays DEF AllCaughtUp
<1>5. CASE Tick
  BY <1>5 DEF Tick, AllCaughtUp, JobsOf
<1>6. ASSUME NEW now \in Max({0, clock - Skew})..clock, Dispatch(now) PROVE AllCaughtUp'
  <2>1. clock \in Nat /\ clock <= MaxClock /\ MaxClock \in Nat /\ Skew \in Nat
    BY ScheduleAssumption DEF SchedulesInv, SchedulesTyped, Instant
  <2>2. Max({0, clock - Skew}) \in Int /\ Max({0, clock - Skew}) >= 0
    BY <2>1, Later
  <2>3. now \in 0..MaxClock
    BY <2>1, <2>2
  <2> QED BY <1>6, <2>3, DispatchCatchesUp
<1> QED BY <1>1, <1>2, <1>3, <1>4, <1>5, <1>6 DEF NextSchedules

\* However long nothing was dispatched, paused or refused, the newest CatchUp occurrences before
\* the last evaluation of a catch-up schedule each have a job of that schedule, but for those
\* that a day without an occurrence puts out of reach (dispatch_due_schedules, due_occurrences).
THEOREM CatchUpCompleteHolds == SchedulesSpec => []CatchUpComplete
<1>1. InitSchedules => AllCaughtUp
  BY DEF InitSchedules, AbsentSchedule, AllCaughtUp, CaughtUp
<1>2. SchedulesInv /\ AllCaughtUp /\ [NextSchedules]_scheduleVars => AllCaughtUp'
  BY CatchUpStep
<1>3. AllCaughtUp => CatchUpComplete
  BY DEF AllCaughtUp, CaughtUp, CatchUpComplete, Registered
<1> QED BY <1>1, <1>2, <1>3, SchedulesStart, SchedulesStep, PTL DEF SchedulesSpec

-----------------------------------------------------------------------------
(* Schedules: what fits the quotas goes through *)

\* Each of the newest n of a set of instants has its place among them.
LEMMA Places ==
  ASSUME NEW n \in Nat, NEW S \in SUBSET Int, IsFiniteSet(S)
  PROVE  \E place \in [Newest(n, S) -> 0..(n - 1)] :
           \A u, v \in Newest(n, S) : place[u] = place[v] => u = v
<1> DEFINE Newer(u) == {v \in S : v > u}
           place == [u \in Newest(n, S) |-> Cardinality(Newer(u))]
<1>1. \A u \in S : IsFiniteSet(Newer(u)) /\ Cardinality(Newer(u)) \in Nat
  BY FS_Subset, FS_CardinalityType
<1>2. place \in [Newest(n, S) -> 0..(n - 1)]
  <2>1. \A u \in Newest(n, S) : u \in S /\ Cardinality(Newer(u)) < n
    BY DEF Newest
  <2>2. ASSUME NEW u \in Newest(n, S) PROVE Cardinality(Newer(u)) \in 0..(n - 1)
    <3> PICK c : c = Cardinality(Newer(u))
      OBVIOUS
    <3>1. c \in Nat /\ c < n
      BY <1>1, <2>1
    <3> QED BY <3>1
  <2> QED BY <2>2
<1>3. ASSUME NEW u \in S, NEW v \in S, Cardinality(Newer(u)) = Cardinality(Newer(v)), u < v
      PROVE  FALSE
  <2>0. u \in Int /\ v \in Int /\ \A x \in S : x \in Int
    OBVIOUS
  <2>1. Newer(v) \in SUBSET Newer(u) /\ v \in Newer(u) /\ v \notin Newer(v)
    <3>1. u < v
      BY <1>3
    <3>2. \A x \in S : x > v => x > u
      BY <2>0, <3>1
    <3>3. v > u /\ ~(v > v)
      BY <2>0, <3>1
    <3> QED BY <3>2, <3>3
  <2>2. IsFiniteSet(Newer(u))
    BY <1>1
  <2> HIDE DEF Newer
  <2> QED BY <1>3, <2>1, <2>2, FS_Subset
<1>4. \A u, v \in Newest(n, S) : place[u] = place[v] => u = v
  <2> SUFFICES ASSUME NEW u \in Newest(n, S), NEW v \in Newest(n, S), place[u] = place[v]
               PROVE  u = v
    OBVIOUS
  <2>1. u \in S /\ v \in S /\ Cardinality(Newer(u)) = Cardinality(Newer(v))
    BY DEF Newest
  <2> HIDE DEF Newer, place
  <2> QED BY <1>3, <2>1
<1> QED BY <1>2, <1>4

\* An evaluation asks for CatchUp jobs at most.
LEMMA DuePlaces ==
  ASSUME NEW p \in ClientSpec, NEW now \in 0..MaxClock
  PROVE  \E place \in [DueOccurrences(p, now) -> 0..(CatchUp - 1)] :
           \A u, v \in DueOccurrences(p, now) : place[u] = place[v] => u = v
<1>0. /\ CatchUp \in Nat \ {0} /\ p.first \in Int /\ now \in Int
      /\ p.kind \in {"once", "interval", "daily_local"} /\ p.policy \in {"skip", "fire_once", "catch_up"}
  BY ScheduleAssumption DEF ScheduleSpec, Instant
<1>1. ASSUME NEW x, NEW S, S \subseteq {x}
      PROVE  \E place \in [S -> 0..(CatchUp - 1)] : \A u, v \in S : place[u] = place[v] => u = v
  <2>1. [u \in S |-> 0] \in [S -> 0..(CatchUp - 1)]
    BY <1>0
  <2> QED BY <1>1, <2>1
<1>2. ASSUME NEW S \in SUBSET (p.first..now)
      PROVE  \E place \in [Newest(CatchUp, S) -> 0..(CatchUp - 1)] :
               \A u, v \in Newest(CatchUp, S) : place[u] = place[v] => u = v
  <2>1. IsFiniteSet(S)
    BY <1>0, FS_Interval, FS_Subset
  <2>2. S \in SUBSET Int
    BY <1>0
  <2> QED BY <1>0, <2>1, <2>2, Places
<1>3. CASE p.policy # "catch_up" \/ AllDue(p, now) = {}
  <2>1. DueOccurrences(p, now) \subseteq {now}
    BY <1>0, <1>3 DEF DueOccurrences
  <2> QED BY <1>1, <2>1
<1>4. CASE p.policy = "catch_up" /\ AllDue(p, now) # {}
  <2>0. DueOccurrences(p, now) = AllDue(p, now) /\ ~(p.first > now)
    BY <1>4 DEF DueOccurrences, AllDue
  <2>1. CASE p.kind = "once"
    <3>1. DueOccurrences(p, now) \subseteq {p.first}
      BY <2>0, <2>1 DEF AllDue
    <3> QED BY <1>1, <3>1
  <2>2. CASE p.kind = "interval"
    <3>1. DueOccurrences(p, now) = Newest(CatchUp, Every(p, now))
      BY <2>0, <2>2 DEF AllDue
    <3>2. Every(p, now) \in SUBSET (p.first..now)
      BY DEF Every
    <3> QED BY <1>2, <3>1, <3>2
  <2>3. CASE p.kind = "daily_local"
    <3> DEFINE D == Daily(p, now, Max({DayOf(p.zone, p.first), DayOf(p.zone, now) - CatchUp})
                                    ..DayOf(p.zone, now))
    <3>1. DueOccurrences(p, now) = Newest(CatchUp, D)
      BY <2>0, <2>3 DEF AllDue
    <3>2. D \in SUBSET (p.first..now)
      BY DEF Daily
    <3> HIDE DEF D
    <3> QED BY <1>2, <3>1, <3>2
  <2> QED BY <1>0, <2>1, <2>2, <2>3
<1> QED BY <1>3, <1>4

\* What a batch asks for, CatchUp jobs at most for each of its schedules.
LEMMA AskedForFew ==
  ASSUME SchedulesInv, NEW B \in SUBSET Due(clock), NEW new \in SUBSET Requests(B, clock)
  PROVE  /\ IsFiniteSet(new) /\ Cardinality(new) \in Nat /\ Cardinality(B) \in Nat
         /\ Cardinality(new) <= Cardinality(B) * CatchUp
<1> DEFINE asks(s) == DueOccurrences(schedule[s].spec, clock)
           Seat(s, place) == /\ place \in [asks(s) -> 0..(CatchUp - 1)]
                              /\ \A u, v \in asks(s) : place[u] = place[v] => u = v
           at(s) == CHOOSE place : Seat(s, place)
           f == [q \in new |-> <<q.cause, at(q.cause)[q.key[2]]>>]
           T == B \X (0..(CatchUp - 1))
<1>0. CatchUp \in Nat \ {0} /\ IsFiniteSet(B) /\ Cardinality(B) \in Nat
  BY ScheduleAssumption, FS_Subset, FS_CardinalityType DEF Due
<1>1. \A s \in B : s \in Schedule /\ schedule[s].spec \in ClientSpec
  BY DEF Due, SchedulesInv, SchedulesTyped, Registered
<1>2. ASSUME NEW s \in B PROVE Seat(s, at(s))
  <2>1. clock \in 0..MaxClock
    BY DEF SchedulesInv, SchedulesTyped
  <2>2. \E place : Seat(s, place)
    BY <1>1, <2>1, DuePlaces
  <2> HIDE DEF Place
  <2> QED BY <2>2
<1>3. ASSUME NEW q \in new
      PROVE  \E s \in B : \E u \in asks(s) : q = [key |-> <<schedule[s].spec.prefix, u>>, cause |-> s]
  <2>1. \E s \in B : q \in {[key |-> <<schedule[s].spec.prefix, u>>, cause |-> s] : u \in asks(s)}
    BY DEF Requests
  <2> QED BY <2>1
<1>4. \A q \in new : /\ q.cause \in B /\ q.key[2] \in asks(q.cause)
                     /\ q = [key |-> <<schedule[q.cause].spec.prefix, q.key[2]>>, cause |-> q.cause]
  <2> HIDE DEF asks
  <2> QED BY <1>3
<1> HIDE DEF asks, at
<1>5. \A q \in new : f[q] \in T
  BY <1>1, <1>2, <1>4
<1>6. f \in [new -> T]
  BY <1>5
<1>7. ASSUME NEW q \in new, NEW r \in new, f[q] = f[r] PROVE q = r
  <2>1. q.cause = r.cause /\ at(q.cause)[q.key[2]] = at(q.cause)[r.key[2]]
    BY <1>7
  <2>2. q.key[2] = r.key[2]
    BY <1>2, <1>4, <2>1
  <2> QED BY <1>4, <2>1, <2>2
<1>8. f \in Injection(new, T)
  <2> HIDE DEF f
  <2> QED BY <1>6, <1>7 DEF Injection, IsInjective
<1>9. IsFiniteSet(T) /\ Cardinality(T) = Cardinality(B) * CatchUp
  <2>1. IsFiniteSet(0..(CatchUp - 1)) /\ Cardinality(0..(CatchUp - 1)) = CatchUp
    BY <1>0, FS_Interval
  <2> QED BY <1>0, <2>1, FS_Product
<1> HIDE DEF f, T
<1> QED BY <1>0, <1>8, <1>9, FS_Injection, FS_CardinalityType

\* A dispatch is all or nothing, and yet nothing that piled up while it was refused or nobody
\* called refuses a batch of few enough schedules for ever: with earlier jobs ended, the minute
\* over and prefixes of their own it goes through (dispatch_due_schedules, enqueue).
THEOREM FittingDispatchProceedsHolds == SchedulesSpec => []FittingDispatchProceeds
<1>1. ASSUME SchedulesInv PROVE FittingDispatchProceeds
  <2> SUFFICES ASSUME Drained, NEW B \in Batches(clock),
                      Cardinality(B) * CatchUp <= Min({BacklogLimit, EnqueueLimit})
               PROVE  NoneRefused(B, clock)
    BY DEF FittingDispatchProceeds
  <2>1. Due(clock) \subseteq Registered
    BY DEF Due, Registered
  <2>2. B \in SUBSET Due(clock)
    BY DEF Batches
  <2>3. ASSUME NEW q \in Requests(B, clock)
        PROVE  q.cause \in Registered /\ q.key[1] = schedule[q.cause].spec.prefix
               /\ q = [key |-> q.key, cause |-> q.cause]
    <3>1. PICK s \in B : q \in {[key |-> <<schedule[s].spec.prefix, u>>, cause |-> s] :
                                  u \in DueOccurrences(schedule[s].spec, clock)}
      BY <2>3, Zenon DEF Requests
    <3> QED BY <2>1, <2>2, <3>1
  <2>4. SameRequest(Requests(B, clock))
    <3>1. ASSUME NEW q \in Requests(B, clock), q.key \in DOMAIN job PROVE job[q.key].cause = q.cause
      <4>1. /\ job[q.key].cause \in Registered
            /\ q.key = <<schedule[job[q.key].cause].spec.prefix, q.key[2]>>
        BY <1>1, <3>1 DEF SchedulesInv, SchedulesTyped
      <4>2. q.key[1] = schedule[job[q.key].cause].spec.prefix
        BY <4>1
      <4> QED BY <2>3, <4>1, <4>2 DEF Drained
    <3>2. ASSUME NEW p \in Requests(B, clock), NEW q \in Requests(B, clock), p.key = q.key PROVE p = q
      <4>1. p.cause = q.cause
        BY <2>3, <3>2 DEF Drained
      <4> QED BY <2>3, <3>2, <4>1
    <3> QED BY <3>1, <3>2 DEF SameRequest
  <2>5. QuotaLeft(New(Requests(B, clock)), clock)
    <3> PICK new : new = New(Requests(B, clock))
      OBVIOUS
    <3>1. new \in SUBSET Requests(B, clock)
      BY DEF New
    <3>2. Cardinality(new) \in Nat /\ Cardinality(new) <= Cardinality(B) * CatchUp
          /\ Cardinality(B) \in Nat /\ CatchUp \in Nat
      BY <1>1, <2>2, <3>1, AskedForFew, ScheduleAssumption
    <3>3. Cardinality(Unfinished) = 0 /\ Cardinality(AcceptedSince(clock)) = 0
      BY FS_EmptySet DEF Drained
    <3>4. /\ Min({BacklogLimit, EnqueueLimit}) <= BacklogLimit
          /\ Min({BacklogLimit, EnqueueLimit}) <= EnqueueLimit
          /\ Min({BacklogLimit, EnqueueLimit}) \in {BacklogLimit, EnqueueLimit}
          /\ BacklogLimit \in Nat /\ EnqueueLimit \in Nat
      <4>1. {BacklogLimit, EnqueueLimit} \in SUBSET Nat
        BY ScheduleAssumption
      <4> QED BY <4>1, Least
    <3>5. Cardinality(B) * CatchUp \in Nat
      BY <3>2
    <3> QED BY <3>2, <3>3, <3>4, <3>5 DEF QuotaLeft
  <2> QED BY <2>4, <2>5 DEF NoneRefused
<1> QED BY <1>1, SchedulesStart, SchedulesStep, PTL DEF SchedulesSpec

-----------------------------------------------------------------------------
(* The fair dispatcher *)

\* The loop comes to turn s before turn t.
Sooner(s, t) == s[1] < t[1] \/ (s[1] = t[1] /\ Place(s[2]) < Place(t[2]))

\* Workspaces have places of their own, and there are finitely many.
LEMMA WorkspacePlaces ==
  /\ \A w \in Workspace : Place(w) \in Nat
  /\ \A v, w \in Workspace : Place(v) = Place(w) => v = w
  /\ IsFiniteSet(Workspace)
<1>1. \A w \in Workspace : Place(w) \in DOMAIN Workspaces /\ Workspaces[Place(w)] = w
  BY DEF Place, Workspace, Range
<1>2. DOMAIN Workspaces = 1..Len(Workspaces) /\ Len(Workspaces) \in Nat
  BY DispatchAssumption
<1>3. IsFiniteSet(Workspace)
  <2> DEFINE place == [w \in Workspace |-> Place(w)]
  <2>1. place \in Injection(Workspace, 1..Len(Workspaces))
    BY <1>1, <1>2 DEF Injection, IsInjective
  <2>2. IsFiniteSet(1..Len(Workspaces))
    BY <1>2, FS_Interval
  <2> HIDE DEF place
  <2> QED BY <2>1, <2>2, FS_Injection
<1> QED BY <1>1, <1>2, <1>3

\* The turns are sorted: each has the number of those before it.
LEMMA TurnsSorted ==
  ASSUME NEW counts \in [Workspace -> 0..MaxEligible],
         NEW T, T = TurnsOf(counts)
  PROVE  /\ IsFiniteSet(T) /\ Turns(counts) \in [1..Cardinality(T) -> T]
         /\ Turns(counts) \in Bijection(1..Cardinality(T), T)
         /\ \A i, j \in 1..Cardinality(T) : Sooner(Turns(counts)[i], Turns(counts)[j]) => i < j
<1> DEFINE Before(t) == {s \in T : Sooner(s, t)}
           n == Cardinality(T)
           rank == [t \in T |-> Cardinality(Before(t))]
<1>1. \A t \in T : /\ t[1] \in Nat /\ t[2] \in Workspace /\ t = <<t[1], t[2]>>
                   /\ Place(t[2]) \in Nat
  BY WorkspacePlaces DEF TurnsOf
<1>2. IsFiniteSet(T) /\ n \in Nat
  <2>1. IsFiniteSet((1..MaxEligible) \X Workspace)
    <3>1. IsFiniteSet(1..MaxEligible)
      BY FS_Interval, DispatchAssumption
    <3> QED BY <3>1, WorkspacePlaces, FS_Product
  <2>2. T \in SUBSET ((1..MaxEligible) \X Workspace)
    BY DEF TurnsOf
  <2> QED BY <2>1, <2>2, FS_Subset, FS_CardinalityType
<1>3. \A t \in T : /\ IsFiniteSet(Before(t)) /\ rank[t] \in Nat /\ rank[t] = Cardinality(Before(t))
                   /\ Before(t) \in SUBSET T
  BY <1>2, FS_Subset, FS_CardinalityType
<1>4. \A t \in T : ~Sooner(t, t)
  BY <1>1 DEF Sooner
<1>5. \A s, t \in T : Sooner(s, t) \/ Sooner(t, s) \/ s = t
  BY <1>1, WorkspacePlaces DEF Sooner
<1>6. \A r, s, t \in T : Sooner(r, s) /\ Sooner(s, t) => Sooner(r, t)
  BY <1>1 DEF Sooner
<1>7. ASSUME NEW s \in T, NEW t \in T, Sooner(s, t) PROVE rank[s] < rank[t]
  <2>1. Before(s) \in SUBSET Before(t) /\ s \in Before(t) /\ s \notin Before(s)
    BY <1>4, <1>6, <1>7
  <2>2. Cardinality(Before(s)) <= Cardinality(Before(t)) /\ Cardinality(Before(s)) # Cardinality(Before(t))
    <3> HIDE DEF Before
    <3> QED BY <1>3, <2>1, FS_Subset
  <2> HIDE DEF rank
  <2> QED BY <1>3, <2>2
<1>8. \A t \in T : rank[t] \in 0..(n - 1)
  <2> SUFFICES ASSUME NEW t \in T PROVE rank[t] \in 0..(n - 1)
    OBVIOUS
  <2>1. Before(t) \in SUBSET T /\ Before(t) # T
    BY <1>4
  <2>2. Cardinality(Before(t)) <= n /\ Cardinality(Before(t)) # n
    <3> HIDE DEF Before
    <3> QED BY <1>2, <2>1, FS_Subset
  <2> HIDE DEF rank
  <2> QED BY <1>2, <1>3, <2>2
<1> HIDE DEF rank
<1>9. \A s, t \in T : rank[s] = rank[t] => s = t
  <2> SUFFICES ASSUME NEW s \in T, NEW t \in T, rank[s] = rank[t], s # t PROVE FALSE
    OBVIOUS
  <2>1. rank[s] \in Nat /\ rank[t] \in Nat /\ (rank[s] < rank[t] \/ rank[t] < rank[s])
    BY <1>3, <1>5, <1>7
  <2> QED BY <2>1
<1>10. \A m \in 0..(n - 1) : \E t \in T : rank[t] = m
  <2>1. rank \in [T -> 0..(n - 1)]
    BY <1>8 DEF rank
  <2>2. rank \in Injection(T, 0..(n - 1))
    BY <1>9, <2>1 DEF Injection, IsInjective
  <2>3. IsFiniteSet(0..(n - 1)) /\ Cardinality(0..(n - 1)) = n
    <3> HIDE DEF n
    <3> QED BY <1>2, FS_Interval
  <2>4. rank \in Surjection(T, 0..(n - 1))
    BY <2>2, <2>3, FS_Injection
  <2> QED BY <2>4 DEF Surjection
<1> DEFINE turns == [i \in 1..n |-> CHOOSE t \in T : rank[t] = i - 1]
<1>11. Turns(counts) = turns
  <2>1. \A t \in T : rank[t] = Cardinality({s \in T : s[1] < t[1] \/ (s[1] = t[1] /\ Place(s[2]) < Place(t[2]))})
    BY DEF rank, Sooner
  <2>2. Turns(counts) = [i \in 1..n |-> CHOOSE t \in T :
          Cardinality({s \in T : s[1] < t[1] \/ (s[1] = t[1] /\ Place(s[2]) < Place(t[2]))}) = i - 1]
    BY DEF Turns, InOrder
  <2> QED BY <2>1, <2>2
<1>12. \A i \in 1..n : turns[i] \in T /\ rank[turns[i]] = i - 1
  <2> SUFFICES ASSUME NEW i \in 1..n PROVE turns[i] \in T /\ rank[turns[i]] = i - 1
    OBVIOUS
  <2>1. \E t \in T : rank[t] = i - 1
    BY <1>2, <1>10
  <2> QED BY <2>1
<1>13. turns \in [1..n -> T]
  BY <1>12
<1> HIDE DEF turns, Before
<1>14. \A i, j \in 1..n : turns[i] = turns[j] => i = j
  BY <1>2, <1>12
<1>15. ASSUME NEW t \in T PROVE \E i \in 1..n : turns[i] = t
  <2>1. rank[t] + 1 \in 1..n /\ rank[turns[rank[t] + 1]] = rank[t]
    BY <1>2, <1>8, <1>12
  <2> QED BY <1>9, <1>12, <2>1
<1>16. turns \in Bijection(1..n, T)
  BY <1>13, <1>14, <1>15 DEF Bijection, Injection, Surjection, IsInjective
<1>17. ASSUME NEW i \in 1..n, NEW j \in 1..n, Sooner(turns[i], turns[j]) PROVE i < j
  <2>1. rank[turns[i]] < rank[turns[j]]
    BY <1>7, <1>12, <1>17
  <2> QED BY <1>2, <1>12, <2>1
<1> QED BY <1>2, <1>11, <1>13, <1>16, <1>17

\* A set of numbers that holds all below each of its members.
LEMMA UpToGreatest ==
  ASSUME NEW k \in Nat, NEW R \in SUBSET (1..k), \A r \in R : \A q \in 1..r : q \in R
  PROVE  /\ Cardinality(R) \in 0..k
         /\ R = 1..Cardinality(R)
<1>1. CASE R = {}
  BY <1>1, FS_EmptySet
<1>2. CASE R # {}
  <2> PICK m : m = Max(R)
    OBVIOUS
  <2>1. R \in SUBSET (0..k)
    OBVIOUS
  <2>2. m \in R /\ \A r \in R : r <= m
    BY <1>2, <2>1, Greatest
  <2>3. m \in 1..k /\ R = 1..m
    <3>1. m \in 1..k /\ \A r \in R : r \in 1..k
      BY <2>2
    <3>2. R \subseteq 1..m
      BY <2>2, <3>1
    <3>3. 1..m \subseteq R
      BY <2>2
    <3> QED BY <3>1, <3>2, <3>3
  <2>4. Cardinality(1..m) = m
    BY <2>3, FS_Interval
  <2> QED BY <2>3, <2>4
<1> QED BY <1>1, <1>2

\* The claims of a workspace in a batch of the first turns are its first ones.
LEMMA FirstClaims ==
  ASSUME NEW counts \in [Workspace -> 0..MaxEligible], NEW w \in Workspace,
         NEW taken \in 0..Cardinality(TurnsOf(counts)), NEW order,
         order = [i \in 1..taken |-> Turns(counts)[i][2]]
  PROVE  /\ ClaimsOf(order, w) \in 0..counts[w]
         /\ \A r \in 1..counts[w] :
              (\E i \in 1..taken : Turns(counts)[i] = <<r, w>>) <=> r <= ClaimsOf(order, w)
<1> PICK T : T = TurnsOf(counts)
  OBVIOUS
<1> PICK turns : turns = Turns(counts)
  OBVIOUS
<1> PICK n : n = Cardinality(T)
  OBVIOUS
<1> DEFINE R == {r \in 1..counts[w] : \E i \in 1..taken : turns[i] = <<r, w>>}
           I == {i \in 1..taken : turns[i][2] = w}
           g == [i \in I |-> turns[i][1]]
<1>1. /\ turns \in [1..n -> T] /\ turns \in Bijection(1..n, T) /\ n \in Nat
      /\ \A i, j \in 1..n : Sooner(turns[i], turns[j]) => i < j
  BY TurnsSorted, FS_CardinalityType
<1>2. /\ \A t \in T : t[1] \in 1..counts[t[2]] /\ t[2] \in Workspace /\ t = <<t[1], t[2]>>
      /\ \A r \in 1..counts[w] : <<r, w>> \in T
      /\ counts[w] \in Nat
  BY DispatchAssumption DEF TurnsOf
<1>3. taken \in 0..n
  OBVIOUS
<1>4. ASSUME NEW i \in I PROVE i \in 1..n /\ turns[i] = <<g[i], w>> /\ g[i] \in R
  <2>1. i \in 1..n /\ i \in 1..taken /\ turns[i][2] = w
    BY <1>1, <1>3
  <2>2. turns[i] \in T
    BY <1>1, <2>1
  <2>3. turns[i] = <<turns[i][1], w>> /\ turns[i][1] \in 1..counts[w]
    BY <1>2, <2>1, <2>2
  <2> QED BY <2>1, <2>3
<1>5. \A r \in R : \E i \in I : g[i] = r
  OBVIOUS
<1>6. \A i, j \in 1..n : turns[i] = turns[j] => i = j
  BY <1>1 DEF Bijection, Injection, IsInjective
<1>7. \A t \in T : \E i \in 1..n : turns[i] = t
  BY <1>1 DEF Bijection, Surjection
<1>8. g \in Bijection(I, R)
  <2>1. g \in [I -> R]
    BY <1>4
  <2> HIDE DEF g, I, R
  <2>2. \A i, j \in I : g[i] = g[j] => i = j
    <3> SUFFICES ASSUME NEW i \in I, NEW j \in I, g[i] = g[j] PROVE i = j
      OBVIOUS
    <3>1. turns[i] = turns[j] /\ i \in 1..n /\ j \in 1..n
      BY <1>4
    <3> QED BY <1>6, <3>1
  <2> QED BY <1>5, <2>1, <2>2 DEF Bijection, Injection, Surjection, IsInjective
<1>9. \A r \in R : \A q \in 1..r : q \in R
  <2> SUFFICES ASSUME NEW r \in R, NEW q \in 1..r, q # r PROVE q \in R
    OBVIOUS
  <2>1. PICK i \in 1..taken : turns[i] = <<r, w>>
    OBVIOUS
  <2>2. q \in 1..counts[w] /\ q < r
    BY <1>2
  <2>3. PICK j \in 1..n : turns[j] = <<q, w>>
    BY <1>2, <1>7, <2>2
  <2>4. j < i
    BY <1>1, <1>3, <2>1, <2>2, <2>3 DEF Sooner
  <2> QED BY <1>3, <2>2, <2>3, <2>4
<1>10. Cardinality(R) \in 0..counts[w] /\ R = 1..Cardinality(R)
  <2>1. R \in SUBSET (1..counts[w])
    OBVIOUS
  <2> HIDE DEF R
  <2> QED BY <1>2, <1>9, <2>1, UpToGreatest
<1>11. ClaimsOf(order, w) = Cardinality(R)
  <2>1. IsFiniteSet(I)
    <3>1. IsFiniteSet(1..taken)
      BY <1>1, <1>3, FS_Interval
    <3> QED BY <3>1, FS_Subset
  <2>2. ExistsBijection(I, R)
    BY <1>8 DEF ExistsBijection
  <2>3. Cardinality(R) = Cardinality(I)
    <3> HIDE DEF I, R, g
    <3> QED BY <2>1, <2>2, FS_Bijection
  <2>4. ClaimsOf(order, w) = Cardinality(I)
    BY DEF ClaimsOf
  <2> QED BY <2>3, <2>4
<1>12. \A r \in 1..counts[w] : r \in R <=> r <= ClaimsOf(order, w)
  <2> HIDE DEF R
  <2> QED BY <1>2, <1>10, <1>11
<1> QED BY <1>10, <1>11, <1>12

\* Every batch claims eligible jobs only, keeps the organization within its limit, leaves no
\* capacity unused, and lets nobody get more than one claim ahead of a workspace that has
\* jobs left over (FairWorkspaceDispatcher.order): for any workspaces, counts and limits.
THEOREM FairBatchesHold == FairBatches
<1> SUFFICES ASSUME NEW counts \in [Workspace -> 0..MaxEligible],
                    NEW limit \in 0..(Len(Workspaces) * MaxEligible),
                    NEW used \in 0..(OrganizationLimit + 1)
             PROVE  LET order == Order(counts, limit, used)
                        spare == {w \in Workspace : ClaimsOf(order, w) < counts[w]}
                    IN  /\ \A w \in Workspace : ClaimsOf(order, w) \in 0..counts[w]
                        /\ Len(order) \in 0..limit
                        /\ order # <<>> => used + Len(order) <= OrganizationLimit
                        /\ spare # {} => Len(order) = limit \/ used + Len(order) >= OrganizationLimit
                        /\ \A w \in spare, v \in Workspace : ClaimsOf(order, v) <= ClaimsOf(order, w) + 1
  BY DEF FairBatches
<1> PICK T : T = TurnsOf(counts)
  OBVIOUS
<1> PICK turns : turns = Turns(counts)
  OBVIOUS
<1> PICK n : n = Cardinality(T)
  OBVIOUS
<1> PICK capacity : capacity = CapacityLeft(used)
  OBVIOUS
<1> PICK taken : taken = Min({limit, capacity, Len(turns)})
  OBVIOUS
<1> PICK order : order = Order(counts, limit, used)
  OBVIOUS
<1>1. /\ turns \in [1..n -> T] /\ turns \in Bijection(1..n, T) /\ n \in Nat
      /\ \A i, j \in 1..n : Sooner(turns[i], turns[j]) => i < j
  BY TurnsSorted, FS_CardinalityType
<1>2. Len(turns) = n
  BY <1>1
<1>3. limit \in Nat /\ used \in Nat /\ OrganizationLimit \in Nat
  BY DispatchAssumption
<1>4. /\ capacity \in Nat /\ capacity \in {0, OrganizationLimit - used}
      /\ capacity >= OrganizationLimit - used
  <2>1. capacity = Max({0, OrganizationLimit - used}) /\ OrganizationLimit - used \in Int
    BY <1>3 DEF CapacityLeft
  <2>2. capacity \in {0, OrganizationLimit - used} /\ capacity >= 0
    BY <2>1, Later
  <2>3. {0, OrganizationLimit - used} = {OrganizationLimit - used, 0}
    OBVIOUS
  <2>4. capacity >= OrganizationLimit - used
    BY <2>1, <2>3, Later
  <2> QED BY <1>3, <2>2, <2>4
<1>5. taken \in {limit, capacity, n} /\ taken <= limit /\ taken <= capacity /\ taken <= n
      /\ taken \in 0..n
  <2>1. {limit, capacity, n} \in SUBSET Nat
    BY <1>1, <1>3, <1>4
  <2>2. taken = Min({limit, capacity, n})
    BY <1>2
  <2>3. taken \in {limit, capacity, n} /\ \A v \in {limit, capacity, n} : taken <= v
    BY <2>1, <2>2, Least
  <2> QED BY <1>1, <1>3, <1>4, <2>3
<1>6. order = [i \in 1..taken |-> turns[i][2]]
  BY DEF Order
<1>7. Len(order) = taken /\ (order # <<>> => taken > 0)
  <2>1. \A i \in 1..taken : turns[i][2] \in Workspace
    BY <1>1, <1>5 DEF TurnsOf
  <2>2. order \in [1..taken -> Workspace]
    BY <1>6, <2>1
  <2>3. taken \in Nat
    BY <1>1, <1>5
  <2>4. Len(order) = taken
    BY <2>2, <2>3
  <2> QED BY <2>3, <2>4
<1>8. ASSUME NEW w \in Workspace
      PROVE  /\ ClaimsOf(order, w) \in 0..counts[w] /\ counts[w] \in Nat
             /\ \A r \in 1..counts[w] :
                  (\E i \in 1..taken : turns[i] = <<r, w>>) <=> r <= ClaimsOf(order, w)
  <2>1. taken \in 0..Cardinality(TurnsOf(counts))
    BY <1>5
  <2>2. order = [i \in 1..taken |-> Turns(counts)[i][2]]
    BY <1>6
  <2>3. counts[w] \in Nat
    BY DispatchAssumption
  <2>4. /\ ClaimsOf(order, w) \in 0..counts[w]
        /\ \A r \in 1..counts[w] :
             (\E i \in 1..taken : Turns(counts)[i] = <<r, w>>) <=> r <= ClaimsOf(order, w)
    BY <2>1, <2>2, FirstClaims, ZenonT(60)
  <2> QED BY <2>3, <2>4
<1>9. \A t \in T : \E i \in 1..n : turns[i] = t
  BY <1>1 DEF Bijection, Surjection
<1>10. ASSUME NEW w \in Workspace, ClaimsOf(order, w) < counts[w]
       PROVE  \E i \in 1..n : turns[i] = <<ClaimsOf(order, w) + 1, w>> /\ i > taken
  <2> PICK c : c = ClaimsOf(order, w)
    OBVIOUS
  <2>1. c + 1 \in 1..counts[w] /\ ~(c + 1 <= c) /\ counts[w] \in 0..MaxEligible /\ c \in Nat
    BY <1>8, <1>10
  <2>2. <<c + 1, w>> \in T
    BY <2>1, DispatchAssumption DEF TurnsOf
  <2>3. PICK i \in 1..n : turns[i] = <<c + 1, w>>
    BY <1>9, <2>2
  <2>4. i \notin 1..taken
    BY <1>8, <2>1, <2>3
  <2> QED BY <1>5, <2>3, <2>4
<1>11. ASSUME NEW w \in Workspace, ClaimsOf(order, w) < counts[w]
       PROVE  taken = limit \/ used + taken >= OrganizationLimit
  <2>1. taken < n
    <3>1. PICK i \in 1..n : i > taken
      BY <1>10, <1>11
    <3> QED BY <1>1, <1>5, <3>1
  <2> QED BY <1>3, <1>4, <1>5, <2>1
<1>12. ASSUME NEW w \in Workspace, ClaimsOf(order, w) < counts[w], NEW v \in Workspace,
              ~(ClaimsOf(order, v) <= ClaimsOf(order, w) + 1)
       PROVE  FALSE
  <2> PICK c : c = ClaimsOf(order, w)
    OBVIOUS
  <2> PICK d : d = ClaimsOf(order, v)
    OBVIOUS
  <2>1. c \in Nat /\ d \in 0..counts[v] /\ counts[v] \in Nat /\ c + 2 <= d
    BY <1>8, <1>12
  <2>2. PICK i \in 1..n : turns[i] = <<c + 1, w>> /\ i > taken
    BY <1>10, <1>12
  <2>3. c + 2 \in 1..counts[v]
    BY <2>1
  <2>4. PICK j \in 1..taken : turns[j] = <<c + 2, v>>
    BY <1>8, <2>1, <2>3
  <2>5. Sooner(turns[i], turns[j])
    BY <2>1, <2>2, <2>4 DEF Sooner
  <2>6. j \in 1..n /\ j <= taken /\ taken \in Nat
    BY <1>1, <1>5, <2>4
  <2>7. i < j
    BY <1>1, <2>2, <2>5, <2>6
  <2> QED BY <2>2, <2>6, <2>7
<1>13. \A w \in Workspace : ClaimsOf(order, w) \in 0..counts[w]
  BY <1>8
<1>14. order # <<>> => used + Len(order) <= OrganizationLimit
  BY <1>3, <1>4, <1>5, <1>7
<1>15. Len(order) \in 0..limit
  BY <1>1, <1>3, <1>5, <1>7
<1> QED BY <1>5, <1>7, <1>11, <1>12, <1>13, <1>14, <1>15

\* What the claims of many batches keep.
ClaimsInv ==
  /\ eligible \in [Workspace -> 0..MaxEligible]
  /\ claimed \in [Workspace -> Nat]
  /\ running \in 0..OrganizationLimit /\ batches \in Nat
  /\ \A v, w \in Workspace : eligible[w] > 0 => claimed[v] <= claimed[w] + batches

LEMMA BatchKeeps ==
  ASSUME ClaimsInv, NEW limit \in 1..(Len(Workspaces) * MaxEligible), ClaimBatch(limit)
  PROVE  ClaimsInv'
<1> PICK order : order = Order(eligible, limit, running)
  OBVIOUS
<1> PICK mine : mine = [w \in Workspace |-> ClaimsOf(order, w)]
  OBVIOUS
<1>0. /\ MaxEligible \in Nat /\ OrganizationLimit \in Nat /\ Len(Workspaces) \in Nat
      /\ eligible \in [Workspace -> 0..MaxEligible] /\ claimed \in [Workspace -> Nat]
      /\ running \in 0..OrganizationLimit /\ batches \in Nat
  BY DispatchAssumption DEF ClaimsInv
<1>1. /\ order # <<>> /\ batches' = batches + 1 /\ running' = running + Len(order)
      /\ eligible' = [w \in Workspace |-> eligible[w] - mine[w]]
      /\ claimed' = [w \in Workspace |-> claimed[w] + mine[w]]
  BY DEF ClaimBatch
<1>2. /\ \A w \in Workspace : mine[w] \in 0..eligible[w]
      /\ Len(order) \in Nat /\ running + Len(order) <= OrganizationLimit
      /\ \A v, w \in Workspace : mine[w] < eligible[w] => mine[v] <= mine[w] + 1
  <2>1. limit \in 0..(Len(Workspaces) * MaxEligible) /\ running \in 0..(OrganizationLimit + 1)
    BY <1>0
  <2>2. LET spare == {w \in Workspace : ClaimsOf(order, w) < eligible[w]}
        IN  /\ \A w \in Workspace : ClaimsOf(order, w) \in 0..eligible[w]
            /\ Len(order) \in 0..limit
            /\ order # <<>> => running + Len(order) <= OrganizationLimit
            /\ \A w \in spare, v \in Workspace : ClaimsOf(order, v) <= ClaimsOf(order, w) + 1
    BY <1>0, <2>1, FairBatchesHold, Zenon DEF FairBatches
  <2> QED BY <1>0, <1>1, <2>2
<1>3. eligible' \in [Workspace -> 0..MaxEligible] /\ claimed' \in [Workspace -> Nat]
  <2>1. \A w \in Workspace : /\ eligible[w] - mine[w] \in 0..MaxEligible
                              /\ claimed[w] + mine[w] \in Nat
    BY <1>0, <1>2
  <2> QED BY <1>1, <2>1
<1>4. ASSUME NEW v \in Workspace, NEW w \in Workspace, eligible'[w] > 0
      PROVE  claimed'[v] <= claimed'[w] + batches'
  <2>1. eligible[w] > 0 /\ mine[w] < eligible[w]
    BY <1>0, <1>1, <1>2, <1>4
  <2>2. claimed[v] <= claimed[w] + batches /\ mine[v] <= mine[w] + 1
    BY <1>2, <2>1 DEF ClaimsInv
  <2>3. claimed'[v] = claimed[v] + mine[v] /\ claimed'[w] = claimed[w] + mine[w]
    BY <1>1
  <2>4. /\ claimed[v] \in Nat /\ claimed[w] \in Nat /\ batches \in Nat
        /\ mine[v] \in 0..eligible[v] /\ mine[w] \in 0..eligible[w]
        /\ eligible[v] \in Nat /\ eligible[w] \in Nat
    BY <1>0, <1>2
  <2>5. claimed[v] + mine[v] <= claimed[w] + mine[w] + (batches + 1)
    BY <2>2, <2>4
  <2> QED BY <1>1, <2>3, <2>5
<1> QED BY <1>0, <1>1, <1>2, <1>3, <1>4 DEF ClaimsInv

\* Each batch is fair and the dispatcher remembers nothing, so a workspace that waits falls
\* behind by one claim a batch at most, and all batches together keep the organization's
\* limit (FairWorkspaceDispatcher.order).
THEOREM FairOverBatchesHolds == ClaimsSpec => []FairOverBatches
<1>1. InitClaims => ClaimsInv
  BY DispatchAssumption DEF InitClaims, ClaimsInv
<1>2. ClaimsInv /\ [NextClaims]_claimVars => ClaimsInv'
  <2> SUFFICES ASSUME ClaimsInv, [NextClaims]_claimVars PROVE ClaimsInv'
    OBVIOUS
  <2>1. CASE ClaimedEnds
    BY <2>1, DispatchAssumption DEF ClaimedEnds, ClaimsInv
  <2>2. CASE UNCHANGED claimVars
    BY <2>2 DEF claimVars, ClaimsInv
  <2> QED BY <2>1, <2>2, BatchKeeps DEF NextClaims
<1>3. ClaimsInv => FairOverBatches
  BY DispatchAssumption DEF ClaimsInv, FairOverBatches
<1> QED BY <1>1, <1>2, <1>3, PTL DEF ClaimsSpec
=============================================================================
