------------------------- MODULE DurableJobsProofs -------------------------
(***************************************************************************)
(* Proofs about DurableJobs for every number of jobs, workers, definitions *)
(* and keys and every value of the limits.                                 *)
(*                                                                         *)
(* The argument is one of rows: RowOK holds of one job's rows, each        *)
(* transformation a call applies to them preserves it, and every action    *)
(* only applies those transformations.                                     *)
(***************************************************************************)
EXTENDS DurableJobs, SequenceTheorems, FiniteSetTheorems, TLAPS

\* What is true of an accepted job and the types do not say.
Accepted(r) ==
  r.status # "absent" =>
    /\ r.def \in Definition
    /\ r.key \in Key
    /\ r.request \in Request
    /\ r.availableAt < r.deadline

RowOK(r) ==
  /\ r \in JobRow
  /\ Accepted(r)
  /\ LeaseAgrees(r)
  /\ WithinBudget(r)
  /\ Gapless(r)
  /\ r.cancelRequested => r.status # "succeeded"

RowsOK == \A j \in Job : RowOK(job[j])

IInv == TypeOK /\ RowsOK

-----------------------------------------------------------------------------
\* The fields no outbox row and no attempt row changes.
SameCore(r, s) ==
  /\ s.status = r.status /\ s.def = r.def /\ s.key = r.key /\ s.request = r.request
  /\ s.availableAt = r.availableAt /\ s.deadline = r.deadline
  /\ s.attemptCount = r.attemptCount /\ s.cancelRequested = r.cancelRequested
  /\ s.leaseOwner = r.leaseOwner /\ s.leaseExpires = r.leaseExpires

\* _record keeps the row typed and the outbox sequence gapless.
LEMMA RecordOK ==
  ASSUME NEW r \in JobRow, Gapless(r)
  PROVE  /\ Record(r) \in JobRow
         /\ Gapless(Record(r))
         /\ SameCore(r, Record(r))
         /\ Record(r).attempts = r.attempts
  <1>. DEFINE p == Append(r.published, r.version + 1)
  <1>1. r.version \in Nat /\ r.published \in Seq(Nat)
    BY DEF JobRow
  <1>2. /\ p \in Seq(Nat)
        /\ Len(p) = r.version + 1
        /\ \A i \in 1..Len(p) : p[i] = i
    BY <1>1 DEF Gapless
  <1>3. Record(r).version = r.version + 1 /\ Record(r).published = p
    BY DEF Record, JobRow
  <1>4. Record(r) \in JobRow
    <2>1. ASSUME NEW v \in Nat, NEW q \in Seq(Nat)
          PROVE  [r EXCEPT !.version = v, !.published = q] \in JobRow
      BY DEF JobRow
    <2>2. Record(r) = [r EXCEPT !.version = r.version + 1, !.published = p]
      BY DEF Record, JobRow
    <2>3. r.version + 1 \in Nat
      BY <1>1
    <2>. HIDE DEF p
    <2>. QED
      BY <1>2, <2>1, <2>2, <2>3
  <1>5. SameCore(r, Record(r)) /\ Record(r).attempts = r.attempts
    BY DEF Record, JobRow, SameCore
  <1>. QED
    BY <1>2, <1>3, <1>4, <1>5 DEF Gapless

\* Ending the current attempt leaves no attempt running.
LEMMA EndAttemptOK ==
  ASSUME NEW r \in JobRow, LeaseAgrees(r), r.status = "running",
         NEW o \in {"succeeded", "failed", "abandoned", "cancelled"}
  PROVE  /\ EndAttempt(r, o) \in JobRow
         /\ SameCore(r, EndAttempt(r, o))
         /\ EndAttempt(r, o).version = r.version
         /\ EndAttempt(r, o).published = r.published
         /\ Len(EndAttempt(r, o).attempts) = r.attemptCount
         /\ \A n \in 1..r.attemptCount : EndAttempt(r, o).attempts[n].status # "running"
  <1>. DEFINE a == [r.attempts EXCEPT ![r.attemptCount].status = o]
  <1>1. r.attempts \in Seq(Attempt) /\ r.attemptCount \in 1..Len(r.attempts)
    BY DEF JobRow, LeaseAgrees, AttemptRunning
  <1>2. \A n \in 1..Len(r.attempts) : r.attempts[n] \in Attempt
    BY <1>1
  <1>3. [r.attempts[r.attemptCount] EXCEPT !.status = o] \in Attempt
    BY <1>1, <1>2 DEF Attempt
  <1>4. a \in Seq(Attempt) /\ Len(a) = r.attemptCount
    BY <1>1, <1>3 DEF LeaseAgrees
  <1>5. \A n \in 1..r.attemptCount : a[n].status # "running"
    BY <1>1, <1>2 DEF LeaseAgrees, Attempt
  <1>6. EndAttempt(r, o).attempts = a
    BY DEF EndAttempt, JobRow
  <1>7. EndAttempt(r, o) \in JobRow
    BY <1>4 DEF EndAttempt, JobRow
  <1>8. /\ SameCore(r, EndAttempt(r, o))
        /\ EndAttempt(r, o).version = r.version
        /\ EndAttempt(r, o).published = r.published
    BY DEF EndAttempt, JobRow, SameCore
  <1>. QED
    BY <1>4, <1>5, <1>6, <1>7, <1>8

LEMMA RecordRowOK ==
  ASSUME NEW r, RowOK(r)
  PROVE  RowOK(Record(r))
  <1>1. /\ Record(r) \in JobRow
        /\ Gapless(Record(r))
        /\ SameCore(r, Record(r))
        /\ Record(r).attempts = r.attempts
    BY RecordOK DEF RowOK
  <1>2. LeaseAgrees(Record(r))
    BY <1>1 DEF RowOK, LeaseAgrees, SameCore, AttemptRunning
  <1>. QED
    BY <1>1, <1>2 DEF RowOK, SameCore, Accepted, WithinBudget

\* Whatever ends the current attempt leaves the lease and the attempts agreed.
LEMMA EndedOK ==
  ASSUME NEW r, RowOK(r), r.status = "running",
         NEW o \in {"succeeded", "failed", "abandoned", "cancelled"},
         NEW st \in Waiting \cup Terminal,
         st \in Waiting => r.attemptCount < MaxAttempts[r.def],
         r.cancelRequested => st # "succeeded"
  PROVE  /\ RowOK(Ended(r, o, st))
         /\ Ended(r, o, st).status = st
         /\ Ended(r, o, st).deadline = r.deadline
         /\ Ended(r, o, st).availableAt = r.availableAt
  <1>. DEFINE e == EndAttempt(r, o)
              f == [e EXCEPT !.status = st]
              x == [f EXCEPT !.leaseOwner = None, !.leaseExpires = 0]
  <1>1. /\ e \in JobRow
        /\ SameCore(r, e)
        /\ e.version = r.version
        /\ e.published = r.published
        /\ Len(e.attempts) = r.attemptCount
        /\ \A n \in 1..r.attemptCount : e.attempts[n].status # "running"
    BY EndAttemptOK DEF RowOK
  <1>2. Ended(r, o, st) = x
    BY DEF Ended, ClearLease
  <1>. HIDE DEF e
  <1>3. f \in JobRow
    BY <1>1, ZenonT(60) DEF JobRow, Live
  <1>4. x \in JobRow
    BY <1>3 DEF JobRow
  <1>5. /\ x.status = st /\ x.leaseOwner = None
        /\ x.def = r.def /\ x.key = r.key /\ x.request = r.request
        /\ x.availableAt = r.availableAt /\ x.deadline = r.deadline
        /\ x.attemptCount = r.attemptCount /\ x.cancelRequested = r.cancelRequested
        /\ x.version = r.version /\ x.published = r.published /\ x.attempts = e.attempts
    BY <1>1 DEF JobRow, SameCore
  <1>. HIDE DEF x, f
  <1>6. st # "running" /\ st # "absent"
    BY DEF Waiting, Terminal
  <1>7. LeaseAgrees(x)
    BY <1>1, <1>5, <1>6 DEF LeaseAgrees
  <1>8. Gapless(x) /\ WithinBudget(x) /\ Accepted(x)
    BY <1>5 DEF RowOK, Gapless, WithinBudget, Accepted
  <1>. QED
    BY <1>2, <1>4, <1>5, <1>7, <1>8 DEF RowOK

LEMMA RetryDecisionOK ==
  ASSUME NEW r, RowOK(r), r.status = "running", NEW now \in Nat, NEW c
  PROVE  LET dec == RetryDecision(r.def, c, r.attemptCount, now, r.deadline)
         IN  /\ dec.status \in {"retry_wait", "dead_lettered", "expired"}
             /\ dec.status = "retry_wait" =>
                  /\ dec.at \in Nat
                  /\ dec.at < r.deadline
                  /\ r.attemptCount < MaxAttempts[r.def]
  <1>1. /\ r.def \in Definition
        /\ r.attemptCount \in Nat \ {0}
        /\ r.deadline \in Nat
    BY DEF RowOK, Accepted, LeaseAgrees, AttemptRunning, JobRow
  <1>3. MaxAttempts[r.def] \in 1..5
    <2>1. MaxAttempts \in [Definition -> 1..5]
      BY DefinitionAssumption
    <2>. QED
      BY <1>1, <2>1
  <1>2. r.attemptCount < MaxAttempts[r.def] => RetryDelay[r.def][r.attemptCount] \in Nat
    <2>1. /\ RetryDelay \in [Definition -> Seq(Nat \ {0})]
          /\ \A d \in Definition : Len(RetryDelay[d]) >= MaxAttempts[d] - 1
      BY DefinitionAssumption
    <2>2. RetryDelay[r.def] \in Seq(Nat \ {0})
      BY <1>1, <2>1
    <2>3. Len(RetryDelay[r.def]) >= MaxAttempts[r.def] - 1
      BY <1>1, <2>1
    <2>. QED
      BY <1>1, <1>3, <2>2, <2>3
  <1>. QED
    BY <1>1, <1>2, <1>3 DEF RetryDecision, BudgetSpent, TooLate

\* A failed or abandoned attempt: retried with budget and time left, or ended.
LEMMA UnsuccessfulOK ==
  ASSUME NEW r, RowOK(r), r.status = "running", NEW now \in Nat, NEW c,
         NEW o \in {"failed", "abandoned"}
  PROVE  RowOK(Unsuccessful(r, o, c, now))
  <1>. DEFINE dec == RetryDecision(r.def, c, r.attemptCount, now, r.deadline)
              x   == Ended(r, o, dec.status)
              at  == IF dec.status = "retry_wait" THEN dec.at ELSE x.availableAt
              l   == IF dec.status = "dead_lettered" THEN "open" ELSE x.letter
              y   == [x EXCEPT !.availableAt = at, !.letter = l]
  <1>1. /\ dec.status \in {"retry_wait", "dead_lettered", "expired"}
        /\ dec.status = "retry_wait" =>
             /\ dec.at \in Nat
             /\ dec.at < r.deadline
             /\ r.attemptCount < MaxAttempts[r.def]
    BY RetryDecisionOK
  <1>2. Unsuccessful(r, o, c, now) = Record(y)
    BY DEF Unsuccessful
  <1>. HIDE DEF dec
  <1>3. /\ RowOK(x)
        /\ x.status = dec.status
        /\ x.deadline = r.deadline
    BY <1>1, EndedOK DEF Waiting, Terminal
  <1>. HIDE DEF x
  <1>4. at \in Nat /\ l \in {"none", "open", "replayed"}
    BY <1>1, <1>3, SMTT(60) DEF RowOK, JobRow
  <1>5. dec.status = "retry_wait" => at < r.deadline
    BY <1>1
  <1>6. x.status # "absent" => at < r.deadline
    BY <1>1, <1>3 DEF RowOK, Accepted
  <1>. HIDE DEF at, l
  <1>7. y \in JobRow
    <2>. x \in JobRow
      BY <1>3 DEF RowOK
    <2>1. ASSUME NEW a \in Nat, NEW b \in {"none", "open", "replayed"}
          PROVE  [x EXCEPT !.availableAt = a, !.letter = b] \in JobRow
      BY ZenonT(60) DEF JobRow
    <2>. QED
      BY <1>4, <2>1
  <1>8. /\ y.availableAt = at /\ y.status = x.status /\ y.def = x.def /\ y.key = x.key
        /\ y.request = x.request /\ y.deadline = x.deadline
        /\ y.attemptCount = x.attemptCount /\ y.cancelRequested = x.cancelRequested
        /\ y.leaseOwner = x.leaseOwner /\ y.leaseExpires = x.leaseExpires
        /\ y.version = x.version /\ y.published = x.published /\ y.attempts = x.attempts
    BY <1>3 DEF RowOK, JobRow
  <1>. HIDE DEF y
  <1>9. Accepted(y)
    BY <1>3, <1>6, <1>8 DEF RowOK, Accepted
  <1>10. LeaseAgrees(y)
    BY <1>3, <1>8 DEF RowOK, LeaseAgrees, AttemptRunning
  <1>11. WithinBudget(y) /\ Gapless(y) /\ (y.cancelRequested => y.status # "succeeded")
    BY <1>3, <1>8 DEF RowOK, WithinBudget, Gapless
  <1>12. RowOK(y)
    BY <1>7, <1>9, <1>10, <1>11 DEF RowOK
  <1>. QED
    BY <1>2, <1>12, RecordRowOK

LEMMA SucceededOK ==
  ASSUME NEW r, RowOK(r), r.status = "running", ~r.cancelRequested
  PROVE  RowOK(Succeeded(r))
  <1>1. RowOK(Ended(r, "succeeded", "succeeded"))
    BY EndedOK DEF Waiting, Terminal
  <1>. QED
    BY <1>1, RecordRowOK DEF Succeeded

LEMMA CancelObservedOK ==
  ASSUME NEW r, RowOK(r), r.status = "running"
  PROVE  RowOK(CancelObserved(r))
  <1>1. RowOK(Ended(r, "cancelled", "cancelled"))
    BY EndedOK DEF Waiting, Terminal
  <1>. QED
    BY <1>1, RecordRowOK DEF CancelObserved

\* A claim takes a waiting row, appends its attempt and gives it the lease.
LEMMA ClaimedOK ==
  ASSUME NEW r, RowOK(r), r.status \in Waiting, NEW w \in Worker, NEW now \in Nat
  PROVE  /\ RowOK(Claimed(r, w, now))
         /\ Claimed(r, w, now).status = "running"
         /\ Claimed(r, w, now).cancelRequested = r.cancelRequested
  <1>. DEFINE until == now + LeaseSeconds
              t == [worker |-> w, status |-> "running", startedAt |-> now,
                    leaseExpires |-> until]
              as == Append(r.attempts, t)
              y == [r EXCEPT !.status = "running", !.attemptCount = r.attemptCount + 1,
                             !.leaseOwner = w, !.leaseExpires = until, !.attempts = as]
  <1>1. /\ r \in JobRow
        /\ r.attempts \in Seq(Attempt) /\ r.attemptCount \in Nat
        /\ Len(r.attempts) = r.attemptCount
        /\ r.status # "running" /\ r.status # "absent"
    BY DEF RowOK, JobRow, LeaseAgrees, Waiting
  <1>2. until \in Nat
    BY LimitAssumption
  <1>3. t \in Attempt
    BY <1>2 DEF Attempt
  <1>4. /\ as \in Seq(Attempt) /\ Len(as) = r.attemptCount + 1
        /\ as[r.attemptCount + 1] = t
        /\ \A n \in 1..r.attemptCount : as[n] = r.attempts[n]
    BY <1>1, <1>3
  <1>5. Claimed(r, w, now) = Record(y)
    <2>1. y = [r EXCEPT !.status = "running", !.attemptCount = @ + 1, !.leaseOwner = w,
                        !.leaseExpires = now + LeaseSeconds, !.attempts = Append(@, t)]
      BY <1>1 DEF JobRow
    <2>. QED
      BY <2>1 DEF Claimed
  <1>. HIDE DEF as, until
  <1>6. y \in JobRow
    <2>1. ASSUME NEW n \in Nat, NEW u \in Nat, NEW s \in Seq(Attempt)
          PROVE  [r EXCEPT !.status = "running", !.attemptCount = n,
                           !.leaseOwner = w, !.leaseExpires = u, !.attempts = s] \in JobRow
      BY <1>1 DEF JobRow, Live
    <2>2. r.attemptCount + 1 \in Nat
      BY <1>1
    <2>. QED
      BY <1>2, <1>4, <2>1, <2>2
  <1>7. /\ y.status = "running" /\ y.attemptCount = r.attemptCount + 1 /\ y.leaseOwner = w
        /\ y.leaseExpires = until /\ y.attempts = as
        /\ y.def = r.def /\ y.key = r.key /\ y.request = r.request
        /\ y.availableAt = r.availableAt /\ y.deadline = r.deadline
        /\ y.cancelRequested = r.cancelRequested
        /\ y.version = r.version /\ y.published = r.published
    BY <1>1 DEF JobRow
  <1>8. t.status = "running" /\ t.worker = w /\ t.leaseExpires = until
    OBVIOUS
  <1>. HIDE DEF y, t
  <1>9. w # None
    BY IdentityAssumption
  <1>10. LeaseAgrees(y)
    <2>1. AttemptRunning(y)
      <3>1. DOMAIN as = 1..(r.attemptCount + 1)
        BY <1>4, LenProperties
      <3>2. r.attemptCount + 1 \in DOMAIN as /\ as[r.attemptCount + 1].status = "running"
        BY <1>1, <1>4, <1>8, <3>1
      <3>. QED
        BY <1>7, <3>2 DEF AttemptRunning
    <2>2. \A n \in 1..r.attemptCount : r.attempts[n].status # "running"
      BY <1>1 DEF RowOK, LeaseAgrees
    <2>3. \A n \in 1..Len(y.attempts) :
            y.attempts[n].status = "running" => n = y.attemptCount /\ y.status = "running"
      <3>1. SUFFICES ASSUME NEW n \in 1..Len(as), as[n].status = "running"
                     PROVE  n = r.attemptCount + 1
        BY <1>7
      <3>2. n \in 1..(r.attemptCount + 1)
        BY <1>4
      <3>3. n \in 1..r.attemptCount => as[n].status # "running"
        <4>1. SUFFICES ASSUME n \in 1..r.attemptCount PROVE as[n].status # "running"
          OBVIOUS
        <4>2. as[n] = r.attempts[n]
          BY <1>4, <4>1
        <4>3. r.attempts[n].status # "running"
          BY <2>2, <4>1
        <4>. QED
          BY <4>2, <4>3
      <3>4. r.attemptCount \in Nat
        BY <1>1
      <3>. QED
        BY <3>1, <3>2, <3>3, <3>4
    <2>. QED
      BY <1>4, <1>7, <1>8, <1>9, <2>1, <2>3 DEF LeaseAgrees
  <1>11. Accepted(y) /\ Gapless(y)
    BY <1>1, <1>7 DEF RowOK, Accepted, Gapless
  <1>12. WithinBudget(y)
    <2>1. r.def \in Definition /\ r.attemptCount < MaxAttempts[r.def]
      BY <1>1 DEF RowOK, Accepted, WithinBudget
    <2>2. MaxAttempts[r.def] \in Nat
      <3>1. MaxAttempts \in [Definition -> 1..5]
        BY DefinitionAssumption
      <3>. QED
        BY <2>1, <3>1
    <2>. QED
      BY <1>1, <1>7, <2>1, <2>2 DEF WithinBudget, Waiting
  <1>13. RowOK(y)
    BY <1>6, <1>7, <1>10, <1>11, <1>12 DEF RowOK
  <1>14. SameCore(y, Record(y))
    BY <1>13, RecordOK DEF RowOK
  <1>. QED
    BY <1>5, <1>7, <1>13, <1>14, RecordRowOK DEF SameCore

LEMMA ExtendedOK ==
  ASSUME NEW r, RowOK(r), r.status = "running", NEW now \in Nat
  PROVE  RowOK(Extended(r, now))
  <1>. DEFINE until == now + LeaseSeconds
              as == [r.attempts EXCEPT ![r.attemptCount].leaseExpires = until]
              y  == [r EXCEPT !.leaseExpires = until, !.attempts = as]
  <1>1. /\ r \in JobRow
        /\ r.attempts \in Seq(Attempt)
        /\ r.attemptCount \in 1..Len(r.attempts)
        /\ Len(r.attempts) = r.attemptCount
    BY DEF RowOK, JobRow, LeaseAgrees, AttemptRunning
  <1>2. until \in Nat
    BY LimitAssumption
  <1>3. \A n \in 1..Len(r.attempts) : r.attempts[n] \in Attempt
    BY <1>1
  <1>. HIDE DEF until
  <1>4. [r.attempts[r.attemptCount] EXCEPT !.leaseExpires = until] \in Attempt
    BY <1>1, <1>2, <1>3 DEF Attempt
  <1>5. as \in Seq(Attempt) /\ Len(as) = r.attemptCount
    BY <1>1, <1>4
  <1>6. /\ as[r.attemptCount].leaseExpires = until
        /\ as[r.attemptCount].worker = r.attempts[r.attemptCount].worker
        /\ \A n \in 1..r.attemptCount : as[n].status = r.attempts[n].status
    BY <1>1, <1>3 DEF Attempt
  <1>7. Extended(r, now) = Record(y)
    BY <1>1 DEF Extended, JobRow, until
  <1>. HIDE DEF as
  <1>8. y \in JobRow
    BY <1>1, <1>2, <1>5 DEF JobRow
  <1>9. /\ y.leaseExpires = until /\ y.attempts = as /\ y.status = r.status
        /\ y.attemptCount = r.attemptCount /\ y.leaseOwner = r.leaseOwner
        /\ y.def = r.def /\ y.key = r.key /\ y.request = r.request
        /\ y.availableAt = r.availableAt /\ y.deadline = r.deadline
        /\ y.cancelRequested = r.cancelRequested
        /\ y.version = r.version /\ y.published = r.published
    BY <1>1 DEF JobRow
  <1>. HIDE DEF y
  <1>10. LeaseAgrees(y)
    <2>1. AttemptRunning(y)
      <3>1. DOMAIN as = 1..r.attemptCount
        BY <1>5, LenProperties
      <3>2. r.attempts[r.attemptCount].status = "running"
        BY DEF RowOK, LeaseAgrees, AttemptRunning
      <3>3. r.attemptCount \in DOMAIN as /\ as[r.attemptCount].status = "running"
        BY <1>1, <1>6, <3>1, <3>2
      <3>. QED
        BY <1>9, <3>3 DEF AttemptRunning
    <2>. QED
      BY <1>1, <1>5, <1>6, <1>9, <2>1 DEF RowOK, LeaseAgrees
  <1>11. Accepted(y) /\ WithinBudget(y) /\ Gapless(y)
    BY <1>9 DEF RowOK, Accepted, WithinBudget, Gapless
  <1>. QED
    BY <1>7, <1>8, <1>9, <1>10, <1>11, RecordRowOK DEF RowOK

LEMMA CancelAskedOK ==
  ASSUME NEW r, RowOK(r), r.status \in Live
  PROVE  RowOK(CancelAsked(r))
  <1>. DEFINE a == [r EXCEPT !.cancelRequested = TRUE]
              y == [a EXCEPT !.status = "cancelled", !.leaseOwner = None, !.leaseExpires = 0]
  <1>1. r \in JobRow
    BY DEF RowOK
  <1>2. a \in JobRow /\ y \in JobRow
    BY <1>1, ZenonT(60) DEF JobRow, Terminal
  <1>3. CASE r.status = "running"
    <2>1. RowOK(a)
      <3>1. LeaseAgrees(a)
        BY <1>1 DEF RowOK, JobRow, LeaseAgrees, AttemptRunning
      <3>2. Accepted(a) /\ WithinBudget(a) /\ Gapless(a)
        BY <1>1 DEF RowOK, JobRow, Accepted, WithinBudget, Gapless
      <3>3. a.status = "running"
        BY <1>1, <1>3 DEF JobRow
      <3>. QED
        BY <1>2, <3>1, <3>2, <3>3 DEF RowOK
    <2>. QED
      BY <1>3, <2>1, RecordRowOK DEF CancelAsked
  <1>4. CASE r.status # "running"
    <2>1. RowOK(y)
      <3>1. /\ y.status = "cancelled" /\ y.leaseOwner = None
            /\ y.attempts = r.attempts /\ y.attemptCount = r.attemptCount
            /\ y.def = r.def /\ y.key = r.key /\ y.request = r.request
            /\ y.availableAt = r.availableAt /\ y.deadline = r.deadline
            /\ y.version = r.version /\ y.published = r.published
        BY <1>1 DEF JobRow
      <3>2. LeaseAgrees(y)
        BY <1>4, <3>1 DEF RowOK, LeaseAgrees
      <3>3. Accepted(y) /\ WithinBudget(y) /\ Gapless(y)
        BY <3>1 DEF RowOK, Accepted, WithinBudget, Gapless, Live, Waiting
      <3>. QED
        BY <1>2, <3>1, <3>2, <3>3 DEF RowOK
    <2>2. CancelAsked(r) = Record(y)
      BY <1>4 DEF CancelAsked, ClearLease
    <2>. QED
      BY <2>1, <2>2, RecordRowOK
  <1>. QED
    BY <1>3, <1>4

LEMMA SweptOK ==
  ASSUME NEW r, RowOK(r), NEW now \in Nat
  PROVE  RowOK(Swept(r, now))
  <1>1. CASE LeaseExpired(r, now)
    BY <1>1, UnsuccessfulOK DEF Swept, LeaseExpired
  <1>2. CASE ~LeaseExpired(r, now) /\ r.status \in Waiting /\ r.deadline <= now
    <2>. DEFINE y == [r EXCEPT !.status = "expired"]
    <2>1. /\ y \in JobRow /\ y.status = "expired" /\ y.leaseOwner = r.leaseOwner
          /\ y.attempts = r.attempts /\ y.attemptCount = r.attemptCount
          /\ y.def = r.def /\ y.key = r.key /\ y.request = r.request
          /\ y.availableAt = r.availableAt /\ y.deadline = r.deadline
          /\ y.version = r.version /\ y.published = r.published
      BY ZenonT(60) DEF RowOK, JobRow, Terminal
    <2>2. LeaseAgrees(y)
      BY <1>2, <2>1 DEF RowOK, LeaseAgrees, Waiting
    <2>3. Accepted(y) /\ WithinBudget(y) /\ Gapless(y)
      BY <1>2, <2>1 DEF RowOK, Accepted, WithinBudget, Gapless, Waiting
    <2>4. RowOK(y)
      BY <2>1, <2>2, <2>3 DEF RowOK
    <2>. QED
      BY <1>2, <2>4, RecordRowOK DEF Swept
  <1>3. CASE ~LeaseExpired(r, now) /\ ~(r.status \in Waiting /\ r.deadline <= now)
    BY <1>3 DEF Swept
  <1>. QED
    BY <1>1, <1>2, <1>3

LEMMA AbsentOK ==
  /\ AbsentJob \in JobRow
  /\ AbsentJob.status = "absent" /\ AbsentJob.attemptCount = 0
  /\ AbsentJob.leaseOwner = None /\ AbsentJob.cancelRequested = FALSE
  /\ AbsentJob.version = 0 /\ AbsentJob.published = <<>> /\ AbsentJob.attempts = <<>>
  <1>1. <<>> \in Seq(Nat) /\ <<>> \in Seq(Attempt)
    OBVIOUS
  <1>. QED
    BY <1>1 DEF AbsentJob, JobRow

\* A job as enqueue and replay first write it.
LEMMA NewJobOK ==
  ASSUME clock \in Nat, NEW d \in Definition, NEW k \in Key, NEW q \in Request,
         q.availableAt < q.deadline
  PROVE  RowOK(NewJob(d, k, q))
  <1>. DEFINE x == NewJob(d, k, q)
  <1>1. q.availableAt \in Nat /\ q.deadline \in Nat
    BY DEF Request
  <1>2. <<1>> \in Seq(Nat) /\ <<>> \in Seq(Attempt)
    OBVIOUS
  <1>3. /\ x.status = "queued" /\ x.def = d /\ x.key = k /\ x.request = q
        /\ x.availableAt = q.availableAt /\ x.deadline = q.deadline
        /\ x.attemptCount = 0 /\ x.leaseOwner = None /\ ~x.cancelRequested
        /\ x.version = 1 /\ x.published = <<1>> /\ x.attempts = <<>>
    BY AbsentOK DEF NewJob, JobRow
  <1>4. x \in JobRow
    <2>1. AbsentJob \in JobRow
      BY AbsentOK
    <2>. HIDE DEF AbsentJob
    <2>2. ASSUME NEW a \in Nat, NEW b \in Nat, NEW c \in Nat, NEW g \in Seq(Nat)
          PROVE  [AbsentJob EXCEPT !.status = "queued", !.def = d, !.key = k, !.request = q,
                    !.availableAt = a, !.deadline = b, !.createdAt = c, !.version = 1,
                    !.published = g] \in JobRow
      BY <2>1 DEF JobRow, Live, Waiting
    <2>. QED
      BY <1>1, <1>2, <2>2 DEF NewJob
  <1>. HIDE DEF x
  <1>5. LeaseAgrees(x)
    BY <1>3 DEF LeaseAgrees
  <1>6. WithinBudget(x)
    <2>1. MaxAttempts \in [Definition -> 1..5]
      BY DefinitionAssumption
    <2>2. MaxAttempts[d] \in 1..5
      BY <2>1
    <2>. QED
      BY <1>3, <2>2 DEF WithinBudget
  <1>7. Gapless(x)
    BY <1>3 DEF Gapless
  <1>8. Accepted(x)
    BY <1>1, <1>3 DEF Accepted
  <1>. QED
    BY <1>3, <1>4, <1>5, <1>6, <1>7, <1>8 DEF RowOK, x

\* The links between a dead letter and its replay concern neither row's state.
LEMMA LinksOK ==
  ASSUME NEW r, RowOK(r), NEW n \in Job \cup {None}, NEW l \in {"none", "open", "replayed"}
  PROVE  /\ RowOK([r EXCEPT !.replayOf = n])
         /\ RowOK([r EXCEPT !.letter = l, !.replayJob = n])
  <1>1. r \in JobRow
    BY DEF RowOK
  <1>2. ASSUME NEW x \in JobRow, SameCore(r, x), x.version = r.version,
               x.published = r.published, x.attempts = r.attempts
        PROVE  RowOK(x)
    <2>1. LeaseAgrees(x)
      BY <1>2 DEF RowOK, LeaseAgrees, SameCore, AttemptRunning
    <2>2. Accepted(x) /\ WithinBudget(x) /\ Gapless(x)
      BY <1>2 DEF RowOK, SameCore, Accepted, WithinBudget, Gapless
    <2>. QED
      BY <1>2, <2>1, <2>2 DEF RowOK, SameCore
  <1>3. /\ [r EXCEPT !.replayOf = n] \in JobRow
        /\ SameCore(r, [r EXCEPT !.replayOf = n])
        /\ [r EXCEPT !.replayOf = n].version = r.version
        /\ [r EXCEPT !.replayOf = n].published = r.published
        /\ [r EXCEPT !.replayOf = n].attempts = r.attempts
    BY <1>1, ZenonT(60) DEF JobRow, SameCore
  <1>. DEFINE z == [r EXCEPT !.letter = l, !.replayJob = n]
  <1>4. z \in JobRow
    BY <1>1, ZenonT(60) DEF JobRow
  <1>5. /\ SameCore(r, z) /\ z.version = r.version
        /\ z.published = r.published /\ z.attempts = r.attempts
    BY <1>1 DEF JobRow, SameCore
  <1>. QED
    BY <1>2, <1>3, <1>4, <1>5

-----------------------------------------------------------------------------
(* Tables of rows *)

TableOK(f) == f \in [Job -> JobRow] /\ \A j \in Job : RowOK(f[j])

LEMMA PutOK ==
  ASSUME NEW f, TableOK(f), NEW j \in Job, NEW r, RowOK(r)
  PROVE  TableOK([f EXCEPT ![j] = r])
  BY DEF TableOK, RowOK

LEMMA TableInv == TypeOK /\ RowsOK <=> TypeOK /\ TableOK(job)
  BY DEF TypeOK, RowsOK, TableOK

\* The sweep at the start of claim_next.
LEMMA SweptJobsOK ==
  ASSUME TableOK(job), clock \in Nat
  PROVE  TableOK(SweptJobs)
  <1>1. \A j \in Job : RowOK(Swept(job[j], clock))
    BY SweptOK DEF TableOK
  <1>. QED
    BY <1>1 DEF TableOK, SweptJobs, RowOK

\* Every candidate of claim_next waits.
LEMMA CandidateWaits ==
  ASSUME NEW f, NEW j \in Candidates(f, clock)
  PROVE  j \in Job /\ f[j].status \in Waiting
  BY DEF Candidates, Heads, Claimable, WithStatus

-----------------------------------------------------------------------------
(* The inductive invariant *)

LEMMA InitIInv == Init => IInv
  <1>. SUFFICES ASSUME Init PROVE IInv
    OBVIOUS
  <1>1. AbsentJob \in JobRow
    BY AbsentOK
  <1>2. RowOK(AbsentJob)
    <2>1. LeaseAgrees(AbsentJob) /\ Gapless(AbsentJob)
      BY AbsentOK DEF LeaseAgrees, Gapless
    <2>. QED
      BY <2>1, AbsentOK DEF RowOK, Accepted, WithinBudget
  <1>3. TypeOK
    BY <1>1 DEF Init, TypeOK
  <1>. QED
    BY <1>2, <1>3 DEF IInv, RowsOK, Init

LEMMA RegisterDefinitionIInv ==
  ASSUME IInv, NEW d \in Definition, RegisterDefinition(d)
  PROVE  IInv'
  BY DEF IInv, TypeOK, RowsOK, RegisterDefinition

LEMMA EnqueueIInv ==
  ASSUME IInv, NEW j \in Job, NEW d \in Definition, NEW k \in Key, NEW p \in Payload,
         NEW delay \in StartDelay, NEW life \in Lifetime, Enqueue(j, d, k, p, delay, life)
  PROVE  IInv'
  <1>. DEFINE q == [payload |-> p, availableAt |-> clock + delay,
                    deadline |-> clock + delay + life, causation |-> None]
  <1>1. clock \in Nat /\ TableOK(job)
    BY TableInv DEF IInv, TypeOK
  <1>2. delay \in Nat /\ life \in Nat \ {0}
    BY LimitAssumption
  <1>3. q \in Request /\ q.availableAt < q.deadline
    BY <1>1, <1>2 DEF Request
  <1>4. job' = [job EXCEPT ![j] = NewJob(d, k, q)] /\ UNCHANGED <<clock, registered, control, exec>>
    BY DEF Enqueue
  <1>. HIDE DEF q
  <1>5. TableOK(job')
    BY <1>1, <1>3, <1>4, NewJobOK, PutOK
  <1>. QED
    BY <1>4, <1>5 DEF IInv, TypeOK, RowsOK, TableOK

LEMMA CancelIInv ==
  ASSUME IInv, NEW j \in Job, Cancel(j)
  PROVE  IInv'
  <1>1. TableOK(job)
    BY TableInv DEF IInv
  <1>2. RowOK(CancelAsked(job[j]))
    BY <1>1, CancelAskedOK DEF TableOK, Cancel
  <1>3. job' = [job EXCEPT ![j] = CancelAsked(job[j])] /\ UNCHANGED <<clock, registered, control, exec>>
    BY DEF Cancel
  <1>4. TableOK(job')
    BY <1>1, <1>2, <1>3, PutOK
  <1>. QED
    BY <1>3, <1>4 DEF IInv, TypeOK, RowsOK, TableOK

LEMMA ReplayIInv ==
  ASSUME IInv, NEW j \in Job, NEW n \in Job, NEW k \in Key, Replay(j, n, k)
  PROVE  IInv'
  <1>. DEFINE r  == job[j]
              lt == IF r.deadline - r.createdAt > ReplayFloor
                    THEN r.deadline - r.createdAt ELSE ReplayFloor
              q  == [payload |-> r.request.payload, availableAt |-> clock,
                     deadline |-> clock + lt, causation |-> j]
              x  == [NewJob(r.def, k, q) EXCEPT !.replayOf = j]
              y  == Record([r EXCEPT !.letter = "replayed", !.replayJob = n])
  <1>1. clock \in Nat /\ TableOK(job) /\ RowOK(r) /\ r \in JobRow
    BY TableInv DEF IInv, TypeOK, TableOK
  <1>2. r.def \in Definition /\ r.request \in Request
    BY <1>1 DEF Replay, Replayable, RowOK, Accepted
  <1>3. lt \in Nat \ {0}
    <2>1. r.deadline \in Nat /\ r.createdAt \in Nat
      BY <1>1, SMTT(60) DEF JobRow
    <2>2. ReplayFloor \in Nat \ {0}
      BY LimitAssumption
    <2>. QED
      BY <2>1, <2>2
  <1>. HIDE DEF lt
  <1>4. q \in Request /\ q.availableAt < q.deadline
    BY <1>1, <1>2, <1>3 DEF Request
  <1>5. /\ job' = [job EXCEPT ![n] = x, ![j] = y]
        /\ UNCHANGED <<clock, registered, control, exec>>
    BY DEF Replay, lt
  <1>. HIDE DEF q, r
  <1>6. RowOK(x)
    BY <1>1, <1>2, <1>4, NewJobOK, LinksOK, ZenonT(60)
  <1>7. RowOK(y)
    BY <1>1, LinksOK, RecordRowOK
  <1>. HIDE DEF x, y
  <1>8. TableOK([job EXCEPT ![n] = x])
    BY <1>1, <1>6, PutOK
  <1>9. TableOK(job')
    BY <1>5, <1>7, <1>8, PutOK
  <1>. QED
    BY <1>5, <1>9 DEF IInv, TypeOK, RowsOK, TableOK

LEMMA SetPausedIInv ==
  ASSUME IInv, NEW s \in Scope, NEW paused \in BOOLEAN, NEW v \in 0..MaxControls,
         SetPaused(s, paused, v)
  PROVE  IInv'
  <1>1. control' \in [Scope -> [paused : BOOLEAN, version : Nat]]
    BY DEF IInv, TypeOK, SetPaused
  <1>. QED
    BY <1>1 DEF IInv, TypeOK, RowsOK, SetPaused

LEMMA ClaimNextIInv ==
  ASSUME IInv, NEW w \in Worker, ClaimNext(w)
  PROVE  IInv'
  <1>1. clock \in Nat /\ TableOK(SweptJobs) /\ UNCHANGED <<clock, registered, control>>
    BY TableInv, SweptJobsOK DEF IInv, TypeOK, ClaimNext
  <1>2. CASE job' = SweptJobs /\ UNCHANGED exec
    BY <1>1, <1>2 DEF IInv, TypeOK, RowsOK, TableOK
  <1>3. ASSUME NEW j \in Candidates(SweptJobs, clock),
               job' = [SweptJobs EXCEPT ![j] = Claimed(SweptJobs[j], w, clock)],
               exec' = exec \cup {[worker |-> w, job |-> j,
                                   attempt |-> SweptJobs[j].attemptCount + 1]}
        PROVE  IInv'
    <2>1. j \in Job /\ SweptJobs[j].status \in Waiting
      BY CandidateWaits
    <2>2. RowOK(SweptJobs[j]) /\ SweptJobs[j].attemptCount \in Nat
      BY <1>1, <2>1 DEF TableOK, RowOK, JobRow
    <2>3. RowOK(Claimed(SweptJobs[j], w, clock))
      BY <1>1, <2>1, <2>2, ClaimedOK
    <2>4. TableOK(job')
      BY <1>1, <1>3, <2>1, <2>3, PutOK
    <2>5. exec' \subseteq [worker : Worker, job : Job, attempt : Nat \ {0}]
      BY <1>3, <2>1, <2>2 DEF IInv, TypeOK
    <2>. QED
      BY <1>1, <2>4, <2>5 DEF IInv, TypeOK, RowsOK, TableOK
  <1>. QED
    BY <1>2, <1>3 DEF ClaimNext

LEMMA RunOnceIInv ==
  ASSUME IInv, NEW w \in Worker, RunOnce(w)
  PROVE  IInv'
  <1>1. clock \in Nat /\ TableOK(SweptJobs) /\ UNCHANGED <<clock, registered, control, exec>>
    BY TableInv, SweptJobsOK DEF IInv, TypeOK, RunOnce
  <1>2. PICK j \in Candidates(SweptJobs, clock) :
          LET claimed == Claimed(SweptJobs[j], w, clock)
          IN  \/ /\ ~claimed.cancelRequested
                 /\ job' = [SweptJobs EXCEPT ![j] = Succeeded(claimed)]
              \/ \E c \in Reported :
                   job' = [SweptJobs EXCEPT ![j] = Failed(claimed, c, clock)]
    BY DEF RunOnce
  <1>. DEFINE x == Claimed(SweptJobs[j], w, clock)
  <1>3. j \in Job /\ SweptJobs[j].status \in Waiting
    BY CandidateWaits
  <1>4. RowOK(x) /\ x.status = "running"
    BY <1>1, <1>3, ClaimedOK DEF TableOK
  <1>. HIDE DEF x
  <1>5. PICK y : RowOK(y) /\ job' = [SweptJobs EXCEPT ![j] = y]
    <2>1. CASE ~x.cancelRequested /\ job' = [SweptJobs EXCEPT ![j] = Succeeded(x)]
      BY <1>4, <2>1, SucceededOK
    <2>2. ASSUME NEW c \in Reported, job' = [SweptJobs EXCEPT ![j] = Failed(x, c, clock)]
          PROVE  \E y : RowOK(y) /\ job' = [SweptJobs EXCEPT ![j] = y]
      BY <1>1, <1>4, <2>2, UnsuccessfulOK DEF Failed
    <2>. QED
      BY <1>2, <2>1, <2>2 DEF x
  <1>6. TableOK(job')
    BY <1>1, <1>3, <1>5, PutOK
  <1>. QED
    BY <1>1, <1>6 DEF IInv, TypeOK, RowsOK, TableOK

\* What the handler of e reports puts one row back that is still right.
LEMMA HandlerIInv ==
  ASSUME IInv, NEW e \in exec, NEW r, RowOK(r),
         job' = [job EXCEPT ![e.job] = r] \/ job' = job,
         exec' \subseteq exec, UNCHANGED <<clock, registered, control>>
  PROVE  IInv'
  <1>1. TableOK(job) /\ e.job \in Job
    BY TableInv DEF IInv, TypeOK
  <1>2. TableOK(job')
    BY <1>1, PutOK
  <1>. QED
    BY <1>2 DEF IInv, TypeOK, RowsOK, TableOK

LEMMA ExecIInv ==
  ASSUME IInv, NEW e \in exec,
         \/ Heartbeat(e) \/ HeartbeatCancelled(e) \/ Succeed(e)
         \/ \E c \in Reported : Fail(e, c)
         \/ HandlerLost(e)
  PROVE  IInv'
  <1>1. clock \in Nat /\ e.job \in Job /\ RowOK(job[e.job])
    BY DEF IInv, TypeOK, RowsOK
  <1>2. CASE Heartbeat(e)
    <2>1. RowOK(Extended(job[e.job], clock))
      BY <1>1, <1>2, ExtendedOK DEF Heartbeat, Holds
    <2>. QED
      BY <1>2, <2>1, HandlerIInv DEF Heartbeat
  <1>3. CASE HeartbeatCancelled(e)
    <2>1. RowOK(CancelObserved(job[e.job]))
      BY <1>1, <1>3, CancelObservedOK DEF HeartbeatCancelled, Holds
    <2>. QED
      BY <1>3, <2>1, HandlerIInv DEF HeartbeatCancelled
  <1>4. CASE Succeed(e)
    <2>1. RowOK(Succeeded(job[e.job]))
      BY <1>1, <1>4, SucceededOK DEF Succeed, Holds
    <2>. QED
      BY <1>4, <2>1, HandlerIInv DEF Succeed
  <1>5. ASSUME NEW c \in Reported, Fail(e, c) PROVE IInv'
    <2>1. RowOK(Failed(job[e.job], c, clock))
      BY <1>1, <1>5, UnsuccessfulOK DEF Fail, Holds, Failed
    <2>. QED
      BY <1>5, <2>1, HandlerIInv DEF Fail
  <1>6. CASE HandlerLost(e)
    BY <1>1, <1>6, HandlerIInv DEF HandlerLost
  <1>. QED
    BY <1>2, <1>3, <1>4, <1>5, <1>6

\* One case per action.
LEMMA NextIInv == IInv /\ [Next]_vars => IInv'
  <1>. SUFFICES ASSUME IInv, [Next]_vars PROVE IInv'
    OBVIOUS
  <1>1. CASE \E d \in Definition : RegisterDefinition(d)
    BY <1>1, RegisterDefinitionIInv
  <1>2. CASE \E j \in Job, d \in Definition, k \in Key, p \in Payload,
                delay \in StartDelay, life \in Lifetime : Enqueue(j, d, k, p, delay, life)
    BY <1>2, EnqueueIInv
  <1>3. CASE \E j \in Job : Cancel(j)
    BY <1>3, CancelIInv
  <1>4. CASE \E j, n \in Job, k \in Key : Replay(j, n, k)
    BY <1>4, ReplayIInv
  <1>5. CASE \E s \in Scope \cap Pausable, paused \in BOOLEAN, v \in 0..MaxControls : SetPaused(s, paused, v)
    BY <1>5, SetPausedIInv
  <1>6. CASE \E w \in Worker : ClaimNext(w) \/ RunOnce(w)
    BY <1>6, ClaimNextIInv, RunOnceIInv
  <1>7. CASE \E e \in exec : \/ Heartbeat(e) \/ HeartbeatCancelled(e) \/ Succeed(e)
                             \/ \E c \in Reported : Fail(e, c)
                             \/ HandlerLost(e)
    BY <1>7, ExecIInv
  <1>8. CASE Tick
    BY <1>8 DEF IInv, TypeOK, RowsOK, Tick
  <1>9. CASE UNCHANGED vars
    BY <1>9 DEF IInv, TypeOK, RowsOK, vars
  <1>. QED
    BY <1>1, <1>2, <1>3, <1>4, <1>5, <1>6, <1>7, <1>8, <1>9 DEF Next

\* The inductive invariant holds in every reachable state.
THEOREM IInvHolds == Spec => []IInv
  BY InitIInv, NextIInv, PTL DEF Spec

\* The tables always hold what their columns and CHECK constraints allow.
THEOREM TypeCorrect == Spec => []TypeOK
  <1>1. IInv => TypeOK
    BY DEF IInv
  <1>. QED
    BY <1>1, IInvHolds, PTL

\* A job runs exactly when it has a lease, its last attempt is the running one
\* with the same owner and expiry, and no other attempt runs: the sweep of
\* claim_next never meets the state in which _require_attempt raises.
THEOREM LeaseAgreementHolds == Spec => []LeaseAgreement
  <1>1. IInv => LeaseAgreement
    BY DEF IInv, RowsOK, RowOK, LeaseAgreement
  <1>. QED
    BY <1>1, IInvHolds, PTL

\* What waits always has an attempt left, and no job exceeds its retry budget.
THEOREM AttemptBudgetHolds == Spec => []AttemptBudget
  <1>1. IInv => AttemptBudget
    BY DEF IInv, RowsOK, RowOK, AttemptBudget
  <1>. QED
    BY <1>1, IInvHolds, PTL

\* ck_job_instances_deadline never fails a retry, a sweep or a replay.
THEOREM AvailableBeforeDeadlineHolds == Spec => []AvailableBeforeDeadline
  <1>1. IInv => AvailableBeforeDeadline
    BY DEF IInv, RowsOK, RowOK, Accepted, AvailableBeforeDeadline
  <1>. QED
    BY <1>1, IInvHolds, PTL

\* The outbox sequences of a job are 1, 2, ... state_version.
THEOREM OutboxGaplessHolds == Spec => []OutboxGapless
  <1>1. IInv => OutboxGapless
    BY DEF IInv, RowsOK, RowOK, OutboxGapless
  <1>. QED
    BY <1>1, IInvHolds, PTL

\* A job whose cancellation was requested never ends as succeeded.
THEOREM CancelledNeverSucceedsHolds == Spec => []CancelledNeverSucceeds
  <1>1. IInv => CancelledNeverSucceeds
    BY DEF IInv, RowsOK, RowOK, CancelledNeverSucceeds
  <1>. QED
    BY <1>1, IInvHolds, PTL

-----------------------------------------------------------------------------
(* What ended stays ended *)

\* Nothing a call does to the rows r of a job, leaving s, rewrites its history.
Kept(r, s) ==
  r.status # "absent" =>
    /\ r.status \in Terminal => s.status = r.status
    /\ s.status # "absent" /\ s.request = r.request
    /\ Len(r.attempts) <= Len(s.attempts)
    /\ \A n \in 1..Len(r.attempts) :
         r.attempts[n].status # "running" => s.attempts[n] = r.attempts[n]

LEMMA KeptTransitive ==
  ASSUME NEW r \in JobRow, NEW s \in JobRow, NEW t \in JobRow, Kept(r, s), Kept(s, t)
  PROVE  Kept(r, t)
  <1>. SUFFICES ASSUME r.status # "absent" PROVE Kept(r, t)
    BY DEF Kept
  <1>1. Len(r.attempts) \in Nat /\ Len(s.attempts) \in Nat /\ Len(t.attempts) \in Nat
    <2>1. r.attempts \in Seq(Attempt) /\ s.attempts \in Seq(Attempt) /\ t.attempts \in Seq(Attempt)
      BY DEF JobRow
    <2>. QED
      BY <2>1
  <1>2. s.status # "absent"
    BY DEF Kept
  <1>3. Len(r.attempts) <= Len(s.attempts) /\ Len(s.attempts) <= Len(t.attempts)
    BY <1>2 DEF Kept
  <1>4. ASSUME NEW n \in 1..Len(r.attempts), r.attempts[n].status # "running"
        PROVE  t.attempts[n] = r.attempts[n]
    <2>1. s.attempts[n] = r.attempts[n]
      BY <1>4 DEF Kept
    <2>2. n \in 1..Len(s.attempts)
      BY <1>1, <1>3
    <2>. QED
      BY <1>2, <1>4, <2>1, <2>2 DEF Kept
  <1>5. /\ r.status \in Terminal => t.status = r.status
        /\ t.status # "absent" /\ t.request = r.request
    BY <1>2 DEF Kept
  <1>. QED
    BY <1>1, <1>3, <1>4, <1>5 DEF Kept

LEMMA KeptReflexive ==
  ASSUME NEW r \in JobRow
  PROVE  Kept(r, r)
  BY DEF Kept, JobRow

\* _record and anything else that leaves the attempts and the request alone.
LEMMA RecordKept ==
  ASSUME NEW r, NEW s, RowOK(s), Kept(r, s)
  PROVE  Kept(r, Record(s))
  <1>1. SameCore(s, Record(s)) /\ Record(s).attempts = s.attempts
    BY RecordOK DEF RowOK
  <1>. QED
    BY <1>1 DEF Kept, SameCore

\* The end of the running attempt leaves the attempts before it.
LEMMA EndedKept ==
  ASSUME NEW r, RowOK(r), r.status = "running",
         NEW o \in {"succeeded", "failed", "abandoned", "cancelled"},
         NEW st \in Waiting \cup Terminal
  PROVE  Kept(r, Ended(r, o, st))
  <1>. DEFINE e == EndAttempt(r, o)
              x == Ended(r, o, st)
  <1>1. /\ r \in JobRow /\ r.attempts \in Seq(Attempt) /\ r.attemptCount \in 1..Len(r.attempts)
        /\ r.attempts[r.attemptCount].status = "running"
    BY DEF RowOK, JobRow, LeaseAgrees, AttemptRunning
  <1>2. e \in JobRow /\ e.request = r.request /\ Len(e.attempts) = Len(r.attempts)
    BY EndAttemptOK DEF RowOK, SameCore, LeaseAgrees
  <1>3. e.attempts = [r.attempts EXCEPT ![r.attemptCount].status = o]
    BY <1>1 DEF EndAttempt, JobRow
  <1>4. \A n \in 1..Len(r.attempts) : n # r.attemptCount => e.attempts[n] = r.attempts[n]
    BY <1>1, <1>3
  <1>. HIDE DEF e
  <1>5. x.status = st /\ x.request = r.request /\ x.attempts = e.attempts
    BY <1>2 DEF Ended, ClearLease, JobRow, e
  <1>. HIDE DEF x
  <1>6. st # "absent" /\ r.status \notin Terminal
    BY DEF Waiting, Terminal
  <1>. QED
    BY <1>1, <1>2, <1>4, <1>5, <1>6 DEF Kept, x

LEMMA SucceededKept ==
  ASSUME NEW r, RowOK(r), r.status = "running", ~r.cancelRequested
  PROVE  Kept(r, Succeeded(r))
  <1>1. RowOK(Ended(r, "succeeded", "succeeded"))
    BY EndedOK DEF Waiting, Terminal
  <1>2. Kept(r, Ended(r, "succeeded", "succeeded"))
    BY EndedKept DEF Terminal
  <1>. QED
    BY <1>1, <1>2, RecordKept DEF Succeeded

LEMMA CancelObservedKept ==
  ASSUME NEW r, RowOK(r), r.status = "running"
  PROVE  Kept(r, CancelObserved(r))
  <1>1. RowOK(Ended(r, "cancelled", "cancelled"))
    BY EndedOK DEF Waiting, Terminal
  <1>2. Kept(r, Ended(r, "cancelled", "cancelled"))
    BY EndedKept DEF Terminal
  <1>. QED
    BY <1>1, <1>2, RecordKept DEF CancelObserved

LEMMA UnsuccessfulKept ==
  ASSUME NEW r, RowOK(r), r.status = "running", NEW now \in Nat, NEW c,
         NEW o \in {"failed", "abandoned"}
  PROVE  Kept(r, Unsuccessful(r, o, c, now))
  <1>. DEFINE dec == RetryDecision(r.def, c, r.attemptCount, now, r.deadline)
              x   == Ended(r, o, dec.status)
              y   == [x EXCEPT !.availableAt = IF dec.status = "retry_wait" THEN dec.at ELSE @,
                               !.letter = IF dec.status = "dead_lettered" THEN "open" ELSE @]
  <1>1. dec.status \in Waiting \cup Terminal
    BY RetryDecisionOK DEF Waiting, Terminal
  <1>. HIDE DEF dec
  <1>2. Kept(r, x)
    BY <1>1, EndedKept
  <1>3. x \in JobRow
    <2>1. EndAttempt(r, o) \in JobRow
      BY EndAttemptOK DEF RowOK
    <2>. HIDE DEF EndAttempt
    <2>. QED
      BY <1>1, <2>1 DEF Ended, ClearLease, JobRow, Live
  <1>. HIDE DEF x
  <1>4. y.status = x.status /\ y.request = x.request /\ y.attempts = x.attempts
        /\ y.version = x.version /\ y.published = x.published
    BY <1>3 DEF JobRow
  <1>5. y.attempts \in Seq(Attempt)
    BY <1>3, <1>4 DEF JobRow
  <1>6. Record(y).status = y.status /\ Record(y).request = y.request
        /\ Record(y).attempts = y.attempts
    BY <1>3 DEF Record, JobRow
  <1>7. Unsuccessful(r, o, c, now) = Record(y)
    BY DEF Unsuccessful, x, dec
  <1>. HIDE DEF y
  <1>. QED
    BY <1>2, <1>4, <1>6, <1>7 DEF Kept

LEMMA ClaimedKept ==
  ASSUME NEW r, RowOK(r), r.status \in Waiting, NEW w \in Worker, NEW now \in Nat
  PROVE  Kept(r, Claimed(r, w, now))
  <1>. DEFINE t == [worker |-> w, status |-> "running", startedAt |-> now,
                    leaseExpires |-> now + LeaseSeconds]
              x == Claimed(r, w, now)
  <1>1. r \in JobRow /\ r.attempts \in Seq(Attempt)
    BY DEF RowOK, JobRow
  <1>2. t \in Attempt
    BY LimitAssumption DEF Attempt
  <1>3. x.status = "running" /\ x.request = r.request /\ x.attempts = Append(r.attempts, t)
    BY <1>1 DEF Claimed, Record, JobRow
  <1>. HIDE DEF t, x
  <1>4. /\ Len(x.attempts) = Len(r.attempts) + 1
        /\ \A n \in 1..Len(r.attempts) : x.attempts[n] = r.attempts[n]
    BY <1>1, <1>2, <1>3
  <1>5. Len(r.attempts) \in Nat /\ r.status \notin Terminal
    BY <1>1 DEF Waiting, Terminal
  <1>. QED
    BY <1>3, <1>4, <1>5 DEF Kept, x

LEMMA ExtendedKept ==
  ASSUME NEW r, RowOK(r), r.status = "running", NEW now \in Nat
  PROVE  Kept(r, Extended(r, now))
  <1>. DEFINE as == [r.attempts EXCEPT ![r.attemptCount].leaseExpires = now + LeaseSeconds]
              x  == Extended(r, now)
  <1>1. /\ r \in JobRow /\ r.attempts \in Seq(Attempt) /\ r.attemptCount \in 1..Len(r.attempts)
        /\ r.attempts[r.attemptCount].status = "running"
    BY DEF RowOK, JobRow, LeaseAgrees, AttemptRunning
  <1>2. x.status = r.status /\ x.request = r.request /\ x.attempts = as
    BY <1>1 DEF Extended, Record, JobRow
  <1>3. Len(as) = Len(r.attempts)
    BY <1>1
  <1>4. \A n \in 1..Len(r.attempts) : n # r.attemptCount => as[n] = r.attempts[n]
    BY <1>1
  <1>. HIDE DEF as, x
  <1>5. Len(r.attempts) \in Nat
    BY <1>1
  <1>6. Len(r.attempts) <= Len(x.attempts)
    BY <1>2, <1>3, <1>5
  <1>7. \A n \in 1..Len(r.attempts) :
          r.attempts[n].status # "running" => x.attempts[n] = r.attempts[n]
    BY <1>1, <1>2, <1>4
  <1>8. Kept(r, x)
    BY <1>2, <1>6, <1>7 DEF Kept
  <1>. QED
    BY <1>8 DEF x

LEMMA CancelAskedKept ==
  ASSUME NEW r, RowOK(r), r.status \in Live
  PROVE  Kept(r, CancelAsked(r))
  <1>. DEFINE x == CancelAsked(r)
  <1>1. r \in JobRow /\ Len(r.attempts) \in Nat
    BY DEF RowOK, JobRow
  <1>2. x.status \in {r.status, "cancelled"} /\ x.request = r.request /\ x.attempts = r.attempts
    BY <1>1 DEF CancelAsked, ClearLease, Record, JobRow
  <1>. HIDE DEF x
  <1>. QED
    BY <1>1, <1>2 DEF Kept, Live, Waiting, Terminal, x

LEMMA SweptKept ==
  ASSUME NEW r, RowOK(r), NEW now \in Nat
  PROVE  Kept(r, Swept(r, now))
  <1>0. r \in JobRow /\ Len(r.attempts) \in Nat
    BY DEF RowOK, JobRow
  <1>1. CASE LeaseExpired(r, now)
    BY <1>1, UnsuccessfulKept DEF Swept, LeaseExpired
  <1>2. CASE ~LeaseExpired(r, now) /\ r.status \in Waiting /\ r.deadline <= now
    <2>. DEFINE x == Record([r EXCEPT !.status = "expired"])
    <2>1. x.status = "expired" /\ x.request = r.request /\ x.attempts = r.attempts
      BY <1>0 DEF Record, JobRow
    <2>2. Swept(r, now) = x
      BY <1>2 DEF Swept
    <2>. HIDE DEF x
    <2>. QED
      BY <1>0, <1>2, <2>1, <2>2 DEF Kept, Waiting, Terminal
  <1>3. CASE ~LeaseExpired(r, now) /\ ~(r.status \in Waiting /\ r.deadline <= now)
    BY <1>0, <1>3, KeptReflexive DEF Swept
  <1>. QED
    BY <1>1, <1>2, <1>3

TableKept(f, g) == \A j \in Job : Kept(f[j], g[j])

LEMMA PutKept ==
  ASSUME NEW f \in [Job -> JobRow], NEW j \in Job, NEW r, Kept(f[j], r)
  PROVE  TableKept(f, [f EXCEPT ![j] = r])
  BY KeptReflexive DEF TableKept

\* The claim after the sweep.
LEMMA SweptPutKept ==
  ASSUME IInv, NEW j \in Job, NEW r, RowOK(r), Kept(SweptJobs[j], r)
  PROVE  TableKept(job, [SweptJobs EXCEPT ![j] = r])
  <1>1. clock \in Nat /\ TableOK(job) /\ TableOK(SweptJobs)
    BY TableInv, SweptJobsOK DEF IInv, TypeOK
  <1>2. \A k \in Job : Kept(job[k], SweptJobs[k])
    BY <1>1, SweptKept DEF TableOK, SweptJobs
  <1>3. Kept(job[j], r)
    BY <1>1, <1>2, KeptTransitive DEF TableOK, RowOK
  <1>. QED
    BY <1>1, <1>2, <1>3 DEF TableKept, TableOK

\* Every action keeps the history of every job.
LEMMA NextKept == IInv /\ [Next]_vars => TableKept(job, job')
  <1>. SUFFICES ASSUME IInv, [Next]_vars PROVE TableKept(job, job')
    OBVIOUS
  <1>1. clock \in Nat /\ job \in [Job -> JobRow] /\ \A j \in Job : RowOK(job[j])
    BY DEF IInv, TypeOK, RowsOK
  <1>2. CASE UNCHANGED job
    BY <1>1, <1>2, KeptReflexive DEF TableKept
  <1>3. ASSUME NEW j \in Job, NEW d \in Definition, NEW k \in Key, NEW p \in Payload,
               NEW delay \in StartDelay, NEW life \in Lifetime, Enqueue(j, d, k, p, delay, life)
        PROVE  TableKept(job, job')
    <2>1. PICK q : job' = [job EXCEPT ![j] = NewJob(d, k, q)] /\ job[j].status = "absent"
      BY <1>3 DEF Enqueue
    <2>2. Kept(job[j], NewJob(d, k, q))
      BY <2>1 DEF Kept
    <2>. HIDE DEF NewJob
    <2>. QED
      BY <1>1, <2>1, <2>2, PutKept
  <1>4. ASSUME NEW j \in Job, Cancel(j) PROVE TableKept(job, job')
    <2>1. Kept(job[j], CancelAsked(job[j]))
      BY <1>1, <1>4, CancelAskedKept DEF Cancel
    <2>. QED
      BY <1>1, <1>4, <2>1, PutKept DEF Cancel
  <1>5. ASSUME NEW j \in Job, NEW n \in Job, NEW k \in Key, Replay(j, n, k)
        PROVE  TableKept(job, job')
    <2>1. PICK x : /\ job' = [job EXCEPT ![n] = x,
                        ![j] = Record([job[j] EXCEPT !.letter = "replayed", !.replayJob = n])]
                   /\ job[n].status = "absent" /\ job[j].status = "dead_lettered"
      BY <1>5 DEF Replay, Replayable
    <2>. DEFINE y == Record([job[j] EXCEPT !.letter = "replayed", !.replayJob = n])
    <2>2. y.status = job[j].status /\ y.request = job[j].request /\ y.attempts = job[j].attempts
      <3>1. job[j] \in JobRow
        BY <1>1
      <3>. QED
        BY <3>1 DEF Record, JobRow
    <2>. HIDE DEF y
    <2>3. Kept(job[j], y)
      <3>1. Len(job[j].attempts) \in Nat
        <4>1. job[j].attempts \in Seq(Attempt)
          BY <1>1 DEF JobRow
        <4>. QED
          BY <4>1
      <3>. QED
        BY <2>2, <3>1 DEF Kept
    <2>4. Kept(job[n], x)
      BY <2>1 DEF Kept
    <2>. QED
      BY <1>1, <2>1, <2>3, <2>4, KeptReflexive DEF TableKept, y
  <1>6. ASSUME NEW w \in Worker, ClaimNext(w) PROVE TableKept(job, job')
    <2>1. TableKept(job, SweptJobs)
      BY <1>1, SweptKept DEF TableKept, SweptJobs
    <2>2. ASSUME NEW j \in Candidates(SweptJobs, clock),
                 job' = [SweptJobs EXCEPT ![j] = Claimed(SweptJobs[j], w, clock)]
          PROVE  TableKept(job, job')
      <3>1. j \in Job /\ SweptJobs[j].status \in Waiting
        BY CandidateWaits
      <3>2. RowOK(SweptJobs[j])
        BY <1>1, <3>1, TableInv, SweptJobsOK DEF IInv, TableOK
      <3>. QED
        BY <1>1, <2>2, <3>1, <3>2, ClaimedOK, ClaimedKept, SweptPutKept
    <2>. QED
      BY <1>6, <2>1, <2>2 DEF ClaimNext
  <1>7. ASSUME NEW w \in Worker, RunOnce(w) PROVE TableKept(job, job')
    <2>1. PICK j \in Candidates(SweptJobs, clock) :
            LET claimed == Claimed(SweptJobs[j], w, clock)
            IN  \/ /\ ~claimed.cancelRequested
                   /\ job' = [SweptJobs EXCEPT ![j] = Succeeded(claimed)]
                \/ \E c \in Reported :
                     job' = [SweptJobs EXCEPT ![j] = Failed(claimed, c, clock)]
      BY <1>7 DEF RunOnce
    <2>. DEFINE r == SweptJobs[j]
                x == Claimed(r, w, clock)
    <2>2. j \in Job /\ r.status \in Waiting
      BY CandidateWaits
    <2>3. RowOK(r)
      BY <1>1, <2>2, TableInv, SweptJobsOK DEF IInv, TableOK
    <2>4. RowOK(x) /\ x.status = "running" /\ Kept(r, x)
      BY <1>1, <2>2, <2>3, ClaimedOK, ClaimedKept
    <2>. HIDE DEF x, r
    <2>5. ASSUME NEW y, RowOK(y), Kept(x, y) PROVE Kept(r, y)
      BY <2>3, <2>4, <2>5, KeptTransitive DEF RowOK
    <2>6. CASE ~x.cancelRequested /\ job' = [SweptJobs EXCEPT ![j] = Succeeded(x)]
      <3>1. RowOK(Succeeded(x)) /\ Kept(x, Succeeded(x))
        BY <2>4, <2>6, SucceededOK, SucceededKept
      <3>. QED
        BY <2>2, <2>5, <2>6, <3>1, SweptPutKept DEF r
    <2>7. ASSUME NEW c \in Reported, job' = [SweptJobs EXCEPT ![j] = Failed(x, c, clock)]
          PROVE  TableKept(job, job')
      <3>1. RowOK(Failed(x, c, clock)) /\ Kept(x, Failed(x, c, clock))
        BY <1>1, <2>4, UnsuccessfulOK, UnsuccessfulKept DEF Failed
      <3>. QED
        BY <2>2, <2>5, <2>7, <3>1, SweptPutKept DEF r
    <2>. QED
      BY <2>1, <2>6, <2>7 DEF x, r
  <1>8. ASSUME NEW e \in exec,
               \/ Heartbeat(e) \/ HeartbeatCancelled(e) \/ Succeed(e)
               \/ \E c \in Reported : Fail(e, c)
               \/ HandlerLost(e)
        PROVE  TableKept(job, job')
    <2>1. e.job \in Job /\ RowOK(job[e.job])
      BY <1>1 DEF IInv, TypeOK
    <2>2. CASE Heartbeat(e)
      <3>1. Kept(job[e.job], Extended(job[e.job], clock))
        BY <1>1, <2>1, <2>2, ExtendedKept DEF Heartbeat, Holds
      <3>. QED
        BY <1>1, <2>1, <2>2, <3>1, PutKept DEF Heartbeat
    <2>3. CASE HeartbeatCancelled(e)
      <3>1. Kept(job[e.job], CancelObserved(job[e.job]))
        BY <2>1, <2>3, CancelObservedKept DEF HeartbeatCancelled, Holds
      <3>. QED
        BY <1>1, <1>2, <2>1, <2>3, <3>1, PutKept DEF HeartbeatCancelled
    <2>4. CASE Succeed(e)
      <3>1. Kept(job[e.job], Succeeded(job[e.job]))
        BY <2>1, <2>4, SucceededKept DEF Succeed, Holds
      <3>. QED
        BY <1>1, <2>1, <2>4, <3>1, PutKept DEF Succeed
    <2>5. ASSUME NEW c \in Reported, Fail(e, c) PROVE TableKept(job, job')
      <3>1. Kept(job[e.job], Failed(job[e.job], c, clock))
        BY <1>1, <2>1, <2>5, UnsuccessfulKept DEF Fail, Holds, Failed
      <3>. QED
        BY <1>1, <2>1, <2>5, <3>1, PutKept DEF Fail
    <2>6. CASE HandlerLost(e)
      BY <1>2, <2>6 DEF HandlerLost
    <2>. QED
      BY <1>8, <2>2, <2>3, <2>4, <2>5, <2>6
  <1>9. CASE \/ \E d \in Definition : RegisterDefinition(d)
             \/ \E s \in Scope \cap Pausable, paused \in BOOLEAN, v \in 0..MaxControls : SetPaused(s, paused, v)
             \/ Tick
    BY <1>2, <1>9 DEF RegisterDefinition, SetPaused, Tick
  <1>10. CASE UNCHANGED vars
    BY <1>2, <1>10 DEF vars
  <1>. QED
    BY <1>3, <1>4, <1>5, <1>6, <1>7, <1>8, <1>9, <1>10 DEF Next

\* A settled job keeps its status, an ended attempt is never rewritten and an
\* accepted request never changes, whatever sequence of calls follows.
THEOREM TerminalForeverHolds == Spec => TerminalForever
  <1>. DEFINE Step == \A j \in Job :
                /\ job[j].status \in Terminal => job'[j].status = job[j].status
                /\ job[j].status # "absent" =>
                     /\ job'[j].status # "absent"
                     /\ job'[j].request = job[j].request
                     /\ \A n \in 1..Len(job[j].attempts) :
                          job[j].attempts[n].status # "running" =>
                            job'[j].attempts[n] = job[j].attempts[n]
  <1>1. IInv /\ [Next]_vars => [Step]_vars
    BY NextKept DEF TableKept, Kept, Terminal
  <1>. HIDE DEF Step
  <1>2. Spec => [][Step]_vars
    BY <1>1, IInvHolds, PTL DEF Spec
  <1>. QED
    BY <1>2 DEF TerminalForever, Step

-----------------------------------------------------------------------------
(* The service implements leased work *)

Item == [state  : {"absent", "waiting", "held", "done"}, kind : Definition \cup {None},
         holder : Worker \cup {None}, grants : Nat]

\* The updates LeasedWork makes, field by field.
LEMMA ItemUpdates ==
  ASSUME NEW i \in Item, NEW k \in Item, k.kind = i.kind
  PROVE  /\ k.grants = i.grants /\ k.holder = None =>
              k = [i EXCEPT !.state = k.state, !.holder = None]
         /\ k.grants = i.grants /\ k.holder = i.holder =>
              k = [i EXCEPT !.state = k.state]
         /\ k.grants = i.grants + 1 =>
              k = [i EXCEPT !.state = k.state, !.holder = k.holder, !.grants = @ + 1]
         /\ k.grants = i.grants + 1 /\ k.holder = i.holder =>
              k = [i EXCEPT !.state = k.state, !.grants = @ + 1]
         /\ k.grants = i.grants + 1 /\ k.holder = i.holder /\ k.state = i.state =>
              k = [i EXCEPT !.grants = @ + 1]
  <1>1. ASSUME k.grants = i.grants, k.holder = None
        PROVE  k = [i EXCEPT !.state = k.state, !.holder = None]
    BY <1>1 DEF Item
  <1>2. ASSUME k.grants = i.grants, k.holder = i.holder
        PROVE  k = [i EXCEPT !.state = k.state]
    BY <1>2 DEF Item
  <1>3. ASSUME k.grants = i.grants + 1
        PROVE  k = [i EXCEPT !.state = k.state, !.holder = k.holder, !.grants = @ + 1]
    BY <1>3 DEF Item
  <1>4. ASSUME k.grants = i.grants + 1, k.holder = i.holder
        PROVE  k = [i EXCEPT !.state = k.state, !.grants = @ + 1]
    BY <1>4 DEF Item
  <1>5. ASSUME k.grants = i.grants + 1, k.holder = i.holder, k.state = i.state
        PROVE  k = [i EXCEPT !.grants = @ + 1]
    BY <1>5 DEF Item
  <1>. QED
    BY <1>1, <1>2, <1>3, <1>4, <1>5

\* A row as the work a client sees, by its status.
LEMMA WorkOfRow ==
  ASSUME NEW r, RowOK(r)
  PROVE  /\ WorkOf(r) \in Item
         /\ WorkOf(r).kind = r.def /\ WorkOf(r).holder = r.leaseOwner
         /\ WorkOf(r).grants = r.attemptCount
         /\ r.status \in Waiting  => WorkOf(r).state = "waiting" /\ r.leaseOwner = None
         /\ r.status = "running"  => WorkOf(r).state = "held" /\ r.leaseOwner \in Worker
         /\ r.status \in Terminal => WorkOf(r).state = "done" /\ r.leaseOwner = None
         /\ r.status = "absent"   => WorkOf(r).state = "absent"
         /\ r.attemptCount \in Nat
  <1>1. /\ r.attemptCount \in Nat /\ r.leaseOwner \in Worker \cup {None}
        /\ r.def \in Definition \cup {None}
        /\ r.status \in {"absent"} \cup Live \cup Terminal
        /\ r.status = "running" <=> r.leaseOwner # None
    BY DEF RowOK, JobRow, LeaseAgrees
  <1>2. /\ WorkOf(r).kind = r.def /\ WorkOf(r).holder = r.leaseOwner
        /\ WorkOf(r).grants = r.attemptCount
    BY DEF WorkOf
  <1>3. /\ r.status \in Waiting  => WorkOf(r).state = "waiting"
        /\ r.status = "running"  => WorkOf(r).state = "held"
        /\ r.status \in Terminal => WorkOf(r).state = "done"
        /\ r.status = "absent"   => WorkOf(r).state = "absent"
    BY DEF WorkOf, Waiting, Terminal
  <1>4. WorkOf(r) \in Item
    <2>1. ASSUME NEW st \in {"absent", "waiting", "held", "done"}
          PROVE  [state |-> st, kind |-> r.def, holder |-> r.leaseOwner,
                  grants |-> r.attemptCount] \in Item
      BY <1>1 DEF Item
    <2>. QED
      BY <1>1, <1>3, <2>1 DEF WorkOf, Live
  <1>. QED
    BY <1>1, <1>2, <1>3, <1>4 DEF Waiting, Terminal

\* The same by status, one row at a time.
LEMMA WaitingWork ==
  ASSUME NEW r, RowOK(r), r.status \in Waiting
  PROVE  WorkOf(r).state = "waiting" /\ WorkOf(r).holder = None
  BY WorkOfRow, ZenonT(60)

LEMMA RunningWork ==
  ASSUME NEW r, RowOK(r), r.status = "running"
  PROVE  WorkOf(r).state = "held" /\ WorkOf(r).holder \in Worker
  BY WorkOfRow, ZenonT(60)

LEMMA TerminalWork ==
  ASSUME NEW r, RowOK(r), r.status \in Terminal
  PROVE  WorkOf(r).state = "done" /\ WorkOf(r).holder = None
  BY WorkOfRow, ZenonT(60)

\* Two rows of one definition with as many attempts.
LEMMA UncountedWork ==
  ASSUME NEW r, RowOK(r), NEW s, RowOK(s),
         s.def = r.def, s.attemptCount = r.attemptCount
  PROVE  /\ WorkOf(r) \in Item /\ WorkOf(s) \in Item
         /\ WorkOf(s).kind = WorkOf(r).kind /\ WorkOf(s).grants = WorkOf(r).grants
  <1>1. /\ WorkOf(r) \in Item /\ WorkOf(r).kind = r.def
        /\ WorkOf(r).grants = r.attemptCount
    BY WorkOfRow, ZenonT(60)
  <1>2. /\ WorkOf(s) \in Item /\ WorkOf(s).kind = s.def
        /\ WorkOf(s).grants = s.attemptCount
    BY WorkOfRow, ZenonT(60)
  <1>. QED
    BY <1>1, <1>2

\* Rows of one job that differ only in what a client does not see.
LEMMA SameWork ==
  ASSUME NEW r, NEW s, s.status = r.status, s.def = r.def,
         s.attemptCount = r.attemptCount, s.leaseOwner = r.leaseOwner
  PROVE  Leased!Moves(WorkOf(r), WorkOf(s))
  <1>1. WorkOf(s) = WorkOf(r)
    BY DEF WorkOf
  <1>. QED
    BY <1>1 DEF Leased!Moves

\* A running row that is no longer running, no attempt added.
LEMMA ReturnedWork ==
  ASSUME NEW r, RowOK(r), r.status = "running",
         NEW s, RowOK(s), s.status \in Waiting \cup Terminal,
         s.def = r.def, s.attemptCount = r.attemptCount
  PROVE  Leased!Moves(WorkOf(r), WorkOf(s))
  <1>0. /\ WorkOf(r) \in Item /\ WorkOf(s) \in Item
        /\ WorkOf(s).kind = WorkOf(r).kind /\ WorkOf(s).grants = WorkOf(r).grants
        /\ WorkOf(r).state = "held" /\ WorkOf(s).holder = None
    <2>1. WorkOf(r).state = "held"
      BY RunningWork
    <2>2. CASE s.status \in Waiting
      BY <2>1, <2>2, UncountedWork, WaitingWork
    <2>3. CASE s.status \in Terminal
      BY <2>1, <2>3, UncountedWork, TerminalWork, ZenonT(60)
    <2>. QED
      BY <2>2, <2>3
  <1>1. /\ WorkOf(r).state = "held"
        /\ WorkOf(s) = [WorkOf(r) EXCEPT !.state = WorkOf(s).state, !.holder = None]
    BY <1>0, ItemUpdates, ZenonT(60)
  <1>2. CASE s.status \in Terminal
    BY <1>1, <1>2, TerminalWork DEF Leased!Moves, Leased!Returned
  <1>3. CASE s.status \in Waiting
    <2>1. WorkOf(r).grants < MaxAttempts[WorkOf(r).kind]
      BY <1>3, WorkOfRow DEF RowOK, WithinBudget, Waiting
    <2>. QED
      BY <1>1, <1>3, <2>1, WaitingWork DEF Leased!Moves, Leased!Returned
  <1>. QED
    BY <1>2, <1>3

\* A waiting row that ends without another attempt.
LEMMA WithdrawnWork ==
  ASSUME NEW r, RowOK(r), r.status \in Waiting,
         NEW s, RowOK(s), s.status \in Terminal,
         s.def = r.def, s.attemptCount = r.attemptCount
  PROVE  Leased!Moves(WorkOf(r), WorkOf(s))
  <1>1. /\ WorkOf(r) \in Item /\ WorkOf(s) \in Item
        /\ WorkOf(s).kind = WorkOf(r).kind /\ WorkOf(s).grants = WorkOf(r).grants
        /\ WorkOf(s).holder = WorkOf(r).holder
        /\ WorkOf(r).state = "waiting" /\ WorkOf(s).state = "done"
    <2>1. WorkOf(r).state = "waiting" /\ WorkOf(r).holder = None
      BY WaitingWork
    <2>2. WorkOf(s).state = "done" /\ WorkOf(s).holder = None
      BY TerminalWork, ZenonT(60)
    <2>. QED
      BY <2>1, <2>2, UncountedWork
  <1>2. WorkOf(s) = [WorkOf(r) EXCEPT !.state = WorkOf(s).state]
    BY <1>1, ItemUpdates, ZenonT(60)
  <1>. QED
    BY <1>1, <1>2 DEF Leased!Moves, Leased!Withdrawn

\* A waiting row that is handed out once more, whatever became of the attempt.
LEMMA HandedOutWork ==
  ASSUME NEW r, RowOK(r), r.status \in Waiting,
         NEW s, RowOK(s), s.status \in Live \cup Terminal,
         s.def = r.def, s.attemptCount = r.attemptCount + 1
  PROVE  Leased!Moves(WorkOf(r), WorkOf(s))
  <1>1. /\ WorkOf(r).state = "waiting" /\ WorkOf(r).holder = None
        /\ WorkOf(r).grants < MaxAttempts[WorkOf(r).kind]
    BY WorkOfRow DEF RowOK, WithinBudget, Waiting
  <1>. DEFINE i == WorkOf(r)
              k == WorkOf(s)
  <1>2. i \in Item /\ k \in Item /\ k.kind = i.kind /\ k.grants = i.grants + 1
    BY WorkOfRow
  <1>3. CASE s.status = "running"
    <2>1. k.state = "held" /\ k.holder \in Worker
      BY <1>3, RunningWork, ZenonT(60)
    <2>2. k = [i EXCEPT !.state = k.state, !.holder = k.holder, !.grants = @ + 1]
      BY <1>2, ItemUpdates, ZenonT(60)
    <2>. QED
      BY <1>1, <2>1, <2>2 DEF Leased!Moves, Leased!HandedOut, Leased!Granted
  <1>4. CASE s.status \in Terminal
    <2>1. k.state = "done" /\ k.holder = i.holder
      BY <1>1, <1>4, TerminalWork, ZenonT(60)
    <2>2. k = [i EXCEPT !.state = k.state, !.grants = @ + 1]
      BY <1>2, <2>1, ItemUpdates, ZenonT(60)
    <2>. QED
      BY <1>1, <2>1, <2>2 DEF Leased!Moves, Leased!HandedOut, Leased!Turned
  <1>5. CASE s.status \in Waiting
    <2>1. k.state = i.state /\ k.holder = i.holder
      BY <1>1, <1>5, WaitingWork, ZenonT(60)
    <2>2. k = [i EXCEPT !.grants = @ + 1]
      BY <1>2, <2>1, ItemUpdates, ZenonT(60)
    <2>3. i.grants + 1 < MaxAttempts[i.kind]
      BY <1>5, WorkOfRow DEF RowOK, WithinBudget, Waiting
    <2>. QED
      BY <1>1, <2>2, <2>3 DEF Leased!Moves, Leased!HandedOut, Leased!Turned
  <1>. QED
    BY <1>3, <1>4, <1>5 DEF Live

-----------------------------------------------------------------------------
(* What each transformation leaves for WorkOf *)

\* No attempt is added and the definition stays.
Uncounted(r, s) == s.def = r.def /\ s.attemptCount = r.attemptCount

LEMMA RecordFields ==
  ASSUME NEW r, RowOK(r)
  PROVE  /\ Uncounted(r, Record(r))
         /\ Record(r).status = r.status /\ Record(r).availableAt = r.availableAt
         /\ Record(r).leaseOwner = r.leaseOwner
  BY RecordOK DEF RowOK, SameCore, Uncounted

LEMMA EndedFields ==
  ASSUME NEW r, RowOK(r), r.status = "running",
         NEW o \in {"succeeded", "failed", "abandoned", "cancelled"}, NEW st
  PROVE  /\ Uncounted(r, Ended(r, o, st))
         /\ Ended(r, o, st).status = st
  <1>. DEFINE e == EndAttempt(r, o)
  <1>1. e \in JobRow /\ Uncounted(r, e)
    BY EndAttemptOK DEF RowOK, SameCore, Uncounted
  <1>. HIDE DEF e
  <1>2. Ended(r, o, st) = [[e EXCEPT !.status = st] EXCEPT !.leaseOwner = None, !.leaseExpires = 0]
    BY DEF Ended, ClearLease, e
  <1>. QED
    BY <1>1, <1>2 DEF JobRow, Uncounted

\* A retry is never available at once: the delays are positive.
LEMMA UnsuccessfulFields ==
  ASSUME NEW r, RowOK(r), r.status = "running", NEW now \in Nat, NEW c,
         NEW o \in {"failed", "abandoned"}
  PROVE  /\ Uncounted(r, Unsuccessful(r, o, c, now))
         /\ Unsuccessful(r, o, c, now).status \in Waiting \cup Terminal
         /\ Unsuccessful(r, o, c, now).status \in Waiting =>
              Unsuccessful(r, o, c, now).availableAt > now
  <1>. DEFINE dec == RetryDecision(r.def, c, r.attemptCount, now, r.deadline)
              x   == Ended(r, o, dec.status)
              y   == [x EXCEPT !.availableAt = IF dec.status = "retry_wait" THEN dec.at ELSE @,
                               !.letter = IF dec.status = "dead_lettered" THEN "open" ELSE @]
  <1>1. dec.status \in {"retry_wait", "dead_lettered", "expired"}
    BY RetryDecisionOK
  <1>2. dec.status = "retry_wait" => dec.at > now
    <2>1. /\ r.def \in Definition /\ r.attemptCount \in Nat \ {0}
          /\ r.attemptCount < MaxAttempts[r.def] \/ BudgetSpent(r.def, r.attemptCount)
      <3>1. MaxAttempts \in [Definition -> 1..5]
        BY DefinitionAssumption
      <3>2. r.def \in Definition /\ r.attemptCount \in Nat \ {0}
        BY DEF RowOK, Accepted, LeaseAgrees, AttemptRunning, JobRow
      <3>. QED
        BY <3>1, <3>2 DEF BudgetSpent
    <2>2. r.attemptCount < MaxAttempts[r.def] =>
            RetryDelay[r.def][r.attemptCount] \in Nat \ {0}
      <3>1. /\ MaxAttempts[r.def] \in 1..5
            /\ RetryDelay[r.def] \in Seq(Nat \ {0})
            /\ Len(RetryDelay[r.def]) >= MaxAttempts[r.def] - 1
        BY <2>1, DefinitionAssumption
      <3>. QED
        BY <2>1, <3>1, SMTT(60)
    <2>. QED
      BY <2>1, <2>2 DEF RetryDecision
  <1>. HIDE DEF dec
  <1>3. Uncounted(r, x) /\ x.status = dec.status
    BY EndedFields
  <1>4. x \in JobRow
    <2>1. EndAttempt(r, o) \in JobRow
      BY EndAttemptOK DEF RowOK
    <2>. HIDE DEF EndAttempt
    <2>. QED
      BY <1>1, <2>1, ZenonT(60) DEF Ended, ClearLease, JobRow, Live, Waiting, Terminal
  <1>. HIDE DEF x
  <1>5. /\ Uncounted(r, y) /\ y.status = dec.status
        /\ dec.status = "retry_wait" => y.availableAt = dec.at
    BY <1>3, <1>4 DEF JobRow, Uncounted
  <1>6. /\ Uncounted(y, Record(y)) /\ Record(y).status = y.status
        /\ Record(y).availableAt = y.availableAt
    BY <1>4 DEF Record, JobRow, Uncounted
  <1>7. Unsuccessful(r, o, c, now) = Record(y)
    BY DEF Unsuccessful, x, dec
  <1>. HIDE DEF y
  <1>. QED
    BY <1>1, <1>2, <1>5, <1>6, <1>7 DEF Uncounted, Waiting, Terminal

LEMMA SucceededFields ==
  ASSUME NEW r, RowOK(r), r.status = "running", ~r.cancelRequested
  PROVE  Uncounted(r, Succeeded(r)) /\ Succeeded(r).status = "succeeded"
  <1>1. RowOK(Ended(r, "succeeded", "succeeded"))
    BY EndedOK DEF Waiting, Terminal
  <1>2. /\ Uncounted(r, Ended(r, "succeeded", "succeeded"))
        /\ Ended(r, "succeeded", "succeeded").status = "succeeded"
    BY EndedFields
  <1>. QED
    BY <1>1, <1>2, RecordFields DEF Succeeded, Uncounted

LEMMA CancelObservedFields ==
  ASSUME NEW r, RowOK(r), r.status = "running"
  PROVE  Uncounted(r, CancelObserved(r)) /\ CancelObserved(r).status = "cancelled"
  <1>1. RowOK(Ended(r, "cancelled", "cancelled"))
    BY EndedOK DEF Waiting, Terminal
  <1>2. /\ Uncounted(r, Ended(r, "cancelled", "cancelled"))
        /\ Ended(r, "cancelled", "cancelled").status = "cancelled"
    BY EndedFields
  <1>. QED
    BY <1>1, <1>2, RecordFields DEF CancelObserved, Uncounted

LEMMA ClaimedFields ==
  ASSUME NEW r, RowOK(r), NEW w, NEW now
  PROVE  Claimed(r, w, now).def = r.def /\ Claimed(r, w, now).attemptCount = r.attemptCount + 1
  <1>. r \in JobRow
    BY DEF RowOK
  <1>. QED
    BY DEF Claimed, Record, JobRow

LEMMA ExtendedFields ==
  ASSUME NEW r, RowOK(r), NEW now
  PROVE  /\ Uncounted(r, Extended(r, now))
         /\ Extended(r, now).status = r.status /\ Extended(r, now).leaseOwner = r.leaseOwner
  <1>. r \in JobRow
    BY DEF RowOK
  <1>. QED
    BY DEF Extended, Record, JobRow, Uncounted

LEMMA CancelAskedFields ==
  ASSUME NEW r, RowOK(r)
  PROVE  /\ Uncounted(r, CancelAsked(r))
         /\ r.status = "running" => /\ CancelAsked(r).status = "running"
                                    /\ CancelAsked(r).leaseOwner = r.leaseOwner
         /\ r.status # "running" => CancelAsked(r).status = "cancelled"
  <1>. r \in JobRow
    BY DEF RowOK
  <1>. QED
    BY DEF CancelAsked, ClearLease, Record, JobRow, Uncounted

\* The sweep returns or withdraws, and what it returns is not yet claimable.
LEMMA SweptWork ==
  ASSUME NEW r, RowOK(r), NEW now \in Nat
  PROVE  /\ Uncounted(r, Swept(r, now))
         /\ Leased!Moves(WorkOf(r), WorkOf(Swept(r, now)))
         /\ Swept(r, now).status \in Waiting =>
              Swept(r, now) = r \/ Swept(r, now).availableAt > now
  <1>0. RowOK(Swept(r, now))
    BY SweptOK
  <1>1. CASE LeaseExpired(r, now)
    <2>1. Swept(r, now) = Unsuccessful(r, "abandoned", "transient", now) /\ r.status = "running"
      BY <1>1 DEF Swept, LeaseExpired
    <2>2. /\ Uncounted(r, Swept(r, now)) /\ Swept(r, now).status \in Waiting \cup Terminal
          /\ Swept(r, now).status \in Waiting => Swept(r, now).availableAt > now
      BY <2>1, UnsuccessfulFields
    <2>. QED
      BY <1>0, <2>1, <2>2, ReturnedWork DEF Uncounted
  <1>2. CASE ~LeaseExpired(r, now) /\ r.status \in Waiting /\ r.deadline <= now
    <2>. DEFINE x == Record([r EXCEPT !.status = "expired"])
    <2>1. Swept(r, now) = x
      BY <1>2 DEF Swept
    <2>2. r \in JobRow
      BY DEF RowOK
    <2>3. Uncounted(r, x) /\ x.status = "expired"
      BY <2>2 DEF Record, JobRow, Uncounted
    <2>. HIDE DEF x
    <2>4. Leased!Moves(WorkOf(r), WorkOf(x))
      BY <1>0, <1>2, <2>1, <2>3, WithdrawnWork DEF Uncounted, Terminal
    <2>. QED
      BY <2>1, <2>3, <2>4 DEF Waiting
  <1>3. CASE ~LeaseExpired(r, now) /\ ~(r.status \in Waiting /\ r.deadline <= now)
    <2>1. Swept(r, now) = r
      BY <1>3 DEF Swept
    <2>. QED
      BY <2>1, SameWork DEF Uncounted
  <1>. QED
    BY <1>1, <1>2, <1>3

-----------------------------------------------------------------------------
\* Every job makes a move, and at most one of them gains an attempt.
TableMoves(f, g) ==
  /\ \A j \in Job : Leased!Moves(WorkOf(f[j]), WorkOf(g[j]))
  /\ \A j, k \in Job : /\ f[j].attemptCount # g[j].attemptCount
                       /\ f[k].attemptCount # g[k].attemptCount
                       => j = k

LEMMA PutMoves ==
  ASSUME NEW f \in [Job -> JobRow], NEW j \in Job, NEW r,
         Leased!Moves(WorkOf(f[j]), WorkOf(r))
  PROVE  TableMoves(f, [f EXCEPT ![j] = r])
  <1>. DEFINE g == [f EXCEPT ![j] = r]
  <1>1. g[j] = r /\ \A k \in Job : k # j => g[k] = f[k]
    OBVIOUS
  <1>. HIDE DEF g
  <1>2. \A k \in Job : Leased!Moves(WorkOf(f[k]), WorkOf(g[k]))
    BY <1>1 DEF Leased!Moves
  <1>3. TableMoves(f, g)
    BY <1>1, <1>2 DEF TableMoves
  <1>. QED
    BY <1>3 DEF g

\* A candidate was waiting before the sweep, which left it alone.
LEMMA CandidateUnswept ==
  ASSUME IInv, NEW j \in Candidates(SweptJobs, clock)
  PROVE  j \in Job /\ SweptJobs[j] = job[j] /\ job[j].status \in Waiting
  <1>1. j \in Job /\ SweptJobs[j].status \in Waiting
    BY CandidateWaits
  <1>2. clock \in Nat /\ RowOK(job[j]) /\ SweptJobs[j] = Swept(job[j], clock)
    BY <1>1 DEF IInv, TypeOK, RowsOK, SweptJobs
  <1>3. SweptJobs[j].availableAt <= clock /\ SweptJobs[j].availableAt \in Nat
    <2>1. SweptJobs[j].availableAt <= clock
      BY DEF Candidates, Heads, Claimable
    <2>. QED
      BY <1>2, <2>1, SweptOK DEF RowOK, JobRow
  <1>4. SweptJobs[j] = job[j] \/ SweptJobs[j].availableAt > clock
    BY <1>1, <1>2, SweptWork
  <1>. QED
    BY <1>1, <1>2, <1>3, <1>4

\* The sweep, then one candidate handed out.
LEMMA SweptPutMoves ==
  ASSUME IInv, NEW j \in Candidates(SweptJobs, clock), NEW r, RowOK(r),
         r.status \in Live \cup Terminal, r.def = SweptJobs[j].def,
         r.attemptCount = SweptJobs[j].attemptCount + 1
  PROVE  TableMoves(job, [SweptJobs EXCEPT ![j] = r])
  <1>. DEFINE g == [SweptJobs EXCEPT ![j] = r]
  <1>1. clock \in Nat /\ \A k \in Job : RowOK(job[k])
    BY DEF IInv, TypeOK, RowsOK
  <1>2. j \in Job /\ SweptJobs[j] = job[j] /\ job[j].status \in Waiting
    BY CandidateUnswept
  <1>3. g[j] = r /\ \A k \in Job : k # j => g[k] = Swept(job[k], clock)
    BY <1>2 DEF SweptJobs
  <1>. HIDE DEF g
  <1>4. Leased!Moves(WorkOf(job[j]), WorkOf(r))
    BY <1>1, <1>2, HandedOutWork
  <1>5. \A k \in Job : k # j => /\ Leased!Moves(WorkOf(job[k]), WorkOf(g[k]))
                                /\ g[k].attemptCount = job[k].attemptCount
    BY <1>1, <1>3, SweptWork DEF Uncounted
  <1>6. TableMoves(job, g)
    BY <1>3, <1>4, <1>5 DEF TableMoves
  <1>. QED
    BY <1>6 DEF g

LEMMA ClaimNextMoves ==
  ASSUME IInv, NEW w \in Worker, ClaimNext(w)
  PROVE  TableMoves(job, job')
  <1>1. clock \in Nat /\ TableOK(SweptJobs) /\ \A k \in Job : RowOK(job[k])
    BY TableInv, SweptJobsOK DEF IInv, TypeOK, RowsOK
  <1>2. CASE job' = SweptJobs
    <2>1. \A k \in Job : /\ Leased!Moves(WorkOf(job[k]), WorkOf(SweptJobs[k]))
                         /\ SweptJobs[k].attemptCount = job[k].attemptCount
      BY <1>1, SweptWork DEF SweptJobs, Uncounted
    <2>. QED
      BY <1>2, <2>1 DEF TableMoves
  <1>3. ASSUME NEW j \in Candidates(SweptJobs, clock),
               job' = [SweptJobs EXCEPT ![j] = Claimed(SweptJobs[j], w, clock)]
        PROVE  TableMoves(job, job')
    <2>1. j \in Job /\ SweptJobs[j].status \in Waiting
      BY CandidateWaits
    <2>2. RowOK(SweptJobs[j])
      BY <1>1, <2>1 DEF TableOK
    <2>3. /\ RowOK(Claimed(SweptJobs[j], w, clock))
          /\ Claimed(SweptJobs[j], w, clock).status \in Live \cup Terminal
      BY <1>1, <2>1, <2>2, ClaimedOK DEF Live
    <2>4. /\ Claimed(SweptJobs[j], w, clock).def = SweptJobs[j].def
          /\ Claimed(SweptJobs[j], w, clock).attemptCount = SweptJobs[j].attemptCount + 1
      BY <2>2, ClaimedFields
    <2>. DEFINE x == Claimed(SweptJobs[j], w, clock)
    <2>. HIDE DEF x
    <2>. QED
      BY <1>3, <2>3, <2>4, SweptPutMoves DEF x
  <1>. QED
    BY <1>2, <1>3 DEF ClaimNext

LEMMA RunOnceMoves ==
  ASSUME IInv, NEW w \in Worker, RunOnce(w)
  PROVE  TableMoves(job, job')
  <1>1. clock \in Nat /\ TableOK(SweptJobs)
    BY TableInv, SweptJobsOK DEF IInv, TypeOK
  <1>2. PICK j \in Candidates(SweptJobs, clock) :
          LET claimed == Claimed(SweptJobs[j], w, clock)
          IN  \/ /\ ~claimed.cancelRequested
                 /\ job' = [SweptJobs EXCEPT ![j] = Succeeded(claimed)]
              \/ \E c \in Reported :
                   job' = [SweptJobs EXCEPT ![j] = Failed(claimed, c, clock)]
    BY DEF RunOnce
  <1>. DEFINE r == SweptJobs[j]
              x == Claimed(r, w, clock)
  <1>3. j \in Job /\ r.status \in Waiting
    BY CandidateWaits
  <1>4. RowOK(r)
    BY <1>1, <1>3 DEF TableOK
  <1>5. /\ RowOK(x) /\ x.status = "running"
        /\ x.def = r.def /\ x.attemptCount = r.attemptCount + 1
    BY <1>1, <1>3, <1>4, ClaimedOK, ClaimedFields
  <1>. HIDE DEF x, r
  <1>6. CASE ~x.cancelRequested /\ job' = [SweptJobs EXCEPT ![j] = Succeeded(x)]
    <2>1. RowOK(Succeeded(x)) /\ Uncounted(x, Succeeded(x)) /\ Succeeded(x).status \in Terminal
      BY <1>5, <1>6, SucceededOK, SucceededFields DEF Terminal
    <2>. QED
      BY <1>5, <1>6, <2>1, SweptPutMoves DEF Uncounted, r
  <1>7. ASSUME NEW c \in Reported, job' = [SweptJobs EXCEPT ![j] = Failed(x, c, clock)]
        PROVE  TableMoves(job, job')
    <2>. DEFINE y == Failed(x, c, clock)
    <2>1. RowOK(y) /\ Uncounted(x, y) /\ y.status \in Live \cup Terminal
      BY <1>1, <1>5, UnsuccessfulOK, UnsuccessfulFields DEF Failed, Live
    <2>. HIDE DEF y
    <2>2. job' = [SweptJobs EXCEPT ![j] = y]
      BY <1>7 DEF y
    <2>. QED
      BY <1>5, <2>1, <2>2, SweptPutMoves DEF Uncounted, r
  <1>. QED
    BY <1>2, <1>6, <1>7 DEF x, r

LEMMA ExecMoves ==
  ASSUME IInv, NEW e \in exec,
         \/ Heartbeat(e) \/ HeartbeatCancelled(e) \/ Succeed(e)
         \/ \E c \in Reported : Fail(e, c)
  PROVE  job' = job \/ TableMoves(job, job')
  <1>. DEFINE r == job[e.job]
  <1>1. clock \in Nat /\ job \in [Job -> JobRow] /\ e.job \in Job /\ RowOK(r)
    BY DEF IInv, TypeOK, RowsOK
  <1>2. r.status = "running"
    BY DEF Heartbeat, HeartbeatCancelled, Succeed, Fail, Holds
  <1>. HIDE DEF r
  <1>3. ASSUME NEW s, RowOK(s), Uncounted(r, s), s.status \in Waiting \cup Terminal,
               job' = [job EXCEPT ![e.job] = s]
        PROVE  TableMoves(job, job')
    <2>1. Leased!Moves(WorkOf(r), WorkOf(s))
      BY <1>1, <1>2, <1>3, ReturnedWork DEF Uncounted
    <2>. QED
      BY <1>1, <1>3, <2>1, PutMoves DEF r
  <1>4. CASE Heartbeat(e)
    <2>1. Leased!Moves(WorkOf(r), WorkOf(Extended(r, clock)))
      BY <1>1, ExtendedFields, SameWork DEF Uncounted
    <2>2. job' = [job EXCEPT ![e.job] = Extended(r, clock)]
      BY <1>4 DEF Heartbeat, r
    <2>. QED
      BY <1>1, <2>1, <2>2, PutMoves DEF r
  <1>5. CASE HeartbeatCancelled(e)
    <2>1. job' = [job EXCEPT ![e.job] = CancelObserved(r)] \/ job' = job
      BY <1>5 DEF HeartbeatCancelled, r
    <2>2. /\ RowOK(CancelObserved(r)) /\ Uncounted(r, CancelObserved(r))
          /\ CancelObserved(r).status \in Waiting \cup Terminal
      BY <1>1, <1>2, CancelObservedOK, CancelObservedFields DEF Terminal
    <2>. QED
      BY <1>3, <2>1, <2>2
  <1>6. CASE Succeed(e)
    <2>1. job' = [job EXCEPT ![e.job] = Succeeded(r)] /\ ~r.cancelRequested
      BY <1>6 DEF Succeed, r
    <2>2. /\ RowOK(Succeeded(r)) /\ Uncounted(r, Succeeded(r))
          /\ Succeeded(r).status \in Waiting \cup Terminal
      BY <1>1, <1>2, <2>1, SucceededOK, SucceededFields DEF Terminal
    <2>. QED
      BY <1>3, <2>1, <2>2
  <1>7. ASSUME NEW c \in Reported, Fail(e, c) PROVE TableMoves(job, job')
    <2>1. job' = [job EXCEPT ![e.job] = Failed(r, c, clock)]
      BY <1>7 DEF Fail, r
    <2>2. /\ RowOK(Failed(r, c, clock)) /\ Uncounted(r, Failed(r, c, clock))
          /\ Failed(r, c, clock).status \in Waiting \cup Terminal
      BY <1>1, <1>2, UnsuccessfulOK, UnsuccessfulFields DEF Failed
    <2>. QED
      BY <1>3, <2>1, <2>2
  <1>. QED
    BY <1>4, <1>5, <1>6, <1>7

\* What enqueue and replay write is accepted work.
LEMMA NewWork ==
  ASSUME NEW r, RowOK(r), r.status = "absent",
         NEW d \in Definition, NEW k, NEW q, NEW o
  PROVE  /\ Leased!Moves(WorkOf(r), WorkOf(NewJob(d, k, q)))
         /\ Leased!Moves(WorkOf(r), WorkOf([NewJob(d, k, q) EXCEPT !.replayOf = o]))
  <1>. DEFINE x == NewJob(d, k, q)
              y == [x EXCEPT !.replayOf = o]
              i == [state |-> "waiting", kind |-> d, holder |-> None, grants |-> 0]
  <1>1. WorkOf(r).state = "absent"
    BY WorkOfRow
  <1>2. /\ x.status = "queued" /\ x.def = d /\ x.leaseOwner = None /\ x.attemptCount = 0
        /\ y.status = "queued" /\ y.def = d /\ y.leaseOwner = None /\ y.attemptCount = 0
    BY DEF NewJob, AbsentJob
  <1>. HIDE DEF x, y
  <1>3. ASSUME NEW z, z.status = "queued", z.def = d, z.leaseOwner = None, z.attemptCount = 0
        PROVE  WorkOf(z) = i
    <2>1. WorkOf(z).state = "waiting"
      BY <1>3 DEF WorkOf, Waiting, Terminal
    <2>2. WorkOf(z) = [state |-> WorkOf(z).state, kind |-> d, holder |-> None, grants |-> 0]
      BY <1>3 DEF WorkOf
    <2>. QED
      BY <2>1, <2>2
  <1>4. Leased!Accepted(WorkOf(r), i)
    BY <1>1 DEF Leased!Accepted
  <1>. QED
    BY <1>2, <1>3, <1>4 DEF Leased!Moves, x, y

LEMMA EnqueueMoves ==
  ASSUME IInv, NEW j \in Job, NEW d \in Definition, NEW k \in Key, NEW p \in Payload,
         NEW delay \in StartDelay, NEW life \in Lifetime, Enqueue(j, d, k, p, delay, life)
  PROVE  TableMoves(job, job')
  <1>1. PICK q : job' = [job EXCEPT ![j] = NewJob(d, k, q)] /\ job[j].status = "absent"
    BY DEF Enqueue
  <1>2. job \in [Job -> JobRow] /\ RowOK(job[j])
    BY DEF IInv, TypeOK, RowsOK
  <1>3. Leased!Moves(WorkOf(job[j]), WorkOf(NewJob(d, k, q)))
    BY <1>1, <1>2, NewWork
  <1>. QED
    BY <1>1, <1>2, <1>3, PutMoves

LEMMA CancelMoves ==
  ASSUME IInv, NEW j \in Job, Cancel(j)
  PROVE  TableMoves(job, job')
  <1>. DEFINE r == job[j]
              s == CancelAsked(r)
  <1>1. job \in [Job -> JobRow] /\ RowOK(r) /\ r.status \in Live /\ job' = [job EXCEPT ![j] = s]
    BY DEF IInv, TypeOK, RowsOK, Cancel
  <1>2. RowOK(s)
    BY <1>1, CancelAskedOK
  <1>. HIDE DEF r
  <1>3. CASE r.status = "running"
    <2>1. Leased!Moves(WorkOf(r), WorkOf(s))
      BY <1>1, <1>3, CancelAskedFields, SameWork DEF Uncounted
    <2>. QED
      BY <1>1, <2>1, PutMoves DEF r
  <1>4. CASE r.status \in Waiting
    <2>1. Leased!Moves(WorkOf(r), WorkOf(s))
      BY <1>1, <1>2, <1>4, CancelAskedFields, WithdrawnWork DEF Uncounted, Waiting, Terminal
    <2>. QED
      BY <1>1, <2>1, PutMoves DEF r
  <1>. QED
    BY <1>1, <1>3, <1>4 DEF Live

LEMMA ReplayMoves ==
  ASSUME IInv, NEW j \in Job, NEW n \in Job, NEW k \in Key, Replay(j, n, k)
  PROVE  TableMoves(job, job')
  <1>. DEFINE r == job[j]
              z == [r EXCEPT !.letter = "replayed", !.replayJob = n]
              y == Record(z)
  <1>1. PICK q : job' = [job EXCEPT ![n] = [NewJob(r.def, k, q) EXCEPT !.replayOf = j], ![j] = y]
    BY DEF Replay
  <1>2. /\ job \in [Job -> JobRow] /\ RowOK(r) /\ r \in JobRow /\ RowOK(job[n])
        /\ r.status = "dead_lettered" /\ job[n].status = "absent"
    BY DEF IInv, TypeOK, RowsOK, RowOK, Replay, Replayable
  <1>3. r.def \in Definition
    BY <1>2 DEF RowOK, Accepted
  <1>. DEFINE x == [NewJob(r.def, k, q) EXCEPT !.replayOf = j]
  <1>4. Leased!Moves(WorkOf(job[n]), WorkOf(x))
    BY <1>2, <1>3, NewWork
  <1>5. RowOK(z) /\ Uncounted(r, z) /\ z.status = r.status /\ z.leaseOwner = r.leaseOwner
    <2>1. RowOK(z)
      BY <1>2, LinksOK
    <2>. QED
      BY <1>2, <2>1 DEF JobRow, Uncounted
  <1>. HIDE DEF z
  <1>6. Uncounted(r, y) /\ y.status = r.status /\ y.leaseOwner = r.leaseOwner
    BY <1>5, RecordFields DEF Uncounted
  <1>. HIDE DEF y, x
  <1>7. Leased!Moves(WorkOf(r), WorkOf(y))
    BY <1>6, SameWork DEF Uncounted
  <1>. DEFINE g == [job EXCEPT ![n] = x, ![j] = y]
  <1>8. /\ g[n] = x /\ g[j] = y
        /\ \A i \in Job : i # n /\ i # j => g[i] = job[i]
    BY <1>2
  <1>. HIDE DEF g
  <1>9. \A i \in Job : /\ Leased!Moves(WorkOf(job[i]), WorkOf(g[i]))
                       /\ i # n => g[i].attemptCount = job[i].attemptCount
    BY <1>4, <1>6, <1>7, <1>8 DEF Leased!Moves, Uncounted
  <1>10. TableMoves(job, g)
    BY <1>9 DEF TableMoves
  <1>. QED
    BY <1>1, <1>10 DEF g, x

\* One case per action.
LEMMA NextMoves == IInv /\ [Next]_vars => UNCHANGED job \/ TableMoves(job, job')
  <1>. SUFFICES ASSUME IInv, [Next]_vars PROVE UNCHANGED job \/ TableMoves(job, job')
    OBVIOUS
  <1>1. CASE \E j \in Job, d \in Definition, k \in Key, p \in Payload,
                delay \in StartDelay, life \in Lifetime : Enqueue(j, d, k, p, delay, life)
    BY <1>1, EnqueueMoves
  <1>2. CASE \E j \in Job : Cancel(j)
    BY <1>2, CancelMoves
  <1>3. CASE \E j, n \in Job, k \in Key : Replay(j, n, k)
    BY <1>3, ReplayMoves
  <1>4. CASE \E w \in Worker : ClaimNext(w) \/ RunOnce(w)
    BY <1>4, ClaimNextMoves, RunOnceMoves
  <1>5. CASE \E e \in exec : \/ Heartbeat(e) \/ HeartbeatCancelled(e) \/ Succeed(e)
                             \/ \E c \in Reported : Fail(e, c)
    BY <1>5, ExecMoves
  <1>6. CASE \/ \E d \in Definition : RegisterDefinition(d)
             \/ \E s \in Scope \cap Pausable, paused \in BOOLEAN, v \in 0..MaxControls : SetPaused(s, paused, v)
             \/ \E e \in exec : HandlerLost(e)
             \/ Tick
             \/ UNCHANGED vars
    BY <1>6 DEF RegisterDefinition, SetPaused, HandlerLost, Tick, vars
  <1>. QED
    BY <1>1, <1>2, <1>3, <1>4, <1>5, <1>6 DEF Next

\* Handed-out work has one grant more.
LEMMA HandedOutCounts ==
  ASSUME NEW r, RowOK(r), NEW s, Leased!HandedOut(WorkOf(r), WorkOf(s))
  PROVE  s.attemptCount # r.attemptCount
  <1>1. WorkOf(r).grants = r.attemptCount /\ WorkOf(s).grants = s.attemptCount
    BY DEF WorkOf
  <1>2. r.attemptCount \in Nat
    BY WorkOfRow
  <1>3. WorkOf(s).grants = WorkOf(r).grants + 1
    <2>. DEFINE a == WorkOf(r).state
    <2>1. WorkOf(r) = [state |-> a, kind |-> r.def, holder |-> r.leaseOwner, grants |-> r.attemptCount]
      BY DEF WorkOf
    <2>. HIDE DEF a
    <2>2. CASE Leased!Granted(WorkOf(r), WorkOf(s))
      BY <2>1, <2>2 DEF Leased!Granted
    <2>3. CASE Leased!Turned(WorkOf(r), WorkOf(s))
      BY <2>1, <2>3 DEF Leased!Turned
    <2>. QED
      BY <2>2, <2>3 DEF Leased!HandedOut
  <1>. QED
    BY <1>1, <1>2, <1>3

\* The durable job service implements leased work: whatever the sweeps, retries,
\* crashes, cancellations and replays do, a job has one holder at a time, is
\* handed out at most as often as its budget allows and stays done once done.
THEOREM LeasedWorkImplemented == Spec => ImplementsLeasedWork
  <1>1. Init => Leased!Init
    <2>1. WorkOf(AbsentJob) = Leased!Untouched
      BY DEF WorkOf, AbsentJob, Leased!Untouched, Waiting, Terminal
    <2>. QED
      BY <2>1 DEF Init, Leased!Init, Work
  <1>2. IInv /\ [Next]_vars => [Leased!Next]_Work
    <2>. SUFFICES ASSUME IInv, [Next]_vars, ~UNCHANGED job PROVE Leased!Next
      BY DEF Work
    <2>1. TableMoves(job, job') /\ \A j \in Job : RowOK(job[j])
      BY NextMoves DEF IInv, RowsOK
    <2>2. /\ \A j \in Job : Work[j] = WorkOf(job[j]) /\ Work'[j] = WorkOf(job'[j])
          /\ DOMAIN Work' = Job
      BY DEF Work
    <2>3. \A j \in Job : Leased!Moves(Work[j], Work'[j])
      BY <2>1, <2>2 DEF TableMoves
    <2>4. ASSUME NEW j \in Job, NEW k \in Job,
                 Leased!HandedOut(Work[j], Work'[j]), Leased!HandedOut(Work[k], Work'[k])
          PROVE  j = k
      <3>1. job'[j].attemptCount # job[j].attemptCount /\ job'[k].attemptCount # job[k].attemptCount
        BY <2>1, <2>2, <2>4, HandedOutCounts
      <3>. QED
        BY <2>1, <3>1 DEF TableMoves
    <2>. QED
      BY <2>2, <2>3, <2>4 DEF Leased!Next
  <1>. QED
    BY <1>1, <1>2, IInvHolds, PTL DEF Spec, ImplementsLeasedWork, Leased!Spec

-----------------------------------------------------------------------------
(* Dead letters and replays *)

\* A row has a letter exactly when it is dead-lettered, answered once replayed.
LetterOK(r) ==
  /\ r.status = "dead_lettered" <=> r.letter # "none"
  /\ r.letter = "replayed" <=> r.replayJob # None

LinksInv ==
  /\ \A j \in Job : LetterOK(job[j])
  /\ \A j, n \in Job : job[j].replayJob = n <=> job[n].replayOf = j
  /\ \A j, n \in Job : job[j].def # None /\ job[j].def = job[n].def /\ job[j].key = job[n].key
                         => j = n
  /\ \A j \in Job : job[j].status = "absent" => job[j] = AbsentJob

\* The identity of a row: what no call but replay rewrites.
SameIdentity(r, s) ==
  /\ s.def = r.def /\ s.key = r.key
  /\ s.replayOf = r.replayOf /\ s.replayJob = r.replayJob

\* A row that was accepted stays so, with its links and a letter that is right.
SameLinks(r, s) ==
  /\ SameIdentity(r, s)
  /\ r.status = "absent" => s = r
  /\ r.status # "absent" => s.status # "absent"
  /\ LetterOK(r) => LetterOK(s)

LEMMA RecordIdentity ==
  ASSUME NEW r \in JobRow
  PROVE  SameIdentity(r, Record(r)) /\ Record(r).letter = r.letter /\ Record(r).status = r.status
  BY DEF Record, JobRow, SameIdentity

\* A live row whose status changes to one without a letter.
LEMMA LetterlessLinks ==
  ASSUME NEW r, r.status \in Live, NEW s, SameIdentity(r, s), s.letter = r.letter,
         s.status \notin {"absent", "dead_lettered"}
  PROVE  SameLinks(r, s)
  BY DEF SameLinks, SameIdentity, LetterOK, Live, Waiting

LEMMA EndedIdentity ==
  ASSUME NEW r, RowOK(r), r.status = "running",
         NEW o \in {"succeeded", "failed", "abandoned", "cancelled"},
         NEW st \in Waiting \cup Terminal
  PROVE  /\ Ended(r, o, st) \in JobRow
         /\ SameIdentity(r, Ended(r, o, st))
         /\ Ended(r, o, st).letter = r.letter /\ Ended(r, o, st).status = st
  <1>. DEFINE e == EndAttempt(r, o)
  <1>1. r \in JobRow
    BY DEF RowOK
  <1>2. e \in JobRow
    BY EndAttemptOK DEF RowOK
  <1>3. SameIdentity(r, e) /\ e.letter = r.letter
    BY <1>1 DEF EndAttempt, JobRow, SameIdentity
  <1>. HIDE DEF e
  <1>4. Ended(r, o, st) = [[e EXCEPT !.status = st] EXCEPT !.leaseOwner = None, !.leaseExpires = 0]
    BY DEF Ended, ClearLease, e
  <1>. DEFINE f == [e EXCEPT !.status = st]
  <1>5. f \in JobRow /\ SameIdentity(r, f) /\ f.letter = r.letter /\ f.status = st
    <2>1. st \in {"absent"} \cup Live \cup Terminal
      BY DEF Live
    <2>2. f \in JobRow
      BY <1>2, <2>1, ZenonT(60) DEF JobRow
    <2>3. /\ f.status = st /\ f.letter = e.letter /\ f.def = e.def /\ f.key = e.key
          /\ f.replayOf = e.replayOf /\ f.replayJob = e.replayJob
      BY <1>2 DEF JobRow
    <2>. HIDE DEF f
    <2>. QED
      BY <1>3, <2>2, <2>3 DEF SameIdentity
  <1>. HIDE DEF f
  <1>. DEFINE x == [f EXCEPT !.leaseOwner = None, !.leaseExpires = 0]
  <1>6. Ended(r, o, st) = x
    BY <1>4 DEF f
  <1>7. x \in JobRow
    BY <1>5 DEF JobRow
  <1>8. SameIdentity(r, x) /\ x.letter = r.letter /\ x.status = st
    BY <1>5 DEF JobRow, SameIdentity
  <1>. HIDE DEF x
  <1>. QED
    BY <1>6, <1>7, <1>8

LEMMA SucceededLinks ==
  ASSUME NEW r, RowOK(r), r.status = "running"
  PROVE  SameLinks(r, Succeeded(r))
  <1>. DEFINE x == Ended(r, "succeeded", "succeeded")
  <1>1. x \in JobRow /\ SameIdentity(r, x) /\ x.letter = r.letter /\ x.status = "succeeded"
    BY EndedIdentity DEF Terminal
  <1>2. Succeeded(r) = Record(x)
    BY DEF Succeeded
  <1>. HIDE DEF x
  <1>. QED
    BY <1>1, <1>2, RecordIdentity, LetterlessLinks DEF SameIdentity, Live

LEMMA CancelObservedLinks ==
  ASSUME NEW r, RowOK(r), r.status = "running"
  PROVE  SameLinks(r, CancelObserved(r))
  <1>. DEFINE x == Ended(r, "cancelled", "cancelled")
  <1>1. x \in JobRow /\ SameIdentity(r, x) /\ x.letter = r.letter /\ x.status = "cancelled"
    BY EndedIdentity DEF Terminal
  <1>2. CancelObserved(r) = Record(x)
    BY DEF CancelObserved
  <1>. HIDE DEF x
  <1>. QED
    BY <1>1, <1>2, RecordIdentity, LetterlessLinks DEF SameIdentity, Live

\* A letter is opened exactly where the retry decision says dead-lettered.
LEMMA UnsuccessfulLinks ==
  ASSUME NEW r, RowOK(r), r.status = "running", NEW now \in Nat, NEW c,
         NEW o \in {"failed", "abandoned"}
  PROVE  SameLinks(r, Unsuccessful(r, o, c, now))
  <1>. DEFINE dec == RetryDecision(r.def, c, r.attemptCount, now, r.deadline)
              x   == Ended(r, o, dec.status)
              y   == [x EXCEPT !.availableAt = IF dec.status = "retry_wait" THEN dec.at ELSE @,
                               !.letter = IF dec.status = "dead_lettered" THEN "open" ELSE @]
  <1>1. /\ dec.status \in {"retry_wait", "dead_lettered", "expired"}
        /\ dec.status = "retry_wait" => dec.at \in Nat
    BY RetryDecisionOK
  <1>7. Unsuccessful(r, o, c, now) = Record(y)
    BY DEF Unsuccessful
  <1>. HIDE DEF dec
  <1>2. /\ x \in JobRow /\ SameIdentity(r, x)
        /\ x.letter = r.letter /\ x.status = dec.status
    BY <1>1, EndedIdentity DEF Waiting, Terminal
  <1>. HIDE DEF x
  <1>3. /\ SameIdentity(r, y) /\ y.status = dec.status
        /\ y.letter = IF dec.status = "dead_lettered" THEN "open" ELSE r.letter
    BY <1>2 DEF JobRow, SameIdentity
  <1>4. /\ SameIdentity(y, Record(y)) /\ Record(y).letter = y.letter
        /\ Record(y).status = y.status
    BY <1>2 DEF Record, JobRow, SameIdentity
  <1>. HIDE DEF y
  <1>5. LetterOK(r) => LetterOK(Record(y))
    BY <1>3, <1>4 DEF LetterOK, SameIdentity
  <1>. QED
    BY <1>1, <1>3, <1>4, <1>5, <1>7 DEF SameLinks, SameIdentity

LEMMA ClaimedLinks ==
  ASSUME NEW r, RowOK(r), r.status \in Waiting, NEW w, NEW now
  PROVE  SameLinks(r, Claimed(r, w, now))
  <1>. DEFINE x == Claimed(r, w, now)
  <1>1. r \in JobRow
    BY DEF RowOK
  <1>2. SameIdentity(r, x) /\ x.letter = r.letter /\ x.status = "running"
    BY <1>1 DEF Claimed, Record, JobRow, SameIdentity
  <1>. HIDE DEF x
  <1>3. SameLinks(r, x)
    BY <1>2, LetterlessLinks DEF Live
  <1>. QED
    BY <1>3 DEF x

LEMMA ExtendedLinks ==
  ASSUME NEW r, RowOK(r), r.status = "running", NEW now
  PROVE  SameLinks(r, Extended(r, now))
  <1>. DEFINE x == Extended(r, now)
  <1>1. r \in JobRow
    BY DEF RowOK
  <1>2. SameIdentity(r, x) /\ x.letter = r.letter /\ x.status = "running"
    BY <1>1 DEF Extended, Record, JobRow, SameIdentity
  <1>. HIDE DEF x
  <1>3. SameLinks(r, x)
    BY <1>2, LetterlessLinks DEF Live
  <1>. QED
    BY <1>3 DEF x

LEMMA CancelAskedLinks ==
  ASSUME NEW r, RowOK(r), r.status \in Live
  PROVE  SameLinks(r, CancelAsked(r))
  <1>. DEFINE x == CancelAsked(r)
  <1>1. r \in JobRow
    BY DEF RowOK
  <1>2. SameIdentity(r, x) /\ x.letter = r.letter /\ x.status \in {"running", "cancelled"}
    BY <1>1 DEF CancelAsked, ClearLease, Record, JobRow, SameIdentity
  <1>. HIDE DEF x
  <1>3. SameLinks(r, x)
    BY <1>2, LetterlessLinks
  <1>. QED
    BY <1>3 DEF x

LEMMA SweptLinks ==
  ASSUME NEW r, RowOK(r), NEW now \in Nat
  PROVE  SameLinks(r, Swept(r, now))
  <1>1. CASE LeaseExpired(r, now)
    BY <1>1, UnsuccessfulLinks DEF Swept, LeaseExpired
  <1>2. CASE ~LeaseExpired(r, now) /\ r.status \in Waiting /\ r.deadline <= now
    <2>. DEFINE x == Record([r EXCEPT !.status = "expired"])
    <2>1. Swept(r, now) = x
      BY <1>2 DEF Swept
    <2>2. r \in JobRow
      BY DEF RowOK
    <2>3. SameIdentity(r, x) /\ x.letter = r.letter /\ x.status = "expired"
      BY <2>2 DEF Record, JobRow, SameIdentity
    <2>. HIDE DEF x
    <2>. QED
      BY <1>2, <2>1, <2>3, LetterlessLinks DEF Live
  <1>3. CASE ~LeaseExpired(r, now) /\ ~(r.status \in Waiting /\ r.deadline <= now)
    BY <1>3 DEF Swept, SameLinks, SameIdentity
  <1>. QED
    BY <1>1, <1>2, <1>3

LEMMA SameLinksTransitive ==
  ASSUME NEW r, NEW s, NEW t, SameLinks(r, s), SameLinks(s, t)
  PROVE  SameLinks(r, t)
  BY DEF SameLinks, SameIdentity

TableLinks(f, g) == \A j \in Job : SameLinks(f[j], g[j])

LEMMA PutLinks ==
  ASSUME NEW f \in [Job -> JobRow], NEW j \in Job, NEW r, SameLinks(f[j], r)
  PROVE  TableLinks(f, [f EXCEPT ![j] = r])
  BY DEF TableLinks, SameLinks, SameIdentity

LEMMA SweptPutLinks ==
  ASSUME IInv, NEW j \in Job, NEW r, SameLinks(SweptJobs[j], r)
  PROVE  TableLinks(job, [SweptJobs EXCEPT ![j] = r])
  <1>1. clock \in Nat /\ TableOK(SweptJobs) /\ \A k \in Job : RowOK(job[k])
    BY TableInv, SweptJobsOK DEF IInv, TypeOK, RowsOK
  <1>2. \A k \in Job : SameLinks(job[k], SweptJobs[k])
    BY <1>1, SweptLinks DEF SweptJobs
  <1>3. SameLinks(job[j], r)
    BY <1>2, SameLinksTransitive
  <1>. QED
    BY <1>1, <1>2, <1>3 DEF TableLinks, TableOK

\* The calls of workers, and cancel, leave every link as it is.
LEMMA WorkerLinks ==
  ASSUME IInv,
         \/ \E j \in Job : Cancel(j)
         \/ \E w \in Worker : ClaimNext(w) \/ RunOnce(w)
         \/ \E e \in exec : \/ Heartbeat(e) \/ HeartbeatCancelled(e) \/ Succeed(e)
                            \/ \E c \in Reported : Fail(e, c)
  PROVE  job' = job \/ TableLinks(job, job')
  <1>1. /\ clock \in Nat /\ job \in [Job -> JobRow] /\ TableOK(SweptJobs)
        /\ \A j \in Job : RowOK(job[j])
    BY TableInv, SweptJobsOK DEF IInv, TypeOK, RowsOK
  <1>2. ASSUME NEW j \in Job, Cancel(j) PROVE TableLinks(job, job')
    <2>1. SameLinks(job[j], CancelAsked(job[j])) /\ job' = [job EXCEPT ![j] = CancelAsked(job[j])]
      BY <1>1, <1>2, CancelAskedLinks DEF Cancel
    <2>. QED
      BY <1>1, <2>1, PutLinks
  <1>3. ASSUME NEW w \in Worker, ClaimNext(w) PROVE TableLinks(job, job')
    <2>1. CASE job' = SweptJobs
      BY <1>1, <2>1, SweptLinks DEF TableLinks, SweptJobs
    <2>2. ASSUME NEW j \in Candidates(SweptJobs, clock),
                 job' = [SweptJobs EXCEPT ![j] = Claimed(SweptJobs[j], w, clock)]
          PROVE  TableLinks(job, job')
      <3>1. j \in Job /\ SweptJobs[j].status \in Waiting
        BY CandidateWaits
      <3>2. SameLinks(SweptJobs[j], Claimed(SweptJobs[j], w, clock))
        BY <1>1, <3>1, ClaimedLinks DEF TableOK
      <3>. QED
        BY <2>2, <3>1, <3>2, SweptPutLinks
    <2>. QED
      BY <1>3, <2>1, <2>2 DEF ClaimNext
  <1>4. ASSUME NEW w \in Worker, RunOnce(w) PROVE TableLinks(job, job')
    <2>1. PICK j \in Candidates(SweptJobs, clock) :
            LET claimed == Claimed(SweptJobs[j], w, clock)
            IN  \/ /\ ~claimed.cancelRequested
                   /\ job' = [SweptJobs EXCEPT ![j] = Succeeded(claimed)]
                \/ \E c \in Reported :
                     job' = [SweptJobs EXCEPT ![j] = Failed(claimed, c, clock)]
      BY <1>4 DEF RunOnce
    <2>. DEFINE r == SweptJobs[j]
                x == Claimed(r, w, clock)
    <2>2. j \in Job /\ r.status \in Waiting
      BY CandidateWaits
    <2>3. RowOK(r)
      BY <1>1, <2>2 DEF TableOK
    <2>4. RowOK(x) /\ x.status = "running" /\ SameLinks(r, x)
      BY <1>1, <2>2, <2>3, ClaimedOK, ClaimedLinks
    <2>. HIDE DEF x, r
    <2>5. CASE job' = [SweptJobs EXCEPT ![j] = Succeeded(x)]
      <3>1. SameLinks(r, Succeeded(x))
        BY <2>4, SucceededLinks, SameLinksTransitive
      <3>. QED
        BY <2>2, <2>5, <3>1, SweptPutLinks DEF r
    <2>6. ASSUME NEW c \in Reported, job' = [SweptJobs EXCEPT ![j] = Failed(x, c, clock)]
          PROVE  TableLinks(job, job')
      <3>1. SameLinks(x, Failed(x, c, clock))
        BY <1>1, <2>4, UnsuccessfulLinks DEF Failed
      <3>2. SameLinks(r, Failed(x, c, clock))
        BY <2>4, <3>1, SameLinksTransitive
      <3>. QED
        BY <2>2, <2>6, <3>2, SweptPutLinks DEF r
    <2>. QED
      BY <2>1, <2>5, <2>6 DEF x, r
  <1>5. ASSUME NEW e \in exec,
               \/ Heartbeat(e) \/ HeartbeatCancelled(e) \/ Succeed(e)
               \/ \E c \in Reported : Fail(e, c)
        PROVE  job' = job \/ TableLinks(job, job')
    <2>1. e.job \in Job /\ RowOK(job[e.job]) /\ job[e.job].status = "running"
      BY <1>1, <1>5 DEF IInv, TypeOK, Heartbeat, HeartbeatCancelled, Succeed, Fail, Holds
    <2>2. CASE Heartbeat(e)
      <3>1. SameLinks(job[e.job], Extended(job[e.job], clock))
        BY <2>1, ExtendedLinks
      <3>. QED
        BY <1>1, <2>1, <2>2, <3>1, PutLinks DEF Heartbeat
    <2>3. CASE HeartbeatCancelled(e)
      <3>1. SameLinks(job[e.job], CancelObserved(job[e.job]))
        BY <2>1, CancelObservedLinks
      <3>. QED
        BY <1>1, <2>1, <2>3, <3>1, PutLinks DEF HeartbeatCancelled
    <2>4. CASE Succeed(e)
      <3>1. SameLinks(job[e.job], Succeeded(job[e.job]))
        BY <2>1, SucceededLinks
      <3>. QED
        BY <1>1, <2>1, <2>4, <3>1, PutLinks DEF Succeed
    <2>5. ASSUME NEW c \in Reported, Fail(e, c) PROVE TableLinks(job, job')
      <3>1. SameLinks(job[e.job], Failed(job[e.job], c, clock))
        BY <1>1, <2>1, UnsuccessfulLinks DEF Failed
      <3>. QED
        BY <1>1, <2>1, <2>5, <3>1, PutLinks DEF Fail
    <2>. QED
      BY <1>5, <2>2, <2>3, <2>4, <2>5
  <1>. QED
    BY <1>2, <1>3, <1>4, <1>5

\* Nothing a worker does disturbs the links.
LEMMA LinksKept ==
  ASSUME LinksInv, job' = job \/ TableLinks(job, job')
  PROVE  LinksInv'
  <1>1. ASSUME TableLinks(job, job') PROVE LinksInv'
    <2>1. \A j \in Job : /\ SameIdentity(job[j], job'[j])
                         /\ LetterOK(job[j]) => LetterOK(job'[j])
                         /\ job'[j].status = "absent" =>
                              job[j].status = "absent" /\ job'[j] = job[j]
      BY <1>1 DEF TableLinks, SameLinks
    <2>2. \A j \in Job : LetterOK(job'[j])
      BY <2>1 DEF LinksInv
    <2>3. \A j, n \in Job : job'[j].replayJob = n <=> job'[n].replayOf = j
      BY <2>1 DEF LinksInv, SameIdentity
    <2>4. \A j, n \in Job : /\ job'[j].def # None /\ job'[j].def = job'[n].def
                            /\ job'[j].key = job'[n].key
                            => j = n
      BY <2>1 DEF LinksInv, SameIdentity
    <2>5. \A j \in Job : job'[j].status = "absent" => job'[j] = AbsentJob
      BY <2>1 DEF LinksInv
    <2>. QED
      BY <2>2, <2>3, <2>4, <2>5 DEF LinksInv
  <1>. QED
    BY <1>1 DEF LinksInv

\* What enqueue and replay read of the key: no other row has it.
LEMMA NewJobIdentity ==
  ASSUME NEW d, NEW k, NEW q, NEW o
  PROVE  LET x == [NewJob(d, k, q) EXCEPT !.replayOf = o]
         IN  /\ x.status = "queued" /\ x.def = d /\ x.key = k
             /\ x.replayOf = o /\ x.replayJob = None /\ x.letter = "none"
  BY DEF NewJob, AbsentJob

LEMMA EnqueueLinks ==
  ASSUME IInv, LinksInv, NEW j \in Job, NEW d \in Definition, NEW k \in Key, NEW p \in Payload,
         NEW delay \in StartDelay, NEW life \in Lifetime, Enqueue(j, d, k, p, delay, life)
  PROVE  LinksInv'
  <1>1. PICK q : job' = [job EXCEPT ![j] = NewJob(d, k, q)]
    BY DEF Enqueue
  <1>. DEFINE x == NewJob(d, k, q)
  <1>2. /\ x.status = "queued" /\ x.def = d /\ x.key = k
        /\ x.replayOf = None /\ x.replayJob = None /\ x.letter = "none"
    BY DEF NewJob, AbsentJob
  <1>3. /\ job \in [Job -> JobRow]
        /\ job[j] = AbsentJob
        /\ \A n \in Job : ~(job[n].def = d /\ job[n].key = k)
    BY DEF IInv, TypeOK, LinksInv, Enqueue, KeyTaken
  <1>4. AbsentJob.replayOf = None /\ AbsentJob.replayJob = None
    BY DEF AbsentJob
  <1>5. None \notin Job
    BY IdentityAssumption
  <1>. HIDE DEF x
  <1>6. job'[j] = x /\ \A n \in Job : n # j => job'[n] = job[n]
    BY <1>1, <1>3 DEF x
  <1>7. \A n \in Job : LetterOK(job'[n])
    BY <1>2, <1>6 DEF LinksInv, LetterOK
  <1>8. \A m, n \in Job : job'[m].replayJob = n <=> job'[n].replayOf = m
    BY <1>2, <1>3, <1>4, <1>5, <1>6 DEF LinksInv
  <1>9. \A m, n \in Job : job'[m].def # None /\ job'[m].def = job'[n].def
                            /\ job'[m].key = job'[n].key => m = n
    BY <1>2, <1>3, <1>6 DEF LinksInv
  <1>10. \A n \in Job : job'[n].status = "absent" => job'[n] = AbsentJob
    BY <1>2, <1>6 DEF LinksInv
  <1>. QED
    BY <1>7, <1>8, <1>9, <1>10 DEF LinksInv

\* A dead letter is open until its one replay names the new job both ways.
LEMMA ReplayLinks ==
  ASSUME IInv, LinksInv, NEW j \in Job, NEW n \in Job, NEW k \in Key, Replay(j, n, k)
  PROVE  LinksInv'
  <1>. DEFINE r == job[j]
              z == [r EXCEPT !.letter = "replayed", !.replayJob = n]
              y == Record(z)
  <1>1. PICK q : job' = [job EXCEPT ![n] = [NewJob(r.def, k, q) EXCEPT !.replayOf = j], ![j] = y]
    BY DEF Replay
  <1>. DEFINE x == [NewJob(r.def, k, q) EXCEPT !.replayOf = j]
  <1>2. /\ job \in [Job -> JobRow] /\ r \in JobRow
        /\ r.status = "dead_lettered" /\ r.letter = "open"
        /\ job[n].status = "absent" /\ job[n] = AbsentJob
        /\ \A i \in Job : ~(job[i].def = r.def /\ job[i].key = k)
    BY DEF IInv, TypeOK, LinksInv, Replay, Replayable, KeyTaken
  <1>3. AbsentJob.replayOf = None /\ AbsentJob.replayJob = None
    BY DEF AbsentJob
  <1>4. None \notin Job
    BY IdentityAssumption
  <1>5. r.replayJob = None /\ n # j
    BY <1>2 DEF LinksInv, LetterOK
  <1>6. /\ x.status = "queued" /\ x.def = r.def /\ x.key = k
        /\ x.replayOf = j /\ x.replayJob = None /\ x.letter = "none"
    BY NewJobIdentity
  <1>7. /\ z \in JobRow /\ z.status = r.status /\ z.def = r.def /\ z.key = r.key
        /\ z.replayOf = r.replayOf /\ z.replayJob = n /\ z.letter = "replayed"
    BY <1>2, ZenonT(60) DEF JobRow
  <1>. HIDE DEF z
  <1>8. /\ y.status = "dead_lettered" /\ y.def = r.def /\ y.key = r.key
        /\ y.replayOf = r.replayOf /\ y.replayJob = n /\ y.letter = "replayed"
    BY <1>2, <1>7, RecordIdentity DEF SameIdentity
  <1>. HIDE DEF y, x
  <1>9. job'[n] = x /\ job'[j] = y /\ \A i \in Job : i # n /\ i # j => job'[i] = job[i]
    BY <1>1, <1>2, <1>5 DEF x
  <1>. HIDE DEF r
  <1>10. \A i \in Job : LetterOK(job'[i])
    BY <1>4, <1>6, <1>8, <1>9 DEF LinksInv, LetterOK
  <1>11. \A i \in Job : job[i].replayJob # n /\ job[i].replayOf # n /\ job[i].replayOf # j
    BY <1>2, <1>3, <1>4, <1>5 DEF LinksInv, r
  <1>12. \A l, m \in Job : job'[l].replayJob = m <=> job'[m].replayOf = l
    <2>1. SUFFICES ASSUME NEW l \in Job, NEW m \in Job
                   PROVE  job'[l].replayJob = m <=> job'[m].replayOf = l
      OBVIOUS
    <2>2. CASE l = n
      BY <1>4, <1>5, <1>6, <1>8, <1>9, <1>11, <2>2 DEF r
    <2>3. CASE l = j
      BY <1>5, <1>6, <1>8, <1>9, <1>11, <2>3 DEF r
    <2>4. CASE l # n /\ l # j
      BY <1>6, <1>8, <1>9, <1>11, <2>4 DEF LinksInv, r
    <2>. QED
      BY <2>2, <2>3, <2>4
  <1>13. \A l, m \in Job : job'[l].def # None /\ job'[l].def = job'[m].def
                             /\ job'[l].key = job'[m].key => l = m
    <2>1. \A i \in Job : i # n => job'[i].def = job[i].def /\ job'[i].key = job[i].key
      BY <1>8, <1>9 DEF r
    <2>. QED
      BY <1>2, <1>6, <1>9, <2>1 DEF LinksInv
  <1>14. \A i \in Job : job'[i].status = "absent" => job'[i] = AbsentJob
    BY <1>6, <1>8, <1>9 DEF LinksInv
  <1>. QED
    BY <1>10, <1>12, <1>13, <1>14 DEF LinksInv

LEMMA NextLinks == IInv /\ LinksInv /\ [Next]_vars => LinksInv'
  <1>. SUFFICES ASSUME IInv, LinksInv, [Next]_vars PROVE LinksInv'
    OBVIOUS
  <1>1. CASE \E j \in Job, d \in Definition, k \in Key, p \in Payload,
                delay \in StartDelay, life \in Lifetime : Enqueue(j, d, k, p, delay, life)
    BY <1>1, EnqueueLinks
  <1>2. CASE \E j, n \in Job, k \in Key : Replay(j, n, k)
    BY <1>2, ReplayLinks
  <1>3. CASE \/ \E j \in Job : Cancel(j)
             \/ \E w \in Worker : ClaimNext(w) \/ RunOnce(w)
             \/ \E e \in exec : \/ Heartbeat(e) \/ HeartbeatCancelled(e) \/ Succeed(e)
                                \/ \E c \in Reported : Fail(e, c)
    BY <1>3, WorkerLinks, LinksKept
  <1>4. CASE \/ \E d \in Definition : RegisterDefinition(d)
             \/ \E s \in Scope \cap Pausable, paused \in BOOLEAN, v \in 0..MaxControls : SetPaused(s, paused, v)
             \/ \E e \in exec : HandlerLost(e)
             \/ Tick
             \/ UNCHANGED vars
    BY <1>4 DEF LinksInv, RegisterDefinition, SetPaused, HandlerLost, Tick, vars
  <1>. QED
    BY <1>1, <1>2, <1>3, <1>4 DEF Next

\* A job that failed for good has one dead letter and at most one replay, each
\* names the other, and one key of one definition makes at most one job, whatever
\* operators replay and workers report.
THEOREM DeadLetterLinksHolds == Spec => []DeadLetterLinks
  <1>1. Init => LinksInv
    BY IdentityAssumption DEF Init, LinksInv, LetterOK, AbsentJob
  <1>2. LinksInv => DeadLetterLinks
    BY DEF LinksInv, DeadLetterLinks, LetterOK
  <1>. QED
    BY <1>1, <1>2, NextLinks, IInvHolds, PTL DEF Spec

-----------------------------------------------------------------------------
(* Whose outcome is recorded *)

\* A row that runs after a step ran before it, for the same attempt.
StillRuns(r, s) ==
  s.status = "running" =>
    /\ r.status = "running" /\ s.leaseOwner = r.leaseOwner
    /\ s.attemptCount = r.attemptCount

TableStillRuns(f, g) == \A j \in Job : StillRuns(f[j], g[j])

\* One handler per worker, and the one that holds a lease runs its attempt.
HandlersInv ==
  /\ IsFiniteSet(exec)
  /\ \A e, f \in exec : e.worker = f.worker => e = f
  /\ \A e \in exec :
       job[e.job].status = "running" /\ job[e.job].leaseOwner = e.worker
         => e.attempt = job[e.job].attemptCount

\* With one slot a worker claims only when nothing of its own is in flight.
LEMMA FreeSlotIdle ==
  ASSUME Slots = 1, IsFiniteSet(exec), NEW w, HasFreeSlot(w)
  PROVE  \A e \in exec : e.worker # w
  <1>. DEFINE S == {e \in exec : e.worker = w}
  <1>1. IsFiniteSet(S)
    BY FS_Subset
  <1>2. Cardinality(S) \in Nat /\ Cardinality(S) < 1
    BY <1>1, FS_CardinalityType DEF HasFreeSlot
  <1>3. S = {}
    BY <1>1, <1>2, FS_EmptySet
  <1>. QED
    BY <1>3

LEMMA PutStillRuns ==
  ASSUME NEW f \in [Job -> JobRow], NEW j \in Job, NEW r, StillRuns(f[j], r)
  PROVE  TableStillRuns(f, [f EXCEPT ![j] = r])
  BY DEF TableStillRuns, StillRuns

\* Unless a call hands a job out, what runs ran before.
LEMMA StillRunsInv ==
  ASSUME HandlersInv, exec' \subseteq exec, job' = job \/ TableStillRuns(job, job'),
         exec \subseteq [worker : Worker, job : Job, attempt : Nat \ {0}]
  PROVE  HandlersInv'
  <1>1. IsFiniteSet(exec')
    BY FS_Subset DEF HandlersInv
  <1>2. \A e, f \in exec' : e.worker = f.worker => e = f
    BY DEF HandlersInv
  <1>3. ASSUME NEW e \in exec', job'[e.job].status = "running", job'[e.job].leaseOwner = e.worker
        PROVE  e.attempt = job'[e.job].attemptCount
    <2>1. e \in exec /\ e.job \in Job
      OBVIOUS
    <2>2. /\ job[e.job].status = "running" /\ job[e.job].leaseOwner = e.worker
          /\ job'[e.job].attemptCount = job[e.job].attemptCount
      BY <1>3, <2>1 DEF TableStillRuns, StillRuns
    <2>. QED
      BY <2>1, <2>2 DEF HandlersInv
  <1>. QED
    BY <1>1, <1>2, <1>3 DEF HandlersInv

LEMMA SweptStillRuns ==
  ASSUME NEW r, RowOK(r), NEW now \in Nat
  PROVE  StillRuns(r, Swept(r, now))
  <1>1. CASE LeaseExpired(r, now)
    <2>1. Swept(r, now).status \in Waiting \cup Terminal
      BY <1>1, UnsuccessfulFields DEF Swept, LeaseExpired
    <2>. QED
      BY <2>1 DEF StillRuns, Waiting, Terminal
  <1>2. CASE ~LeaseExpired(r, now) /\ r.status \in Waiting /\ r.deadline <= now
    <2>. DEFINE x == Record([r EXCEPT !.status = "expired"])
    <2>1. Swept(r, now) = x
      BY <1>2 DEF Swept
    <2>2. r \in JobRow
      BY DEF RowOK
    <2>3. x.status = "expired"
      BY <2>2 DEF Record, JobRow
    <2>. HIDE DEF x
    <2>. QED
      BY <2>1, <2>3 DEF StillRuns
  <1>3. CASE ~LeaseExpired(r, now) /\ ~(r.status \in Waiting /\ r.deadline <= now)
    BY <1>3 DEF Swept, StillRuns
  <1>. QED
    BY <1>1, <1>2, <1>3

LEMMA ClientsStillRun ==
  ASSUME IInv,
         \/ \E j \in Job, d \in Definition, k \in Key, p \in Payload,
               delay \in StartDelay, life \in Lifetime : Enqueue(j, d, k, p, delay, life)
         \/ \E j \in Job : Cancel(j)
         \/ \E j, n \in Job, k \in Key : Replay(j, n, k)
  PROVE  TableStillRuns(job, job')
  <1>1. job \in [Job -> JobRow] /\ \A j \in Job : RowOK(job[j])
    BY DEF IInv, TypeOK, RowsOK
  <1>2. ASSUME NEW j \in Job, NEW d \in Definition, NEW k \in Key, NEW p \in Payload,
               NEW delay \in StartDelay, NEW life \in Lifetime, Enqueue(j, d, k, p, delay, life)
        PROVE  TableStillRuns(job, job')
    <2>1. PICK q : job' = [job EXCEPT ![j] = NewJob(d, k, q)]
      BY <1>2 DEF Enqueue
    <2>2. StillRuns(job[j], NewJob(d, k, q))
      BY DEF StillRuns, NewJob, AbsentJob
    <2>. HIDE DEF NewJob
    <2>. QED
      BY <1>1, <2>1, <2>2, PutStillRuns
  <1>3. ASSUME NEW j \in Job, Cancel(j) PROVE TableStillRuns(job, job')
    <2>1. StillRuns(job[j], CancelAsked(job[j]))
      BY <1>1, CancelAskedFields DEF StillRuns, Uncounted
    <2>. QED
      BY <1>1, <1>3, <2>1, PutStillRuns DEF Cancel
  <1>4. ASSUME NEW j \in Job, NEW n \in Job, NEW k \in Key, Replay(j, n, k)
        PROVE  TableStillRuns(job, job')
    <2>. DEFINE y == Record([job[j] EXCEPT !.letter = "replayed", !.replayJob = n])
    <2>1. PICK q : job' = [job EXCEPT
                     ![n] = [NewJob(job[j].def, k, q) EXCEPT !.replayOf = j], ![j] = y]
      BY <1>4 DEF Replay
    <2>. DEFINE x == [NewJob(job[j].def, k, q) EXCEPT !.replayOf = j]
    <2>2. x.status = "queued"
      BY NewJobIdentity
    <2>3. y.status = "dead_lettered"
      <3>. DEFINE z == [job[j] EXCEPT !.letter = "replayed", !.replayJob = n]
      <3>1. job[j] \in JobRow /\ job[j].status = "dead_lettered"
        BY <1>1, <1>4 DEF Replay, Replayable
      <3>2. z \in JobRow /\ z.status = "dead_lettered"
        BY <3>1, ZenonT(60) DEF JobRow
      <3>. HIDE DEF z
      <3>3. Record(z).status = "dead_lettered"
        BY <3>2, RecordIdentity
      <3>. QED
        BY <3>3 DEF z
    <2>. HIDE DEF x, y
    <2>4. job' = [job EXCEPT ![n] = x, ![j] = y]
      BY <2>1 DEF x
    <2>5. \A i \in Job : job'[i] \in {x, y} \/ job'[i] = job[i]
      BY <1>1, <2>4
    <2>. QED
      BY <2>2, <2>3, <2>5 DEF TableStillRuns, StillRuns
  <1>. QED
    BY <1>2, <1>3, <1>4

\* A reported outcome ends the lease, a heartbeat keeps it as it was.
LEMMA ExecStillRuns ==
  ASSUME IInv, NEW e \in exec,
         \/ Heartbeat(e) \/ HeartbeatCancelled(e) \/ Succeed(e)
         \/ \E c \in Reported : Fail(e, c)
  PROVE  job' = job \/ TableStillRuns(job, job')
  <1>. DEFINE r == job[e.job]
  <1>1. /\ clock \in Nat /\ job \in [Job -> JobRow] /\ e.job \in Job /\ RowOK(r)
        /\ r.status = "running"
    BY DEF IInv, TypeOK, RowsOK, Heartbeat, HeartbeatCancelled, Succeed, Fail, Holds
  <1>. HIDE DEF r
  <1>2. ASSUME NEW s, StillRuns(r, s), job' = [job EXCEPT ![e.job] = s]
        PROVE  TableStillRuns(job, job')
    BY <1>1, <1>2, PutStillRuns DEF r
  <1>3. CASE Heartbeat(e)
    <2>1. StillRuns(r, Extended(r, clock))
      BY <1>1, ExtendedFields DEF StillRuns, Uncounted
    <2>. QED
      BY <1>2, <1>3, <2>1 DEF Heartbeat, r
  <1>4. CASE HeartbeatCancelled(e)
    <2>1. StillRuns(r, CancelObserved(r))
      BY <1>1, CancelObservedFields DEF StillRuns
    <2>. QED
      BY <1>2, <1>4, <2>1 DEF HeartbeatCancelled, r
  <1>5. CASE Succeed(e)
    <2>1. ~r.cancelRequested
      BY <1>5 DEF Succeed, r
    <2>2. StillRuns(r, Succeeded(r))
      BY <1>1, <2>1, SucceededFields DEF StillRuns
    <2>. QED
      BY <1>2, <1>5, <2>2 DEF Succeed, r
  <1>6. ASSUME NEW c \in Reported, Fail(e, c) PROVE TableStillRuns(job, job')
    <2>1. StillRuns(r, Failed(r, c, clock))
      BY <1>1, UnsuccessfulFields DEF StillRuns, Failed, Waiting, Terminal
    <2>. QED
      BY <1>2, <1>6, <2>1 DEF Fail, r
  <1>. QED
    BY <1>3, <1>4, <1>5, <1>6

LEMMA RunOnceStillRuns ==
  ASSUME IInv, NEW w \in Worker, RunOnce(w)
  PROVE  TableStillRuns(job, job')
  <1>1. /\ clock \in Nat /\ TableOK(SweptJobs)
        /\ \A k \in Job : StillRuns(job[k], SweptJobs[k])
    BY TableInv, SweptJobsOK, SweptStillRuns DEF IInv, TypeOK, RowsOK, SweptJobs
  <1>2. PICK j \in Candidates(SweptJobs, clock) :
          LET claimed == Claimed(SweptJobs[j], w, clock)
          IN  \/ /\ ~claimed.cancelRequested
                 /\ job' = [SweptJobs EXCEPT ![j] = Succeeded(claimed)]
              \/ \E c \in Reported :
                   job' = [SweptJobs EXCEPT ![j] = Failed(claimed, c, clock)]
    BY DEF RunOnce
  <1>. DEFINE x == Claimed(SweptJobs[j], w, clock)
  <1>3. j \in Job /\ RowOK(x) /\ x.status = "running"
    BY <1>1, CandidateWaits, ClaimedOK DEF TableOK
  <1>. HIDE DEF x
  <1>4. PICK y : y.status # "running" /\ job' = [SweptJobs EXCEPT ![j] = y]
    <2>1. CASE ~x.cancelRequested /\ job' = [SweptJobs EXCEPT ![j] = Succeeded(x)]
      BY <1>3, <2>1, SucceededFields
    <2>2. ASSUME NEW c \in Reported, job' = [SweptJobs EXCEPT ![j] = Failed(x, c, clock)]
          PROVE  \E y : y.status # "running" /\ job' = [SweptJobs EXCEPT ![j] = y]
      BY <1>1, <1>3, <2>2, UnsuccessfulFields DEF Failed, Waiting, Terminal
    <2>. QED
      BY <1>2, <2>1, <2>2 DEF x
  <1>5. \A k \in Job : job'[k] = y \/ job'[k] = SweptJobs[k]
    BY <1>1, <1>4 DEF TableOK
  <1>. QED
    BY <1>1, <1>4, <1>5 DEF TableStillRuns, StillRuns

\* The worker that gets the lease had nothing in flight.
LEMMA ClaimNextHandlers ==
  ASSUME Slots = 1, IInv, HandlersInv, NEW w \in Worker, ClaimNext(w)
  PROVE  HandlersInv'
  <1>1. /\ clock \in Nat /\ TableOK(SweptJobs)
        /\ exec \subseteq [worker : Worker, job : Job, attempt : Nat \ {0}]
        /\ \A k \in Job : StillRuns(job[k], SweptJobs[k])
    BY TableInv, SweptJobsOK, SweptStillRuns DEF IInv, TypeOK, RowsOK, SweptJobs
  <1>2. CASE job' = SweptJobs /\ UNCHANGED exec
    BY <1>1, <1>2, StillRunsInv DEF TableStillRuns
  <1>3. ASSUME NEW j \in Candidates(SweptJobs, clock),
               job' = [SweptJobs EXCEPT ![j] = Claimed(SweptJobs[j], w, clock)],
               exec' = exec \cup {[worker |-> w, job |-> j,
                                   attempt |-> SweptJobs[j].attemptCount + 1]}
        PROVE  HandlersInv'
    <2>. DEFINE x == Claimed(SweptJobs[j], w, clock)
                h == [worker |-> w, job |-> j, attempt |-> SweptJobs[j].attemptCount + 1]
    <2>1. j \in Job /\ SweptJobs[j] \in JobRow /\ RowOK(SweptJobs[j])
      BY <1>1, CandidateWaits DEF TableOK, RowOK
    <2>2. x.leaseOwner = w /\ x.attemptCount = SweptJobs[j].attemptCount + 1
      BY <2>1 DEF Claimed, Record, JobRow
    <2>3. h.worker = w /\ h.job = j /\ h.attempt = SweptJobs[j].attemptCount + 1
      OBVIOUS
    <2>. HIDE DEF x, h
    <2>4. job'[j] = x /\ \A k \in Job : k # j => job'[k] = SweptJobs[k]
      BY <1>1, <1>3, <2>1 DEF TableOK, x
    <2>5. \A e \in exec : e.worker # w
      BY FreeSlotIdle DEF HandlersInv, ClaimNext
    <2>6. exec' = exec \cup {h}
      BY <1>3 DEF h
    <2>7. IsFiniteSet(exec')
      BY <2>6, FS_AddElement DEF HandlersInv
    <2>8. \A e, f \in exec' : e.worker = f.worker => e = f
      BY <2>3, <2>5, <2>6 DEF HandlersInv
    <2>9. ASSUME NEW e \in exec', job'[e.job].status = "running", job'[e.job].leaseOwner = e.worker
          PROVE  e.attempt = job'[e.job].attemptCount
      <3>1. CASE e = h
        BY <2>2, <2>3, <2>4, <3>1
      <3>2. CASE e \in exec
        <4>1. e.job \in Job /\ e.job # j
          BY <1>1, <2>2, <2>4, <2>5, <2>9, <3>2
        <4>. QED
          BY <1>1, <2>4, <2>9, <3>2, <4>1 DEF HandlersInv, StillRuns
      <3>. QED
        BY <2>6, <3>1, <3>2
    <2>. QED
      BY <2>7, <2>8, <2>9 DEF HandlersInv
  <1>. QED
    BY <1>2, <1>3 DEF ClaimNext

LEMMA NextHandlers ==
  ASSUME Slots = 1, IInv, HandlersInv, [Next]_vars
  PROVE  HandlersInv'
  <1>. exec \subseteq [worker : Worker, job : Job, attempt : Nat \ {0}]
    BY DEF IInv, TypeOK
  <1>1. CASE \/ \E j \in Job, d \in Definition, k \in Key, p \in Payload,
                   delay \in StartDelay, life \in Lifetime : Enqueue(j, d, k, p, delay, life)
             \/ \E j \in Job : Cancel(j)
             \/ \E j, n \in Job, k \in Key : Replay(j, n, k)
    <2>1. UNCHANGED exec
      BY <1>1, ZenonT(60) DEF Enqueue, Cancel, Replay
    <2>. QED
      BY <1>1, <2>1, ClientsStillRun, StillRunsInv
  <1>2. CASE \E w \in Worker : ClaimNext(w)
    BY <1>2, ClaimNextHandlers
  <1>3. CASE \E w \in Worker : RunOnce(w)
    <2>1. UNCHANGED exec
      BY <1>3 DEF RunOnce
    <2>. QED
      BY <1>3, <2>1, RunOnceStillRuns, StillRunsInv
  <1>4. CASE \E e \in exec : \/ Heartbeat(e) \/ HeartbeatCancelled(e) \/ Succeed(e)
                             \/ \E c \in Reported : Fail(e, c)
    <2>1. exec' \subseteq exec
      BY <1>4 DEF Heartbeat, HeartbeatCancelled, Succeed, Fail
    <2>. QED
      BY <1>4, <2>1, ExecStillRuns, StillRunsInv
  <1>5. CASE \/ \E d \in Definition : RegisterDefinition(d)
             \/ \E s \in Scope \cap Pausable, paused \in BOOLEAN, v \in 0..MaxControls : SetPaused(s, paused, v)
             \/ \E e \in exec : HandlerLost(e)
             \/ Tick
             \/ UNCHANGED vars
    <2>1. UNCHANGED job /\ exec' \subseteq exec
      BY <1>5 DEF RegisterDefinition, SetPaused, HandlerLost, Tick, vars
    <2>. QED
      BY <2>1, StillRunsInv
  <1>. QED
    BY <1>1, <1>2, <1>3, <1>4, <1>5 DEF Next

\* A worker that runs one job at a time records an outcome only on the attempt
\* its handler was given, although the service compares no attempt numbers: it
\* cannot have claimed the job again while the old handler was in flight.
THEOREM OutcomeFromItsAttemptHolds ==
  ASSUME Slots = 1
  PROVE  Spec => OutcomeFromItsAttempt
  <1>. DEFINE Step == \A e \in exec : (e \notin exec' /\ job'[e.job] # job[e.job])
                                        => e.attempt = job[e.job].attemptCount
  <1>1. Init => HandlersInv
    BY FS_EmptySet DEF Init, HandlersInv
  <1>2. IInv /\ HandlersInv /\ [Next]_vars => HandlersInv'
    BY NextHandlers
  <1>3. HandlersInv /\ [Next]_vars => [Step]_vars
    <2>1. SUFFICES ASSUME HandlersInv, Next, NEW e \in exec, e \notin exec',
                          job'[e.job] # job[e.job]
                   PROVE  e.attempt = job[e.job].attemptCount
      OBVIOUS
    <2>2. Holds(e.worker, e.job)
      BY <2>1, ZenonT(60) DEF Next, RegisterDefinition, Enqueue, Cancel, Replay, SetPaused, ClaimNext,
                  RunOnce, Heartbeat, HeartbeatCancelled, Succeed, Fail, HandlerLost, Tick
    <2>. QED
      BY <2>1, <2>2 DEF HandlersInv, Holds
  <1>. HIDE DEF Step
  <1>4. Spec => [][Step]_vars
    BY <1>1, <1>2, <1>3, IInvHolds, PTL DEF Spec
  <1>. QED
    BY <1>4 DEF OutcomeFromItsAttempt, Step

-----------------------------------------------------------------------------
(* Ceilings and quotas *)

MinuteTo(now) == (now - Minute + 1)..now

PresentIn(f) == {j \in Job : f[j].status # "absent"}

StartsIn(f, d, W) ==
  {a \in Job \X (1..5) :
     /\ f[a[1]].def = d
     /\ a[2] \in DOMAIN f[a[1]].attempts
     /\ f[a[1]].attempts[a[2]].startedAt \in W}

AcceptedIn(f, W) == {j \in Job : f[j].status # "absent" /\ f[j].createdAt \in W}

\* WithinLimits of the job table f at instant c, and what keeps it so: the table is
\* finite, nothing in it lies ahead of the clock, and a row nobody has written has no
\* definition.
LimitsOK(f, c) ==
  /\ IsFiniteSet(PresentIn(f))
  /\ \A j \in Job : /\ f[j].status = "absent" => f[j].def = None
                    /\ f[j].status # "absent" => f[j].createdAt <= c
                    /\ \A n \in DOMAIN f[j].attempts : f[j].attempts[n].startedAt <= c
  /\ Cardinality(WithStatus(f, Live)) <= BacklogLimit
  /\ Cardinality(WithStatus(f, {"running"})) <= WorkspaceLimit
  /\ \A d \in Definition : Cardinality(RunningOf(f, d)) <= MaxConcurrency[d]
  /\ \A now \in 0..c :
       /\ \A d \in Definition : Cardinality(StartsIn(f, d, MinuteTo(now))) <= RateLimit[d]
       /\ Cardinality(AcceptedIn(f, MinuteTo(now))) <= EnqueueLimit

LimitsInv == LimitsOK(job, clock)

\* A part of a finite set is no larger.
LEMMA PartNoLarger ==
  ASSUME NEW S, IsFiniteSet(S), NEW T, T \subseteq S, NEW n \in Nat, Cardinality(S) <= n
  PROVE  IsFiniteSet(T) /\ Cardinality(T) \in Nat /\ Cardinality(T) <= n
  <1>1. IsFiniteSet(T) /\ Cardinality(T) <= Cardinality(S)
    BY FS_Subset
  <1>2. Cardinality(S) \in Nat /\ Cardinality(T) \in Nat
    BY <1>1, FS_CardinalityType
  <1>. QED
    BY <1>1, <1>2

\* One more than fewer than n is no more than n.
LEMMA OneMore ==
  ASSUME NEW S, IsFiniteSet(S), NEW x, NEW T, T \subseteq S \cup {x},
         NEW n \in Nat, Cardinality(S) < n
  PROVE  Cardinality(T) <= n
  <1>0. Cardinality(S) \in Nat
    BY FS_CardinalityType
  <1>1. IsFiniteSet(S \cup {x}) /\ Cardinality(S \cup {x}) <= Cardinality(S) + 1
    <2>1. /\ IsFiniteSet(S \cup {x})
          /\ x \in S => Cardinality(S \cup {x}) = Cardinality(S)
          /\ x \notin S => Cardinality(S \cup {x}) = Cardinality(S) + 1
      BY FS_AddElement, ZenonT(60)
    <2>. QED
      BY <1>0, <2>1
  <1>2. Cardinality(S \cup {x}) <= n
    <2>1. Cardinality(S \cup {x}) \in Nat
      BY <1>1, FS_CardinalityType
    <2>. QED
      BY <1>0, <1>1, <2>1
  <1>. QED
    BY <1>1, <1>2, PartNoLarger

\* Everything the limits count is finite.
LEMMA CountedSetsFinite ==
  ASSUME NEW f, NEW c, LimitsOK(f, c)
  PROVE  /\ \A T : T \subseteq PresentIn(f) => IsFiniteSet(T)
         /\ IsFiniteSet(WithStatus(f, Live)) /\ IsFiniteSet(WithStatus(f, {"running"}))
         /\ \A d \in Definition : \A W :
              /\ IsFiniteSet(RunningOf(f, d))
              /\ IsFiniteSet(StartsIn(f, d, W)) /\ IsFiniteSet(AcceptedIn(f, W))
  <1>1. IsFiniteSet(PresentIn(f))
    BY DEF LimitsOK
  <1>2. \A T : T \subseteq PresentIn(f) => IsFiniteSet(T)
    BY <1>1, FS_Subset
  <1>3. /\ WithStatus(f, Live) \subseteq PresentIn(f)
        /\ WithStatus(f, {"running"}) \subseteq PresentIn(f)
    BY DEF WithStatus, PresentIn, Live, Waiting
  <1>4. ASSUME NEW d \in Definition, NEW W
        PROVE  /\ RunningOf(f, d) \subseteq PresentIn(f) /\ AcceptedIn(f, W) \subseteq PresentIn(f)
               /\ StartsIn(f, d, W) \subseteq PresentIn(f) \X (1..5)
    <2>1. RunningOf(f, d) \subseteq PresentIn(f) /\ AcceptedIn(f, W) \subseteq PresentIn(f)
      BY DEF RunningOf, OfDefinition, AcceptedIn, PresentIn
    <2>2. ASSUME NEW a \in StartsIn(f, d, W) PROVE a \in PresentIn(f) \X (1..5)
      <3>1. a \in Job \X (1..5) /\ f[a[1]].def = d
        BY DEF StartsIn
      <3>2. a[1] \in Job /\ f[a[1]].status # "absent"
        BY <3>1, IdentityAssumption DEF LimitsOK
      <3>. QED
        BY <3>1, <3>2 DEF PresentIn
    <2>. QED
      BY <2>1, <2>2
  <1>5. IsFiniteSet(PresentIn(f) \X (1..5))
    <2>1. IsFiniteSet(1..5)
      <3>1. 1 \in Int /\ 5 \in Int
        OBVIOUS
      <3>. QED
        BY <3>1, FS_Interval, ZenonT(60)
    <2>. QED
      BY <1>1, <2>1, FS_Product
  <1>6. \A T : T \subseteq PresentIn(f) \X (1..5) => IsFiniteSet(T)
    BY <1>5, FS_Subset
  <1>. QED
    BY <1>2, <1>3, <1>4, <1>6

-----------------------------------------------------------------------------
\* Nothing of r that a limit counts is more in s.
Counted(r, s) ==
  /\ s.status = "absent" <=> r.status = "absent"
  /\ s.def = r.def /\ s.createdAt = r.createdAt
  /\ s.status \in Live => r.status \in Live
  /\ s.status = "running" => r.status = "running"
  /\ DOMAIN s.attempts = DOMAIN r.attempts
  /\ \A n \in DOMAIN r.attempts : s.attempts[n].startedAt = r.attempts[n].startedAt

TableCounted(f, g) == \A j \in Job : Counted(f[j], g[j])

LEMMA LimitTypes ==
  /\ BacklogLimit \in Nat /\ WorkspaceLimit \in Nat /\ EnqueueLimit \in Nat
  /\ \A d \in Definition : MaxConcurrency[d] \in Nat /\ RateLimit[d] \in Nat
  <1>1. /\ MaxConcurrency \in [Definition -> Nat \ {0}]
        /\ RateLimit \in [Definition -> Nat \ {0}]
    BY DefinitionAssumption
  <1>. QED
    BY <1>1, LimitAssumption

\* Fewer of everything stays within every limit.
LEMMA FewerWithinLimits ==
  ASSUME NEW f, NEW g, NEW c \in Nat, LimitsOK(f, c), TableCounted(f, g)
  PROVE  LimitsOK(g, c)
  <1>1. \A j \in Job : Counted(f[j], g[j])
    BY DEF TableCounted
  <1>2. PresentIn(g) = PresentIn(f)
    BY <1>1 DEF PresentIn, Counted
  <1>3. WithStatus(g, Live) \subseteq WithStatus(f, Live)
    BY <1>1 DEF WithStatus, Counted
  <1>4. WithStatus(g, {"running"}) \subseteq WithStatus(f, {"running"})
    BY <1>1 DEF WithStatus, Counted
  <1>5. \A d \in Definition : RunningOf(g, d) \subseteq RunningOf(f, d)
    BY <1>1 DEF RunningOf, OfDefinition, WithStatus, Counted
  <1>6. ASSUME NEW d \in Definition, NEW W PROVE StartsIn(g, d, W) = StartsIn(f, d, W)
    BY <1>1 DEF StartsIn, Counted
  <1>7. ASSUME NEW W PROVE AcceptedIn(g, W) = AcceptedIn(f, W)
    BY <1>1 DEF AcceptedIn, Counted
  <1>8. Cardinality(WithStatus(g, Live)) <= BacklogLimit
    BY <1>3, CountedSetsFinite, LimitTypes, PartNoLarger DEF LimitsOK
  <1>9. Cardinality(WithStatus(g, {"running"})) <= WorkspaceLimit
    BY <1>4, CountedSetsFinite, LimitTypes, PartNoLarger DEF LimitsOK
  <1>10. ASSUME NEW d \in Definition PROVE Cardinality(RunningOf(g, d)) <= MaxConcurrency[d]
    <2>1. /\ RunningOf(g, d) \subseteq RunningOf(f, d) /\ IsFiniteSet(RunningOf(f, d))
          /\ Cardinality(RunningOf(f, d)) <= MaxConcurrency[d] /\ MaxConcurrency[d] \in Nat
      BY <1>5, CountedSetsFinite, LimitTypes DEF LimitsOK
    <2>. QED
      BY <2>1, PartNoLarger
  <1>11. \A j \in Job : /\ g[j].status = "absent" => g[j].def = None
                        /\ g[j].status # "absent" => g[j].createdAt <= c
                        /\ \A n \in DOMAIN g[j].attempts : g[j].attempts[n].startedAt <= c
    BY <1>1 DEF Counted, LimitsOK
  <1>12. \A now \in 0..c :
           /\ \A d \in Definition : Cardinality(StartsIn(g, d, MinuteTo(now))) <= RateLimit[d]
           /\ Cardinality(AcceptedIn(g, MinuteTo(now))) <= EnqueueLimit
    BY <1>6, <1>7 DEF LimitsOK
  <1>. QED
    BY <1>2, <1>8, <1>9, <1>10, <1>11, <1>12 DEF LimitsOK

\* As time passes nothing comes into the newest minute.
LEMMA ClockWithinLimits ==
  ASSUME NEW f, NEW c \in Nat, LimitsOK(f, c),
         \A j \in Job : /\ f[j].createdAt \in Nat
                        /\ \A n \in DOMAIN f[j].attempts : f[j].attempts[n].startedAt \in Nat
  PROVE  LimitsOK(f, c + 1)
  <1>1. ASSUME NEW d \in Definition
        PROVE  StartsIn(f, d, MinuteTo(c + 1)) \subseteq StartsIn(f, d, MinuteTo(c))
    <2>. SUFFICES ASSUME NEW a \in StartsIn(f, d, MinuteTo(c + 1))
                  PROVE  a \in StartsIn(f, d, MinuteTo(c))
      OBVIOUS
    <2>. DEFINE t == f[a[1]].attempts[a[2]].startedAt
    <2>1. a[1] \in Job /\ a[2] \in DOMAIN f[a[1]].attempts /\ t \in MinuteTo(c + 1)
      BY DEF StartsIn
    <2>2. t \in Nat /\ t <= c
      BY <2>1 DEF LimitsOK
    <2>. HIDE DEF t
    <2>3. t \in MinuteTo(c)
      BY <2>1, <2>2, LimitAssumption DEF MinuteTo
    <2>. QED
      BY <2>3 DEF StartsIn, t
  <1>2. AcceptedIn(f, MinuteTo(c + 1)) \subseteq AcceptedIn(f, MinuteTo(c))
    <2>. SUFFICES ASSUME NEW j \in AcceptedIn(f, MinuteTo(c + 1))
                  PROVE  j \in AcceptedIn(f, MinuteTo(c))
      OBVIOUS
    <2>1. /\ j \in Job /\ f[j].status # "absent" /\ f[j].createdAt \in MinuteTo(c + 1)
          /\ f[j].createdAt \in Nat /\ f[j].createdAt <= c
      BY DEF AcceptedIn, LimitsOK
    <2>2. f[j].createdAt \in MinuteTo(c)
      BY <2>1, LimitAssumption DEF MinuteTo
    <2>. QED
      BY <2>1, <2>2 DEF AcceptedIn
  <1>3. c \in 0..c /\ \A now \in 0..(c + 1) : now = c + 1 \/ now \in 0..c
    OBVIOUS
  <1>4. ASSUME NEW d \in Definition
        PROVE  Cardinality(StartsIn(f, d, MinuteTo(c + 1))) <= RateLimit[d]
    <2>1. /\ IsFiniteSet(StartsIn(f, d, MinuteTo(c))) /\ RateLimit[d] \in Nat
          /\ Cardinality(StartsIn(f, d, MinuteTo(c))) <= RateLimit[d]
      BY <1>3, CountedSetsFinite, LimitTypes DEF LimitsOK
    <2>. QED
      BY <1>1, <2>1, PartNoLarger
  <1>5. Cardinality(AcceptedIn(f, MinuteTo(c + 1))) <= EnqueueLimit
    <2>1. /\ AcceptedIn(f, MinuteTo(c)) \subseteq PresentIn(f)
          /\ Cardinality(AcceptedIn(f, MinuteTo(c))) <= EnqueueLimit
      BY <1>3 DEF LimitsOK, AcceptedIn, PresentIn
    <2>2. IsFiniteSet(AcceptedIn(f, MinuteTo(c)))
      BY <2>1, CountedSetsFinite
    <2>. QED
      BY <1>2, <2>1, <2>2, LimitTypes, PartNoLarger
  <1>6. \A now \in 0..(c + 1) :
          /\ \A d \in Definition : Cardinality(StartsIn(f, d, MinuteTo(now))) <= RateLimit[d]
          /\ Cardinality(AcceptedIn(f, MinuteTo(now))) <= EnqueueLimit
    BY <1>3, <1>4, <1>5 DEF LimitsOK
  <1>7. \A j \in Job : /\ f[j].status = "absent" => f[j].def = None
                       /\ f[j].status # "absent" => f[j].createdAt <= c + 1
                       /\ \A n \in DOMAIN f[j].attempts : f[j].attempts[n].startedAt <= c + 1
    BY DEF LimitsOK
  <1>. QED
    BY <1>6, <1>7 DEF LimitsOK

\* A row nobody has written becomes an accepted job: the quotas were read before.
LEMMA NewRowWithinLimits ==
  ASSUME NEW f \in [Job -> JobRow], NEW c \in Nat, LimitsOK(f, c),
         NEW n \in Job, f[n].status = "absent",
         Cardinality(WithStatus(f, Live)) < BacklogLimit,
         Cardinality(RecentEnqueues(f, c)) < EnqueueLimit,
         NEW r, r.status = "queued", r.def \in Definition, r.createdAt = c,
         DOMAIN r.attempts = {}
  PROVE  LimitsOK([f EXCEPT ![n] = r], c)
  <1>. DEFINE g == [f EXCEPT ![n] = r]
  <1>1. g[n] = r /\ \A j \in Job : j # n => g[j] = f[j]
    OBVIOUS
  <1>. HIDE DEF g
  <1>2. IsFiniteSet(PresentIn(g))
    <2>1. PresentIn(g) = PresentIn(f) \cup {n}
      BY <1>1 DEF PresentIn
    <2>. QED
      BY <2>1, FS_AddElement DEF LimitsOK
  <1>3. \A j \in Job : /\ g[j].status = "absent" => g[j].def = None
                       /\ g[j].status # "absent" => g[j].createdAt <= c
                       /\ \A i \in DOMAIN g[j].attempts : g[j].attempts[i].startedAt <= c
    BY <1>1 DEF LimitsOK
  <1>4. Cardinality(WithStatus(g, Live)) <= BacklogLimit
    <2>1. WithStatus(g, Live) \subseteq WithStatus(f, Live) \cup {n}
      BY <1>1 DEF WithStatus
    <2>2. IsFiniteSet(WithStatus(f, Live))
      BY CountedSetsFinite
    <2>. QED
      BY <2>1, <2>2, LimitTypes, OneMore
  <1>5. WithStatus(g, {"running"}) = WithStatus(f, {"running"})
    BY <1>1 DEF WithStatus
  <1>6. ASSUME NEW d \in Definition PROVE RunningOf(g, d) = RunningOf(f, d)
    BY <1>1 DEF RunningOf, OfDefinition, WithStatus
  <1>7. ASSUME NEW d \in Definition, NEW W PROVE StartsIn(g, d, W) = StartsIn(f, d, W)
    <2>1. ASSUME NEW a \in Job \X (1..5)
          PROVE  a \in StartsIn(g, d, W) <=> a \in StartsIn(f, d, W)
      <3>1. CASE a[1] # n
        BY <1>1, <3>1 DEF StartsIn
      <3>2. CASE a[1] = n
        <4>1. f[n].def = None /\ None \notin Definition
          BY IdentityAssumption DEF LimitsOK
        <4>. QED
          BY <1>1, <3>2, <4>1 DEF StartsIn
      <3>. QED
        BY <3>1, <3>2
    <2>. QED
      BY <2>1 DEF StartsIn
  <1>8. ASSUME NEW now \in 0..c
        PROVE  Cardinality(AcceptedIn(g, MinuteTo(now))) <= EnqueueLimit
    <2>1. CASE now < c
      <3>1. c \notin MinuteTo(now)
        BY <2>1, LimitAssumption DEF MinuteTo
      <3>2. AcceptedIn(g, MinuteTo(now)) = AcceptedIn(f, MinuteTo(now))
        BY <1>1, <3>1 DEF AcceptedIn
      <3>. QED
        BY <3>2 DEF LimitsOK
    <2>2. CASE now = c
      <3>1. ASSUME NEW j \in Job, j # n, j \in AcceptedIn(g, MinuteTo(c))
            PROVE  j \in RecentEnqueues(f, c)
        <4>1. f[j].status # "absent" /\ f[j].createdAt \in MinuteTo(c)
          BY <1>1, <3>1 DEF AcceptedIn
        <4>2. f[j].createdAt > c - Minute
          BY <4>1, LimitAssumption DEF MinuteTo
        <4>. QED
          BY <4>1, <4>2 DEF RecentEnqueues, Recent
      <3>2. AcceptedIn(g, MinuteTo(c)) \subseteq RecentEnqueues(f, c) \cup {n}
        BY <3>1 DEF AcceptedIn
      <3>3. IsFiniteSet(RecentEnqueues(f, c))
        <4>1. RecentEnqueues(f, c) \subseteq PresentIn(f)
          BY DEF RecentEnqueues, PresentIn
        <4>. QED
          BY <4>1, CountedSetsFinite
      <3>. QED
        BY <2>2, <3>2, <3>3, LimitTypes, OneMore
    <2>. QED
      BY <2>1, <2>2
  <1>. QED
    BY <1>2, <1>3, <1>4, <1>5, <1>6, <1>7, <1>8 DEF LimitsOK, g

\* A candidate starts an attempt: the ceilings and the rate were read before.
LEMMA NewAttemptWithinLimits ==
  ASSUME NEW f \in [Job -> JobRow], clock \in Nat, LimitsOK(f, clock),
         NEW j \in Candidates(f, clock),
         NEW r, NEW t, r.status = "running", r.def = f[j].def, f[j].def \in Definition,
         r.createdAt = f[j].createdAt,
         r.attempts = Append(f[j].attempts, t), t.startedAt = clock
  PROVE  LimitsOK([f EXCEPT ![j] = r], clock)
  <1>. DEFINE g == [f EXCEPT ![j] = r]
              m == Len(f[j].attempts) + 1
  <1>0. /\ j \in Job /\ f[j].status \in Waiting
        /\ Cardinality(WithStatus(f, {"running"})) < WorkspaceLimit
        /\ Cardinality(RunningOf(f, f[j].def)) < MaxConcurrency[f[j].def]
        /\ Cardinality(RecentAttempts(f, f[j].def, clock)) < RateLimit[f[j].def]
    BY CandidateWaits DEF Candidates, HasRoom
  <1>1. g[j] = r /\ \A k \in Job : k # j => g[k] = f[k]
    BY <1>0
  <1>2. f[j].attempts \in Seq(Attempt)
    BY <1>0 DEF JobRow
  <1>3. /\ DOMAIN f[j].attempts = 1..(m - 1) /\ DOMAIN r.attempts = 1..m /\ m \in Nat
        /\ r.attempts[m] = t
        /\ \A n \in 1..(m - 1) : r.attempts[n] = f[j].attempts[n]
    <2>1. Len(f[j].attempts) \in Nat /\ DOMAIN f[j].attempts = 1..Len(f[j].attempts)
      BY <1>2, LenProperties
    <2>. QED
      BY <1>2, <2>1 DEF Append
  <1>. HIDE DEF g, m
  <1>4. PresentIn(g) = PresentIn(f)
    BY <1>0, <1>1 DEF PresentIn, Waiting
  <1>5. WithStatus(g, Live) = WithStatus(f, Live)
    BY <1>0, <1>1 DEF WithStatus, Live
  <1>6. Cardinality(WithStatus(g, {"running"})) <= WorkspaceLimit
    <2>1. WithStatus(g, {"running"}) \subseteq WithStatus(f, {"running"}) \cup {j}
      BY <1>1 DEF WithStatus
    <2>2. IsFiniteSet(WithStatus(f, {"running"}))
      BY CountedSetsFinite
    <2>. QED
      BY <1>0, <2>1, <2>2, LimitTypes, OneMore
  <1>7. ASSUME NEW d \in Definition PROVE Cardinality(RunningOf(g, d)) <= MaxConcurrency[d]
    <2>1. CASE d = f[j].def
      <3>1. RunningOf(g, d) \subseteq RunningOf(f, d) \cup {j}
        BY <1>1 DEF RunningOf, OfDefinition, WithStatus
      <3>2. IsFiniteSet(RunningOf(f, d)) /\ Cardinality(RunningOf(f, d)) < MaxConcurrency[d]
        BY <1>0, <2>1, CountedSetsFinite
      <3>. QED
        BY <3>1, <3>2, LimitTypes, OneMore
    <2>2. CASE d # f[j].def
      <3>1. RunningOf(g, d) = RunningOf(f, d)
        BY <1>1, <2>2 DEF RunningOf, OfDefinition, WithStatus
      <3>. QED
        BY <3>1 DEF LimitsOK
    <2>. QED
      BY <2>1, <2>2
  <1>8. ASSUME NEW d \in Definition, NEW W, NEW a \in StartsIn(g, d, W)
        PROVE  \/ a \in StartsIn(f, d, W)
               \/ a = <<j, m>> /\ d = f[j].def /\ clock \in W
    <2>1. /\ a \in Job \X (1..5) /\ g[a[1]].def = d /\ a[2] \in DOMAIN g[a[1]].attempts
          /\ g[a[1]].attempts[a[2]].startedAt \in W
      BY DEF StartsIn
    <2>2. CASE a[1] # j
      BY <1>1, <2>1, <2>2 DEF StartsIn
    <2>3. CASE a[1] = j /\ a[2] = m
      <3>1. a = <<j, m>>
        BY <2>1, <2>3
      <3>. QED
        BY <1>1, <1>3, <2>1, <2>3, <3>1
    <2>4. CASE a[1] = j /\ a[2] # m
      <3>1. a[2] \in 1..(m - 1)
        BY <1>1, <1>3, <2>1, <2>4
      <3>. QED
        BY <1>1, <1>3, <2>1, <2>4, <3>1 DEF StartsIn
    <2>. QED
      BY <2>2, <2>3, <2>4
  <1>9. ASSUME NEW now \in 0..clock, NEW d \in Definition
        PROVE  Cardinality(StartsIn(g, d, MinuteTo(now))) <= RateLimit[d]
    <2>1. CASE now < clock \/ d # f[j].def
      <3>1. now < clock => clock \notin MinuteTo(now)
        BY LimitAssumption DEF MinuteTo
      <3>2. StartsIn(g, d, MinuteTo(now)) \subseteq StartsIn(f, d, MinuteTo(now))
        BY <1>8, <2>1, <3>1
      <3>3. /\ IsFiniteSet(StartsIn(f, d, MinuteTo(now))) /\ RateLimit[d] \in Nat
            /\ Cardinality(StartsIn(f, d, MinuteTo(now))) <= RateLimit[d]
        BY CountedSetsFinite, LimitTypes DEF LimitsOK
      <3>. QED
        BY <3>2, <3>3, PartNoLarger
    <2>2. CASE now = clock /\ d = f[j].def
      <3>1. ASSUME NEW a \in StartsIn(f, d, MinuteTo(clock))
            PROVE  a \in RecentAttempts(f, d, clock)
        <4>1. /\ a \in Job \X (1..5) /\ f[a[1]].def = d /\ a[2] \in DOMAIN f[a[1]].attempts
              /\ f[a[1]].attempts[a[2]].startedAt \in MinuteTo(clock)
          BY DEF StartsIn
        <4>2. f[a[1]].attempts[a[2]].startedAt > clock - Minute
          <5>1. ASSUME NEW u \in MinuteTo(clock) PROVE u > clock - Minute
            BY LimitAssumption DEF MinuteTo
          <5>. QED
            BY <4>1, <5>1
        <4>3. a[1] \in Job /\ f[a[1]].status # "absent"
          BY <4>1, IdentityAssumption DEF LimitsOK
        <4>. QED
          BY <4>1, <4>2, <4>3 DEF RecentAttempts, OfDefinition, Recent
      <3>2. StartsIn(g, d, MinuteTo(clock)) \subseteq RecentAttempts(f, d, clock) \cup {<<j, m>>}
        BY <1>8, <3>1
      <3>3. IsFiniteSet(RecentAttempts(f, d, clock))
        <4>1. RecentAttempts(f, d, clock) \subseteq StartsIn(f, d, Int)
          <5>. SUFFICES ASSUME NEW a \in RecentAttempts(f, d, clock)
                        PROVE  a \in StartsIn(f, d, Int)
            OBVIOUS
          <5>1. /\ a \in Job \X (1..5) /\ f[a[1]].def = d /\ a[2] \in DOMAIN f[a[1]].attempts
            BY DEF RecentAttempts, OfDefinition
          <5>2. a[1] \in Job /\ f[a[1]].attempts \in Seq(Attempt)
            BY <5>1 DEF JobRow
          <5>3. f[a[1]].attempts[a[2]] \in Attempt
            BY <5>1, <5>2
          <5>. QED
            BY <5>1, <5>3 DEF StartsIn, Attempt
        <4>. QED
          BY <4>1, CountedSetsFinite, FS_Subset
      <3>4. /\ Cardinality(RecentAttempts(f, d, clock)) < RateLimit[d]
            /\ RateLimit[d] \in Nat
        BY <1>0, <2>2, LimitTypes
      <3>. QED
        BY <2>2, <3>2, <3>3, <3>4, OneMore
    <2>. QED
      BY <2>1, <2>2
  <1>10. ASSUME NEW W PROVE AcceptedIn(g, W) = AcceptedIn(f, W)
    BY <1>0, <1>1 DEF AcceptedIn, Waiting
  <1>11. \A k \in Job : /\ g[k].status = "absent" => g[k].def = None
                        /\ g[k].status # "absent" => g[k].createdAt <= clock
                        /\ \A n \in DOMAIN g[k].attempts : g[k].attempts[n].startedAt <= clock
    <2>1. \A n \in DOMAIN r.attempts : r.attempts[n].startedAt <= clock
      <3>1. \A n \in 1..m : n = m \/ n \in 1..(m - 1)
        BY <1>3
      <3>. QED
        BY <1>0, <1>3, <3>1 DEF LimitsOK
    <2>2. r.status # "absent" /\ r.createdAt <= clock
      BY <1>0 DEF LimitsOK, Waiting
    <2>. QED
      BY <1>1, <2>1, <2>2 DEF LimitsOK
  <1>. QED
    BY <1>4, <1>5, <1>6, <1>7, <1>9, <1>10, <1>11 DEF LimitsOK, g

-----------------------------------------------------------------------------
(* What each transformation leaves to count *)

LEMMA CountedReflexive == ASSUME NEW r PROVE Counted(r, r)
  BY DEF Counted

LEMMA CountedTransitive ==
  ASSUME NEW r, NEW s, NEW t, Counted(r, s), Counted(s, t)
  PROVE  Counted(r, t)
  BY DEF Counted

LEMMA RecordCounted ==
  ASSUME NEW r, NEW s \in JobRow, Counted(r, s)
  PROVE  Counted(r, Record(s))
  <1>1. /\ Record(s).status = s.status /\ Record(s).def = s.def
        /\ Record(s).createdAt = s.createdAt /\ Record(s).attempts = s.attempts
    BY DEF Record, JobRow
  <1>. QED
    BY <1>1 DEF Counted

LEMMA EndedCounted ==
  ASSUME NEW r, RowOK(r), r.status = "running",
         NEW o \in {"succeeded", "failed", "abandoned", "cancelled"},
         NEW st \in Waiting \cup Terminal
  PROVE  Ended(r, o, st) \in JobRow /\ Counted(r, Ended(r, o, st))
  <1>. DEFINE e == EndAttempt(r, o)
              x == Ended(r, o, st)
  <1>1. /\ r \in JobRow /\ r.attempts \in Seq(Attempt) /\ r.attemptCount \in 1..Len(r.attempts)
    BY DEF RowOK, JobRow, LeaseAgrees, AttemptRunning
  <1>2. e \in JobRow
    BY EndAttemptOK DEF RowOK
  <1>3. e.attempts = [r.attempts EXCEPT ![r.attemptCount].status = o]
    BY <1>1 DEF EndAttempt, JobRow
  <1>4. e.def = r.def /\ e.createdAt = r.createdAt
    BY <1>1 DEF EndAttempt, JobRow
  <1>5. /\ DOMAIN e.attempts = DOMAIN r.attempts
        /\ \A n \in DOMAIN r.attempts : e.attempts[n].startedAt = r.attempts[n].startedAt
    <2>1. DOMAIN e.attempts = DOMAIN r.attempts
      BY <1>3
    <2>2. ASSUME NEW n \in DOMAIN r.attempts
          PROVE  e.attempts[n].startedAt = r.attempts[n].startedAt
      <3>1. r.attempts[n] \in Attempt
        BY <1>1
      <3>2. e.attempts[n] \in {r.attempts[n], [r.attempts[n] EXCEPT !.status = o]}
        BY <1>3
      <3>. QED
        BY <3>1, <3>2 DEF Attempt
    <2>. QED
      BY <2>1, <2>2
  <1>. HIDE DEF e
  <1>6. /\ x \in JobRow /\ x.status = st /\ x.def = e.def /\ x.createdAt = e.createdAt
        /\ x.attempts = e.attempts
    <2>. DEFINE f == [e EXCEPT !.status = st]
    <2>1. f \in JobRow
      BY <1>2, ZenonT(60) DEF JobRow, Live
    <2>2. /\ f.status = st /\ f.def = e.def /\ f.createdAt = e.createdAt
          /\ f.attempts = e.attempts
      BY <1>2 DEF JobRow
    <2>3. x = [f EXCEPT !.leaseOwner = None, !.leaseExpires = 0]
      BY DEF Ended, ClearLease, e
    <2>. HIDE DEF f, x
    <2>. QED
      BY <2>1, <2>2, <2>3 DEF JobRow
  <1>. HIDE DEF x
  <1>7. st # "absent" /\ st # "running"
    BY DEF Waiting, Terminal
  <1>. QED
    BY <1>4, <1>5, <1>6, <1>7 DEF Counted, Live, x

LEMMA SucceededCounted ==
  ASSUME NEW r, RowOK(r), r.status = "running"
  PROVE  Counted(r, Succeeded(r))
  <1>1. /\ Ended(r, "succeeded", "succeeded") \in JobRow
        /\ Counted(r, Ended(r, "succeeded", "succeeded"))
    BY EndedCounted DEF Terminal
  <1>. QED
    BY <1>1, RecordCounted DEF Succeeded

LEMMA CancelObservedCounted ==
  ASSUME NEW r, RowOK(r), r.status = "running"
  PROVE  Counted(r, CancelObserved(r))
  <1>1. /\ Ended(r, "cancelled", "cancelled") \in JobRow
        /\ Counted(r, Ended(r, "cancelled", "cancelled"))
    BY EndedCounted DEF Terminal
  <1>. QED
    BY <1>1, RecordCounted DEF CancelObserved

LEMMA UnsuccessfulCounted ==
  ASSUME NEW r, RowOK(r), r.status = "running", NEW now \in Nat, NEW c,
         NEW o \in {"failed", "abandoned"}
  PROVE  Counted(r, Unsuccessful(r, o, c, now))
  <1>. DEFINE dec == RetryDecision(r.def, c, r.attemptCount, now, r.deadline)
              x   == Ended(r, o, dec.status)
              at  == IF dec.status = "retry_wait" THEN dec.at ELSE x.availableAt
              l   == IF dec.status = "dead_lettered" THEN "open" ELSE x.letter
              y   == [x EXCEPT !.availableAt = at, !.letter = l]
  <1>1. /\ dec.status \in Waiting \cup Terminal
        /\ dec.status = "retry_wait" => dec.at \in Nat
    BY RetryDecisionOK DEF Waiting, Terminal
  <1>2. Unsuccessful(r, o, c, now) = Record(y)
    BY DEF Unsuccessful
  <1>. HIDE DEF dec
  <1>3. x \in JobRow /\ Counted(r, x)
    BY <1>1, EndedCounted
  <1>. HIDE DEF x
  <1>4. at \in Nat /\ l \in {"none", "open", "replayed"}
    BY <1>1, <1>3, SMTT(60) DEF JobRow
  <1>. HIDE DEF at, l
  <1>5. y \in JobRow
    BY <1>3, <1>4, ZenonT(60) DEF JobRow
  <1>6. /\ y.status = x.status /\ y.def = x.def /\ y.createdAt = x.createdAt
        /\ y.attempts = x.attempts
    BY <1>3 DEF JobRow
  <1>. HIDE DEF y
  <1>7. Counted(r, y)
    BY <1>3, <1>6 DEF Counted
  <1>. QED
    BY <1>2, <1>5, <1>7, RecordCounted

LEMMA ExtendedCounted ==
  ASSUME NEW r, RowOK(r), r.status = "running", NEW now \in Nat
  PROVE  Counted(r, Extended(r, now))
  <1>. DEFINE as == [r.attempts EXCEPT ![r.attemptCount].leaseExpires = now + LeaseSeconds]
              x  == Extended(r, now)
  <1>1. /\ r \in JobRow /\ r.attempts \in Seq(Attempt) /\ r.attemptCount \in 1..Len(r.attempts)
    BY DEF RowOK, JobRow, LeaseAgrees, AttemptRunning
  <1>2. /\ x.status = r.status /\ x.def = r.def /\ x.createdAt = r.createdAt
        /\ x.attempts = as
    BY <1>1 DEF Extended, Record, JobRow
  <1>3. DOMAIN as = DOMAIN r.attempts
    OBVIOUS
  <1>4. ASSUME NEW n \in DOMAIN r.attempts PROVE as[n].startedAt = r.attempts[n].startedAt
    <2>1. r.attempts[n] \in Attempt
      BY <1>1
    <2>2. as[n] \in {r.attempts[n], [r.attempts[n] EXCEPT !.leaseExpires = now + LeaseSeconds]}
      OBVIOUS
    <2>. HIDE DEF as
    <2>. QED
      BY <2>1, <2>2 DEF Attempt
  <1>. HIDE DEF as, x
  <1>5. Counted(r, x)
    BY <1>2, <1>3, <1>4 DEF Counted
  <1>. QED
    BY <1>5 DEF x

LEMMA CancelAskedCounted ==
  ASSUME NEW r, RowOK(r), r.status \in Live
  PROVE  Counted(r, CancelAsked(r))
  <1>. DEFINE x == CancelAsked(r)
  <1>1. r \in JobRow
    BY DEF RowOK
  <1>2. /\ x.status \in {r.status, "cancelled"} /\ x.def = r.def
        /\ x.createdAt = r.createdAt /\ x.attempts = r.attempts
    BY <1>1 DEF CancelAsked, ClearLease, Record, JobRow
  <1>. HIDE DEF x
  <1>3. Counted(r, x)
    BY <1>2 DEF Counted, Live, Waiting
  <1>. QED
    BY <1>3 DEF x

LEMMA SweptCounted ==
  ASSUME NEW r, RowOK(r), NEW now \in Nat
  PROVE  Counted(r, Swept(r, now))
  <1>1. CASE LeaseExpired(r, now)
    BY <1>1, UnsuccessfulCounted DEF Swept, LeaseExpired
  <1>2. CASE ~LeaseExpired(r, now) /\ r.status \in Waiting /\ r.deadline <= now
    <2>. DEFINE x == Record([r EXCEPT !.status = "expired"])
    <2>0. r \in JobRow
      BY DEF RowOK
    <2>1. /\ x.status = "expired" /\ x.def = r.def /\ x.createdAt = r.createdAt
          /\ x.attempts = r.attempts
      BY <2>0 DEF Record, JobRow
    <2>2. Swept(r, now) = x
      BY <1>2 DEF Swept
    <2>. HIDE DEF x
    <2>. QED
      BY <1>2, <2>1, <2>2 DEF Counted, Live, Waiting
  <1>3. CASE ~LeaseExpired(r, now) /\ ~(r.status \in Waiting /\ r.deadline <= now)
    BY <1>3, CountedReflexive DEF Swept
  <1>. QED
    BY <1>1, <1>2, <1>3

\* A claim takes the definition and the time of acceptance as they are and starts
\* one attempt now.
LEMMA ClaimedCounts ==
  ASSUME NEW r, RowOK(r), NEW w \in Worker, NEW now \in Nat
  PROVE  LET x == Claimed(r, w, now)
             t == [worker |-> w, status |-> "running", startedAt |-> now,
                   leaseExpires |-> now + LeaseSeconds]
         IN  /\ x.status = "running" /\ x.def = r.def /\ x.createdAt = r.createdAt
             /\ x.attempts = Append(r.attempts, t)
  <1>1. r \in JobRow
    BY DEF RowOK
  <1>. QED
    BY <1>1 DEF Claimed, Record, JobRow

-----------------------------------------------------------------------------
(* One action *)

LEMMA PutCounted ==
  ASSUME NEW f \in [Job -> JobRow], NEW j \in Job, NEW r, Counted(f[j], r)
  PROVE  TableCounted(f, [f EXCEPT ![j] = r])
  BY CountedReflexive DEF TableCounted

LEMMA SweptJobsWithinLimits ==
  ASSUME IInv, LimitsInv
  PROVE  LimitsOK(SweptJobs, clock)
  <1>1. clock \in Nat /\ \A j \in Job : RowOK(job[j])
    BY DEF IInv, TypeOK, RowsOK
  <1>2. TableCounted(job, SweptJobs)
    BY <1>1, SweptCounted DEF TableCounted, SweptJobs
  <1>. QED
    BY <1>1, <1>2, FewerWithinLimits DEF LimitsInv

\* The table after a claim, with or without the outcome of run_once.
LEMMA ClaimedWithinLimits ==
  ASSUME IInv, LimitsInv, NEW w \in Worker, NEW j \in Candidates(SweptJobs, clock),
         NEW y, Counted(Claimed(SweptJobs[j], w, clock), y)
  PROVE  LimitsOK([SweptJobs EXCEPT ![j] = y], clock)
  <1>. DEFINE f == SweptJobs
              x == Claimed(f[j], w, clock)
              g == [f EXCEPT ![j] = x]
  <1>1. clock \in Nat /\ TableOK(f) /\ LimitsOK(f, clock)
    BY TableInv, SweptJobsOK, SweptJobsWithinLimits DEF IInv, TypeOK
  <1>2. j \in Job /\ f[j].status \in Waiting /\ RowOK(f[j])
    BY <1>1, CandidateWaits DEF TableOK
  <1>3. f[j].def \in Definition
    BY <1>2 DEF RowOK, Accepted, Waiting
  <1>4. LimitsOK(g, clock)
    <2>. DEFINE t == [worker |-> w, status |-> "running", startedAt |-> clock,
                      leaseExpires |-> clock + LeaseSeconds]
    <2>1. /\ x.status = "running" /\ x.def = f[j].def /\ x.createdAt = f[j].createdAt
          /\ x.attempts = Append(f[j].attempts, t) /\ t.startedAt = clock
      BY <1>1, <1>2, ClaimedCounts
    <2>2. f \in [Job -> JobRow]
      BY <1>1 DEF TableOK
    <2>. HIDE DEF x, f, t
    <2>. QED
      BY <1>1, <1>3, <2>1, <2>2, NewAttemptWithinLimits DEF f
  <1>5. g \in [Job -> JobRow] /\ g[j] = x
    BY <1>1, <1>2, ClaimedOK DEF TableOK, RowOK
  <1>6. TableCounted(g, [g EXCEPT ![j] = y])
    BY <1>2, <1>5, PutCounted
  <1>7. [g EXCEPT ![j] = y] = [f EXCEPT ![j] = y]
    BY <1>1 DEF TableOK
  <1>. HIDE DEF g
  <1>. QED
    BY <1>1, <1>4, <1>6, <1>7, FewerWithinLimits

LEMMA WorkerWithinLimits ==
  ASSUME IInv, LimitsInv,
         \/ \E j \in Job : Cancel(j)
         \/ \E w \in Worker : ClaimNext(w) \/ RunOnce(w)
         \/ \E e \in exec : \/ Heartbeat(e) \/ HeartbeatCancelled(e) \/ Succeed(e)
                            \/ \E c \in Reported : Fail(e, c)
  PROVE  LimitsOK(job', clock)
  <1>1. /\ clock \in Nat /\ job \in [Job -> JobRow] /\ TableOK(SweptJobs)
        /\ \A j \in Job : RowOK(job[j])
        /\ LimitsOK(job, clock)
    BY TableInv, SweptJobsOK DEF IInv, TypeOK, RowsOK, LimitsInv
  <1>0. ASSUME NEW j \in Job, NEW r, Counted(job[j], r), job' = [job EXCEPT ![j] = r]
        PROVE  LimitsOK(job', clock)
    BY <1>0, <1>1, PutCounted, FewerWithinLimits
  <1>2. ASSUME NEW j \in Job, Cancel(j) PROVE LimitsOK(job', clock)
    <2>1. Counted(job[j], CancelAsked(job[j])) /\ job' = [job EXCEPT ![j] = CancelAsked(job[j])]
      BY <1>1, <1>2, CancelAskedCounted DEF Cancel
    <2>. QED
      BY <1>0, <2>1
  <1>3. ASSUME NEW w \in Worker, ClaimNext(w) PROVE LimitsOK(job', clock)
    <2>1. CASE job' = SweptJobs
      BY <2>1, SweptJobsWithinLimits
    <2>2. ASSUME NEW j \in Candidates(SweptJobs, clock),
                 job' = [SweptJobs EXCEPT ![j] = Claimed(SweptJobs[j], w, clock)]
          PROVE  LimitsOK(job', clock)
      BY <2>2, CountedReflexive, ClaimedWithinLimits
    <2>. QED
      BY <1>3, <2>1, <2>2 DEF ClaimNext
  <1>4. ASSUME NEW w \in Worker, RunOnce(w) PROVE LimitsOK(job', clock)
    <2>1. PICK j \in Candidates(SweptJobs, clock) :
            LET claimed == Claimed(SweptJobs[j], w, clock)
            IN  \/ /\ ~claimed.cancelRequested
                   /\ job' = [SweptJobs EXCEPT ![j] = Succeeded(claimed)]
                \/ \E c \in Reported :
                     job' = [SweptJobs EXCEPT ![j] = Failed(claimed, c, clock)]
      BY <1>4 DEF RunOnce
    <2>. DEFINE x == Claimed(SweptJobs[j], w, clock)
    <2>2. RowOK(x) /\ x.status = "running"
      BY <1>1, CandidateWaits, ClaimedOK DEF TableOK
    <2>3. CASE job' = [SweptJobs EXCEPT ![j] = Succeeded(x)]
      <3>. HIDE DEF x
      <3>1. Counted(x, Succeeded(x))
        BY <2>2, SucceededCounted
      <3>. QED
        BY <2>3, <3>1, ClaimedWithinLimits DEF x
    <2>4. ASSUME NEW c \in Reported, job' = [SweptJobs EXCEPT ![j] = Failed(x, c, clock)]
          PROVE  LimitsOK(job', clock)
      <3>. HIDE DEF x
      <3>1. Counted(x, Failed(x, c, clock))
        BY <1>1, <2>2, UnsuccessfulCounted DEF Failed
      <3>. QED
        BY <2>4, <3>1, ClaimedWithinLimits DEF x
    <2>. QED
      BY <2>1, <2>3, <2>4
  <1>5. ASSUME NEW e \in exec,
               \/ Heartbeat(e) \/ HeartbeatCancelled(e) \/ Succeed(e)
               \/ \E c \in Reported : Fail(e, c)
        PROVE  LimitsOK(job', clock)
    <2>1. e.job \in Job /\ RowOK(job[e.job]) /\ job[e.job].status = "running"
      BY <1>1, <1>5 DEF IInv, TypeOK, Heartbeat, HeartbeatCancelled, Succeed, Fail, Holds
    <2>2. CASE Heartbeat(e)
      <3>1. Counted(job[e.job], Extended(job[e.job], clock))
        BY <1>1, <2>1, ExtendedCounted
      <3>. QED
        BY <1>0, <2>1, <2>2, <3>1 DEF Heartbeat
    <2>3. CASE HeartbeatCancelled(e)
      <3>1. Counted(job[e.job], CancelObserved(job[e.job]))
        BY <2>1, CancelObservedCounted
      <3>. QED
        BY <1>0, <1>1, <2>1, <2>3, <3>1 DEF HeartbeatCancelled
    <2>4. CASE Succeed(e)
      <3>1. Counted(job[e.job], Succeeded(job[e.job]))
        BY <2>1, SucceededCounted
      <3>. QED
        BY <1>0, <2>1, <2>4, <3>1 DEF Succeed
    <2>5. ASSUME NEW c \in Reported, Fail(e, c) PROVE LimitsOK(job', clock)
      <3>1. Counted(job[e.job], Failed(job[e.job], c, clock))
        BY <1>1, <2>1, UnsuccessfulCounted DEF Failed
      <3>. QED
        BY <1>0, <2>1, <2>5, <3>1 DEF Fail
    <2>. QED
      BY <1>5, <2>2, <2>3, <2>4, <2>5
  <1>. QED
    BY <1>2, <1>3, <1>4, <1>5

\* What enqueue and replay write of a new row.
LEMMA NewJobCounts ==
  ASSUME NEW d, NEW k, NEW q, NEW o
  PROVE  LET x == [NewJob(d, k, q) EXCEPT !.replayOf = o]
         IN  /\ x.status = "queued" /\ x.def = d /\ x.createdAt = clock
             /\ x.attempts = <<>>
  BY DEF NewJob, AbsentJob

LEMMA EnqueueWithinLimits ==
  ASSUME IInv, LimitsInv, NEW j \in Job, NEW d \in Definition, NEW k \in Key, NEW p \in Payload,
         NEW delay \in StartDelay, NEW life \in Lifetime, Enqueue(j, d, k, p, delay, life)
  PROVE  LimitsOK(job', clock)
  <1>1. clock \in Nat /\ job \in [Job -> JobRow] /\ LimitsOK(job, clock)
    BY DEF IInv, TypeOK, LimitsInv
  <1>2. PICK q : job' = [job EXCEPT ![j] = NewJob(d, k, q)]
    BY DEF Enqueue
  <1>3. /\ job[j].status = "absent" /\ QuotaLeft(clock)
    BY DEF Enqueue
  <1>. DEFINE x == NewJob(d, k, q)
  <1>4. x.status = "queued" /\ x.def = d /\ x.createdAt = clock /\ DOMAIN x.attempts = {}
    BY DEF NewJob, AbsentJob
  <1>. HIDE DEF x
  <1>. QED
    BY <1>1, <1>2, <1>3, <1>4, NewRowWithinLimits DEF QuotaLeft, x

LEMMA ReplayWithinLimits ==
  ASSUME IInv, LimitsInv, NEW j \in Job, NEW n \in Job, NEW k \in Key, Replay(j, n, k)
  PROVE  LimitsOK(job', clock)
  <1>1. /\ clock \in Nat /\ job \in [Job -> JobRow] /\ LimitsOK(job, clock)
        /\ \A i \in Job : RowOK(job[i])
    BY DEF IInv, TypeOK, RowsOK, LimitsInv
  <1>2. PICK q :
          job' = [job EXCEPT ![n] = [NewJob(job[j].def, k, q) EXCEPT !.replayOf = j],
                             ![j] = Record([job[j] EXCEPT !.letter = "replayed", !.replayJob = n])]
    BY DEF Replay
  <1>3. /\ job[n].status = "absent" /\ job[j].status = "dead_lettered" /\ QuotaLeft(clock)
    BY DEF Replay, Replayable
  <1>. DEFINE x == [NewJob(job[j].def, k, q) EXCEPT !.replayOf = j]
              z == [job[j] EXCEPT !.letter = "replayed", !.replayJob = n]
              y == Record(z)
              g == [job EXCEPT ![n] = x]
  <1>4. x.status = "queued" /\ x.def = job[j].def /\ x.createdAt = clock /\ DOMAIN x.attempts = {}
    BY NewJobCounts
  <1>5. job[j].def \in Definition
    BY <1>1, <1>3 DEF RowOK, Accepted
  <1>6. Counted(job[j], y)
    <2>1. job[j] \in JobRow
      BY <1>1
    <2>2. z \in JobRow
      BY <2>1, ZenonT(60) DEF JobRow
    <2>3. /\ z.status = job[j].status /\ z.def = job[j].def
          /\ z.createdAt = job[j].createdAt /\ z.attempts = job[j].attempts
      BY <2>1 DEF JobRow
    <2>. HIDE DEF z
    <2>. QED
      BY <2>2, <2>3, RecordCounted DEF Counted
  <1>. HIDE DEF x, y
  <1>7. LimitsOK(g, clock)
    BY <1>1, <1>3, <1>4, <1>5, NewRowWithinLimits DEF QuotaLeft
  <1>8. j # n
    BY <1>3
  <1>9. TableCounted(g, job')
    <2>1. job' = [g EXCEPT ![j] = y]
      BY <1>2 DEF x, y
    <2>2. g[j] = job[j] /\ job'[j] = y /\ \A i \in Job : i # j => job'[i] = g[i]
      BY <1>1, <1>8, <2>1
    <2>. HIDE DEF g
    <2>. QED
      BY <1>6, <2>2, CountedReflexive DEF TableCounted
  <1>. HIDE DEF g
  <1>. QED
    BY <1>1, <1>7, <1>9, FewerWithinLimits

LEMMA NextLimits == IInv /\ LimitsInv /\ [Next]_vars => LimitsInv'
  <1>. SUFFICES ASSUME IInv, LimitsInv, [Next]_vars PROVE LimitsInv'
    OBVIOUS
  <1>0. ASSUME LimitsOK(job', clock'), TRUE PROVE LimitsInv'
    BY <1>0 DEF LimitsInv
  <1>1. CASE \E j \in Job, d \in Definition, k \in Key, p \in Payload,
                delay \in StartDelay, life \in Lifetime : Enqueue(j, d, k, p, delay, life)
    <2>1. UNCHANGED clock
      BY <1>1 DEF Enqueue
    <2>2. LimitsOK(job', clock)
      BY <1>1, EnqueueWithinLimits, ZenonT(60)
    <2>. QED
      BY <1>0, <2>1, <2>2
  <1>2. CASE \E j, n \in Job, k \in Key : Replay(j, n, k)
    <2>1. UNCHANGED clock
      BY <1>2 DEF Replay
    <2>2. LimitsOK(job', clock)
      BY <1>2, ReplayWithinLimits, ZenonT(60)
    <2>. QED
      BY <1>0, <2>1, <2>2
  <1>3. CASE \/ \E j \in Job : Cancel(j)
             \/ \E w \in Worker : ClaimNext(w) \/ RunOnce(w)
             \/ \E e \in exec : \/ Heartbeat(e) \/ HeartbeatCancelled(e) \/ Succeed(e)
                                \/ \E c \in Reported : Fail(e, c)
    <2>1. LimitsOK(job', clock)
      BY <1>3, WorkerWithinLimits
    <2>2. UNCHANGED clock
      BY <1>3 DEF Cancel, ClaimNext, RunOnce, Heartbeat, HeartbeatCancelled, Succeed, Fail
    <2>. QED
      BY <1>0, <2>1, <2>2
  <1>4. CASE Tick
    <2>1. clock \in Nat /\ job \in [Job -> JobRow] /\ clock' = clock + 1 /\ UNCHANGED job
      BY <1>4 DEF IInv, TypeOK, Tick
    <2>2. ASSUME NEW j \in Job
          PROVE  /\ job[j].createdAt \in Nat
                 /\ \A n \in DOMAIN job[j].attempts : job[j].attempts[n].startedAt \in Nat
      <3>1. job[j].createdAt \in Nat /\ job[j].attempts \in Seq(Attempt)
        BY <2>1 DEF JobRow
      <3>2. \A n \in DOMAIN job[j].attempts : job[j].attempts[n] \in Attempt
        BY <3>1
      <3>. QED
        BY <3>1, <3>2 DEF Attempt
    <2>3. LimitsOK(job, clock + 1)
      BY <2>1, <2>2, ClockWithinLimits DEF LimitsInv
    <2>. QED
      BY <1>0, <2>1, <2>3
  <1>5. CASE \/ \E d \in Definition : RegisterDefinition(d)
             \/ \E s \in Scope \cap Pausable, paused \in BOOLEAN, v \in 0..MaxControls : SetPaused(s, paused, v)
             \/ \E e \in exec : HandlerLost(e)
             \/ UNCHANGED vars
    <2>1. UNCHANGED <<clock, job>>
      BY <1>5 DEF RegisterDefinition, SetPaused, HandlerLost, vars
    <2>. QED
      BY <1>0, <2>1 DEF LimitsInv
  <1>. QED
    BY <1>1, <1>2, <1>3, <1>4, <1>5 DEF Next

LEMMA InitLimits == Init => LimitsInv
  <1>. SUFFICES ASSUME Init PROVE LimitsOK(job, clock)
    BY DEF LimitsInv
  <1>1. /\ clock = 0
        /\ \A j \in Job : /\ job[j].status = "absent" /\ job[j].def = None
                          /\ DOMAIN job[j].attempts = {}
    BY DEF Init, AbsentJob
  <1>2. /\ PresentIn(job) = {} /\ WithStatus(job, Live) = {} /\ WithStatus(job, {"running"}) = {}
        /\ \A d \in Definition : RunningOf(job, d) = {}
        /\ \A d \in Definition : \A W : StartsIn(job, d, W) = {}
        /\ \A W : AcceptedIn(job, W) = {}
    BY <1>1 DEF PresentIn, WithStatus, Live, Waiting, RunningOf, OfDefinition, StartsIn, AcceptedIn
  <1>3. IsFiniteSet({}) /\ Cardinality({}) = 0
    BY FS_EmptySet
  <1>4. \A d \in Definition : /\ Cardinality(RunningOf(job, d)) <= MaxConcurrency[d]
                             /\ \A W : Cardinality(StartsIn(job, d, W)) <= RateLimit[d]
    BY <1>2, <1>3, LimitTypes
  <1>5. /\ Cardinality(WithStatus(job, Live)) <= BacklogLimit
        /\ Cardinality(WithStatus(job, {"running"})) <= WorkspaceLimit
        /\ \A W : Cardinality(AcceptedIn(job, W)) <= EnqueueLimit
    BY <1>2, <1>3, LimitTypes
  <1>. QED
    BY <1>1, <1>2, <1>3, <1>4, <1>5 DEF LimitsOK

\* At no moment do more jobs run or wait than the workspace and the definition allow,
\* and in no rolling minute are more attempts started or jobs accepted than their
\* quotas, whatever workers die, leases run out and operators replay.
THEOREM WithinLimitsHolds == Spec => []WithinLimits
  <1>1. LimitsInv => WithinLimits
    <2>. SUFFICES ASSUME LimitsInv PROVE WithinLimits
      OBVIOUS
    <2>1. Ceilings
      BY DEF LimitsInv, LimitsOK, Ceilings
    <2>2. RollingRates
      BY DEF LimitsInv, LimitsOK, RollingRates, StartsIn, AcceptedIn, MinuteTo
    <2>. QED
      BY <2>1, <2>2 DEF WithinLimits
  <1>. QED
    BY <1>1, InitLimits, NextLimits, IInvHolds, PTL DEF Spec

-----------------------------------------------------------------------------
(* What a poll leaves *)

\* A lease that ran out and was not recovered, or a waiting job past its deadline.
Overdue(r, now) == LeaseExpired(r, now) \/ (r.status \in Waiting /\ r.deadline <= now)

\* What is retried later than now waits for less than its deadline.
LEMMA RetryInTime ==
  ASSUME NEW r, RowOK(r), NEW now \in Nat, r.status \in Waiting, r.availableAt > now
  PROVE  ~Overdue(r, now)
  <1>1. r.availableAt \in Nat /\ r.deadline \in Nat /\ r.availableAt < r.deadline
    BY DEF RowOK, JobRow, Accepted, Waiting
  <1>2. r.deadline > now /\ r.status # "running"
    BY <1>1 DEF Waiting
  <1>. QED
    BY <1>1, <1>2 DEF Overdue, LeaseExpired

LEMMA EndedInTime ==
  ASSUME NEW r, r.status \in Terminal, NEW now
  PROVE  ~Overdue(r, now)
  BY DEF Overdue, LeaseExpired, Waiting, Terminal

LEMMA UnsuccessfulInTime ==
  ASSUME NEW r, RowOK(r), r.status = "running", NEW now \in Nat, NEW c,
         NEW o \in {"failed", "abandoned"}
  PROVE  ~Overdue(Unsuccessful(r, o, c, now), now)
  <1>. DEFINE y == Unsuccessful(r, o, c, now)
  <1>1. /\ RowOK(y) /\ y.status \in Waiting \cup Terminal
        /\ y.status \in Waiting => y.availableAt > now
    BY UnsuccessfulOK, UnsuccessfulFields
  <1>. HIDE DEF y
  <1>2. ~Overdue(y, now)
    BY <1>1, RetryInTime, EndedInTime
  <1>. QED
    BY <1>2 DEF y

LEMMA SweptInTime ==
  ASSUME NEW r, RowOK(r), NEW now \in Nat
  PROVE  ~Overdue(Swept(r, now), now)
  <1>1. CASE LeaseExpired(r, now)
    BY <1>1, UnsuccessfulInTime DEF Swept, LeaseExpired
  <1>2. CASE ~LeaseExpired(r, now) /\ r.status \in Waiting /\ r.deadline <= now
    <2>. DEFINE x == Record([r EXCEPT !.status = "expired"])
    <2>1. r \in JobRow
      BY DEF RowOK
    <2>2. x.status \in Terminal
      BY <2>1 DEF Record, JobRow, Terminal
    <2>3. Swept(r, now) = x
      BY <1>2 DEF Swept
    <2>. HIDE DEF x
    <2>. QED
      BY <2>2, <2>3, EndedInTime
  <1>3. CASE ~LeaseExpired(r, now) /\ ~(r.status \in Waiting /\ r.deadline <= now)
    BY <1>3 DEF Swept, Overdue
  <1>. QED
    BY <1>1, <1>2, <1>3

LEMMA ClaimedInTime ==
  ASSUME NEW r, RowOK(r), NEW w, NEW now \in Nat
  PROVE  ~Overdue(Claimed(r, w, now), now)
  <1>1. Claimed(r, w, now).status = "running" /\ Claimed(r, w, now).leaseExpires = now + LeaseSeconds
    BY DEF RowOK, JobRow, Claimed, Record
  <1>2. LeaseSeconds \in Nat \ {0}
    BY LimitAssumption
  <1>. QED
    BY <1>1, <1>2 DEF Overdue, LeaseExpired, Waiting

LEMMA PollInTime ==
  ASSUME IInv, NEW w \in Worker, ClaimNext(w) \/ RunOnce(w)
  PROVE  \A j \in Job : ~Overdue(job'[j], clock)
  <1>1. clock \in Nat /\ TableOK(SweptJobs) /\ \A j \in Job : RowOK(job[j])
    BY TableInv, SweptJobsOK DEF IInv, TypeOK, RowsOK
  <1>2. \A j \in Job : ~Overdue(SweptJobs[j], clock)
    BY <1>1, SweptInTime DEF SweptJobs
  <1>3. ASSUME NEW j \in Candidates(SweptJobs, clock), NEW r, ~Overdue(r, clock),
               job' = [SweptJobs EXCEPT ![j] = r]
        PROVE  \A k \in Job : ~Overdue(job'[k], clock)
    <2>1. \A k \in Job : job'[k] = r \/ job'[k] = SweptJobs[k]
      BY <1>1, <1>3 DEF TableOK
    <2>. QED
      BY <1>2, <1>3, <2>1
  <1>4. ASSUME NEW j \in Candidates(SweptJobs, clock)
        PROVE  /\ ~Overdue(Claimed(SweptJobs[j], w, clock), clock)
               /\ RowOK(Claimed(SweptJobs[j], w, clock))
               /\ Claimed(SweptJobs[j], w, clock).status = "running"
    <2>1. j \in Job /\ SweptJobs[j].status \in Waiting /\ RowOK(SweptJobs[j])
      BY <1>1, CandidateWaits DEF TableOK
    <2>. QED
      BY <1>1, <2>1, ClaimedInTime, ClaimedOK
  <1>5. CASE ClaimNext(w)
    <2>1. CASE job' = SweptJobs
      BY <1>2, <2>1
    <2>2. ASSUME NEW j \in Candidates(SweptJobs, clock),
                 job' = [SweptJobs EXCEPT ![j] = Claimed(SweptJobs[j], w, clock)]
          PROVE  \A k \in Job : ~Overdue(job'[k], clock)
      BY <1>3, <1>4, <2>2
    <2>. QED
      BY <1>5, <2>1, <2>2 DEF ClaimNext
  <1>6. CASE RunOnce(w)
    <2>1. PICK j \in Candidates(SweptJobs, clock) :
            LET claimed == Claimed(SweptJobs[j], w, clock)
            IN  \/ /\ ~claimed.cancelRequested
                   /\ job' = [SweptJobs EXCEPT ![j] = Succeeded(claimed)]
                \/ \E c \in Reported :
                     job' = [SweptJobs EXCEPT ![j] = Failed(claimed, c, clock)]
      BY <1>6 DEF RunOnce
    <2>. DEFINE x == Claimed(SweptJobs[j], w, clock)
    <2>2. RowOK(x) /\ x.status = "running"
      BY <1>4
    <2>. HIDE DEF x
    <2>3. PICK y : ~Overdue(y, clock) /\ job' = [SweptJobs EXCEPT ![j] = y]
      <3>1. CASE ~x.cancelRequested /\ job' = [SweptJobs EXCEPT ![j] = Succeeded(x)]
        <4>1. Succeeded(x).status \in Terminal
          BY <2>2, <3>1, SucceededFields DEF Terminal
        <4>. QED
          BY <3>1, <4>1, EndedInTime
      <3>2. ASSUME NEW c \in Reported, job' = [SweptJobs EXCEPT ![j] = Failed(x, c, clock)]
            PROVE  \E y : ~Overdue(y, clock) /\ job' = [SweptJobs EXCEPT ![j] = y]
        BY <1>1, <2>2, <3>2, UnsuccessfulInTime DEF Failed
      <3>. QED
        BY <2>1, <3>1, <3>2 DEF x
    <2>. QED
      BY <1>3, <2>3
  <1>. QED
    BY <1>5, <1>6

\* A poll recovers every lease that ran out and expires every job past its deadline, and
\* what it retries or hands out itself is neither: a zero-length lease, or a retry at the
\* deadline, would be swept again by the next poll.
PollLeavesNothingOverdue ==
  [][(\E w \in Worker : ClaimNext(w) \/ RunOnce(w)) => \A j \in Job : ~Overdue(job'[j], clock)]_vars

\* What EveryJobSettles needs of the polls besides fairness: no row ever makes
\* _require_attempt raise in a sweep, which would keep its whole workspace from being
\* swept and claimed, and no sweep leaves a job behind.
THEOREM PollsSweepHolds == Spec => []SweepPossible /\ PollLeavesNothingOverdue
  <1>1. IInv => SweepPossible
    BY DEF IInv, RowsOK, RowOK, LeaseAgrees, LeaseExpired, SweepPossible
  <1>2. IInv => [(\E w \in Worker : ClaimNext(w) \/ RunOnce(w))
                   => \A j \in Job : ~Overdue(job'[j], clock)]_vars
    BY PollInTime
  <1>. QED
    BY <1>1, <1>2, IInvHolds, PTL DEF PollLeavesNothingOverdue
=============================================================================
