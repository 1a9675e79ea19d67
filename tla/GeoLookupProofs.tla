--------------------------- MODULE GeoLookupProofs ---------------------------
(***************************************************************************)
(* Proofs about the address lookups, for any devices, addresses, capacity  *)
(* of the queue and delays.                                                *)
(*                                                                         *)
(* The two mutexes are taken in turn, so the invariant says what the       *)
(* worker can rely on between two critical sections: while it holds a job, *)
(* the address is pending with that job and no other, and an address that  *)
(* it is about to give up has no device, or the login that was too early   *)
(* is known.                                                               *)
(***************************************************************************)
EXTENDS GeoLookup, SequenceTheorems, WellFoundedInduction, TLAPS

JobRecords == [ip : Addresses, runAt : 0..MaxDelay]

JobsAreSorted ==
  \A j, k \in DOMAIN jobs : j <= k => jobs[j].runAt <= jobs[k].runAt

WorkerIsNamed ==
  /\ worker.at = "idle" => worker = Idle
  /\ worker.at # "idle" => worker.ip \in Addresses

\* Nobody else can queue the address of the job that the worker holds.
HeldIsPending == worker.at \in Holding /\ ~stopped => pending[worker.ip] = 0

\* The delay of a retry is that of the first failure at least.
FailureIsCounted == worker.at \in {"again", "retry"} /\ ~stopped => failures[worker.ip] > 0

\* The address that is given up has had no device since the worker looked, unless its
\* login is still on its way to the queue, or has been turned away there.
DroppedIsUnused ==
  worker.at = "drop" /\ ~stopped =>
    \A d \in Devices : address[d] = worker.ip => worker.ip \in late \cup {enqueuing}

LookupInv ==
  /\ TypeOK
  /\ JobsAreSorted
  /\ PendingIsQueued
  /\ StoppedIsEmpty
  /\ WorkerIsNamed
  /\ HeldIsPending
  /\ FailureIsCounted
  /\ DroppedIsUnused
  /\ LookupsGoOn

-----------------------------------------------------------------------------
(* Delays.                                                                 *)

\* Every inhabited set of natural numbers has a least element.
LEMMA LeastNatural ==
  ASSUME NEW T \in SUBSET Nat, T # {}
  PROVE  \E x \in T : \A y \in T : x <= y
<1> DEFINE R == OpToRel(<, Nat)
<1>1. IsWellFoundedOn(R, Nat)
  BY NatLessThanWellFounded
<1>2. \A x, y \in Nat : <<x, y>> \in R <=> x < y
  BY DEF OpToRel
<1> HIDE DEF R
<1>3. PICK x \in T : \A y \in T : ~ (<<y, x>> \in R)
  BY <1>1, WFMin
<1>4. ASSUME NEW y \in T PROVE x <= y
  <2>1. x \in Nat /\ y \in Nat
    OBVIOUS
  <2>2. ~ (y < x)
    BY <1>2, <1>3, <2>1
  <2> QED
    BY <2>1, <2>2
<1> QED
  BY <1>4

\* Induction, for a set that is given by what its members satisfy.
LEMMA InductiveSet ==
  ASSUME NEW T \in SUBSET Nat, 0 \in T, \A n \in T : n + 1 \in T
  PROVE  T = Nat
<1> SUFFICES ASSUME T # Nat PROVE FALSE
  OBVIOUS
<1> DEFINE M == Nat \ T
<1>1. PICK m \in M : \A y \in M : m <= y
  <2>1. M # {} /\ M \in SUBSET Nat
    OBVIOUS
  <2> HIDE DEF M
  <2> QED
    BY <2>1, LeastNatural
<1>2. m \in Nat /\ m # 0
  OBVIOUS
<1>3. m - 1 \in Nat /\ m - 1 < m /\ (m - 1) + 1 = m
  BY <1>2
<1>4. m - 1 \in T
  BY <1>1, <1>3
<1> QED
  BY <1>3, <1>4

\* The delay of a retry is positive and at most the maximum, however many failures.
LEMMA RetryDelayType == RetryDelay \in [1..MaxFailures -> 1..MaxDelay]
<1>1. /\ MaxFailures \in Nat \ {0} /\ MaxDelay \in Nat /\ MinDelay \in 1..MaxDelay
  BY LookupAssumption DEF LookupAssumption
<1> DEFINE D(f, n) == IF n = 1 THEN MinDelay
                      ELSE IF f[n - 1] > MaxDelay \div 2 THEN MaxDelay ELSE 2 * f[n - 1]
<1>2. ASSUME NEW f, NEW n \in Nat, n > 1 => f[n - 1] \in 1..MaxDelay, n > 0
      PROVE  D(f, n) \in 1..MaxDelay
  <2>1. CASE n = 1
    BY <1>1, <2>1
  <2>2. CASE n # 1
    <3> DEFINE x == f[n - 1]
    <3>1. x \in 1..MaxDelay
      BY <1>2, <2>2
    <3> HIDE DEF x
    <3>2. (IF x > MaxDelay \div 2 THEN MaxDelay ELSE 2 * x) \in 1..MaxDelay
      BY <1>1, <3>1
    <3> QED
      BY <2>2, <3>2 DEF x
  <2> QED
    BY <2>1, <2>2
<1> DEFINE Fits(f, n) == f \in [1..n -> 1..MaxDelay] /\ \A k \in 1..n : f[k] = D(f, k)
           T == {n \in Nat : \E f : Fits(f, n)}
<1>3. T = Nat
  <2>1. 0 \in T
    <3>1. [k \in 1..0 |-> 1] \in [1..0 -> 1..MaxDelay]
      OBVIOUS
    <3>2. Fits([k \in 1..0 |-> 1], 0)
      BY <3>1
    <3> HIDE DEF Fits
    <3> QED
      BY <3>2
  <2>2. ASSUME NEW n \in T PROVE n + 1 \in T
    <3>1. PICK f : Fits(f, n)
      OBVIOUS
    <3>2. n \in Nat
      OBVIOUS
    <3> DEFINE g == [k \in 1..(n + 1) |-> IF k = n + 1 THEN D(f, n + 1) ELSE f[k]]
    <3> HIDE DEF D, T
    <3>3. D(f, n + 1) \in 1..MaxDelay
      <4>1. n > 0 => f[n] \in 1..MaxDelay
        BY <3>1, <3>2 DEF Fits
      <4>2. (n + 1) - 1 = n /\ n + 1 \in Nat /\ n + 1 > 0 /\ (n + 1 > 1 => n > 0)
        BY <3>2
      <4> QED
        BY <1>2, <4>1, <4>2
    <3>4. g \in [1..(n + 1) -> 1..MaxDelay]
      <4>1. \A k \in 1..(n + 1) : k # n + 1 => k \in 1..n
        BY <3>2
      <4>2. \A k \in 1..n : f[k] \in 1..MaxDelay
        BY <3>1 DEF Fits
      <4> QED
        BY <3>3, <4>1, <4>2
    <3>5. ASSUME NEW k \in 1..(n + 1) PROVE g[k] = D(g, k)
      <4>1. k > 1 => g[k - 1] = f[k - 1]
        BY <3>2
      <4>2. D(g, k) = D(f, k)
        BY <4>1 DEF D
      <4> QED
        BY <3>1, <3>2, <4>2
    <3> HIDE DEF g
    <3>6. Fits(g, n + 1)
      BY <3>4, <3>5
    <3> HIDE DEF Fits
    <3> QED
      BY <3>2, <3>6 DEF T
  <2> HIDE DEF T
  <2>3. T \in SUBSET Nat
    BY DEF T
  <2> QED
    BY <2>1, <2>2, <2>3, InductiveSet
<1>4. PICK f : Fits(f, MaxFailures)
  <2>1. MaxFailures \in T
    BY <1>1, <1>3
  <2> HIDE DEF Fits
  <2> QED
    BY <2>1
<1>5. f = [n \in 1..MaxFailures |-> D(f, n)]
  BY <1>4
<1>6. RetryDelay = [n \in 1..MaxFailures |-> D(RetryDelay, n)]
  BY <1>5 DEF RetryDelay
<1> DEFINE U == {n \in Nat : n \in 1..MaxFailures => RetryDelay[n] \in 1..MaxDelay}
<1>7. U = Nat
  <2>1. 0 \in U
    OBVIOUS
  <2>2. ASSUME NEW n \in U PROVE n + 1 \in U
    <3> SUFFICES ASSUME n + 1 \in 1..MaxFailures
                 PROVE  RetryDelay[n + 1] \in 1..MaxDelay
      OBVIOUS
    <3>1. n \in Nat /\ (n > 0 => RetryDelay[n] \in 1..MaxDelay)
      BY <1>1
    <3> HIDE DEF D, U
    <3>2. D(RetryDelay, n + 1) \in 1..MaxDelay
      BY <1>2, <3>1
    <3> QED
      BY <1>6, <3>2
  <2> HIDE DEF U
  <2>3. U \in SUBSET Nat
    BY DEF U
  <2> QED
    BY <2>1, <2>2, <2>3, InductiveSet
<1>8. \A n \in 1..MaxFailures : RetryDelay[n] \in 1..MaxDelay
  BY <1>1, <1>7
<1> HIDE DEF D, U
<1> QED
  BY <1>6, <1>8

-----------------------------------------------------------------------------
(* The queue.                                                              *)

\* The exact deduplication in three parts.
QueuedOnce == \A j, k \in DOMAIN jobs : jobs[j].ip = jobs[k].ip => j = k

Held(i) == worker.at \in Holding /\ worker.ip = i

QueuedIsPending ==
  \A k \in DOMAIN jobs : pending[jobs[k].ip] = jobs[k].runAt /\ ~Held(jobs[k].ip)

PendingHasJob ==
  \A i \in Addresses :
    pending[i] # NoEntry => Held(i) \/ \E k \in DOMAIN jobs : jobs[k].ip = i

LEMMA ExactDeduplication ==
  PendingIsQueued <=> QueuedOnce /\ QueuedIsPending /\ PendingHasJob
<1> DEFINE ips == [k \in DOMAIN jobs |-> jobs[k].ip]
<1>1. IsInjective(ips) <=> QueuedOnce
  BY DEF IsInjective, QueuedOnce
<1>2. \A i : i \in (IF worker.at \in Holding THEN {worker.ip} ELSE {}) <=> Held(i)
  BY DEF Held
<1>3. \A i : i \in {jobs[k].ip : k \in DOMAIN jobs} <=> \E k \in DOMAIN jobs : jobs[k].ip = i
  OBVIOUS
<1> QED
  BY <1>1, <1>2, <1>3 DEF PendingIsQueued, QueuedIsPending, PendingHasJob

LEMMA JobsType ==
  TypeOK => /\ jobs \in Seq(JobRecords) /\ Len(jobs) \in Nat /\ Len(jobs) <= Capacity
            /\ DOMAIN jobs = 1..Len(jobs)
            /\ \A k \in 1..Len(jobs) : jobs[k] \in JobRecords
<1> SUFFICES ASSUME TypeOK
             PROVE  /\ jobs \in Seq(JobRecords) /\ Len(jobs) \in Nat /\ Len(jobs) <= Capacity
                    /\ DOMAIN jobs = 1..Len(jobs)
                    /\ \A k \in 1..Len(jobs) : jobs[k] \in JobRecords
  OBVIOUS
<1>1. jobs \in Seq(JobRecords) /\ Len(jobs) <= Capacity
  BY DEF TypeOK, JobRecords
<1> HIDE DEF JobRecords
<1> QED
  BY <1>1

\* A job that is inserted at p comes after p - 1 others, and moves the rest on.
LEMMA Inserted ==
  ASSUME NEW S, NEW s \in Seq(S), NEW p \in 1..(Len(s) + 1), NEW e \in S
  PROVE  /\ InsertAt(s, p, e) \in Seq(S) /\ Len(InsertAt(s, p, e)) = Len(s) + 1
         /\ InsertAt(s, p, e)[p] = e
         /\ \A k \in 1..Len(s) :
              /\ k < p => InsertAt(s, p, e)[k] = s[k]
              /\ k >= p => InsertAt(s, p, e)[k + 1] = s[k]
<1> DEFINE before == SubSeq(s, 1, p - 1)
           after == SubSeq(s, p, Len(s))
<1> DEFINE n == Len(s)
<1>0. n \in Nat /\ p \in Int /\ 1 <= p /\ p <= n + 1 /\ \A k \in 1..n : s[k] \in S
  OBVIOUS
<1>1. before \in Seq(S) /\ Len(before) = p - 1 /\ \A k \in 1..(p - 1) : before[k] = s[k]
  <2>1. p - 1 \in Int /\ \A k \in 1..(p - 1) : s[k] \in S
    BY <1>0
  <2> QED
    BY <1>0, <2>1, SubSeqProperties
<1>2. /\ after \in Seq(S) /\ Len(after) = n - p + 1
      /\ \A k \in 1..(n - p + 1) : after[k] = s[p + k - 1]
  <2>1. n \in Int /\ \A k \in p..n : s[k] \in S
    BY <1>0
  <2> QED
    BY <1>0, <2>1, SubSeqProperties
<1> HIDE DEF before, after
<1> DEFINE front == before \o <<e>>
<1>3. /\ front \in Seq(S) /\ Len(front) = p /\ front[p] = e
      /\ \A k \in 1..(p - 1) : front[k] = s[k]
  <2>1. <<e>> \in Seq(S) /\ Len(<<e>>) = 1 /\ <<e>>[1] = e
    OBVIOUS
  <2>2. /\ front \in Seq(S) /\ Len(front) = (p - 1) + 1
        /\ \A k \in 1..((p - 1) + 1) :
             front[k] = IF k <= p - 1 THEN before[k] ELSE <<e>>[k - (p - 1)]
    BY <1>1, <2>1, ConcatProperties
  <2> HIDE DEF front
  <2>3. (p - 1) + 1 = p /\ p \in 1..p /\ ~ (p <= p - 1) /\ p - (p - 1) = 1
    BY <1>0
  <2>4. front[p] = e
    BY <2>1, <2>2, <2>3
  <2>5. \A k \in 1..(p - 1) : k \in 1..p /\ k <= p - 1
    BY <1>0
  <2>6. \A k \in 1..(p - 1) : front[k] = s[k]
    BY <1>1, <2>2, <2>3, <2>5
  <2> QED
    BY <2>2, <2>3, <2>4, <2>6
<1> HIDE DEF front
<1> DEFINE all == front \o after
<1>4. /\ all \in Seq(S) /\ Len(all) = n + 1
      /\ \A k \in 1..p : all[k] = front[k]
      /\ \A k \in (p + 1)..(n + 1) : all[k] = after[k - p]
  <2>1. /\ all \in Seq(S) /\ Len(all) = p + (n - p + 1)
        /\ \A k \in 1..(p + (n - p + 1)) :
             all[k] = IF k <= p THEN front[k] ELSE after[k - p]
    BY <1>2, <1>3, ConcatProperties
  <2> QED
    BY <1>0, <2>1
<1>5. all = InsertAt(s, p, e)
  BY DEF all, front, before, after, InsertAt
<1> HIDE DEF all
<1>6. ASSUME NEW k \in 1..Len(s), k < p PROVE all[k] = s[k]
  BY <1>3, <1>4, <1>6
<1>7. ASSUME NEW k \in 1..Len(s), k >= p PROVE all[k + 1] = s[k]
  <2>1. all[k + 1] = after[k + 1 - p]
    <3>1. k + 1 \in (p + 1)..(n + 1)
      BY <1>0, <1>7
    <3> QED
      BY <1>4, <3>1
  <2>2. k + 1 - p \in 1..(n - p + 1) /\ p + (k + 1 - p) - 1 = k
    BY <1>0, <1>7
  <2> QED
    BY <1>2, <2>1, <2>2
<1> QED
  BY <1>3, <1>4, <1>5, <1>6, <1>7

\* In an ordered queue there is a place between the jobs that are due by then and those
\* that are due later.
LEMMA PushedFindsPlace ==
  ASSUME TypeOK, JobsAreSorted, NEW job \in JobRecords
  PROVE  \E p \in 1..(Len(jobs) + 1) :
           /\ Pushed(job) = InsertAt(jobs, p, job)
           /\ \A k \in DOMAIN jobs : k < p <=> jobs[k].runAt <= job.runAt
<1>1. /\ Len(jobs) \in Nat /\ DOMAIN jobs = 1..Len(jobs)
      /\ \A k \in DOMAIN jobs : jobs[k].runAt \in Nat
      /\ job.runAt \in Nat
  <2>1. MaxDelay \in Nat
    BY LookupAssumption DEF LookupAssumption
  <2> QED
    BY <2>1, JobsType DEF JobRecords
<1> DEFINE Fits(p) == \A k \in DOMAIN jobs : k < p <=> jobs[k].runAt <= job.runAt
           later == {k \in DOMAIN jobs : jobs[k].runAt > job.runAt}
<1>2. \E p \in 1..(Len(jobs) + 1) : Fits(p)
  <2>1. CASE later = {}
    <3>1. Fits(Len(jobs) + 1)
      BY <1>1, <2>1
    <3> HIDE DEF Fits
    <3> QED
      BY <1>1, <3>1
  <2>2. CASE later # {}
    <3>1. later \in SUBSET Nat
      BY <1>1
    <3> HIDE DEF later
    <3>2. PICK p \in later : \A k \in later : p <= k
      BY <2>2, <3>1, LeastNatural
    <3>3. p \in 1..Len(jobs) /\ jobs[p].runAt > job.runAt
      BY <1>1, <3>2 DEF later
    <3>4. ASSUME NEW k \in DOMAIN jobs PROVE k < p <=> jobs[k].runAt <= job.runAt
      <4>1. CASE k < p
        <5>1. k \notin later
          BY <1>1, <3>2, <3>3, <4>1
        <5> QED
          BY <1>1, <4>1, <5>1 DEF later
      <4>2. CASE ~(k < p)
        <5>1. jobs[p].runAt <= jobs[k].runAt
          BY <1>1, <3>3, <4>2 DEF JobsAreSorted
        <5> QED
          BY <1>1, <3>3, <4>2, <5>1
      <4> QED
        BY <4>1, <4>2
    <3>5. Fits(p)
      BY <3>4
    <3> HIDE DEF Fits
    <3> QED
      BY <1>1, <3>3, <3>5
  <2> QED
    BY <2>1, <2>2
<1> DEFINE place == CHOOSE p \in 1..(Len(jobs) + 1) : Fits(p)
<1>3. Pushed(job) = InsertAt(jobs, place, job)
  BY DEF Pushed
<1>4. place \in 1..(Len(jobs) + 1) /\ Fits(place)
  <2> HIDE DEF Fits
  <2> QED
    BY <1>2
<1> HIDE DEF place
<1> QED
  BY <1>3, <1>4

\* The queue with one more job: it stays in order, and holds the same jobs and this one.
LEMMA PushedJob ==
  ASSUME TypeOK, JobsAreSorted, NEW job \in JobRecords, jobs' = Pushed(job)
  PROVE  /\ jobs' \in Seq(JobRecords) /\ Len(jobs') = Len(jobs) + 1
         /\ JobsAreSorted'
         /\ \E k \in DOMAIN jobs' : jobs'[k] = job
         /\ \A m \in DOMAIN jobs : \E k \in DOMAIN jobs' : jobs'[k] = jobs[m]
         /\ \A k \in DOMAIN jobs' : jobs'[k] = job \/ \E m \in DOMAIN jobs : jobs'[k] = jobs[m]
         /\ QueuedOnce /\ (\A m \in DOMAIN jobs : jobs[m].ip # job.ip) => QueuedOnce'
<1> DEFINE n == Len(jobs)
<1>1. /\ n \in Nat /\ DOMAIN jobs = 1..n /\ jobs \in Seq(JobRecords)
      /\ \A k \in 1..n : jobs[k].runAt \in Nat
      /\ job.runAt \in Nat
  <2>1. MaxDelay \in Nat
    BY LookupAssumption DEF LookupAssumption
  <2> QED
    BY <2>1, JobsType DEF JobRecords
<1>2. PICK p \in 1..(n + 1) :
        /\ jobs' = InsertAt(jobs, p, job)
        /\ \A k \in DOMAIN jobs : k < p <=> jobs[k].runAt <= job.runAt
  BY PushedFindsPlace
<1>3. /\ jobs' \in Seq(JobRecords) /\ Len(jobs') = n + 1 /\ jobs'[p] = job
      /\ \A k \in 1..n : (k < p => jobs'[k] = jobs[k]) /\ (k >= p => jobs'[k + 1] = jobs[k])
  <2>1. /\ InsertAt(jobs, p, job) \in Seq(JobRecords)
        /\ Len(InsertAt(jobs, p, job)) = Len(jobs) + 1
        /\ InsertAt(jobs, p, job)[p] = job
        /\ \A k \in 1..Len(jobs) :
             /\ k < p => InsertAt(jobs, p, job)[k] = jobs[k]
             /\ k >= p => InsertAt(jobs, p, job)[k + 1] = jobs[k]
    BY <1>1, <1>2, Inserted
  <2> QED
    BY <1>2, <2>1
<1>4. DOMAIN jobs' = 1..(n + 1)
  BY <1>3
<1> HIDE DEF n
\* Where the job at a place of the new queue was.
<1> DEFINE was(k) == IF k < p THEN k ELSE k - 1
<1>5. \A k \in 1..(n + 1) : k # p => was(k) \in 1..n /\ jobs'[k] = jobs[was(k)]
  <2> SUFFICES ASSUME NEW k \in 1..(n + 1), k # p
               PROVE  was(k) \in 1..n /\ jobs'[k] = jobs[was(k)]
    OBVIOUS
  <2>1. CASE k < p
    BY <1>1, <1>2, <1>3, <2>1
  <2>2. CASE k > p
    <3>1. k - 1 \in 1..n /\ k - 1 >= p /\ (k - 1) + 1 = k
      BY <1>1, <1>2, <2>2
    <3> QED
      BY <1>3, <2>2, <3>1
  <2> QED
    BY <1>1, <1>2, <2>1, <2>2
<1>6. \A j, k \in 1..(n + 1) : j # p /\ k # p /\ was(j) = was(k) => j = k
  BY <1>1, <1>2
<1>7. \A j, k \in 1..(n + 1) : j # p /\ k # p /\ j <= k => was(j) <= was(k)
  BY <1>1, <1>2
<1>8. \A k \in 1..(n + 1) : (k < p => was(k) < p) /\ (k > p => ~(was(k) < p))
  BY <1>1, <1>2
<1> HIDE DEF was
<1>9. JobsAreSorted'
  <2> SUFFICES ASSUME NEW j \in 1..(n + 1), NEW k \in 1..(n + 1), j <= k
               PROVE  jobs'[j].runAt <= jobs'[k].runAt
    BY <1>4 DEF JobsAreSorted
  <2>1. CASE j # p /\ k # p
    BY <1>1, <1>5, <1>7, <2>1 DEF JobsAreSorted
  <2>2. CASE j # p /\ k = p
    <3>1. was(j) \in 1..n /\ was(j) < p
      BY <1>1, <1>2, <1>5, <1>8, <2>2
    <3> QED
      BY <1>1, <1>2, <1>3, <1>5, <2>2, <3>1
  <2>3. CASE j = p /\ k # p
    <3>1. was(k) \in 1..n /\ ~(was(k) < p)
      BY <1>1, <1>2, <1>5, <1>8, <2>3
    <3>2. ~(jobs[was(k)].runAt <= job.runAt)
      BY <1>1, <1>2, <3>1
    <3>3. jobs[was(k)].runAt \in Nat /\ job.runAt \in Nat
      BY <1>1, <3>1
    <3>4. job.runAt <= jobs[was(k)].runAt
      BY <3>2, <3>3
    <3> QED
      BY <1>3, <1>5, <2>3, <3>4
  <2>4. CASE j = p /\ k = p
    BY <1>1, <1>3, <2>4
  <2> QED
    BY <2>1, <2>2, <2>3, <2>4
<1>10. \E k \in DOMAIN jobs' : jobs'[k] = job
  BY <1>2, <1>3, <1>4
<1>11. ASSUME NEW m \in DOMAIN jobs PROVE \E k \in DOMAIN jobs' : jobs'[k] = jobs[m]
  <2>1. m \in 1..n /\ m \in 1..(n + 1) /\ m + 1 \in 1..(n + 1)
    BY <1>1
  <2>2. CASE m < p
    BY <1>3, <1>4, <2>1, <2>2
  <2>3. CASE m >= p
    BY <1>3, <1>4, <2>1, <2>3
  <2> QED
    BY <1>2, <2>1, <2>2, <2>3
<1>12. ASSUME NEW k \in DOMAIN jobs'
       PROVE  jobs'[k] = job \/ \E m \in DOMAIN jobs : jobs'[k] = jobs[m]
  BY <1>1, <1>3, <1>4, <1>5
<1>13. ASSUME QueuedOnce, \A m \in DOMAIN jobs : jobs[m].ip # job.ip
       PROVE  QueuedOnce'
  <2> SUFFICES ASSUME NEW j \in 1..(n + 1), NEW k \in 1..(n + 1), jobs'[j].ip = jobs'[k].ip
               PROVE  j = k
    BY <1>4 DEF QueuedOnce
  <2>1. CASE j # p /\ k # p
    <3>1. was(j) = was(k)
      BY <1>1, <1>5, <1>13, <2>1 DEF QueuedOnce
    <3> QED
      BY <1>6, <2>1, <3>1
  <2>2. CASE j = p \/ k = p
    BY <1>1, <1>3, <1>5, <1>13, <2>2
  <2> QED
    BY <2>1, <2>2
<1> QED
  BY <1>3, <1>9, <1>10, <1>11, <1>12, <1>13 DEF n
\* An address that is neither queued nor held any more gets a job, and is pending with it.
LEMMA PushedKeepsDeduplication ==
  ASSUME LookupInv, NEW i \in Addresses, NEW r \in 0..MaxDelay, Len(jobs) < Capacity,
         \A k \in DOMAIN jobs : jobs[k].ip # i,
         pending' = [pending EXCEPT ![i] = r],
         jobs' = Pushed([ip |-> i, runAt |-> r]),
         ~ Held(i)', \A o \in Addresses \ {i} : Held(o)' <=> Held(o)
  PROVE  /\ JobsAreSorted' /\ PendingIsQueued'
         /\ jobs' \in Seq(JobRecords) /\ Len(jobs') <= Capacity /\ jobs' # <<>>
         /\ pending' \in [Addresses -> {NoEntry} \cup 0..MaxDelay]
         /\ pending'[i] = r /\ \A o \in Addresses \ {i} : pending'[o] = pending[o]
<1> DEFINE job == [ip |-> i, runAt |-> r]
<1>1. job \in JobRecords /\ job.ip = i /\ job.runAt = r
  BY DEF JobRecords
<1>2. /\ TypeOK /\ JobsAreSorted /\ QueuedOnce /\ QueuedIsPending /\ PendingHasJob
      /\ Capacity \in Nat /\ MaxDelay \in Nat
  BY ExactDeduplication, LookupAssumption DEF LookupInv, LookupAssumption
<1>3. jobs' = Pushed(job)
  OBVIOUS
<1> HIDE DEF job
<1>4. /\ jobs' \in Seq(JobRecords) /\ Len(jobs') = Len(jobs) + 1
      /\ JobsAreSorted'
      /\ \E k \in DOMAIN jobs' : jobs'[k] = job
      /\ \A m \in DOMAIN jobs : \E k \in DOMAIN jobs' : jobs'[k] = jobs[m]
      /\ \A k \in DOMAIN jobs' : jobs'[k] = job \/ \E m \in DOMAIN jobs : jobs'[k] = jobs[m]
      /\ QueuedOnce'
  BY <1>1, <1>2, <1>3, PushedJob
<1>5. /\ pending' \in [Addresses -> {NoEntry} \cup 0..MaxDelay]
      /\ pending'[i] = r /\ \A o \in Addresses \ {i} : pending'[o] = pending[o]
  BY <1>2 DEF TypeOK
<1>6. QueuedIsPending'
  <2> SUFFICES ASSUME NEW k \in DOMAIN jobs'
               PROVE  /\ pending'[jobs'[k].ip] = jobs'[k].runAt
                      /\ ~ (worker'.at \in Holding /\ worker'.ip = jobs'[k].ip)
    BY DEF QueuedIsPending, Held
  <2>1. CASE jobs'[k] = job
    BY <1>1, <1>5, <2>1 DEF Held
  <2>2. CASE \E m \in DOMAIN jobs : jobs'[k] = jobs[m]
    <3>1. PICK m \in DOMAIN jobs : jobs'[k] = jobs[m]
      BY <2>2
    <3>2. jobs[m].ip \in Addresses \ {i}
      BY <1>2, JobsType DEF JobRecords
    <3>3. PICK o \in Addresses \ {i} : o = jobs[m].ip
      BY <3>2
    <3>4. pending[o] = jobs[m].runAt /\ ~ Held(o)
      BY <1>2, <3>3 DEF QueuedIsPending
    <3> QED
      BY <1>5, <3>1, <3>3, <3>4 DEF Held
  <2> QED
    BY <1>4, <2>1, <2>2
<1>7. PendingHasJob'
  <2> SUFFICES ASSUME NEW o \in Addresses, pending'[o] # NoEntry
               PROVE  Held(o)' \/ \E k \in DOMAIN jobs' : jobs'[k].ip = o
    BY DEF PendingHasJob, Held, NoEntry
  <2>1. CASE o = i
    BY <1>1, <1>4, <2>1
  <2>2. CASE o # i
    <3>1. Held(o) \/ \E m \in DOMAIN jobs : jobs[m].ip = o
      BY <1>2, <1>5, <2>2 DEF PendingHasJob
    <3> QED
      BY <1>4, <2>2, <3>1
  <2> QED
    BY <2>1, <2>2
<1>8. PendingIsQueued'
  <2>1. (QueuedOnce /\ QueuedIsPending /\ PendingHasJob)'
    BY <1>4, <1>6, <1>7
  <2> QED
    BY <2>1, ExactDeduplication, PTL
<1>9. Len(jobs') <= Capacity /\ jobs' # <<>>
  BY <1>2, <1>4, JobsType
<1> QED
  BY <1>4, <1>5, <1>8, <1>9

\* The deduplication only depends on the queue, on what is pending, and on what is held.
LEMMA SameDeduplication ==
  ASSUME PendingIsQueued, UNCHANGED <<jobs, pending>>,
         \A i \in Addresses : pending[i] # NoEntry => (Held(i)' <=> Held(i)),
         TypeOK
  PROVE  PendingIsQueued'
<1>1. QueuedOnce /\ QueuedIsPending /\ PendingHasJob
  BY ExactDeduplication
<1>2. QueuedOnce'
  BY <1>1 DEF QueuedOnce
<1>3. QueuedIsPending'
  <2> SUFFICES ASSUME NEW k \in DOMAIN jobs
               PROVE  /\ pending[jobs[k].ip] = jobs[k].runAt
                      /\ ~ (worker'.at \in Holding /\ worker'.ip = jobs[k].ip)
    BY DEF QueuedIsPending, Held
  <2>1. jobs[k].ip \in Addresses /\ jobs[k].runAt # NoEntry
    <3>1. jobs[k] \in JobRecords /\ MaxDelay \in Nat
      BY JobsType, LookupAssumption DEF LookupAssumption
    <3> QED
      BY <3>1 DEF JobRecords, NoEntry
  <2>2. PICK i \in Addresses : i = jobs[k].ip
    BY <2>1
  <2>3. pending[i] = jobs[k].runAt /\ ~ Held(i)
    BY <1>1, <2>2 DEF QueuedIsPending
  <2>4. ~ Held(i)'
    BY <2>1, <2>3
  <2> QED
    BY <2>2, <2>3, <2>4 DEF Held
<1>4. PendingHasJob'
  <2> SUFFICES ASSUME NEW o \in Addresses, pending[o] # NoEntry
               PROVE  Held(o)' \/ \E k \in DOMAIN jobs : jobs[k].ip = o
    BY DEF PendingHasJob, Held, NoEntry
  <2> QED
    BY <1>1 DEF PendingHasJob
<1>5. (QueuedOnce /\ QueuedIsPending /\ PendingHasJob)'
  BY <1>2, <1>3, <1>4
<1> QED
  BY <1>5, ExactDeduplication, PTL

-----------------------------------------------------------------------------
(* The steps of the operations.                                            *)

LEMMA EntriesPreserve ==
  ASSUME LookupInv,
         \/ \E d \in Devices, i \in Addresses : SetDeviceNetworkInfo(d, i)
         \/ \E d \in Devices : ForgetDevice(d)
  PROVE  LookupInv'
<1>1. UNCHANGED <<jobs, pending, failures, stopped, cache, worker, refused, late>>
  BY DEF SetDeviceNetworkInfo, ForgetDevice, queue, ghosts
<1>2. TypeOK /\ PendingIsQueued /\ NoAddress \notin Addresses
  BY LookupAssumption DEF LookupInv, LookupAssumption
<1>3. PendingIsQueued'
  BY <1>1, <1>2, SameDeduplication DEF Held
<1>4. /\ JobsAreSorted' /\ StoppedIsEmpty' /\ WorkerIsNamed' /\ HeldIsPending'
      /\ FailureIsCounted'
  BY <1>1
  DEF LookupInv, JobsAreSorted, StoppedIsEmpty, WorkerIsNamed, HeldIsPending, FailureIsCounted
<1>5. PICK d \in Devices, i \in Addresses \cup {NoAddress} :
        /\ address' = [address EXCEPT ![d] = i] /\ located' = located \ {d}
        /\ \/ i \in Addresses /\ enqueuing = NoAddress /\ enqueuing' = i
           \/ i = NoAddress /\ enqueuing' = enqueuing
  BY DEF SetDeviceNetworkInfo, ForgetDevice
<1>6. /\ address' \in [Devices -> Addresses \cup {NoAddress}]
      /\ address'[d] = i /\ \A e \in Devices \ {d} : address'[e] = address[e]
      /\ enqueuing' \in Addresses \cup {NoAddress}
  BY <1>2, <1>5 DEF TypeOK
<1>7. TypeOK'
  <2>1. located' \subseteq {e \in Devices : address'[e] # NoAddress}
    BY <1>2, <1>5, <1>6 DEF TypeOK
  <2> QED
    BY <1>1, <1>2, <1>6, <2>1 DEF TypeOK
<1>8. DroppedIsUnused'
  <2> SUFFICES ASSUME worker.at = "drop", ~stopped, NEW e \in Devices, address'[e] = worker.ip
               PROVE  worker.ip \in late \cup {enqueuing'}
    BY <1>1 DEF DroppedIsUnused
  <2>1. worker.ip \in Addresses
    BY DEF LookupInv, WorkerIsNamed
  <2> QED
    BY <1>2, <1>5, <1>6, <2>1 DEF LookupInv, DroppedIsUnused
<1>9. LookupsGoOn'
  <2> SUFFICES ASSUME ~stopped, NEW e \in Devices
               PROVE  AwaitsLookup(e)' \/ address'[e] \in refused \cup late
    BY <1>1 DEF LookupsGoOn
  <2>1. CASE e = d
    BY <1>5, <1>6, <2>1 DEF AwaitsLookup
  <2>2. CASE e # d
    <3>1. AwaitsLookup(e) \/ address[e] \in refused \cup late
      BY DEF LookupInv, LookupsGoOn
    <3> QED
      BY <1>1, <1>5, <1>6, <2>2, <3>1 DEF AwaitsLookup
  <2> QED
    BY <2>1, <2>2
<1> QED
  BY <1>3, <1>4, <1>7, <1>8, <1>9 DEF LookupInv

LEMMA StopPreserves ==
  ASSUME LookupInv, StopClientNetworkInfoWorker
  PROVE  LookupInv'
<1>1. /\ stopped' = TRUE /\ jobs' = <<>>
      /\ pending' = [i \in Addresses |-> NoEntry] /\ failures' = [i \in Addresses |-> 0]
      /\ UNCHANGED <<address, located, enqueuing, cache, worker, refused, late>>
  BY DEF StopClientNetworkInfoWorker, entries, ghosts
<1>2. TypeOK'
  <2>1. /\ pending' \in [Addresses -> {NoEntry} \cup 0..MaxDelay]
        /\ failures' \in [Addresses -> 0..MaxFailures]
        /\ jobs' \in Seq([ip : Addresses, runAt : 0..MaxDelay]) /\ Len(jobs') <= Capacity
    BY <1>1, LookupAssumption DEF LookupAssumption
  <2> QED
    BY <1>1, <2>1 DEF LookupInv, TypeOK
<1>3. PendingIsQueued'
  <2>1. (QueuedOnce /\ QueuedIsPending /\ PendingHasJob)'
    BY <1>1 DEF QueuedOnce, QueuedIsPending, PendingHasJob
  <2> QED
    BY <2>1, ExactDeduplication, PTL
<1>4. JobsAreSorted' /\ StoppedIsEmpty' /\ WorkerIsNamed'
  BY <1>1 DEF LookupInv, JobsAreSorted, StoppedIsEmpty, WorkerIsNamed
<1>5. HeldIsPending' /\ FailureIsCounted' /\ DroppedIsUnused' /\ LookupsGoOn'
  BY <1>1 DEF HeldIsPending, FailureIsCounted, DroppedIsUnused, LookupsGoOn
<1> QED
  BY <1>2, <1>3, <1>4, <1>5 DEF LookupInv
\* The loop queues the address, or finds it pending, or the queue full.
LEMMA QueueLookupPreserves ==
  ASSUME LookupInv, NEW i \in Addresses, QueueLookup(i)
  PROVE  LookupInv'
<1>1. /\ enqueuing = i /\ enqueuing' = NoAddress /\ ~stopped /\ stopped' = stopped
      /\ UNCHANGED <<address, located, cache, worker, failures>>
  BY DEF QueueLookup, EnqueueGeoIpLookup, entries, queue
<1>2. TypeOK /\ JobsAreSorted /\ PendingIsQueued /\ NoAddress \notin Addresses
  BY LookupAssumption DEF LookupInv, LookupAssumption
<1>3. WorkerIsNamed'
  BY <1>1 DEF LookupInv, WorkerIsNamed
<1>4. FailureIsCounted'
  BY <1>1 DEF LookupInv, FailureIsCounted
<1>5. StoppedIsEmpty'
  BY <1>1 DEF StoppedIsEmpty
<1>6. CASE /\ pending[i] = NoEntry /\ Len(jobs) < Capacity
           /\ pending' = [pending EXCEPT ![i] = 0]
           /\ jobs' = Pushed([ip |-> i, runAt |-> 0])
           /\ refused' = refused \ {i} /\ late' = late \ {i}
  <2>1. MaxDelay \in Nat
    BY LookupAssumption DEF LookupAssumption
  <2>2. ~ Held(i)
    BY <1>1, <1>6 DEF LookupInv, HeldIsPending, Held, NoEntry
  <2>3. \A k \in DOMAIN jobs : jobs[k].ip # i
    <3>1. QueuedIsPending
      BY <1>2, ExactDeduplication
    <3>2. \A k \in DOMAIN jobs : jobs[k].runAt # NoEntry
      BY <1>2, <2>1, JobsType DEF JobRecords, NoEntry
    <3> QED
      BY <1>6, <3>1, <3>2 DEF QueuedIsPending
  <2>4. /\ JobsAreSorted' /\ PendingIsQueued'
        /\ jobs' \in Seq(JobRecords) /\ Len(jobs') <= Capacity
        /\ pending' \in [Addresses -> {NoEntry} \cup 0..MaxDelay]
        /\ pending'[i] = 0 /\ \A o \in Addresses \ {i} : pending'[o] = pending[o]
    <3>1. 0 \in 0..MaxDelay
      BY <2>1
    <3>2. ~ Held(i)' /\ \A o \in Addresses \ {i} : Held(o)' <=> Held(o)
      BY <1>1, <2>2 DEF Held
    <3> QED
      BY <1>6, <2>3, <3>1, <3>2, PushedKeepsDeduplication
  <2>5. TypeOK'
    BY <1>1, <1>2, <1>6, <2>4 DEF TypeOK, JobRecords
  <2>6. HeldIsPending'
    <3>1. worker.at \in Holding => worker.ip \in Addresses \ {i}
      BY <2>2 DEF LookupInv, WorkerIsNamed, Held, Holding
    <3> QED
      BY <1>1, <2>4, <3>1 DEF LookupInv, HeldIsPending
  <2>7. DroppedIsUnused'
    <3> SUFFICES ASSUME worker.at = "drop", NEW d \in Devices, address[d] = worker.ip
                 PROVE  worker.ip \in late' \cup {enqueuing'}
      BY <1>1 DEF DroppedIsUnused
    <3>1. worker.ip # i
      BY <2>2 DEF Held, Holding
    <3> QED
      BY <1>1, <1>6, <3>1 DEF LookupInv, DroppedIsUnused
  <2>8. LookupsGoOn'
    <3> SUFFICES ASSUME NEW d \in Devices
                 PROVE  AwaitsLookup(d)' \/ address[d] \in refused' \cup late'
      BY <1>1 DEF LookupsGoOn
    <3>1. AwaitsLookup(d) \/ address[d] \in refused \cup late
      BY <1>1 DEF LookupInv, LookupsGoOn
    <3>2. CASE address[d] = i
      BY <1>1, <2>4, <3>2 DEF AwaitsLookup, NoEntry
    <3>3. CASE address[d] # i
      <4>1. address[d] \in Addresses \cup {NoAddress}
        BY <1>2 DEF TypeOK
      <4> QED
        BY <1>1, <1>6, <2>4, <3>1, <3>3, <4>1 DEF AwaitsLookup
    <3> QED
      BY <3>2, <3>3
  <2> QED
    BY <1>3, <1>4, <1>5, <2>4, <2>5, <2>6, <2>7, <2>8 DEF LookupInv
<1>7. CASE \/ /\ pending[i] = NoEntry /\ refused' = refused \cup {i} /\ late' = late
           \/ /\ pending[i] # NoEntry /\ refused' = refused
              /\ late' = IF worker.at = "drop" /\ worker.ip = i THEN late \cup {i} ELSE late
  <2>1. UNCHANGED <<jobs, pending>>
    <3>1. pending[i] = NoEntry => refused' # refused \/ i \in refused
      BY <1>7
    <3>2. \/ /\ pending' = [pending EXCEPT ![i] = 0] /\ pending[i] = NoEntry
             /\ refused' = refused \ {i}
          \/ UNCHANGED <<jobs, pending>>
      BY DEF QueueLookup, EnqueueGeoIpLookup, queue
    <3>3. pending[i] = NoEntry => i \in refused'
      BY <1>7
    <3> QED
      BY <3>2, <3>3
  <2>2. PendingIsQueued' /\ JobsAreSorted'
    BY <1>1, <1>2, <2>1, SameDeduplication DEF Held, JobsAreSorted
  <2>3. TypeOK'
    BY <1>1, <1>2, <1>7, <2>1 DEF TypeOK
  <2>4. HeldIsPending'
    BY <1>1, <2>1 DEF LookupInv, HeldIsPending
  <2>5. DroppedIsUnused'
    <3> SUFFICES ASSUME worker.at = "drop", NEW d \in Devices, address[d] = worker.ip
                 PROVE  worker.ip \in late' \cup {enqueuing'}
      BY <1>1 DEF DroppedIsUnused
    <3>1. worker.ip \in late \cup {i}
      BY <1>1 DEF LookupInv, DroppedIsUnused
    <3>2. pending[worker.ip] # NoEntry
      BY <1>1 DEF LookupInv, HeldIsPending, Holding, NoEntry
    <3> QED
      BY <1>7, <3>1, <3>2
  <2>6. LookupsGoOn'
    <3> SUFFICES ASSUME NEW d \in Devices
                 PROVE  AwaitsLookup(d)' \/ address[d] \in refused' \cup late'
      BY <1>1 DEF LookupsGoOn
    <3>1. AwaitsLookup(d) \/ address[d] \in refused \cup late
      BY <1>1 DEF LookupInv, LookupsGoOn
    <3> QED
      BY <1>1, <1>7, <2>1, <3>1 DEF AwaitsLookup
  <2> QED
    BY <1>3, <1>4, <1>5, <2>2, <2>3, <2>4, <2>5, <2>6 DEF LookupInv
<1> QED
  BY <1>6, <1>7 DEF QueueLookup, EnqueueGeoIpLookup, queue

LEMMA TakeJobPreserves ==
  ASSUME LookupInv, TakeJob
  PROVE  LookupInv'
<1>1. /\ worker = Idle /\ ~stopped /\ jobs # <<>> /\ Head(jobs).runAt = 0
      /\ jobs' = Tail(jobs) /\ worker' = [at |-> "check", ip |-> Head(jobs).ip]
      /\ UNCHANGED <<address, located, enqueuing, pending, failures, stopped, cache, refused, late>>
  BY DEF TakeJob, entries, ghosts
<1>2. /\ TypeOK /\ JobsAreSorted /\ QueuedOnce /\ QueuedIsPending /\ PendingHasJob
      /\ Capacity \in Nat
  BY ExactDeduplication, LookupAssumption DEF LookupInv, LookupAssumption
<1> DEFINE n == Len(jobs)
<1>3. /\ n \in Nat \ {0} /\ DOMAIN jobs = 1..n /\ n <= Capacity /\ Head(jobs) = jobs[1]
      /\ jobs[1] \in JobRecords
      /\ jobs' \in Seq(JobRecords) /\ Len(jobs') = n - 1 /\ DOMAIN jobs' = 1..(n - 1)
      /\ \A k \in 1..(n - 1) : jobs'[k] = jobs[k + 1]
  <2>1. jobs \in Seq(JobRecords) /\ n <= Capacity
    BY <1>2, JobsType
  <2> QED
    BY <1>1, <2>1
<1> HIDE DEF n
<1>4. /\ worker'.at = "check" /\ worker'.ip = jobs[1].ip /\ jobs[1].ip \in Addresses
      /\ jobs[1].runAt = 0 /\ worker.at = "idle"
  BY <1>1, <1>3 DEF JobRecords, Idle
<1>5. TypeOK'
  <2>1. Len(jobs') <= Capacity
    BY <1>2, <1>3
  <2>2. worker' \in [at : Holding \cup {"idle", "spread"}, ip : Addresses \cup {NoAddress}]
    BY <1>1, <1>3 DEF Holding, JobRecords
  <2> QED
    BY <1>1, <1>2, <1>3, <2>1, <2>2 DEF TypeOK, JobRecords
<1>6. JobsAreSorted' /\ QueuedOnce'
  <2> SUFFICES ASSUME NEW j \in 1..(n - 1), NEW k \in 1..(n - 1)
               PROVE  /\ j <= k => jobs'[j].runAt <= jobs'[k].runAt
                      /\ jobs'[j].ip = jobs'[k].ip => j = k
    BY <1>3 DEF JobsAreSorted, QueuedOnce
  <2>1. /\ j + 1 \in 1..n /\ k + 1 \in 1..n /\ (j <= k => j + 1 <= k + 1)
        /\ j + 1 = k + 1 => j = k
    BY <1>3
  <2>2. jobs'[j] = jobs[j + 1] /\ jobs'[k] = jobs[k + 1]
    BY <1>3
  <2>3. j <= k => jobs'[j].runAt <= jobs'[k].runAt
    BY <1>2, <1>3, <2>1, <2>2 DEF JobsAreSorted
  <2>4. jobs'[j].ip = jobs'[k].ip => j = k
    BY <1>2, <1>3, <2>1, <2>2 DEF QueuedOnce
  <2> QED
    BY <2>3, <2>4
<1>7. QueuedIsPending'
  <2> SUFFICES ASSUME NEW k \in 1..(n - 1)
               PROVE  /\ pending[jobs'[k].ip] = jobs'[k].runAt
                      /\ ~ (worker'.at \in Holding /\ worker'.ip = jobs'[k].ip)
    BY <1>1, <1>3 DEF QueuedIsPending, Held
  <2>1. k + 1 \in 1..n /\ 1 \in 1..n /\ k + 1 # 1 /\ jobs'[k] = jobs[k + 1]
    BY <1>3
  <2>2. jobs[k + 1].ip # jobs[1].ip
    BY <1>2, <1>3, <2>1 DEF QueuedOnce
  <2> QED
    BY <1>2, <1>3, <1>4, <2>1, <2>2 DEF QueuedIsPending
<1>8. PendingHasJob'
  <2> SUFFICES ASSUME NEW i \in Addresses, pending[i] # NoEntry
               PROVE  \/ worker'.at \in Holding /\ worker'.ip = i
                      \/ \E k \in DOMAIN jobs' : jobs'[k].ip = i
    BY <1>1 DEF PendingHasJob, Held, NoEntry
  <2>1. PICK m \in 1..n : jobs[m].ip = i
    BY <1>2, <1>3, <1>4 DEF PendingHasJob, Held, Holding
  <2>2. CASE m = 1
    BY <1>4, <2>1, <2>2 DEF Holding
  <2>3. CASE m # 1
    <3>1. m - 1 \in 1..(n - 1) /\ (m - 1) + 1 = m
      BY <1>3, <2>3
    <3> QED
      BY <1>3, <2>1, <3>1
  <2> QED
    BY <2>2, <2>3
<1>9. PendingIsQueued'
  <2>1. (QueuedOnce /\ QueuedIsPending /\ PendingHasJob)'
    BY <1>6, <1>7, <1>8
  <2> QED
    BY <2>1, ExactDeduplication, PTL
<1>10. StoppedIsEmpty' /\ WorkerIsNamed' /\ FailureIsCounted' /\ DroppedIsUnused'
  BY <1>1, <1>4 DEF StoppedIsEmpty, WorkerIsNamed, FailureIsCounted, DroppedIsUnused
<1>11. HeldIsPending'
  <2>1. pending[jobs[1].ip] = 0
    BY <1>2, <1>3, <1>4 DEF QueuedIsPending
  <2> QED
    BY <1>1, <1>4, <2>1 DEF HeldIsPending
<1>12. LookupsGoOn'
  <2> SUFFICES ASSUME NEW d \in Devices
               PROVE  AwaitsLookup(d)' \/ address[d] \in refused \cup late
    BY <1>1 DEF LookupsGoOn
  <2> QED
    BY <1>1, <1>4 DEF LookupInv, LookupsGoOn, AwaitsLookup
<1> QED
  BY <1>5, <1>6, <1>9, <1>10, <1>11, <1>12 DEF LookupInv

\* The worker goes on with its job, or lets go of one that is not pending any more.
LEMMA GoingOnPreserves ==
  ASSUME LookupInv, worker.at \in Holding, NEW at \in Holding \cup {"idle"}, Goto(at),
         UNCHANGED <<address, located, enqueuing, jobs, pending, failures, stopped, refused, late>>,
         cache' \subseteq Addresses,
         at = "idle" => pending[worker.ip] # 0,
         at \in {"again", "retry"} => worker.at \in {"again", "retry"},
         at = "drop" => \A d \in Devices : address[d] # worker.ip
  PROVE  LookupInv'
<1>1. TypeOK /\ PendingIsQueued /\ worker.ip \in Addresses
  BY DEF LookupInv, WorkerIsNamed, Holding
<1>2. /\ worker' \in [at : Holding \cup {"idle", "spread"}, ip : Addresses \cup {NoAddress}]
      /\ worker'.at = at
      /\ at = "idle" => worker' = Idle
      /\ at # "idle" => worker'.ip = worker.ip
  <2>1. CASE at = "idle"
    BY <2>1 DEF Goto, Idle
  <2>2. CASE at # "idle"
    <3>1. worker' = [worker EXCEPT !.at = at]
      BY <2>2 DEF Goto
    <3>2. worker \in [at : Holding \cup {"idle", "spread"}, ip : Addresses \cup {NoAddress}]
      BY <1>1 DEF TypeOK
    <3> QED
      BY <2>2, <3>1, <3>2
  <2> QED
    BY <2>1, <2>2
<1>3. at = "idle" => stopped /\ \A i \in Addresses : pending[i] = NoEntry
  BY DEF LookupInv, HeldIsPending, StoppedIsEmpty
<1>4. TypeOK'
  BY <1>1, <1>2 DEF TypeOK
<1>5. PendingIsQueued'
  <2>1. \A i \in Addresses : pending[i] # NoEntry => (Held(i)' <=> Held(i))
    <3>1. at # "idle" => at \in Holding
      OBVIOUS
    <3> QED
      BY <1>2, <1>3, <3>1 DEF Held
  <2> QED
    BY <1>1, <2>1, SameDeduplication
<1>6. JobsAreSorted' /\ StoppedIsEmpty' /\ WorkerIsNamed'
  BY <1>1, <1>2 DEF LookupInv, JobsAreSorted, StoppedIsEmpty, WorkerIsNamed
<1>7. HeldIsPending' /\ FailureIsCounted' /\ DroppedIsUnused'
  BY <1>2 DEF LookupInv, HeldIsPending, FailureIsCounted, DroppedIsUnused, Holding
<1>8. LookupsGoOn'
  <2>1. worker.at # "spread"
    BY DEF Holding
  <2> QED
    BY <1>2, <2>1 DEF LookupInv, LookupsGoOn, AwaitsLookup
<1> QED
  BY <1>4, <1>5, <1>6, <1>7, <1>8 DEF LookupInv

LEMMA LooksPreserve ==
  ASSUME LookupInv,
         CheckPending \/ CheckInUse \/ ResolveWithRetryInfo \/ CheckStillInUse \/ CheckRetry
  PROVE  LookupInv'
<1>1. cache \subseteq Addresses
  BY DEF LookupInv, TypeOK
<1>2. CASE CheckPending
  <2> DEFINE at == IF pending[worker.ip] = 0 THEN "inUse" ELSE "idle"
  <2>1. /\ worker.at = "check" /\ Goto(at) /\ at \in {"inUse", "idle"}
        /\ at = "idle" => pending[worker.ip] # 0
        /\ UNCHANGED <<address, located, enqueuing, jobs, pending, failures, stopped, refused, late,
                       cache>>
    BY <1>2 DEF CheckPending, entries, queue, ghosts
  <2> HIDE DEF at
  <2> QED
    BY <1>1, <2>1, GoingOnPreserves DEF Holding
<1>3. CASE CheckInUse
  <2> DEFINE at == IF HasDeviceWithClientIp(worker.ip) THEN "resolve" ELSE "drop"
  <2>1. /\ worker.at = "inUse" /\ Goto(at) /\ at \in {"resolve", "drop"}
        /\ at = "drop" => \A d \in Devices : address[d] # worker.ip
        /\ UNCHANGED <<address, located, enqueuing, jobs, pending, failures, stopped, refused, late,
                       cache>>
    BY <1>3 DEF CheckInUse, HasDeviceWithClientIp, entries, queue, ghosts
  <2> HIDE DEF at
  <2> QED
    BY <1>1, <2>1, GoingOnPreserves DEF Holding
<1>4. CASE ResolveWithRetryInfo
  <2>1. worker.ip \in Addresses
    BY <1>4 DEF LookupInv, WorkerIsNamed, ResolveWithRetryInfo
  <2>2. PICK at \in {"found", "missed"} :
          /\ worker.at = "resolve" /\ Goto(at) /\ cache' \subseteq Addresses
          /\ UNCHANGED <<address, located, enqueuing, jobs, pending, failures, stopped, refused, late>>
    BY <1>1, <1>4, <2>1 DEF ResolveWithRetryInfo, entries, queue, ghosts
  <2> QED
    BY <2>2, GoingOnPreserves DEF Holding
<1>5. CASE CheckStillInUse
  <2> DEFINE at == IF ~HasDeviceWithClientIp(worker.ip) THEN "drop"
                   ELSE IF worker.at = "found" THEN "forget" ELSE "count"
  <2>1. /\ worker.at \in {"found", "missed"} /\ Goto(at) /\ at \in {"drop", "forget", "count"}
        /\ at = "drop" => \A d \in Devices : address[d] # worker.ip
        /\ UNCHANGED <<address, located, enqueuing, jobs, pending, failures, stopped, refused, late,
                       cache>>
    BY <1>5 DEF CheckStillInUse, HasDeviceWithClientIp, entries, queue, ghosts
  <2> HIDE DEF at
  <2> QED
    BY <1>1, <2>1, GoingOnPreserves DEF Holding
<1>6. CASE CheckRetry
  <2> DEFINE at == IF HasDeviceWithClientIp(worker.ip) THEN "retry" ELSE "drop"
  <2>1. /\ worker.at = "again" /\ Goto(at) /\ at \in {"retry", "drop"}
        /\ at = "drop" => \A d \in Devices : address[d] # worker.ip
        /\ UNCHANGED <<address, located, enqueuing, jobs, pending, failures, stopped, refused, late,
                       cache>>
    BY <1>6 DEF CheckRetry, HasDeviceWithClientIp, entries, queue, ghosts
  <2> HIDE DEF at
  <2> QED
    BY <1>1, <2>1, GoingOnPreserves DEF Holding
<1> QED
  BY <1>2, <1>3, <1>4, <1>5, <1>6

\* The worker lets go of an address that is pending no more, and nothing of it is queued.
LEMMA LetGo ==
  ASSUME LookupInv, worker.at \in Holding, worker'.at \notin Holding,
         jobs' = jobs, pending' = [pending EXCEPT ![worker.ip] = NoEntry]
  PROVE  /\ PendingIsQueued' /\ pending'[worker.ip] = NoEntry
         /\ pending' \in [Addresses -> {NoEntry} \cup 0..MaxDelay]
         /\ \A o \in Addresses \ {worker.ip} : pending'[o] = pending[o]
<1>1. /\ TypeOK /\ QueuedOnce /\ QueuedIsPending /\ PendingHasJob /\ worker.ip \in Addresses
      /\ MaxDelay \in Nat
  BY ExactDeduplication, LookupAssumption
  DEF LookupInv, WorkerIsNamed, Holding, LookupAssumption
<1>2. /\ pending'[worker.ip] = NoEntry
      /\ pending' \in [Addresses -> {NoEntry} \cup 0..MaxDelay]
      /\ \A o \in Addresses \ {worker.ip} : pending'[o] = pending[o]
  BY <1>1 DEF TypeOK
<1>3. QueuedOnce'
  BY <1>1 DEF QueuedOnce
<1>4. QueuedIsPending'
  <2> SUFFICES ASSUME NEW k \in DOMAIN jobs
               PROVE  pending'[jobs[k].ip] = jobs[k].runAt
    BY DEF QueuedIsPending, Held
  <2>1. jobs[k].ip \in Addresses
    BY <1>1, JobsType DEF JobRecords
  <2>2. pending[jobs[k].ip] = jobs[k].runAt /\ jobs[k].ip # worker.ip
    BY <1>1 DEF QueuedIsPending, Held
  <2> QED
    BY <1>2, <2>1, <2>2
<1>5. PendingHasJob'
  <2> SUFFICES ASSUME NEW o \in Addresses, pending'[o] # NoEntry
               PROVE  \E k \in DOMAIN jobs : jobs[k].ip = o
    BY DEF PendingHasJob, Held, NoEntry
  <2>1. o # worker.ip /\ pending[o] # NoEntry
    BY <1>2
  <2> QED
    BY <1>1, <2>1 DEF PendingHasJob, Held
<1>6. PendingIsQueued'
  <2>1. (QueuedOnce /\ QueuedIsPending /\ PendingHasJob)'
    BY <1>3, <1>4, <1>5
  <2> QED
    BY <2>1, ExactDeduplication, PTL
<1> QED
  BY <1>2, <1>6

\* A resolved address, and one without a device, is forgotten.
LEMMA ForgetResolvedPreserves ==
  ASSUME LookupInv, ForgetResolved
  PROVE  LookupInv'
<1>1. /\ worker.at = "forget" /\ worker' = [worker EXCEPT !.at = "spread"]
      /\ pending' = [pending EXCEPT ![worker.ip] = NoEntry]
      /\ failures' = [failures EXCEPT ![worker.ip] = 0]
      /\ UNCHANGED <<address, located, enqueuing, jobs, stopped, cache, refused, late>>
  BY DEF ForgetResolved, Erase, Goto, entries, ghosts
<1>2. TypeOK /\ worker.ip \in Addresses /\ MaxFailures \in Nat
  BY <1>1, LookupAssumption DEF LookupInv, WorkerIsNamed, LookupAssumption
<1>3. /\ worker' \in [at : Holding \cup {"idle", "spread"}, ip : Addresses \cup {NoAddress}]
      /\ worker'.at = "spread" /\ worker'.ip = worker.ip
  BY <1>1, <1>2 DEF TypeOK
<1>4. /\ PendingIsQueued' /\ pending'[worker.ip] = NoEntry
      /\ pending' \in [Addresses -> {NoEntry} \cup 0..MaxDelay]
      /\ \A o \in Addresses \ {worker.ip} : pending'[o] = pending[o]
  BY <1>1, <1>3, LetGo DEF Holding
<1>5. failures' \in [Addresses -> 0..MaxFailures]
  BY <1>1, <1>2 DEF TypeOK
<1>6. TypeOK'
  BY <1>1, <1>2, <1>3, <1>4, <1>5 DEF TypeOK
<1>7. JobsAreSorted' /\ StoppedIsEmpty'
  BY <1>1, <1>4 DEF LookupInv, JobsAreSorted, StoppedIsEmpty, NoEntry
<1>8. WorkerIsNamed' /\ HeldIsPending' /\ FailureIsCounted' /\ DroppedIsUnused'
  BY <1>2, <1>3 DEF WorkerIsNamed, HeldIsPending, FailureIsCounted, DroppedIsUnused, Holding
<1>9. LookupsGoOn'
  <2> SUFFICES ASSUME ~stopped, NEW d \in Devices
               PROVE  AwaitsLookup(d)' \/ address[d] \in refused \cup late
    BY <1>1 DEF LookupsGoOn
  <2>1. CASE address[d] = worker.ip
    BY <1>1, <1>3, <2>1 DEF AwaitsLookup
  <2>2. CASE address[d] # worker.ip
    <3>1. address[d] \in Addresses \cup {NoAddress}
      BY <1>2 DEF TypeOK
    <3> QED
      BY <1>1, <1>4, <2>2, <3>1 DEF LookupInv, LookupsGoOn, AwaitsLookup, NoEntry
  <2> QED
    BY <2>1, <2>2
<1> QED
  BY <1>4, <1>6, <1>7, <1>8, <1>9 DEF LookupInv

LEMMA SpreadPreserves ==
  ASSUME LookupInv, UpdateDevicesWithClientIp
  PROVE  LookupInv'
<1>1. /\ worker.at = "spread" /\ worker' = Idle
      /\ located' = located \cup {d \in Devices : address[d] = worker.ip}
      /\ UNCHANGED <<address, enqueuing, jobs, pending, failures, stopped, cache, refused, late>>
  BY DEF UpdateDevicesWithClientIp, Goto, queue, ghosts
<1>2. TypeOK /\ PendingIsQueued /\ worker.ip \in Addresses /\ NoAddress \notin Addresses
  BY <1>1, LookupAssumption DEF LookupInv, WorkerIsNamed, LookupAssumption
<1>3. /\ worker' \in [at : Holding \cup {"idle", "spread"}, ip : Addresses \cup {NoAddress}]
      /\ worker'.at = "idle"
  BY <1>1 DEF Idle
<1>4. PendingIsQueued'
  BY <1>1, <1>2, <1>3, SameDeduplication DEF Held, Holding
<1>5. TypeOK'
  <2>1. located' \subseteq {d \in Devices : address[d] # NoAddress}
    BY <1>1, <1>2 DEF TypeOK
  <2> QED
    BY <1>1, <1>2, <1>3, <2>1 DEF TypeOK
<1>6. JobsAreSorted' /\ StoppedIsEmpty' /\ WorkerIsNamed'
  BY <1>1, <1>3 DEF LookupInv, JobsAreSorted, StoppedIsEmpty, WorkerIsNamed
<1>7. HeldIsPending' /\ FailureIsCounted' /\ DroppedIsUnused'
  BY <1>3 DEF HeldIsPending, FailureIsCounted, DroppedIsUnused, Holding
<1>8. LookupsGoOn'
  BY <1>1 DEF LookupInv, LookupsGoOn, AwaitsLookup
<1> QED
  BY <1>4, <1>5, <1>6, <1>7, <1>8 DEF LookupInv

LEMMA CountFailurePreserves ==
  ASSUME LookupInv, CountFailure
  PROVE  LookupInv'
<1>1. /\ worker.at = "count" /\ worker' = [worker EXCEPT !.at = "again"]
      /\ failures' = [failures EXCEPT ![worker.ip] = IF @ < MaxFailures THEN @ + 1 ELSE @]
      /\ UNCHANGED <<address, located, enqueuing, jobs, pending, stopped, cache, refused, late>>
  BY DEF CountFailure, Goto, entries, ghosts
<1>2. /\ TypeOK /\ PendingIsQueued /\ worker.ip \in Addresses /\ MaxFailures \in Nat \ {0}
  BY <1>1, LookupAssumption DEF LookupInv, WorkerIsNamed, LookupAssumption
<1>3. /\ worker' \in [at : Holding \cup {"idle", "spread"}, ip : Addresses \cup {NoAddress}]
      /\ worker'.at = "again" /\ worker'.ip = worker.ip
  BY <1>1, <1>2 DEF TypeOK, Holding
<1>4. failures' \in [Addresses -> 0..MaxFailures] /\ failures'[worker.ip] > 0
  <2>1. failures \in [Addresses -> 0..MaxFailures]
    BY <1>2 DEF TypeOK
  <2> QED
    BY <1>1, <1>2, <2>1
<1>5. TypeOK'
  BY <1>1, <1>2, <1>3, <1>4 DEF TypeOK
<1>6. PendingIsQueued'
  BY <1>1, <1>2, <1>3, SameDeduplication DEF Held, Holding
<1>7. JobsAreSorted' /\ StoppedIsEmpty' /\ WorkerIsNamed'
  BY <1>1, <1>2, <1>3 DEF LookupInv, JobsAreSorted, StoppedIsEmpty, WorkerIsNamed
<1>8. HeldIsPending' /\ FailureIsCounted' /\ DroppedIsUnused'
  BY <1>1, <1>3, <1>4 DEF LookupInv, HeldIsPending, FailureIsCounted, DroppedIsUnused, Holding
<1>9. LookupsGoOn'
  BY <1>1, <1>3 DEF LookupInv, LookupsGoOn, AwaitsLookup
<1> QED
  BY <1>5, <1>6, <1>7, <1>8, <1>9 DEF LookupInv

\* The retry is due later by a delay that is positive; a job that meets a full queue, or a
\* queue that has been stopped, is given up.
LEMMA RetryPreserves ==
  ASSUME LookupInv, Retry
  PROVE  LookupInv'
<1> PICK i \in Addresses : i = worker.ip
  BY DEF LookupInv, WorkerIsNamed, Retry
<1> DEFINE r == RetryDelay[failures[i]]
<1>1. /\ worker.at = "retry" /\ worker' = Idle /\ worker'.at = "idle"
      /\ UNCHANGED <<address, located, enqueuing, failures, stopped, cache>>
  BY DEF Retry, Goto, entries, Idle
<1>2. /\ TypeOK /\ i \in Addresses /\ NoAddress \notin Addresses
      /\ MaxFailures \in Nat \ {0} /\ MaxDelay \in Nat
  BY <1>1, LookupAssumption DEF LookupInv, WorkerIsNamed, LookupAssumption
<1>3. worker' \in [at : Holding \cup {"idle", "spread"}, ip : Addresses \cup {NoAddress}]
  BY <1>1 DEF Idle
<1>4. Held(i) /\ ~ Held(i)' /\ \A o \in Addresses \ {i} : Held(o)' <=> Held(o)
  BY <1>1 DEF Held, Holding
<1>5. WorkerIsNamed' /\ HeldIsPending' /\ FailureIsCounted' /\ DroppedIsUnused'
  BY <1>1
  DEF WorkerIsNamed, HeldIsPending, FailureIsCounted, DroppedIsUnused, Holding
<1>6. CASE ~stopped /\ Len(jobs) < Capacity
  <2>1. /\ pending' = [pending EXCEPT ![i] = r] /\ jobs' = Pushed([ip |-> i, runAt |-> r])
        /\ refused' = refused /\ late' = late
    BY <1>6 DEF Retry, ghosts
  <2>2. r \in 1..MaxDelay
    <3>1. failures[i] \in 1..MaxFailures
      <4>1. failures[i] > 0
        BY <1>1, <1>6 DEF LookupInv, FailureIsCounted
      <4>2. failures[i] \in 0..MaxFailures
        BY <1>2 DEF TypeOK
      <4> QED
        BY <1>2, <4>1, <4>2
    <3> QED
      BY <3>1, RetryDelayType
  <2> HIDE DEF r
  <2>3. \A k \in DOMAIN jobs : jobs[k].ip # i
    <3>1. QueuedIsPending
      BY ExactDeduplication DEF LookupInv
    <3> QED
      BY <1>4, <3>1 DEF QueuedIsPending
  <2>4. /\ JobsAreSorted' /\ PendingIsQueued'
        /\ jobs' \in Seq(JobRecords) /\ Len(jobs') <= Capacity
        /\ pending' \in [Addresses -> {NoEntry} \cup 0..MaxDelay]
        /\ pending'[i] = r /\ \A o \in Addresses \ {i} : pending'[o] = pending[o]
    <3>1. r \in 0..MaxDelay
      BY <2>2
    <3> QED
      BY <1>2, <1>4, <1>6, <2>1, <2>3, <3>1, PushedKeepsDeduplication
  <2>5. TypeOK'
    BY <1>1, <1>2, <1>3, <2>1, <2>4 DEF TypeOK, JobRecords
  <2>6. StoppedIsEmpty'
    BY <1>1, <1>6 DEF StoppedIsEmpty
  <2>7. LookupsGoOn'
    <3> SUFFICES ASSUME NEW d \in Devices
                 PROVE  AwaitsLookup(d)' \/ address[d] \in refused \cup late
      BY <1>1, <2>1 DEF LookupsGoOn
    <3>1. CASE address[d] = i
      BY <1>1, <2>2, <2>4, <3>1 DEF AwaitsLookup, NoEntry
    <3>2. CASE address[d] # i
      <4>1. address[d] \in Addresses \cup {NoAddress}
        BY <1>2 DEF TypeOK
      <4> QED
        BY <1>1, <1>6, <2>4, <3>2, <4>1 DEF LookupInv, LookupsGoOn, AwaitsLookup
    <3> QED
      BY <3>1, <3>2
  <2> QED
    BY <1>5, <2>4, <2>5, <2>6, <2>7 DEF LookupInv
<1>7. CASE ~ (~stopped /\ Len(jobs) < Capacity)
  <2>1. /\ pending' = [pending EXCEPT ![i] = NoEntry] /\ refused' = refused \cup {i}
        /\ jobs' = jobs /\ late' = late
    BY <1>7 DEF Retry
  <2>2. /\ PendingIsQueued' /\ pending'[i] = NoEntry
        /\ pending' \in [Addresses -> {NoEntry} \cup 0..MaxDelay]
        /\ \A o \in Addresses \ {i} : pending'[o] = pending[o]
    BY <1>1, <2>1, LetGo DEF Holding
  <2>3. TypeOK'
    BY <1>1, <1>2, <1>3, <2>1, <2>2 DEF TypeOK
  <2>4. JobsAreSorted' /\ StoppedIsEmpty'
    BY <1>1, <2>1, <2>2 DEF LookupInv, JobsAreSorted, StoppedIsEmpty, NoEntry
  <2>5. LookupsGoOn'
    <3> SUFFICES ASSUME ~stopped, NEW d \in Devices
                 PROVE  AwaitsLookup(d)' \/ address[d] \in refused' \cup late
      BY <1>1, <2>1 DEF LookupsGoOn
    <3>1. CASE address[d] = i
      BY <2>1, <3>1
    <3>2. CASE address[d] # i
      <4>1. address[d] \in Addresses \cup {NoAddress}
        BY <1>2 DEF TypeOK
      <4> QED
        BY <1>1, <2>1, <2>2, <3>2, <4>1 DEF LookupInv, LookupsGoOn, AwaitsLookup, NoEntry
    <3> QED
      BY <3>1, <3>2
  <2> QED
    BY <1>5, <2>2, <2>3, <2>4, <2>5 DEF LookupInv
<1> QED
  BY <1>6, <1>7

\* An address is given up: a device that has come back with it was late, or is about to
\* queue a lookup of its own.
LEMMA DropPreserves ==
  ASSUME LookupInv, Drop
  PROVE  LookupInv'
<1>1. /\ worker.at = "drop" /\ worker' = Idle /\ worker'.at = "idle"
      /\ pending' = [pending EXCEPT ![worker.ip] = NoEntry]
      /\ failures' = [failures EXCEPT ![worker.ip] = 0]
      /\ UNCHANGED <<address, located, enqueuing, jobs, stopped, cache, refused, late>>
  BY DEF Drop, Erase, Goto, entries, ghosts, Idle
<1>2. TypeOK /\ worker.ip \in Addresses /\ MaxFailures \in Nat
  BY <1>1, LookupAssumption DEF LookupInv, WorkerIsNamed, LookupAssumption
<1>3. worker' \in [at : Holding \cup {"idle", "spread"}, ip : Addresses \cup {NoAddress}]
  BY <1>1 DEF Idle
<1>4. /\ PendingIsQueued' /\ pending'[worker.ip] = NoEntry
      /\ pending' \in [Addresses -> {NoEntry} \cup 0..MaxDelay]
      /\ \A o \in Addresses \ {worker.ip} : pending'[o] = pending[o]
  BY <1>1, LetGo DEF Holding
<1>5. TypeOK'
  <2>1. failures' \in [Addresses -> 0..MaxFailures]
    BY <1>1, <1>2 DEF TypeOK
  <2> QED
    BY <1>1, <1>2, <1>3, <1>4, <2>1 DEF TypeOK
<1>6. JobsAreSorted' /\ StoppedIsEmpty'
  BY <1>1, <1>4 DEF LookupInv, JobsAreSorted, StoppedIsEmpty, NoEntry
<1>7. WorkerIsNamed' /\ HeldIsPending' /\ FailureIsCounted' /\ DroppedIsUnused'
  BY <1>1 DEF WorkerIsNamed, HeldIsPending, FailureIsCounted, DroppedIsUnused, Holding
<1>8. LookupsGoOn'
  <2> SUFFICES ASSUME ~stopped, NEW d \in Devices
               PROVE  AwaitsLookup(d)' \/ address[d] \in refused \cup late
    BY <1>1 DEF LookupsGoOn
  <2>1. CASE address[d] = worker.ip
    <3>1. worker.ip \in late \cup {enqueuing}
      BY <1>1, <2>1 DEF LookupInv, DroppedIsUnused
    <3> QED
      BY <1>1, <2>1, <3>1 DEF AwaitsLookup
  <2>2. CASE address[d] # worker.ip
    <3>1. address[d] \in Addresses \cup {NoAddress}
      BY <1>2 DEF TypeOK
    <3> QED
      BY <1>1, <1>4, <2>2, <3>1 DEF LookupInv, LookupsGoOn, AwaitsLookup, NoEntry
  <2> QED
    BY <2>1, <2>2
<1> QED
  BY <1>4, <1>5, <1>6, <1>7, <1>8 DEF LookupInv

\* Time brings every job and its entry nearer by the same.
LEMMA TickPreserves ==
  ASSUME LookupInv, Tick
  PROVE  LookupInv'
<1> DEFINE n == Len(jobs)
           less(x) == IF x > 0 THEN x - 1 ELSE x
<1>1. /\ jobs' = [k \in DOMAIN jobs |-> [jobs[k] EXCEPT !.runAt = less(jobs[k].runAt)]]
      /\ pending' = [i \in Addresses |-> less(pending[i])]
      /\ UNCHANGED <<address, located, enqueuing, failures, stopped, cache, worker, refused, late>>
  BY DEF Tick, entries, ghosts
<1>2. /\ TypeOK /\ JobsAreSorted /\ QueuedOnce /\ QueuedIsPending /\ PendingHasJob
      /\ MaxDelay \in Nat
  BY ExactDeduplication, LookupAssumption DEF LookupInv, LookupAssumption
<1>3. /\ n \in Nat /\ DOMAIN jobs = 1..n /\ n <= Capacity
      /\ \A k \in 1..n : jobs[k] \in JobRecords
  BY <1>2, JobsType
<1>4. /\ \A x \in 0..MaxDelay : less(x) \in 0..MaxDelay
      /\ less(0) = 0 /\ less(NoEntry) = NoEntry
      /\ \A x \in {NoEntry} \cup 0..MaxDelay : x # NoEntry <=> less(x) # NoEntry
      /\ \A x, y \in 0..MaxDelay : x <= y => less(x) <= less(y)
  BY <1>2 DEF NoEntry
<1> HIDE DEF n, less
<1>5. /\ DOMAIN jobs' = 1..n
      /\ \A k \in 1..n : /\ jobs'[k] \in JobRecords /\ jobs'[k].ip = jobs[k].ip
                         /\ jobs'[k].runAt = less(jobs[k].runAt)
  BY <1>1, <1>3, <1>4 DEF JobRecords
<1>6. jobs' \in Seq(JobRecords) /\ Len(jobs') = n
  <2>1. jobs' \in [1..n -> JobRecords]
    BY <1>1, <1>3, <1>5
  <2> HIDE DEF JobRecords
  <2> QED
    BY <1>3, <2>1
<1>7. /\ pending' \in [Addresses -> {NoEntry} \cup 0..MaxDelay]
      /\ \A i \in Addresses : /\ pending'[i] = less(pending[i])
                              /\ pending'[i] # NoEntry <=> pending[i] # NoEntry
  <2>1. \A i \in Addresses : pending[i] \in {NoEntry} \cup 0..MaxDelay
    BY <1>2 DEF TypeOK
  <2> QED
    BY <1>1, <1>4, <2>1
<1>8. TypeOK'
  BY <1>1, <1>2, <1>3, <1>6, <1>7 DEF TypeOK, JobRecords
<1>9. JobsAreSorted'
  <2> SUFFICES ASSUME NEW j \in 1..n, NEW k \in 1..n, j <= k
               PROVE  jobs'[j].runAt <= jobs'[k].runAt
    BY <1>5 DEF JobsAreSorted
  <2>1. jobs[j].runAt <= jobs[k].runAt
    BY <1>2, <1>3 DEF JobsAreSorted
  <2>2. jobs[j].runAt \in 0..MaxDelay /\ jobs[k].runAt \in 0..MaxDelay
    BY <1>3 DEF JobRecords
  <2> QED
    BY <1>4, <1>5, <2>1, <2>2
<1>10. PendingIsQueued'
  <2>1. QueuedOnce'
    BY <1>2, <1>3, <1>5 DEF QueuedOnce
  <2>2. QueuedIsPending'
    <3> SUFFICES ASSUME NEW k \in 1..n
                 PROVE  pending'[jobs'[k].ip] = jobs'[k].runAt /\ ~ Held(jobs[k].ip)
      BY <1>1, <1>5 DEF QueuedIsPending, Held
    <3>1. jobs[k].ip \in Addresses
      BY <1>3 DEF JobRecords
    <3>2. pending[jobs[k].ip] = jobs[k].runAt /\ ~ Held(jobs[k].ip)
      BY <1>2, <1>3 DEF QueuedIsPending
    <3> QED
      BY <1>5, <1>7, <3>1, <3>2
  <2>3. PendingHasJob'
    <3> SUFFICES ASSUME NEW i \in Addresses, pending'[i] # NoEntry
                 PROVE  Held(i) \/ \E k \in 1..n : jobs'[k].ip = i
      BY <1>1, <1>5 DEF PendingHasJob, Held, NoEntry
    <3>1. Held(i) \/ \E k \in 1..n : jobs[k].ip = i
      BY <1>2, <1>3, <1>7 DEF PendingHasJob
    <3> QED
      BY <1>5, <3>1
  <2>4. (QueuedOnce /\ QueuedIsPending /\ PendingHasJob)'
    BY <2>1, <2>2, <2>3
  <2> QED
    BY <2>4, ExactDeduplication, PTL
<1>11. StoppedIsEmpty'
  <2>1. ~stopped
    <3>1. jobs # <<>>
      BY DEF Tick
    <3> QED
      BY <3>1 DEF LookupInv, StoppedIsEmpty
  <2> QED
    BY <1>1, <2>1 DEF StoppedIsEmpty
<1>12. WorkerIsNamed' /\ FailureIsCounted' /\ DroppedIsUnused'
  BY <1>1 DEF LookupInv, WorkerIsNamed, FailureIsCounted, DroppedIsUnused
<1>13. HeldIsPending'
  BY <1>1, <1>4, <1>7 DEF LookupInv, HeldIsPending, WorkerIsNamed, Holding
<1>14. LookupsGoOn'
  <2> SUFFICES ASSUME ~stopped, NEW d \in Devices
               PROVE  AwaitsLookup(d)' \/ address[d] \in refused \cup late
    BY <1>1 DEF LookupsGoOn
  <2>1. AwaitsLookup(d) \/ address[d] \in refused \cup late
    BY DEF LookupInv, LookupsGoOn
  <2>2. address[d] \in Addresses \cup {NoAddress}
    BY <1>2 DEF TypeOK
  <2> QED
    BY <1>1, <1>7, <2>1, <2>2 DEF AwaitsLookup, NoEntry
<1> QED
  BY <1>8, <1>9, <1>10, <1>11, <1>12, <1>13, <1>14 DEF LookupInv

-----------------------------------------------------------------------------
(* The invariant.                                                          *)

LEMMA LookupInvInit == Init => LookupInv
<1> SUFFICES ASSUME Init PROVE LookupInv
  OBVIOUS
<1> USE DEF Init, Idle
<1>1. TypeOK
  <2>1. /\ Capacity \in Nat /\ MaxFailures \in Nat
    BY LookupAssumption DEF LookupAssumption
  <2>2. /\ jobs \in Seq([ip : Addresses, runAt : 0..MaxDelay]) /\ Len(jobs) <= Capacity
    BY <2>1
  <2>3. failures \in [Addresses -> 0..MaxFailures]
    BY <2>1
  <2> QED
    BY <2>2, <2>3 DEF TypeOK
<1>2. JobsAreSorted /\ StoppedIsEmpty /\ WorkerIsNamed
  BY DEF JobsAreSorted, StoppedIsEmpty, WorkerIsNamed
<1>3. PendingIsQueued
  <2>1. QueuedOnce /\ QueuedIsPending /\ PendingHasJob
    BY DEF QueuedOnce, QueuedIsPending, PendingHasJob
  <2> QED
    BY <2>1, ExactDeduplication
<1>4. HeldIsPending /\ FailureIsCounted /\ DroppedIsUnused
  BY DEF HeldIsPending, FailureIsCounted, DroppedIsUnused, Holding
<1>5. LookupsGoOn
  BY DEF LookupsGoOn, AwaitsLookup
<1> QED
  BY <1>1, <1>2, <1>3, <1>4, <1>5 DEF LookupInv

LEMMA LookupInvStep == LookupInv /\ [Next]_vars => LookupInv'
<1> SUFFICES ASSUME LookupInv, [Next]_vars PROVE LookupInv'
  OBVIOUS
<1>1. ASSUME NEW d \in Devices, NEW i \in Addresses, SetDeviceNetworkInfo(d, i)
      PROVE  LookupInv'
  BY <1>1, EntriesPreserve
<1>2. ASSUME NEW i \in Addresses, QueueLookup(i) PROVE LookupInv'
  BY <1>2, QueueLookupPreserves
<1>3. ASSUME NEW d \in Devices, ForgetDevice(d) PROVE LookupInv'
  BY <1>3, EntriesPreserve
<1>4. CASE StopClientNetworkInfoWorker
  BY <1>4, StopPreserves
<1>5. CASE TakeJob
  BY <1>5, TakeJobPreserves
<1>6. CASE CheckPending \/ CheckInUse \/ ResolveWithRetryInfo \/ CheckStillInUse \/ CheckRetry
  BY <1>6, LooksPreserve
<1>7. CASE ForgetResolved
  BY <1>7, ForgetResolvedPreserves
<1>8. CASE UpdateDevicesWithClientIp
  BY <1>8, SpreadPreserves
<1>9. CASE CountFailure
  BY <1>9, CountFailurePreserves
<1>10. CASE Retry
  BY <1>10, RetryPreserves
<1>11. CASE Drop
  BY <1>11, DropPreserves
<1>12. CASE Tick
  BY <1>12, TickPreserves
<1>13. CASE UNCHANGED vars
  <2>1. UNCHANGED <<address, located, enqueuing, jobs, pending, failures, stopped, cache, worker,
                    refused, late>>
    BY <1>13 DEF vars, entries, queue, ghosts
  <2>2. PendingIsQueued'
    BY <2>1, SameDeduplication DEF LookupInv, Held
  <2>3. TypeOK' /\ JobsAreSorted' /\ StoppedIsEmpty' /\ WorkerIsNamed'
    BY <2>1 DEF LookupInv, TypeOK, JobsAreSorted, StoppedIsEmpty, WorkerIsNamed
  <2>4. HeldIsPending' /\ FailureIsCounted' /\ DroppedIsUnused' /\ LookupsGoOn'
    BY <2>1
    DEF LookupInv, HeldIsPending, FailureIsCounted, DroppedIsUnused, LookupsGoOn, AwaitsLookup
  <2> QED
    BY <2>2, <2>3, <2>4 DEF LookupInv
<1> QED
  BY <1>1, <1>2, <1>3, <1>4, <1>5, <1>6, <1>7, <1>8, <1>9, <1>10, <1>11, <1>12, <1>13
  DEF Next, Worker

LEMMA LookupInvariance == Spec => []LookupInv
  BY LookupInvInit, LookupInvStep, PTL DEF Spec

-----------------------------------------------------------------------------
(* The properties.                                                         *)

\* The deduplication of src/src/signal_server.cpp is exact whatever the order of logins,
\* logouts, lookups and retries: an address is pending just while one job for it is queued
\* or in the hands of the worker; and once the worker has been told to stop, nothing is
\* queued any more.
THEOREM DeduplicationIsExact == Spec => []QueueInv
<1>1. LookupInv => QueueInv
  BY DEF LookupInv, QueueInv
<1> QED
  BY <1>1, LookupInvariance, PTL

\* A device that is online and has no location has a lookup queued, in the hands of the
\* worker or on its way to the queue, unless the queue was full or the device logged in
\* just while the worker gave its address up.
THEOREM NoLookupIsLost == Spec => []LookupsGoOn
<1>1. LookupInv => LookupsGoOn
  BY DEF LookupInv
<1> QED
  BY <1>1, LookupInvariance, PTL
=============================================================================
