--------------------------- MODULE RequestsProofs ---------------------------
(***************************************************************************)
(* Proofs about the requests of the dashboard, its sessions and its list   *)
(* of devices, and about the behaviour that the run of Requests checks.    *)
(*                                                                         *)
(* The sessions: any tokens, any time to live, any bounds on the clock.    *)
(*                                                                         *)
(* The list: any ids and rows, any request.  That each order is strict and *)
(* total follows from the keys that are compared, the last of which is the *)
(* id; that a strictly ordered set can be listed, from how many elements   *)
(* come before each; and what a page contains, from an invariant about     *)
(* what was counted, listed and compared.                                  *)
(*                                                                         *)
(* Side by side: a step of the composition is a step of one component and  *)
(* a stutter of the others, so all that is proved of each holds of it.     *)
(***************************************************************************)
EXTENDS Requests, TransmissionMessagesProofs, FiniteSetTheorems, SequenceTheorems,
        WellFoundedInduction, TLAPS

-----------------------------------------------------------------------------
(* The sessions.                                                           *)

\* A session that lives on has been given no more than TTL: what is left of it,
\* and the time since its login, add up to at most TTL.
LifetimeIsSpent ==
  /\ \A t \in Tokens \ issued : expiry[t] = 0 /\ lifetime[t] = 0
  /\ setBacks = 0 => \A t \in issued : expiry[t] # 0 => expiry[t] + lifetime[t] <= now + TTL

\* What was refused has no entry any more, or there is no configuration.
RefusedIsForgotten ==
  \A t \in refused : t \in issued /\ (expiry[t] = 0 \/ ~enabled)

\* Without a configuration there are no sessions.
DisabledIsEmpty == ~enabled => \A t \in Tokens : expiry[t] = 0

AuthInv == AuthTypeOK /\ LifetimeIsSpent /\ RefusedIsForgotten /\ DisabledIsEmpty

\* What RemoveExpiredSessions does to one entry.
LEMMA RemovedOrKept ==
  ASSUME AuthAssumption, AuthTypeOK, NEW t \in Tokens
  PROVE  /\ RemoveExpiredSessions(expiry) \in [Tokens -> 0..MaxTime + TTL]
         /\ RemoveExpiredSessions(expiry)[t] \in {0, expiry[t]}
  BY DEF AuthAssumption, AuthTypeOK, RemoveExpiredSessions

\* Initially there are no sessions at all.
LEMMA AuthInvInit == AuthAssumption /\ AuthInit => AuthInv
  BY DEF AuthInit, AuthInv, AuthTypeOK, LifetimeIsSpent, RefusedIsForgotten, DisabledIsEmpty,
         AuthAssumption

\* Every request, a restart, and the clock in either direction preserve it.
LEMMA AuthInvStep == AuthAssumption /\ AuthInv /\ [AuthNext]_authVars => AuthInv'
<1> SUFFICES ASSUME AuthAssumption, AuthInv, [AuthNext]_authVars PROVE AuthInv'
  OBVIOUS
<1> USE DEF AuthAssumption, AuthInv, AuthTypeOK, LifetimeIsSpent, RefusedIsForgotten,
            DisabledIsEmpty
<1>1. ASSUME NEW t \in Tokens, LoginAdmin(t) PROVE AuthInv'
  BY <1>1, RemovedOrKept, SMTT(60) DEF LoginAdmin, RemoveExpiredSessions
<1>2. ASSUME NEW t \in Tokens, ValidateSession(t) PROVE AuthInv'
  BY <1>2, RemovedOrKept, SMTT(60) DEF ValidateSession, RemoveExpiredSessions, Accepted
<1>3. ASSUME NEW t \in Tokens, LogoutAdmin(t) PROVE AuthInv'
  BY <1>3, RemovedOrKept, SMTT(60) DEF LogoutAdmin, RemoveExpiredSessions, Accepted
<1>4. CASE AuthRestart
  BY <1>4 DEF AuthRestart
<1>5. CASE ClockTick
  BY <1>5, SMTT(60) DEF ClockTick
<1>6. CASE SetClockBack
  BY <1>6, SMTT(60) DEF SetClockBack
<1>7. CASE UNCHANGED authVars
  BY <1>7 DEF authVars
<1> QED
  BY <1>1, <1>2, <1>3, <1>4, <1>5, <1>6, <1>7 DEF AuthNext

\* The invariant holds throughout: a session is no older than it may be, and
\* what was refused has left sessions_.
THEOREM AuthInvariant == AuthSpec => []AuthInv
  BY AuthAssumption, AuthInvInit, AuthInvStep, PTL DEF AuthSpec

\* The tokens, times and histories keep their types; an expiry time never lies
\* further ahead than a login of now puts it.
THEOREM AuthTypeCorrect == AuthSpec => []AuthTypeOK
<1>1. AuthInv => AuthTypeOK
  BY DEF AuthInv
<1> QED
  BY <1>1, AuthInvariant, PTL

\* AdminAuth::ValidateSession: a token refused once is refused for ever, also when
\* the system clock is set back to before its expiry, because the refusal
\* removed its entry.
THEOREM RefusedForEver == AuthSpec => []RefusedStaysRefused
<1>1. AuthInv => RefusedStaysRefused
  <2> SUFFICES ASSUME AuthInv, NEW t \in refused PROVE ~Accepted(t)
    BY DEF RefusedStaysRefused
  <2>1. t \in Tokens /\ now > 0 /\ now \in Nat
    BY DEF AuthInv, AuthTypeOK
  <2> QED
    BY <2>1 DEF AuthInv, RefusedIsForgotten, Accepted
<1> QED
  BY <1>1, AuthInvariant, PTL

\* AdminAuth::ValidateSession does not renew a session: TTL after its login it is
\* refused, however often it was used, unless the clock was set back.
THEOREM SessionsEnd == AuthSpec => []SessionsExpire
<1>1. AuthInv => SessionsExpire
  <2> SUFFICES ASSUME AuthInv, NEW t \in issued, setBacks = 0, lifetime[t] = TTL
               PROVE  ~Accepted(t)
    BY DEF SessionsExpire
  <2>1. now \in Nat \ {0} /\ expiry[t] \in Nat /\ TTL \in Nat
    BY AuthAssumption DEF AuthAssumption, AuthInv, AuthTypeOK
  <2>2. expiry[t] # 0 => expiry[t] + TTL <= now + TTL
    BY DEF AuthInv, LifetimeIsSpent
  <2> QED
    BY <2>1, <2>2 DEF Accepted
<1> QED
  BY <1>1, AuthInvariant, PTL

-----------------------------------------------------------------------------
(* The orders of the list.                                                 *)

\* The order of ORDER BY on four columns: the first in which they differ decides.
Before(a, b) == \E i \in 1..4 : a[i] < b[i] /\ \A j \in 1..i - 1 : a[j] = b[j]

LEMMA BeforeIsStrict ==
  ASSUME NEW a \in [1..4 -> Int], NEW b \in [1..4 -> Int], NEW c \in [1..4 -> Int]
  PROVE  /\ ~Before(a, a)
         /\ Before(a, b) => ~Before(b, a)
         /\ Before(a, b) /\ Before(b, c) => Before(a, c)
         /\ a[4] # b[4] => Before(a, b) \/ Before(b, a)
<1> DEFINE Nested(x, y) ==
             \/ x[1] < y[1]
             \/ x[1] = y[1] /\ x[2] < y[2]
             \/ x[1] = y[1] /\ x[2] = y[2] /\ x[3] < y[3]
             \/ x[1] = y[1] /\ x[2] = y[2] /\ x[3] = y[3] /\ x[4] < y[4]
<1>1. ASSUME NEW x, NEW y PROVE Before(x, y) <=> Nested(x, y)
  <2>1. 1..4 = {1, 2, 3, 4} /\ 1..1 - 1 = {} /\ 1..2 - 1 = {1} /\ 1..3 - 1 = {1, 2} /\ 1..4 - 1 = {1, 2, 3}
    OBVIOUS
  <2> QED
    BY <2>1 DEF Before
<1>2. \A i \in {1, 2, 3, 4} : a[i] \in Int /\ b[i] \in Int /\ c[i] \in Int
  OBVIOUS
<1>3. a[1] \in Int /\ a[2] \in Int /\ a[3] \in Int /\ a[4] \in Int
  BY <1>2
<1>4. b[1] \in Int /\ b[2] \in Int /\ b[3] \in Int /\ b[4] \in Int
  BY <1>2
<1>5. c[1] \in Int /\ c[2] \in Int /\ c[3] \in Int /\ c[4] \in Int
  BY <1>2
<1>6. ~Nested(a, a) /\ (Nested(a, b) => ~Nested(b, a))
  BY <1>3, <1>4
<1>7. Nested(a, b) /\ Nested(b, c) => Nested(a, c)
  BY <1>3, <1>4, <1>5
<1>8. a[4] # b[4] => Nested(a, b) \/ Nested(b, a)
  BY <1>3, <1>4
<1> HIDE DEF Nested
<1> QED
  BY <1>1, <1>6, <1>7, <1>8

\* The key of a row: what is sorted by, and the last keys of every order.
Key(t, first, d) == <<first, - Bit(t[d].online), - t[d].updated, d>>

Signed(order, x) == IF order = "asc" THEN x ELSE - x

LEMMA KeyType ==
  ASSUME NEW t \in DeviceTables, NEW d \in Ids, NEW x \in Int
  PROVE  Key(t, x, d) \in [1..4 -> Int]
<1>1. d \in Nat /\ t[d].updated \in Nat /\ Bit(t[d].online) \in Nat
  BY QueriesAssumption DEF QueriesAssumption, DeviceTables, Bit
<1> QED
  BY <1>1 DEF Key

LEMMA FourKeys ==
  ASSUME NEW p, NEW q, NEW r, NEW s
  PROVE  <<p>> \o <<q, r, s>> = <<p, q, r, s>>
<1> DEFINE S == {p, q, r, s}
           u == <<p>> \o <<q, r, s>>
           v == <<p, q, r, s>>
<1>1. <<p>> \in Seq(S) /\ <<q, r, s>> \in Seq(S) /\ v \in Seq(S)
  OBVIOUS
<1>2. Len(<<p>>) = 1 /\ Len(<<q, r, s>>) = 3 /\ Len(v) = 4
  OBVIOUS
<1>3. u \in Seq(S) /\ Len(u) = 4
  BY <1>1, <1>2, ConcatProperties
<1>4. \A i \in 1..4 : u[i] = IF i <= 1 THEN <<p>>[i] ELSE <<q, r, s>>[i - 1]
  <2> HIDE DEF S
  <2> QED
    BY <1>1, <1>2, ConcatProperties
<1>5. \A i \in 1..4 : u[i] = v[i]
  <2> HIDE DEF u
  <2>1. u[1] = p /\ u[2] = q /\ u[3] = r /\ u[4] = s
    BY <1>4
  <2> QED
    BY <2>1
<1> HIDE DEF u, v, S
<1> QED
  BY <1>1, <1>2, <1>3, <1>5, SeqEqual DEF u, v

LEMMA PrecedesByKey ==
  ASSUME NEW t \in DeviceTables, NEW d \in Ids, NEW e \in Ids,
         NEW x \in Nat, NEW y \in Nat, NEW order \in Orders
  PROVE  Precedes(<<IF order = "asc" THEN Ascending(x, y) ELSE Descending(x, y)>>
                  \o LastKeys(t, d, e))
           <=> Before(Key(t, Signed(order, x), d), Key(t, Signed(order, y), e))
<1> DEFINE k1 == IF order = "asc" THEN <<x, y>> ELSE <<y, x>>
           k2 == <<Bit(t[e].online), Bit(t[d].online)>>
           k3 == <<t[e].updated, t[d].updated>>
           k4 == <<d, e>>
           keys == <<k1, k2, k3, k4>>
           a == Key(t, Signed(order, x), d)
           b == Key(t, Signed(order, y), e)
<1>1. <<IF order = "asc" THEN Ascending(x, y) ELSE Descending(x, y)>> \o LastKeys(t, d, e) = keys
  <2>1. LastKeys(t, d, e) = <<k2, k3, k4>>
    BY DEF LastKeys, Ascending, Descending
  <2>2. (IF order = "asc" THEN Ascending(x, y) ELSE Descending(x, y)) = k1
    BY DEF Ascending, Descending
  <2> HIDE DEF k1, k2, k3, k4
  <2>3. <<k1>> \o <<k2, k3, k4>> = <<k1, k2, k3, k4>>
    BY FourKeys
  <2> QED
    BY <2>1, <2>2, <2>3
<1>2. DOMAIN keys = 1..4
  OBVIOUS
<1>3. /\ d \in Nat /\ t[d].updated \in Nat /\ Bit(t[d].online) \in Nat
      /\ e \in Nat /\ t[e].updated \in Nat /\ Bit(t[e].online) \in Nat
  BY QueriesAssumption DEF QueriesAssumption, DeviceTables, Bit
<1>4. ASSUME NEW i \in 1..4
      PROVE  (keys[i][1] < keys[i][2] <=> a[i] < b[i]) /\ (keys[i][1] = keys[i][2] <=> a[i] = b[i])
  <2>1. CASE i = 1
    BY <1>3, <2>1 DEF Key, Signed, Orders
  <2>2. CASE i = 2
    BY <1>3, <2>2 DEF Key
  <2>3. CASE i = 3
    BY <1>3, <2>3 DEF Key
  <2>4. CASE i = 4
    BY <1>3, <2>4 DEF Key
  <2> QED
    BY <2>1, <2>2, <2>3, <2>4
<1> HIDE DEF keys, a, b
<1>5. Precedes(keys) <=> Before(a, b)
  <2>1. \A i \in 1..4 : \A j \in 1..i - 1 : j \in 1..4
    OBVIOUS
  <2> QED
    BY <1>2, <1>4, <2>1 DEF Precedes, Before
<1> QED
  BY <1>1, <1>5 DEF a, b

SortKey(t, sort, order, d) == Key(t, Signed(order, SortColumn(t, sort, d)), d)

LEMMA SortClauseByKey ==
  ASSUME NEW t \in DeviceTables, NEW sort \in Sorts, NEW order \in Orders,
         NEW d \in Ids, NEW e \in Ids
  PROVE  /\ SortKey(t, sort, order, d) \in [1..4 -> Int] /\ SortKey(t, sort, order, d)[4] = d
         /\ DevicePresenceSortClause(t, sort, order, d, e)
              <=> Before(SortKey(t, sort, order, d), SortKey(t, sort, order, e))
<1>1. \A c \in Ids : SortColumn(t, sort, c) \in Nat
  BY QueriesAssumption DEF QueriesAssumption, DeviceTables, Sorts, SortColumn, Bit
<1> DEFINE x == SortColumn(t, sort, d)
           y == SortColumn(t, sort, e)
<1>2. x \in Nat /\ y \in Nat
  BY <1>1
<1>3. DevicePresenceSortClause(t, sort, order, d, e)
        <=> Precedes(<<IF order = "asc" THEN Ascending(x, y) ELSE Descending(x, y)>>
                     \o LastKeys(t, d, e))
  BY DEF DevicePresenceSortClause
<1> HIDE DEF x, y
<1>4. Signed(order, x) \in Int
  BY <1>2 DEF Signed
<1>5. DevicePresenceSortClause(t, sort, order, d, e)
        <=> Before(Key(t, Signed(order, x), d), Key(t, Signed(order, y), e))
  BY <1>2, <1>3, PrecedesByKey
<1>6. Key(t, Signed(order, x), d) \in [1..4 -> Int]
  BY <1>4, KeyType
<1> QED
  BY <1>5, <1>6 DEF SortKey, Key, x, y

LEMMA RowOrderIsStrict ==
  ASSUME NEW t \in DeviceTables, NEW sort \in Sorts, NEW order \in Orders
  PROVE  StrictlyOrders(RowOrder(t, sort, order), Ids)
<1> DEFINE k(d) == SortKey(t, sort, order, d)
<1>1. \A d, e \in Ids : <<d, e>> \in RowOrder(t, sort, order) <=> Before(k(d), k(e))
  BY SortClauseByKey DEF RowOrder
<1>2. \A d \in Ids : k(d) \in [1..4 -> Int] /\ k(d)[4] = d
  BY SortClauseByKey
<1> HIDE DEF k
<1>3. ASSUME NEW d \in Ids, NEW e \in Ids, NEW f \in Ids
      PROVE  /\ ~Before(k(d), k(d))
             /\ Before(k(d), k(e)) /\ Before(k(e), k(f)) => Before(k(d), k(f))
             /\ d # e => Before(k(d), k(e)) \/ Before(k(e), k(d))
  BY <1>2, BeforeIsStrict
<1> QED
  BY <1>1, <1>3 DEF StrictlyOrders

-----------------------------------------------------------------------------
(* Lists.                                                                  *)

\* What comes before d in S.
Preceding(S, R, d) == {e \in S : <<e, d>> \in R}

\* A set that is strictly and totally ordered is listed in that order, each
\* element once.
LEMMA InOrderLists ==
  ASSUME NEW S, IsFiniteSet(S), NEW R, StrictlyOrders(R, S)
  PROVE  /\ Cardinality(S) \in Nat
         /\ InOrder(S, R) \in [1..Cardinality(S) -> S]
         /\ \A d \in S : \E i \in 1..Cardinality(S) : InOrder(S, R)[i] = d
         /\ \A i, j \in 1..Cardinality(S) : i < j <=> <<InOrder(S, R)[i], InOrder(S, R)[j]>> \in R
<1> DEFINE n == Cardinality(S)
           P(d) == Preceding(S, R, d)
           rank == [d \in S |-> Cardinality(P(d))]
<1>1. n \in Nat /\ \A d \in S : IsFiniteSet(P(d)) /\ Cardinality(P(d)) \in Nat
  BY FS_Subset, FS_CardinalityType DEF Preceding
<1>2. ASSUME NEW d \in S PROVE rank[d] \in 0..n - 1
  <2>1. P(d) \in SUBSET S /\ P(d) # S
    BY DEF Preceding, StrictlyOrders
  <2>2. Cardinality(P(d)) <= n /\ Cardinality(P(d)) # n
    BY <2>1, FS_Subset
  <2> QED
    BY <1>1, <2>2
<1>3. ASSUME NEW d \in S, NEW e \in S, <<d, e>> \in R PROVE rank[d] < rank[e]
  <2>1. P(d) \in SUBSET P(e) /\ P(d) # P(e)
    BY <1>3 DEF Preceding, StrictlyOrders
  <2>2. Cardinality(P(d)) <= Cardinality(P(e)) /\ Cardinality(P(d)) # Cardinality(P(e))
    <3>1. IsFiniteSet(P(e))
      BY <1>1
    <3> HIDE DEF P
    <3> QED
      BY <2>1, <3>1, FS_Subset
  <2> QED
    BY <1>1, <2>2
<1>4. \A d, e \in S : rank[d] < rank[e] <=> <<d, e>> \in R
  <2>1. \A d \in S : rank[d] \in Nat
    BY <1>1
  <2> HIDE DEF rank
  <2>2. ASSUME NEW d \in S, NEW e \in S, rank[d] < rank[e] PROVE <<d, e>> \in R
    <3>1. d # e /\ ~(rank[e] < rank[d])
      BY <2>1, <2>2
    <3>2. <<e, d>> \notin R
      BY <1>3, <3>1
    <3> QED
      BY <3>1, <3>2 DEF StrictlyOrders
  <2> QED
    BY <1>3, <2>2
<1>5. \A d, e \in S : d # e => rank[d] # rank[e]
  <2>1. \A d \in S : rank[d] \in Nat
    BY <1>1
  <2>2. \A d, e \in S : <<d, e>> \in R => rank[d] < rank[e]
    BY <1>3
  <2> HIDE DEF rank
  <2> SUFFICES ASSUME NEW d \in S, NEW e \in S, d # e PROVE rank[d] # rank[e]
    OBVIOUS
  <2>3. <<d, e>> \in R \/ <<e, d>> \in R
    BY DEF StrictlyOrders
  <2>4. rank[d] < rank[e] \/ rank[e] < rank[d]
    BY <2>2, <2>3
  <2> QED
    BY <2>1, <2>4
<1>6. rank \in Surjection(S, 0..n - 1)
  <2>1. IsFiniteSet(0..n - 1) /\ Cardinality(0..n - 1) = n
    <3>1. 0 \in Int /\ n - 1 \in Int
      BY <1>1
    <3>2. Cardinality(0..n - 1) = IF 0 > n - 1 THEN 0 ELSE n - 1 - 0 + 1
      BY <3>1, FS_Interval
    <3> QED
      BY <1>1, <3>1, <3>2, FS_Interval
  <2>2. rank \in [S -> 0..n - 1]
    BY <1>2
  <2> HIDE DEF rank
  <2>3. rank \in Injection(S, 0..n - 1)
    BY <1>5, <2>2 DEF Injection, IsInjective
  <2> QED
    BY <2>1, <2>3, FS_Injection
<1>7. ASSUME NEW i \in 1..n
      PROVE  InOrder(S, R)[i] \in S /\ rank[InOrder(S, R)[i]] = i - 1
  <2>1. i - 1 \in 0..n - 1
    BY <1>1
  <2>2. \E d \in S : rank[d] = i - 1
    BY <1>6, <2>1 DEF Surjection
  <2>3. \E d \in S : Cardinality(P(d)) = i - 1
    BY <2>2
  <2>4. InOrder(S, R)[i] = CHOOSE d \in S : Cardinality(P(d)) = i - 1
    BY DEF InOrder, Preceding
  <2> HIDE DEF P
  <2>5. InOrder(S, R)[i] \in S /\ Cardinality(P(InOrder(S, R)[i])) = i - 1
    BY <2>3, <2>4
  <2> QED
    BY <2>5
<1> DEFINE s == InOrder(S, R)
<1>8. s \in [1..n -> S]
  <2> DEFINE first(i) == CHOOSE d \in S : Cardinality({e \in S : <<e, d>> \in R}) = i - 1
  <2>1. s = [i \in 1..n |-> first(i)]
    BY DEF InOrder
  <2>2. \A i \in 1..n : s[i] \in S
    BY <1>7
  <2> HIDE DEF s, first
  <2>3. \A i \in 1..n : first(i) \in S
    BY <2>1, <2>2
  <2> QED
    BY <2>1, <2>3
<1>9. \A i \in 1..n : s[i] \in S /\ rank[s[i]] = i - 1
  BY <1>7
<1>10. \A d \in S : rank[d] \in 0..n - 1
  BY <1>2
<1> HIDE DEF s, rank, P, n
<1>11. \A d \in S : \E i \in 1..n : s[i] = d
  <2> SUFFICES ASSUME NEW d \in S PROVE \E i \in 1..n : s[i] = d
    OBVIOUS
  <2> DEFINE i == rank[d] + 1
  <2>1. i \in 1..n /\ i - 1 = rank[d]
    BY <1>1, <1>10
  <2> HIDE DEF i
  <2>2. s[i] = d
    BY <1>5, <1>9, <2>1
  <2> QED
    BY <2>1, <2>2
<1>12. \A i, j \in 1..n : i < j <=> <<s[i], s[j]>> \in R
  <2> SUFFICES ASSUME NEW i \in 1..n, NEW j \in 1..n PROVE i < j <=> <<s[i], s[j]>> \in R
    OBVIOUS
  <2>1. i < j <=> rank[s[i]] < rank[s[j]]
    <3>1. rank[s[i]] = i - 1 /\ rank[s[j]] = j - 1
      BY <1>9
    <3>2. i < j <=> i - 1 < j - 1
      BY <1>1
    <3> QED
      BY <3>1, <3>2
  <2> QED
    BY <1>4, <1>9, <2>1
<1> QED
  BY <1>1, <1>8, <1>11, <1>12 DEF s, n

\* A sequence of elements of S, without repetitions and in the order R.
Lists(s, S, R) ==
  /\ s \in Seq(S) /\ \A i, j \in DOMAIN s : s[i] = s[j] => i = j
  /\ \A i, j \in DOMAIN s : i < j => <<s[i], s[j]>> \in R

\* How long a page of n rows is.
PageLength(n, limit, offset) ==
  LET rest == IF offset < n THEN n - offset ELSE 0 IN IF limit < rest THEN limit ELSE rest

LEMMA InOrderIsList ==
  ASSUME NEW S, IsFiniteSet(S), NEW R, StrictlyOrders(R, S)
  PROVE  /\ Lists(InOrder(S, R), S, R) /\ Len(InOrder(S, R)) = Cardinality(S)
         /\ Cardinality(S) \in Nat
<1> DEFINE s == InOrder(S, R)
           n == Cardinality(S)
<1>1. n \in Nat /\ s \in [1..n -> S] /\ \A i, j \in 1..n : i < j <=> <<s[i], s[j]>> \in R
  BY InOrderLists
<1> HIDE DEF s, n
<1>2. s \in Seq(S) /\ Len(s) = n /\ DOMAIN s = 1..n
  BY <1>1
<1>3. ASSUME NEW i \in 1..n, NEW j \in 1..n, s[i] = s[j] PROVE i = j
  <2>1. ~(i < j) /\ ~(j < i)
    <3>1. <<s[i], s[i]>> \notin R
      BY <1>1 DEF StrictlyOrders
    <3> QED
      BY <1>1, <1>3, <3>1
  <2> QED
    BY <2>1
<1> QED
  BY <1>1, <1>2, <1>3 DEF s, n, Lists

\* A part of a list is a list.
LEMMA PartOfList ==
  ASSUME NEW S, NEW s, NEW R, Lists(s, S, R), NEW first \in Nat, NEW last \in Nat, last <= Len(s)
  PROVE  /\ Lists(SubSeq(s, first + 1, last), S, R)
         /\ Len(SubSeq(s, first + 1, last)) = IF first < last THEN last - first ELSE 0
         /\ \A i \in 1..last - first : SubSeq(s, first + 1, last)[i] = s[first + i]
<1> DEFINE p == SubSeq(s, first + 1, last)
<1>1. s \in Seq(S) /\ Len(s) \in Nat /\ DOMAIN s = 1..Len(s)
  BY LenProperties DEF Lists
<1>2. \A i \in first + 1..last : i \in 1..Len(s) /\ s[i] \in S
  BY <1>1
<1>3. /\ p \in Seq(S) /\ Len(p) = IF first + 1 <= last THEN last - (first + 1) + 1 ELSE 0
      /\ \A i \in 1..last - (first + 1) + 1 : p[i] = s[first + 1 + i - 1]
  <2>1. first + 1 \in Int /\ last \in Int /\ \A i \in first + 1..last : s[i] \in S
    BY <1>2
  <2> QED
    BY <2>1, SubSeqProperties
<1> HIDE DEF p
<1>4. Len(p) = (IF first < last THEN last - first ELSE 0) /\ DOMAIN p = 1..Len(p)
  BY <1>3
<1>5. \A i \in 1..last - first : p[i] = s[first + i] /\ first + i \in DOMAIN s
  <2> SUFFICES ASSUME NEW i \in 1..last - first PROVE p[i] = s[first + i] /\ first + i \in DOMAIN s
    OBVIOUS
  <2>1. i \in 1..last - (first + 1) + 1 /\ first + 1 + i - 1 = first + i /\ first + i \in 1..Len(s)
    BY <1>1
  <2> QED
    BY <1>1, <1>3, <2>1
<1>6. \A i \in DOMAIN p : i \in 1..last - first
  BY <1>4
<1>7. \A i, j \in DOMAIN p : p[i] = p[j] => i = j
  <2> SUFFICES ASSUME NEW i \in DOMAIN p, NEW j \in DOMAIN p, p[i] = p[j] PROVE i = j
    OBVIOUS
  <2>1. i \in 1..last - first /\ j \in 1..last - first
    BY <1>6
  <2>2. first + i = first + j
    BY <1>5, <2>1 DEF Lists
  <2> QED
    BY <2>1, <2>2
<1>8. \A i, j \in DOMAIN p : i < j => <<p[i], p[j]>> \in R
  <2> SUFFICES ASSUME NEW i \in DOMAIN p, NEW j \in DOMAIN p, i < j PROVE <<p[i], p[j]>> \in R
    OBVIOUS
  <2>1. i \in 1..last - first /\ j \in 1..last - first
    BY <1>6
  <2>2. first + i < first + j
    BY <2>1
  <2> QED
    BY <1>5, <2>1, <2>2 DEF Lists
<1> QED
  BY <1>3, <1>4, <1>5, <1>7, <1>8 DEF Lists, p

\* Pages of a list of n rows, as the database and as the handler cut them.
LEMMA SqlPageIsList ==
  ASSUME NEW S, NEW s, NEW R, Lists(s, S, R), NEW limit \in Nat, NEW offset \in Nat
  PROVE  /\ Lists(SqlPage(s, limit, offset), S, R)
         /\ Len(SqlPage(s, limit, offset)) =
              PageLength(Len(s), limit, IF offset >= Word THEN 0 ELSE offset)
<1> DEFINE first == IF offset >= Word THEN 0 ELSE offset
           last == IF first + limit < Len(s) THEN first + limit ELSE Len(s)
<1>1. Len(s) \in Nat /\ first \in Nat
  BY LenProperties, QueriesAssumption DEF Lists
<1>2. SqlPage(s, limit, offset) = SubSeq(s, first + 1, last)
  BY DEF SqlPage
<1> HIDE DEF first
<1>3. last \in Nat /\ last <= Len(s)
  BY <1>1
<1>4. (IF first < last THEN last - first ELSE 0) = PageLength(Len(s), limit, first)
  BY <1>1 DEF PageLength
<1> HIDE DEF last
<1>5. /\ Lists(SqlPage(s, limit, offset), S, R)
      /\ Len(SqlPage(s, limit, offset)) = PageLength(Len(s), limit, first)
  BY <1>1, <1>2, <1>3, <1>4, PartOfList
<1> QED
  BY <1>5 DEF first

LEMMA DevicePageIsList ==
  ASSUME NEW S, NEW s, NEW R, Lists(s, S, R), NEW limit \in Nat, NEW offset \in Nat
  PROVE  /\ Lists(ApplyDevicePage(s, offset, limit), S, R)
         /\ Len(ApplyDevicePage(s, offset, limit)) = PageLength(Len(s), limit, offset)
<1>1. Len(s) \in Nat
  BY LenProperties DEF Lists
<1>2. CASE offset >= Len(s)
  <2>1. ApplyDevicePage(s, offset, limit) = <<>>
    BY <1>2 DEF ApplyDevicePage
  <2>2. <<>> \in Seq(S) /\ Len(<<>>) = 0 /\ DOMAIN <<>> = {}
    OBVIOUS
  <2>3. PageLength(Len(s), limit, offset) = 0
    BY <1>1, <1>2 DEF PageLength
  <2> QED
    BY <2>1, <2>2, <2>3 DEF Lists
<1>3. CASE offset < Len(s)
  <2> DEFINE last == offset + (IF limit < Len(s) - offset THEN limit ELSE Len(s) - offset)
  <2>1. ApplyDevicePage(s, offset, limit) = SubSeq(s, offset + 1, last)
    BY <1>1, <1>3 DEF ApplyDevicePage
  <2>2. last \in Nat /\ last <= Len(s)
    BY <1>1, <1>3
  <2>3. (IF offset < last THEN last - offset ELSE 0) = PageLength(Len(s), limit, offset)
    BY <1>1, <1>3 DEF PageLength
  <2> HIDE DEF last
  <2> DEFINE p == SubSeq(s, offset + 1, last)
  <2>4. Lists(p, S, R) /\ Len(p) = IF offset < last THEN last - offset ELSE 0
    BY <2>2, PartOfList
  <2> HIDE DEF p
  <2> QED
    BY <2>1, <2>3, <2>4 DEF p
<1> QED
  BY <1>1, <1>2, <1>3

LEMMA SelectedIds ==
  ASSUME NEW t, NEW search \in SUBSET Ids, NEW filter, NEW kind
  PROVE  /\ Selected(t, search, filter, kind) \in SUBSET Ids
         /\ IsFiniteSet(Selected(t, search, filter, kind)) /\ Cardinality(Ids) \in Nat
         /\ Cardinality(Selected(t, search, filter, kind)) \in 0..Cardinality(Ids)
<1> DEFINE S == Selected(t, search, filter, kind)
<1>1. S \in SUBSET Ids
  BY DEF Selected
<1> HIDE DEF S
<1>2. IsFiniteSet(S) /\ IsFiniteSet(Ids) /\ Cardinality(S) <= Cardinality(Ids)
  BY <1>1, FS_Subset, QueriesAssumption DEF QueriesAssumption
<1>3. Cardinality(S) \in Nat /\ Cardinality(Ids) \in Nat
  BY <1>2, FS_CardinalityType
<1> QED
  BY <1>1, <1>2, <1>3 DEF S

\* A list of device_presence is a page of the rows that it selects.
LEMMA ListIsPage ==
  ASSUME NEW t \in DeviceTables, NEW search \in SUBSET Ids,
         NEW filter \in Filters, NEW kind \in Kinds, NEW sort \in Sorts, NEW order \in Orders,
         NEW limit \in Nat, NEW offset \in Nat
  PROVE  /\ Lists(ListDevicePresence(t, limit, offset, search, filter, sort, order, kind),
                  Ids, RowOrder(t, sort, order))
         /\ Len(ListDevicePresence(t, limit, offset, search, filter, sort, order, kind)) =
              PageLength(Cardinality(Selected(t, search, filter, kind)), limit,
                         IF offset >= Word THEN 0 ELSE offset)
<1> DEFINE S == Selected(t, search, filter, kind)
           R == RowOrder(t, sort, order)
           s == ListDevicePresence(t, limit, offset, search, filter, sort, order, kind)
<1>1. S \in SUBSET Ids /\ IsFiniteSet(S)
  BY SelectedIds
<1>2. s = SqlPage(InOrder(S, R), limit, offset)
  BY DEF ListDevicePresence
<1>3. StrictlyOrders(R, Ids)
  BY RowOrderIsStrict
<1> HIDE DEF S, R, s
<1>4. StrictlyOrders(R, S)
  BY <1>1, <1>3 DEF StrictlyOrders
<1>6. Lists(InOrder(S, R), S, R) /\ Len(InOrder(S, R)) = Cardinality(S)
  BY <1>1, <1>4, InOrderIsList
<1>8. Lists(InOrder(S, R), Ids, R)
  BY <1>1, <1>6 DEF Lists
<1>9. Lists(s, Ids, R) /\ Len(s) = PageLength(Cardinality(S), limit, IF offset >= Word THEN 0 ELSE offset)
  BY <1>2, <1>6, <1>8, SqlPageIsList
<1> QED
  BY <1>9 DEF S, R, s

\* What is counted for a filter is how many rows it selects.
LEMMA CountIsLength ==
  ASSUME NEW t \in DeviceTables, NEW search \in SUBSET Ids,
         NEW filter \in Filters, NEW kind \in Kinds
  PROVE  CountForDeviceFilter(CountDevicePresenceByFilters(t, search, kind), filter)
           = Cardinality(Selected(t, search, filter, kind))
<1>1. CASE filter = "all"
  BY <1>1 DEF CountForDeviceFilter, CountDevicePresenceByFilters, Selected,
     DevicePresenceFilterClause
<1>2. CASE filter = "online"
  BY <1>2 DEF CountForDeviceFilter, CountDevicePresenceByFilters, Selected,
     DevicePresenceFilterClause
<1>3. CASE filter = "offline"
  BY <1>3 DEF CountForDeviceFilter, CountDevicePresenceByFilters, Selected,
     DevicePresenceFilterClause
<1>4. CASE filter = "active"
  BY <1>4 DEF CountForDeviceFilter, CountDevicePresenceByFilters, Selected,
     DevicePresenceFilterClause
<1>5. CASE filter = "web"
  BY <1>5 DEF CountForDeviceFilter, CountDevicePresenceByFilters, Selected,
     DevicePresenceFilterClause
<1> QED
  BY <1>1, <1>2, <1>3, <1>4, <1>5 DEF Filters

\* A row is either online or offline.
LEMMA CountsAddUp ==
  ASSUME NEW t \in DeviceTables, NEW search \in SUBSET Ids, NEW kind \in Kinds
  PROVE  LET counts == CountDevicePresenceByFilters(t, search, kind) IN
         counts.all = counts.online + counts.offline
<1> DEFINE A == DevicePresenceKindClause(kind) \cap search
           On == {d \in DevicePresenceKindClause(kind) : t[d].online} \cap search
           Off == {d \in DevicePresenceKindClause(kind) : ~t[d].online} \cap search
           counts == CountDevicePresenceByFilters(t, search, kind)
<1>1. counts.all = Cardinality(A) /\ counts.online = Cardinality(On)
      /\ counts.offline = Cardinality(Off)
  BY DEF CountDevicePresenceByFilters
<1>2. A = On \cup Off /\ On \cap Off = {} /\ On \in SUBSET Ids /\ Off \in SUBSET Ids
  OBVIOUS
<1> HIDE DEF A, On, Off, counts
<1>3. IsFiniteSet(On) /\ IsFiniteSet(Off)
  BY <1>2, FS_Subset, QueriesAssumption DEF QueriesAssumption
<1>4. Cardinality(A) = Cardinality(On) + Cardinality(Off) - Cardinality(On \cap Off)
  BY <1>2, <1>3, FS_Union
<1>5. Cardinality(On) \in Nat /\ Cardinality(Off) \in Nat /\ Cardinality(On \cap Off) = 0
  BY <1>2, <1>3, FS_CardinalityType, FS_EmptySet
<1> QED
  BY <1>1, <1>4, <1>5 DEF counts

-----------------------------------------------------------------------------
(* Numbers in requests.                                                    *)

\* One step of the parser, from the exact value x of the digits so far.
Exact(x) == IF x <= SizeMax THEN x ELSE -1

LEMMA ExactStep ==
  ASSUME NEW x \in Nat, NEW d \in 0..9
  PROVE  (IF Exact(x) = -1 \/ Exact(x) > (SizeMax - d) \div 10 THEN -1
          ELSE (Exact(x) * 10 + d) % (SizeMax + 1)) = Exact(10 * x + d)
<1>1. SizeMax \in Nat
  BY QueriesAssumption DEF QueriesAssumption, SizeMax
<1> DEFINE M == SizeMax
           q == (M - d) \div 10
<1>2. M \in Nat
  BY <1>1
<1> HIDE DEF M
<1>3. q \in Int /\ 10 * q <= M - d /\ M - d < 10 * q + 10
  <2>1. \A z \in Int : z \div 10 \in Int /\ 10 * (z \div 10) <= z /\ z < 10 * (z \div 10) + 10
    OBVIOUS
  <2>2. M - d \in Int
    BY <1>2
  <2> QED
    BY <2>1, <2>2
<1>4. x > q <=> 10 * x + d > M
  <2> HIDE DEF q
  <2> QED
    BY <1>2, <1>3
<1>5. ASSUME 10 * x + d <= M PROVE (x * 10 + d) % (M + 1) = 10 * x + d
  <2>1. \A y, z \in Nat : y < z => y % z = y
    OBVIOUS
  <2>2. x * 10 + d = 10 * x + d /\ 10 * x + d \in Nat /\ M + 1 \in Nat /\ 10 * x + d < M + 1
    BY <1>2, <1>5
  <2> QED
    BY <2>1, <2>2
<1>6. CASE x <= M
  <2>1. Exact(x) = x /\ x # -1
    BY <1>6 DEF Exact, M
  <2>2. CASE 10 * x + d <= M
    <3>1. Exact(10 * x + d) = 10 * x + d
      BY <2>2 DEF Exact, M
    <3>2. ~(x > q)
      BY <1>4, <2>2, <1>2
    <3> HIDE DEF q
    <3> QED
      BY <1>5, <2>1, <2>2, <3>1, <3>2 DEF M, q
  <2>3. CASE ~(10 * x + d <= M)
    <3>1. Exact(10 * x + d) = -1
      BY <2>3 DEF Exact, M
    <3>2. x > q
      BY <1>4, <2>3, <1>2
    <3> HIDE DEF q
    <3> QED
      BY <2>1, <3>1, <3>2 DEF M, q
  <2> QED
    BY <2>2, <2>3
<1>7. CASE ~(x <= M)
  <2>1. Exact(x) = -1
    BY <1>7 DEF Exact, M
  <2>2. ~(10 * x + d <= M)
    BY <1>2, <1>7
  <2>3. Exact(10 * x + d) = -1
    BY <2>2 DEF Exact, M
  <2> QED
    BY <2>1, <2>3
<1> QED
  BY <1>6, <1>7

\* Induction up to n, for a set that is given by what its members satisfy.
LEMMA InductiveUpTo ==
  ASSUME NEW n \in Nat, NEW T, 0 \in T, \A k \in 1..n : k - 1 \in T => k \in T
  PROVE  \A k \in 0..n : k \in T
<1> SUFFICES ASSUME NEW k \in (0..n) \ T PROVE FALSE
  OBVIOUS
<1> DEFINE R == OpToRel(<, Nat)
           M == (0..n) \ T
<1>1. \A x, y \in Nat : <<x, y>> \in R <=> x < y
  BY DEF OpToRel
<1>2. IsWellFoundedOn(R, Nat)
  BY NatLessThanWellFounded
<1> HIDE DEF R
<1>3. PICK m \in M : \A y \in M : ~(<<y, m>> \in R)
  <2>1. M \in SUBSET Nat /\ M # {}
    OBVIOUS
  <2> HIDE DEF M
  <2> QED
    BY <1>2, <2>1, WFMin
<1>4. m \in 1..n /\ m - 1 \in 0..n /\ m - 1 < m /\ m \notin T
  OBVIOUS
<1>5. m - 1 \in M
  BY <1>4
<1>6. <<m - 1, m>> \in R
  <2>1. m - 1 \in Nat /\ m \in Nat
    BY <1>4
  <2> QED
    BY <1>1, <1>4, <2>1
<1> QED
  BY <1>3, <1>5, <1>6

\* The values of the first digits of a number.
IsValue(v, digits) ==
  v = [n \in 0..Len(digits) |-> IF n = 0 THEN 0 ELSE 10 * v[n - 1] + digits[n]]

LEMMA ValuesExist ==
  ASSUME NEW digits \in Seq(0..9)
  PROVE  \E v : IsValue(v, digits)
<1> DEFINE n == Len(digits)
           Entry(v, k) == IF k = 0 THEN 0 ELSE 10 * v[k - 1] + digits[k]
           Fits(v, m) == v = [k \in 0..m |-> Entry(v, k)]
           T == {m \in Nat : \E v : Fits(v, m)}
<1>1. n \in Nat
  BY LenProperties
<1>2. 0 \in T
  <2> DEFINE v == [k \in 0..0 |-> 0]
  <2>1. \A k \in 0..0 : Entry(v, k) = 0
    OBVIOUS
  <2>2. Fits(v, 0)
    BY <2>1
  <2> HIDE DEF Fits, v
  <2> QED
    BY <2>2
<1>3. ASSUME NEW m \in 1..n, m - 1 \in T PROVE m \in T
  <2>1. PICK u : Fits(u, m - 1)
    BY <1>3
  <2> DEFINE v == [k \in 0..m |-> Entry(u, k)]
  <2>2. \A k \in 0..m - 1 : u[k] = Entry(u, k)
    BY <2>1
  <2>3. \A k \in 0..m - 1 : v[k] = u[k]
    <3>1. \A k \in 0..m - 1 : v[k] = Entry(u, k)
      OBVIOUS
    <3> HIDE DEF v, Entry
    <3> QED
      BY <2>2, <3>1
  <2>4. \A k \in 0..m : Entry(v, k) = Entry(u, k)
    <3>1. \A k \in 0..m : k = 0 \/ k - 1 \in 0..m - 1
      OBVIOUS
    <3> HIDE DEF v
    <3> QED
      BY <2>3, <3>1
  <2> HIDE DEF Entry
  <2>5. Fits(v, m)
    <3>1. \A k \in 0..m : Entry(u, k) = Entry(v, k)
      BY <2>4
    <3>2. v = [k \in 0..m |-> Entry(u, k)]
      OBVIOUS
    <3> HIDE DEF v
    <3> QED
      BY <3>1, <3>2
  <2> HIDE DEF Fits, v
  <2> QED
    BY <2>5
<1>4. n \in T
  <2>1. \A k \in 1..n : k - 1 \in T => k \in T
    BY <1>3
  <2>2. n \in 0..n
    BY <1>1
  <2> HIDE DEF T, n
  <2> QED
    BY <1>1, <1>2, <2>1, <2>2, InductiveUpTo
<1> QED
  BY <1>4 DEF IsValue

LEMMA ValueType ==
  ASSUME NEW digits \in Seq(0..9)
  PROVE  \E v \in [0..Len(digits) -> Nat] : IsValue(v, digits) /\ Value(digits) = v[Len(digits)]
<1> DEFINE n == Len(digits)
           v == CHOOSE v : IsValue(v, digits)
<1>1. n \in Nat /\ \A k \in 1..n : digits[k] \in 0..9
  BY LenProperties
<1>2. IsValue(v, digits)
  BY ValuesExist
<1>3. Value(digits) = v[n]
  BY DEF Value, IsValue
<1> HIDE DEF v
<1>4. \A k \in 0..n : v[k] \in Nat
  <2> DEFINE T == {k \in 0..n : v[k] \in Nat}
  <2>1. 0 \in T
    BY <1>1, <1>2 DEF IsValue
  <2>2. \A k \in 1..n : k - 1 \in T => k \in T
    <3> SUFFICES ASSUME NEW k \in 1..n, v[k - 1] \in Nat PROVE v[k] \in Nat
      OBVIOUS
    <3>1. v[k] = 10 * v[k - 1] + digits[k]
      BY <1>1, <1>2 DEF IsValue
    <3>2. digits[k] \in Nat
      BY <1>1
    <3>3. \A x, y \in Nat : 10 * x + y \in Nat
      OBVIOUS
    <3> QED
      BY <3>1, <3>2, <3>3
  <2> HIDE DEF T
  <2>3. \A k \in 0..n : k \in T
    BY <1>1, <2>1, <2>2, InductiveUpTo
  <2> QED
    BY <2>3 DEF T
<1>5. v \in [0..n -> Nat]
  BY <1>2, <1>4 DEF IsValue
<1> QED
  BY <1>2, <1>3, <1>5

\* The parser returns the value of a number of any length, unless it is too large.
LEMMA ParsesExactly ==
  ASSUME NEW digits \in Seq(0..9)
  PROVE  ParseSize(digits) = Exact(Value(digits)) /\ Value(digits) \in Nat
<1> DEFINE n == Len(digits)
           Next1(x, d) == IF x = -1 \/ x > (SizeMax - d) \div 10 THEN -1
                          ELSE (x * 10 + d) % (SizeMax + 1)
           Parses(p) == p = [k \in 0..n |-> IF k = 0 THEN 0 ELSE Next1(p[k - 1], digits[k])]
<1>1. n \in Nat /\ \A k \in 1..n : digits[k] \in 0..9
  BY LenProperties
<1>2. PICK v \in [0..n -> Nat] : IsValue(v, digits) /\ Value(digits) = v[n]
  BY ValueType
<1>3. v[0] = 0 /\ \A k \in 1..n : v[k] = 10 * v[k - 1] + digits[k] /\ v[k - 1] \in Nat
  <2>1. v[0] = 0
    BY <1>1, <1>2 DEF IsValue
  <2>2. \A k \in 1..n : k - 1 \in 0..n /\ k # 0 /\ k \in 0..n
    BY <1>1
  <2> QED
    BY <1>2, <2>1, <2>2 DEF IsValue
<1>4. Exact(0) = 0
  BY QueriesAssumption DEF QueriesAssumption, Exact, SizeMax
<1>5. \A k \in 1..n : Next1(Exact(v[k - 1]), digits[k]) = Exact(v[k])
  <2> SUFFICES ASSUME NEW k \in 1..n PROVE Next1(Exact(v[k - 1]), digits[k]) = Exact(v[k])
    OBVIOUS
  <2> DEFINE x == v[k - 1]
             d == digits[k]
  <2>1. x \in Nat /\ d \in 0..9 /\ v[k] = 10 * x + d
    BY <1>1, <1>3
  <2> HIDE DEF x, d
  <2>2. Next1(Exact(x), d) = Exact(10 * x + d)
    BY <2>1, ExactStep
  <2> QED
    BY <2>1, <2>2 DEF x, d
<1> DEFINE q == [k \in 0..n |-> Exact(v[k])]
           p == CHOOSE p : Parses(p)
<1>6. Parses(q)
  <2>1. \A k \in 1..n : q[k - 1] = Exact(v[k - 1])
    BY <1>1
  <2>2. \A k \in 0..n : Exact(v[k]) = IF k = 0 THEN 0 ELSE Next1(q[k - 1], digits[k])
    <3>1. \A k \in 0..n : k = 0 \/ k \in 1..n
      OBVIOUS
    <3> HIDE DEF Next1, q
    <3> QED
      BY <1>3, <1>4, <1>5, <2>1, <3>1
  <2>3. q = [k \in 0..n |-> Exact(v[k])]
    OBVIOUS
  <2> HIDE DEF q, Next1
  <2> QED
    BY <2>2, <2>3
<1>7. ParseSize(digits) = p[n]
  BY DEF ParseSize
<1> HIDE DEF Next1
<1>8. Parses(p)
  <2> HIDE DEF Parses, q
  <2> QED
    BY <1>6
<1> HIDE DEF p, q
<1>9. \A k \in 0..n : p[k] = Exact(v[k])
  <2> DEFINE T == {k \in 0..n : p[k] = Exact(v[k])}
  <2>1. 0 \in T
    BY <1>1, <1>3, <1>4, <1>8
  <2>2. \A k \in 1..n : k - 1 \in T => k \in T
    <3> SUFFICES ASSUME NEW k \in 1..n, p[k - 1] = Exact(v[k - 1]) PROVE p[k] = Exact(v[k])
      OBVIOUS
    <3>1. p[k] = Next1(p[k - 1], digits[k])
      BY <1>1, <1>8
    <3> QED
      BY <1>5, <3>1
  <2> HIDE DEF T
  <2>3. \A k \in 0..n : k \in T
    BY <1>1, <2>1, <2>2, InductiveUpTo
  <2> QED
    BY <2>3 DEF T
<1> QED
  BY <1>1, <1>2, <1>7, <1>9

LEMMA SizeParamType ==
  ASSUME NEW digits \in Seq(0..9), NEW fallback \in Nat, NEW max \in Nat
  PROVE  QuerySizeParam(digits, fallback, max) \in Nat
<1>1. ParseSize(digits) = -1 \/ ParseSize(digits) \in Nat
  BY ParsesExactly DEF Exact
<1> QED
  BY <1>1 DEF QuerySizeParam

\* What is known of the parameters of a request.
LEMMA RequestFacts ==
  ASSUME request \in PageRequests
  PROVE  /\ Limit \in Nat /\ Offset \in Nat /\ request.search \in SUBSET Ids
         /\ request.filter \in Filters /\ request.kind \in Kinds /\ request.order \in Orders
         /\ ~IsLocationSort => request.sort \in Sorts
<1>1. request \in Requested
  BY OverviewAssumption DEF OverviewAssumption
<1>2. /\ request.filter \in Filters /\ request.kind \in Kinds /\ request.order \in Orders
      /\ request.sort \in Sorts \cup {"location"} /\ request.search \in SUBSET Ids
      /\ request.limit \in Seq(0..9) /\ request.offset \in Seq(0..9)
  BY <1>1 DEF Requested
<1>3. DefaultPageLimit \in Nat /\ MaxPageLimit \in Nat /\ SizeMax \in Nat
  BY OverviewAssumption, QueriesAssumption DEF OverviewAssumption, QueriesAssumption, SizeMax
<1>4. Limit \in Nat /\ Offset \in Nat
  <2>1. 0 \in Nat
    OBVIOUS
  <2> QED
    BY <1>2, <1>3, <2>1, SizeParamType DEF Limit, Offset
<1> QED
  BY <1>2, <1>4 DEF IsLocationSort

-----------------------------------------------------------------------------
(* The order by location.                                                  *)

\* What the order by location compares of a row.
LocationKey(t, order, kn, d) == Key(t, Signed(order, Bit(kn[d] = "yes")), d)

LEMMA LocationByKey ==
  ASSUME listed \in DeviceTables, request.order \in Orders, NEW kn, NEW d \in Ids, NEW e \in Ids
  PROVE  /\ LocationKey(listed, request.order, kn, d) \in [1..4 -> Int]
         /\ LocationKey(listed, request.order, kn, d)[4] = d
         /\ LocationPrecedes(d, e, kn[d], kn[e])
              <=> Before(LocationKey(listed, request.order, kn, d),
                         LocationKey(listed, request.order, kn, e))
<1> DEFINE x == Bit(kn[d] = "yes")
           y == Bit(kn[e] = "yes")
           order == request.order
<1>1. x \in Nat /\ y \in Nat
  BY DEF Bit
<1>2. LocationPrecedes(d, e, kn[d], kn[e])
        <=> Precedes(<<IF order = "asc" THEN Ascending(x, y) ELSE Descending(x, y)>>
                     \o LastKeys(listed, d, e))
  BY DEF LocationPrecedes
<1> HIDE DEF x, y, order
<1>3. order \in Orders /\ Signed(order, x) \in Int
  BY <1>1 DEF Signed, order
<1>4. LocationPrecedes(d, e, kn[d], kn[e])
        <=> Before(Key(listed, Signed(order, x), d), Key(listed, Signed(order, y), e))
  BY <1>1, <1>2, <1>3, PrecedesByKey
<1>5. Key(listed, Signed(order, x), d) \in [1..4 -> Int]
  BY <1>3, KeyType
<1> QED
  BY <1>4, <1>5 DEF LocationKey, Key, order, x, y

LEMMA LocationOrderStrict ==
  ASSUME listed \in DeviceTables, request.order \in Orders
  PROVE  StrictlyOrders(LocationOrder, Ids)
<1> DEFINE k(d) == LocationKey(listed, request.order, known, d)
<1>1. \A d, e \in Ids : <<d, e>> \in LocationOrder <=> Before(k(d), k(e))
  BY LocationByKey DEF LocationOrder
<1>2. \A d \in Ids : k(d) \in [1..4 -> Int] /\ k(d)[4] = d
  BY LocationByKey
<1> HIDE DEF k
<1>3. ASSUME NEW d \in Ids, NEW e \in Ids, NEW f \in Ids
      PROVE  /\ ~Before(k(d), k(d))
             /\ Before(k(d), k(e)) /\ Before(k(e), k(f)) => Before(k(d), k(f))
             /\ d # e => Before(k(d), k(e)) \/ Before(k(e), k(d))
  BY <1>2, BeforeIsStrict
<1> QED
  BY <1>1, <1>3 DEF StrictlyOrders

-----------------------------------------------------------------------------
(* The inductive invariant.                                                *)

\* What was counted is what the table selects, until a device times out.
CountIsTaken ==
  /\ stage = "start" => left = {}
  /\ stage = "list" /\ left = {} =>
       total = Cardinality(Selected(table, request.search, request.filter, request.kind))

\* Only a list that is to be ordered by location is sorted, and all of it.
AllRowsAreSorted ==
  stage = "sort" => IsLocationSort /\ (left = {} => Len(rows) = total)

\* Rows are compared after they were listed, and by what is known for good.
ComparedIsKnown ==
  /\ stage \in {"start", "list"} => compared = {}
  /\ \A d, e \in Ids : <<d, e>> \in compared =>
       known[d] # "unasked" /\ known[e] # "unasked" /\ <<d, e>> \in LocationOrder

OverviewInv ==
  /\ OverviewTypeOK
  /\ CountIsTaken /\ AllRowsAreSorted /\ PageMatchesTotal
  /\ ComparedIsKnown /\ PageIsInOrder

LEMMA OverviewInitInv == OverviewInit => OverviewInv
<1> SUFFICES ASSUME OverviewInit PROVE OverviewInv
  OBVIOUS
<1>1. IsFiniteSet(Ids) /\ Cardinality(Ids) \in Nat
  BY FS_CardinalityType, QueriesAssumption DEF QueriesAssumption
<1>2. table \in DeviceTables /\ request \in PageRequests
  BY OverviewAssumption DEF OverviewInit, OverviewAssumption
<1>3. <<>> \in Seq(Ids) /\ DOMAIN <<>> = {}
  OBVIOUS
<1>4. OverviewTypeOK
  BY <1>1, <1>2, <1>3 DEF OverviewInit, OverviewTypeOK
<1> QED
  BY <1>4 DEF OverviewInit, OverviewInv, CountIsTaken, AllRowsAreSorted, PageMatchesTotal,
     ComparedIsKnown, PageIsInOrder

\* The two queries.
LEMMA CountStep ==
  ASSUME OverviewInv, OverviewCount
  PROVE  OverviewInv'
<1>1. request \in PageRequests /\ table \in DeviceTables
  BY DEF OverviewInv, OverviewTypeOK
<1>2. /\ request.search \in SUBSET Ids /\ request.filter \in Filters /\ request.kind \in Kinds
  BY <1>1, RequestFacts
<1> DEFINE S == Selected(table, request.search, request.filter, request.kind)
<1>3. total' = Cardinality(S)
  BY <1>1, <1>2, CountIsLength DEF OverviewCount
<1>4. Cardinality(S) \in 0..Cardinality(Ids)
  BY <1>2, SelectedIds
<1>5. OverviewTypeOK'
  BY <1>3, <1>4 DEF OverviewInv, OverviewTypeOK, OverviewCount
<1>6. CountIsTaken'
  BY <1>3 DEF CountIsTaken, OverviewCount
<1>7. stage' = "list" /\ compared' = {}
  BY DEF OverviewInv, ComparedIsKnown, OverviewCount
<1> QED
  BY <1>5, <1>6, <1>7 DEF OverviewInv, AllRowsAreSorted, PageMatchesTotal, ComparedIsKnown,
     PageIsInOrder

LEMMA ListStep ==
  ASSUME OverviewInv, OverviewList
  PROVE  OverviewInv'
<1>1. /\ request \in PageRequests /\ table \in DeviceTables
      /\ total \in Nat /\ total <= Cardinality(Ids)
  <2>1. Cardinality(Ids) \in Nat
    BY FS_CardinalityType, QueriesAssumption DEF QueriesAssumption
  <2> QED
    BY <2>1 DEF OverviewInv, OverviewTypeOK
<1>2. /\ request.search \in SUBSET Ids /\ request.filter \in Filters /\ request.kind \in Kinds
      /\ request.order \in Orders /\ Limit \in Nat /\ Offset \in Nat
      /\ ~IsLocationSort => request.sort \in Sorts
  BY <1>1, RequestFacts
<1> DEFINE S == Selected(table, request.search, request.filter, request.kind)
           n == Cardinality(S)
           sort == IF IsLocationSort THEN "status" ELSE request.sort
           limit == IF IsLocationSort THEN total ELSE Limit
           offset == IF IsLocationSort THEN 0 ELSE Offset
           R == RowOrder(table, sort, request.order)
           first == IF offset >= Word THEN 0 ELSE offset
<1>3. rows' = ListDevicePresence(table, limit, offset, request.search, request.filter, sort,
                                 request.order, request.kind)
  BY DEF OverviewList, ListRows
<1>4. sort \in Sorts /\ limit \in Nat /\ offset \in Nat
  BY <1>1, <1>2 DEF Sorts
<1>5. n \in Nat
  BY <1>2, SelectedIds
<1>6. Lists(rows', Ids, R) /\ Len(rows') = PageLength(n, limit, first)
  <2> HIDE DEF sort, limit, offset
  <2> QED
    BY <1>1, <1>2, <1>3, <1>4, ListIsPage
<1>7. left = {} => total = n
  BY DEF OverviewInv, CountIsTaken, OverviewList
<1> HIDE DEF S, n
<1>8. OverviewTypeOK'
  BY <1>6 DEF OverviewInv, OverviewTypeOK, OverviewList, Lists
<1>9. stage' = (IF IsLocationSort THEN "sort" ELSE "done") /\ UNCHANGED <<left, total, request>>
  BY DEF OverviewList
<1>10. CountIsTaken'
  BY <1>9 DEF CountIsTaken
<1>11. AllRowsAreSorted'
  <2> SUFFICES ASSUME IsLocationSort, left = {} PROVE Len(rows') = total
    BY <1>9 DEF AllRowsAreSorted, IsLocationSort
  <2>1. limit = total /\ first = 0 /\ n = total
    BY <1>7, QueriesAssumption DEF QueriesAssumption
  <2> QED
    BY <1>1, <1>6, <2>1 DEF PageLength
<1>12. PageMatchesTotal'
  <2> SUFFICES ASSUME ~IsLocationSort, left = {}
               PROVE  Len(rows') = PageLength(total, Limit, IF Offset >= Word THEN 0 ELSE Offset)
    BY <1>9 DEF PageMatchesTotal, IsLocationSort, Limit, Offset, PageLength
  <2> QED
    BY <1>6, <1>7
<1>13. ComparedIsKnown'
  BY DEF OverviewInv, ComparedIsKnown, OverviewList
<1>14. PageIsInOrder'
  <2> SUFFICES ASSUME ~IsLocationSort
               PROVE  Lists(rows', Ids, RowOrder(table, request.sort, request.order))
    BY <1>9 DEF PageIsInOrder, IsLocationSort, OverviewList, Lists
  <2> QED
    BY <1>6
<1> QED
  BY <1>8, <1>10, <1>11, <1>12, <1>13, <1>14 DEF OverviewInv

LEMMA LookUpStep ==
  ASSUME OverviewInv, NEW c \in Ids, LookUpLocation(c)
  PROVE  OverviewInv'
<1>1. OverviewTypeOK'
  BY DEF OverviewInv, OverviewTypeOK, LookUpLocation, HasDisplayedLocation
<1>2. /\ stage = "sort" /\ stage' = "sort"
      /\ UNCHANGED <<table, request, total, rows, listed, compared, left>>
  BY DEF LookUpLocation
<1>3. \A d \in Ids : known[d] # "unasked" => known'[d] = known[d]
  BY DEF OverviewInv, OverviewTypeOK, LookUpLocation
<1>4. ComparedIsKnown'
  <2> SUFFICES ASSUME NEW d \in Ids, NEW e \in Ids, <<d, e>> \in compared
               PROVE  /\ known'[d] # "unasked" /\ known'[e] # "unasked"
                      /\ <<d, e>> \in LocationOrder'
    BY <1>2 DEF ComparedIsKnown
  <2>1. known[d] # "unasked" /\ known[e] # "unasked" /\ LocationPrecedes(d, e, known[d], known[e])
    BY DEF OverviewInv, ComparedIsKnown, LocationOrder
  <2>2. known'[d] = known[d] /\ known'[e] = known[e]
    BY <1>3, <2>1
  <2>3. LocationPrecedes(d, e, known[d], known[e])'
    BY <1>2, <2>1, <2>2 DEF LocationPrecedes
  <2> QED
    BY <2>1, <2>2, <2>3 DEF LocationOrder
<1> QED
  BY <1>1, <1>2, <1>4 DEF OverviewInv, CountIsTaken, AllRowsAreSorted, PageMatchesTotal,
     PageIsInOrder, IsLocationSort

\* As long as the list, the request and what is known of it stay the same, so do
\* the orders.
LEMMA OrderStays ==
  ASSUME UNCHANGED <<listed, known, request>>
  PROVE  LocationOrder' = LocationOrder /\ IsLocationSort' = IsLocationSort
  BY DEF LocationOrder, LocationPrecedes, IsLocationSort

LEMMA CompareStep ==
  ASSUME OverviewInv, NEW d \in Ids, NEW e \in Ids, CompareRows(d, e)
  PROVE  OverviewInv'
<1>1. OverviewTypeOK'
  BY DEF OverviewInv, OverviewTypeOK, CompareRows
<1>2. /\ stage = "sort" /\ stage' = "sort"
      /\ UNCHANGED <<table, request, total, rows, listed, known, left>>
  BY DEF CompareRows
<1>3. LocationOrder' = LocationOrder /\ IsLocationSort' = IsLocationSort
  BY <1>2, OrderStays
<1>4. ComparedIsKnown'
  <2>1. compared' = compared \cup {<<d, e>>} /\ known[d] # "unasked" /\ known[e] # "unasked"
        /\ <<d, e>> \in LocationOrder
    BY DEF CompareRows, LocationOrder
  <2> QED
    BY <1>2, <1>3, <2>1 DEF OverviewInv, ComparedIsKnown
<1> QED
  BY <1>1, <1>2, <1>3, <1>4 DEF OverviewInv, CountIsTaken, AllRowsAreSorted, PageMatchesTotal,
     PageIsInOrder

\* A sequence without repetitions has as many elements as places.
LEMMA ElementsOfList ==
  ASSUME NEW S, NEW s \in Seq(S), \A i, j \in DOMAIN s : s[i] = s[j] => i = j
  PROVE  LET T == {s[i] : i \in DOMAIN s} IN
         T \in SUBSET S /\ IsFiniteSet(T) /\ Cardinality(T) = Len(s)
<1> DEFINE T == {s[i] : i \in DOMAIN s}
           n == Len(s)
<1>1. n \in Nat /\ DOMAIN s = 1..n /\ s \in [1..n -> S]
  BY LenProperties
<1>2. IsFiniteSet(1..n) /\ Cardinality(1..n) = n
  <2>1. 1 \in Int /\ n \in Int
    BY <1>1
  <2>2. IsFiniteSet(1..n) /\ Cardinality(1..n) = IF 1 > n THEN 0 ELSE n - 1 + 1
    BY <2>1, FS_Interval
  <2> QED
    BY <1>1, <2>2
<1>3. s \in [1..n -> T]
  BY <1>1
<1>4. s \in Surjection(1..n, T)
  BY <1>1, <1>3 DEF Surjection
<1>5. s \in Injection(1..n, T)
  BY <1>1, <1>3 DEF Injection, IsInjective
<1>6. T \in SUBSET S
  BY <1>1
<1> HIDE DEF T, n
<1>7. IsFiniteSet(T) /\ (Cardinality(T) = Cardinality(1..n) <=> s \in Injection(1..n, T))
  BY <1>2, <1>4, FS_Surjection
<1>8. IsFiniteSet(T) /\ Cardinality(T) = n
  BY <1>2, <1>5, <1>7
<1> QED
  BY <1>6, <1>8 DEF T, n

LEMMA PageStep ==
  ASSUME OverviewInv, OverviewPage
  PROVE  OverviewInv'
<1> DEFINE ids == {rows[i] : i \in DOMAIN rows}
           sorted == InOrder(ids, compared)
<1>1. /\ stage = "sort" /\ stage' = "done" /\ rows' = ApplyDevicePage(sorted, Offset, Limit)
      /\ \A d, e \in ids : d # e => <<d, e>> \in compared \/ <<e, d>> \in compared
      /\ UNCHANGED <<table, request, total, listed, known, compared, left>>
  BY DEF OverviewPage
<1>2. /\ request \in PageRequests /\ listed \in DeviceTables /\ rows \in Seq(Ids)
      /\ \A i, j \in DOMAIN rows : rows[i] = rows[j] => i = j
  BY DEF OverviewInv, OverviewTypeOK
<1>3. Limit \in Nat /\ Offset \in Nat /\ request.order \in Orders
  BY <1>2, RequestFacts
<1>4. ids \in SUBSET Ids /\ IsFiniteSet(ids) /\ Cardinality(ids) = Len(rows)
  BY <1>2, ElementsOfList
<1> HIDE DEF ids
<1>5. \A d, e \in Ids : <<d, e>> \in compared => <<d, e>> \in LocationOrder
  BY DEF OverviewInv, ComparedIsKnown
<1>6. StrictlyOrders(LocationOrder, Ids)
  BY <1>2, <1>3, LocationOrderStrict
<1>7. StrictlyOrders(compared, ids)
  <2>1. ASSUME NEW d \in ids, NEW e \in ids, NEW f \in ids,
               <<d, e>> \in compared, <<e, f>> \in compared
        PROVE  <<d, f>> \in compared
    <3>1. d \in Ids /\ e \in Ids /\ f \in Ids
      BY <1>4
    <3>2. <<d, e>> \in LocationOrder /\ <<e, f>> \in LocationOrder
      BY <1>5, <2>1, <3>1
    <3>3. <<d, f>> \in LocationOrder /\ d # f /\ <<f, d>> \notin LocationOrder
      BY <1>6, <3>1, <3>2 DEF StrictlyOrders
    <3>4. <<f, d>> \notin compared
      BY <1>5, <3>1, <3>3
    <3> QED
      BY <1>1, <3>3, <3>4
  <2>2. \A d \in ids : <<d, d>> \notin compared
    BY <1>4, <1>5, <1>6 DEF StrictlyOrders
  <2> QED
    BY <1>1, <2>1, <2>2 DEF StrictlyOrders
<1>8. Lists(sorted, ids, compared) /\ Len(sorted) = Len(rows)
  BY <1>4, <1>7, InOrderIsList
<1> HIDE DEF sorted
<1>9. Lists(rows', ids, compared) /\ Len(rows') = PageLength(Len(rows), Limit, Offset)
  BY <1>1, <1>3, <1>8, DevicePageIsList
<1>10. Lists(rows', Ids, LocationOrder)
  <2> DEFINE s == rows'
  <2>1. s \in Seq(ids) /\ \A i \in DOMAIN s : s[i] \in ids
    <3>1. s \in Seq(ids)
      BY <1>9 DEF Lists
    <3> HIDE DEF s
    <3>2. DOMAIN s = 1..Len(s) /\ s \in [1..Len(s) -> ids]
      BY <3>1, LenProperties
    <3> QED
      BY <3>1, <3>2
  <2>2. s \in Seq(Ids)
    <3> HIDE DEF s
    <3> QED
      BY <1>4, <2>1
  <2>3. ASSUME NEW i \in DOMAIN s, NEW j \in DOMAIN s, i < j PROVE <<s[i], s[j]>> \in LocationOrder
    <3>1. <<s[i], s[j]>> \in compared
      BY <1>9, <2>3 DEF Lists
    <3>2. s[i] \in Ids /\ s[j] \in Ids
      BY <1>4, <2>1
    <3> QED
      BY <1>5, <3>1, <3>2
  <2>4. \A i, j \in DOMAIN s : s[i] = s[j] => i = j
    BY <1>9 DEF Lists
  <2> HIDE DEF s
  <2>5. Lists(s, Ids, LocationOrder)
    BY <2>2, <2>3, <2>4 DEF Lists
  <2> QED
    BY <2>5 DEF s
<1>11. IsLocationSort /\ (left = {} => Len(rows) = total)
  BY <1>1 DEF OverviewInv, AllRowsAreSorted
<1>12. LocationOrder' = LocationOrder /\ IsLocationSort' = IsLocationSort
  BY <1>1, OrderStays
<1>13. OverviewTypeOK'
  <2>1. rows' \in Seq(Ids) /\ \A i, j \in DOMAIN rows' : rows'[i] = rows'[j] => i = j
    BY <1>10 DEF Lists
  <2> QED
    BY <2>1 DEF OverviewInv, OverviewTypeOK, OverviewPage
<1>14. PageMatchesTotal'
  <2> SUFFICES ASSUME left = {} PROVE Len(rows') = PageLength(total, Limit, Offset)
    BY <1>1, <1>11, <1>12 DEF PageMatchesTotal, Limit, Offset, PageLength
  <2> QED
    BY <1>9, <1>11
<1>15. CountIsTaken' /\ AllRowsAreSorted'
  BY <1>1 DEF CountIsTaken, AllRowsAreSorted
<1>16. ComparedIsKnown'
  BY <1>1, <1>12 DEF OverviewInv, ComparedIsKnown
<1>17. PageIsInOrder'
  BY <1>1, <1>10, <1>11, <1>12 DEF PageIsInOrder, Lists
<1> QED
  BY <1>13, <1>14, <1>15, <1>16, <1>17 DEF OverviewInv

\* A row changes after the rows were counted, and that is noted.
LEMMA TimeoutStep ==
  ASSUME OverviewInv, NEW d \in Ids, table' \in DeviceTables, left' = left \cup {d},
         stage \in {"list", "sort"},
         UNCHANGED <<located, request, stage, total, rows, listed, known, compared>>
  PROVE  OverviewInv'
<1>4. OverviewTypeOK'
  BY DEF OverviewInv, OverviewTypeOK
<1>5. LocationOrder' = LocationOrder /\ IsLocationSort' = IsLocationSort
  BY OrderStays
<1>6. ComparedIsKnown'
  BY <1>5 DEF OverviewInv, ComparedIsKnown
<1>7. left' # {}
  OBVIOUS
<1> QED
  BY <1>4, <1>5, <1>6, <1>7 DEF OverviewInv, CountIsTaken, AllRowsAreSorted,
     PageMatchesTotal, PageIsInOrder

LEMMA EndSessionStep ==
  ASSUME OverviewInv, NEW d \in Ids, NEW guest \in Ids, NEW host \in Ids,
         EndSession(d, guest, host)
  PROVE  OverviewInv'
<1> DEFINE Row == [online : BOOLEAN, updated : Nat, total : Nat, control : Nat, controlled : Nat]
<1>1. table \in [Ids -> Row]
  BY DEF OverviewInv, OverviewTypeOK, DeviceTables
<1>2. PICK middle : /\ middle = [table EXCEPT ![guest].control = table[guest].control - 1]
                    /\ table' = [middle EXCEPT ![host].controlled = middle[host].controlled - 1]
  BY <1>1 DEF EndSession
<1>3. table[guest] \in Row /\ table[host] \in Row
  BY <1>1
<1>4. table[guest].control - 1 \in Nat /\ table[host].controlled - 1 \in Nat
  <2>1. table[guest].control \in Nat /\ table[host].controlled \in Nat
    BY <1>3
  <2>2. table[guest].control > 0 /\ table[host].controlled > 0
    BY DEF EndSession
  <2> QED
    BY <2>1, <2>2
<1>5. \A old \in Row : \A x \in Nat :
        /\ [old EXCEPT !.control = x] \in Row /\ [old EXCEPT !.control = x].controlled = old.controlled
        /\ [old EXCEPT !.controlled = x] \in Row
  OBVIOUS
<1> HIDE DEF Row
<1>6. middle \in [Ids -> Row] /\ middle[host].controlled = table[host].controlled
  <2> DEFINE row == [table[guest] EXCEPT !.control = table[guest].control - 1]
  <2>1. middle = [table EXCEPT ![guest] = row]
    BY <1>1, <1>2
  <2>2. row \in Row /\ row.controlled = table[guest].controlled
    BY <1>3, <1>4, <1>5
  <2> HIDE DEF row
  <2> QED
    BY <1>1, <2>1, <2>2
<1>7. table' \in [Ids -> Row]
  <2> DEFINE row == [middle[host] EXCEPT !.controlled = middle[host].controlled - 1]
  <2>1. table' = [middle EXCEPT ![host] = row]
    BY <1>2, <1>6
  <2>2. row \in Row
    BY <1>4, <1>5, <1>6
  <2> HIDE DEF row
  <2> QED
    BY <1>6, <2>1, <2>2
<1> QED
  BY <1>7, TimeoutStep DEF EndSession, DeviceTables, Row

LEMMA LeaveStep ==
  ASSUME OverviewInv, NEW d \in Ids, Leave(d)
  PROVE  OverviewInv'
<1>1. /\ stage \in {"list", "sort"} /\ stage' = stage /\ left' = left \cup {d}
      /\ table' = [table EXCEPT ![d].online = FALSE, ![d].updated = @ + 1]
      /\ UNCHANGED <<located, request, total, rows, listed, known, compared>>
  BY DEF Leave
<1>2. table \in DeviceTables
  BY DEF OverviewInv, OverviewTypeOK
<1>3. table' \in DeviceTables
  <2> DEFINE Row == [online : BOOLEAN, updated : Nat, total : Nat, control : Nat, controlled : Nat]
  <2>1. table[d] \in Row /\ table \in [Ids -> Row]
    BY <1>2 DEF DeviceTables
  <2> DEFINE row == [table[d] EXCEPT !.online = FALSE, !.updated = @ + 1]
  <2>2. table' = [table EXCEPT ![d] = row]
    BY <1>1, <2>1
  <2>3. row \in Row
    <3>1. \A old \in Row : [old EXCEPT !.online = FALSE] \in Row
      OBVIOUS
    <3>2. \A old \in Row : \A x \in Nat : [old EXCEPT !.updated = x] \in Row
      OBVIOUS
    <3>3. table[d].updated + 1 \in Nat
      BY <2>1
    <3>4. row = [[table[d] EXCEPT !.online = FALSE] EXCEPT !.updated = table[d].updated + 1]
      BY <2>1
    <3> HIDE DEF row, Row
    <3> QED
      BY <2>1, <3>1, <3>2, <3>3, <3>4
  <2> HIDE DEF row
  <2> HIDE DEF Row
  <2>4. table' \in [Ids -> Row]
    BY <2>1, <2>2, <2>3
  <2> QED
    BY <2>4 DEF Row, DeviceTables
<1> QED
  BY <1>1, <1>3, TimeoutStep

LEMMA LocationsStep ==
  ASSUME OverviewInv, located' \in SUBSET Ids,
         UNCHANGED <<table, request, stage, total, rows, listed, known, compared, left>>
  PROVE  OverviewInv'
<1>1. OverviewTypeOK'
  BY DEF OverviewInv, OverviewTypeOK
<1>2. LocationOrder' = LocationOrder /\ IsLocationSort' = IsLocationSort
  BY OrderStays
<1>3. Limit' = Limit /\ Offset' = Offset
  BY DEF Limit, Offset
<1> QED
  BY <1>1, <1>2, <1>3 DEF OverviewInv, CountIsTaken, AllRowsAreSorted, PageMatchesTotal,
     ComparedIsKnown, PageIsInOrder

LEMMA OverviewNextInv == OverviewInv /\ [OverviewNext]_overviewVars => OverviewInv'
<1> SUFFICES ASSUME OverviewInv, [OverviewNext]_overviewVars PROVE OverviewInv'
  OBVIOUS
<1>1. located \in SUBSET Ids
  BY DEF OverviewInv, OverviewTypeOK
<1>2. CASE OverviewCount
  BY <1>2, CountStep
<1>3. CASE OverviewList
  BY <1>3, ListStep
<1>4. ASSUME NEW d \in Ids, LookUpLocation(d) PROVE OverviewInv'
  BY <1>4, LookUpStep
<1>5. ASSUME NEW d \in Ids, NEW e \in Ids, CompareRows(d, e) PROVE OverviewInv'
  BY <1>5, CompareStep
<1>6. CASE OverviewPage
  BY <1>6, PageStep
<1>7. ASSUME NEW d \in Ids, Leave(d) PROVE OverviewInv'
  BY <1>7, LeaveStep
<1>8. ASSUME NEW d \in Ids, Forget(d) PROVE OverviewInv'
  <2>1. located' \in SUBSET Ids
    BY <1>1, <1>8 DEF Forget
  <2> QED
    BY <1>8, <2>1, LocationsStep DEF Forget
<1>9. ASSUME NEW d \in Ids, Locate(d) PROVE OverviewInv'
  <2>1. located' \in SUBSET Ids
    BY <1>1, <1>9 DEF Locate
  <2> QED
    BY <1>9, <2>1, LocationsStep DEF Locate
<1>10. CASE UNCHANGED overviewVars
  BY <1>1, <1>10, LocationsStep DEF overviewVars
<1>11. ASSUME NEW d \in Ids, NEW guest \in Ids, NEW host \in Ids, EndSession(d, guest, host)
       PROVE  OverviewInv'
  BY <1>11, EndSessionStep
<1> QED
  BY <1>2, <1>3, <1>4, <1>5, <1>6, <1>7, <1>8, <1>9, <1>10, <1>11 DEF OverviewNext

LEMMA OverviewInvHolds == OverviewSpec => []OverviewInv
<1> QED
  BY OverviewInitInv, OverviewNextInv, PTL DEF OverviewSpec

-----------------------------------------------------------------------------
(* What holds of the list of devices.                                      *)

\* Every variable of a request for the list keeps its type, for any contents of
\* the table and whatever is asked for.
THEOREM OverviewTypeCorrect == OverviewSpec => []OverviewTypeOK
<1>1. OverviewInv => OverviewTypeOK
  BY DEF OverviewInv
<1> QED
  BY <1>1, OverviewInvHolds, PTL

LEMMA ListsMatch ==
  ASSUME table \in DeviceTables, request \in PageRequests
  PROVE  ListsAreConsistent
<1>1. PagesAreStable
  BY RowOrderIsStrict DEF PagesAreStable
<1>2. request.search \in SUBSET Ids /\ Ids \in SUBSET Ids
  BY RequestFacts
<1>3. ASSUME NEW kind \in Kinds, NEW search \in SUBSET Ids
      PROVE  LET counts == CountDevicePresenceByFilters(table, search, kind) IN
             /\ counts.all = counts.online + counts.offline
             /\ \A filter \in Filters :
                  CountForDeviceFilter(counts, filter) =
                    Len(ListDevicePresence(table, Cardinality(Ids), 0, search, filter,
                                           "status", "desc", kind))
  <2> DEFINE counts == CountDevicePresenceByFilters(table, search, kind)
  <2>1. counts.all = counts.online + counts.offline
    BY CountsAddUp
  <2>2. ASSUME NEW filter \in Filters
        PROVE  CountForDeviceFilter(counts, filter) =
                 Len(ListDevicePresence(table, Cardinality(Ids), 0, search, filter,
                                        "status", "desc", kind))
    <3> DEFINE n == Cardinality(Selected(table, search, filter, kind))
               m == Cardinality(Ids)
    <3>1. n \in Nat /\ m \in Nat /\ n <= m
      BY SelectedIds
    <3>2. CountForDeviceFilter(counts, filter) = n
      BY CountIsLength
    <3>3. "status" \in Sorts /\ "desc" \in Orders /\ 0 \in Nat
      BY DEF Sorts, Orders
    <3> HIDE DEF counts, m
    <3>4. Len(ListDevicePresence(table, m, 0, search, filter, "status", "desc", kind)) =
            PageLength(n, m, IF 0 >= Word THEN 0 ELSE 0)
      BY <3>1, <3>3, ListIsPage
    <3> HIDE DEF n
    <3>5. PageLength(n, m, 0) = n
      BY <3>1 DEF PageLength
    <3> QED
      BY <3>2, <3>4, <3>5 DEF m
  <2> QED
    BY <2>1, <2>2
<1>4. CountsMatchList
  BY <1>2, <1>3 DEF CountsMatchList
<1> QED
  BY <1>1, <1>4 DEF ListsAreConsistent

\* Whatever the rows contain, each of the orders is strict and total, so no page
\* repeats or skips a device, and each count is the length of its list.
THEOREM ListsAlwaysMatch == OverviewSpec => []ListsAreConsistent
<1>1. OverviewInv => ListsAreConsistent
  BY ListsMatch DEF OverviewInv, OverviewTypeOK
<1> QED
  BY <1>1, OverviewInvHolds, PTL

\* A finished page has the length that the reported total tells, for any limit
\* and offset, unless a device has left since the rows were counted, and is in
\* the order that was asked for.
THEOREM PagesStayRight == OverviewSpec => []PagesAreRight
<1>1. OverviewInv => PagesAreRight
  BY DEF OverviewInv, PagesAreRight
<1> QED
  BY <1>1, OverviewInvHolds, PTL

\* Whatever the other threads learn and forget of the locations meanwhile, what
\* std::sort is told is part of one strict total order.
THEOREM ComparisonsAreStrict == OverviewSpec => []LocationOrderIsStrict
<1>1. OverviewInv => LocationOrderIsStrict
  <2> SUFFICES ASSUME OverviewInv PROVE LocationOrderIsStrict
    OBVIOUS
  <2>1. listed \in DeviceTables /\ request.order \in Orders
    BY RequestFacts DEF OverviewInv, OverviewTypeOK
  <2>2. StrictlyOrders(LocationOrder, Ids)
    BY <2>1, LocationOrderStrict
  <2>3. \A d, e \in Ids : <<d, e>> \in compared => <<d, e>> \in LocationOrder
    BY DEF OverviewInv, ComparedIsKnown
  <2> QED
    BY <2>2, <2>3 DEF StrictlyOrders, LocationOrderIsStrict
<1> QED
  BY <1>1, OverviewInvHolds, PTL

\* A number of any length, of digits of any value, is taken for what it is if it
\* fits a size_t, and rejected if not: nothing wraps around.
THEOREM NumbersAreExact ==
  \A digits \in Seq(0..9) :
    ParseSize(digits) = IF Value(digits) <= SizeMax THEN Value(digits) ELSE -1
  BY ParsesExactly DEF Exact

\* In particular the numbers that the run tries.
THEOREM TriedNumbersAreExact == OverviewSpec => []ParseSizeIsExact
<1>1. ParseSizeIsExact
  <2> SUFFICES ASSUME NEW n \in 1..3, NEW digits \in [1..n -> {0, 1, 5, 6}]
               PROVE  ParseSize(digits) = IF Value(digits) <= SizeMax THEN Value(digits) ELSE -1
    BY DEF ParseSizeIsExact
  <2>1. digits \in Seq(0..9)
    <3>1. digits \in [1..n -> 0..9] /\ n \in Nat
      OBVIOUS
    <3> QED
      BY <3>1
  <2> QED
    BY <2>1, NumbersAreExact
<1> QED
  BY <1>1, PTL

-----------------------------------------------------------------------------
(* Side by side.                                                           *)

\* Whichever component runs, the other two do nothing: each of them sees steps
\* of its own and stutters.
THEOREM EachKeepsItsSpec == RequestsSpec => AuthSpec /\ OverviewSpec /\ MessagesSpec
<1>1. RequestsInit => AuthInit /\ OverviewInit /\ MessagesInit
  BY DEF RequestsInit
<1>2. [RequestsNext]_requestsVars => [AuthNext]_authVars
  BY DEF RequestsNext, requestsVars
<1>3. [RequestsNext]_requestsVars => [OverviewNext]_overviewVars
  BY DEF RequestsNext, requestsVars
<1>4. [RequestsNext]_requestsVars => [MessagesNext]_messageVars
  BY DEF RequestsNext, requestsVars
<1> QED
  BY <1>1, <1>2, <1>3, <1>4, PTL DEF RequestsSpec, AuthSpec, OverviewSpec, MessagesSpec

\* So the variables of the component that runs keep their types, and in fact
\* those of all of them.
THEOREM RequestsTypeCorrect == RequestsSpec => []RequestsTypeOK
<1>1. AuthTypeOK /\ OverviewTypeOK /\ MessagesTypeOK => RequestsTypeOK
  BY DEF RequestsTypeOK
<1> QED
  BY <1>1, EachKeepsItsSpec, AuthTypeCorrect, OverviewTypeCorrect, MessagesTypeCorrect, PTL
=============================================================================
