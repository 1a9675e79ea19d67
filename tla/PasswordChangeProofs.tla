------------------------ MODULE PasswordChangeProofs ------------------------
(***************************************************************************)
(* Proofs about password changes, for any devices, requests, passwords and *)
(* capacity.  Two invariants are kept apart: that of the cache, which      *)
(* counts changes and knows nothing of who asked for them, and that of the *)
(* clients, which needs of the cache only that a result is forgotten       *)
(* together with its place in the queue.                                   *)
(***************************************************************************)
EXTENDS PasswordChange, TLAPS

-----------------------------------------------------------------------------
(* The cache.                                                              *)

\* What is remembered has a place in the queue.
RememberedIsQueued ==
  \A k \in Keys : results[k] # None => \E i \in DOMAIN order : order[i] = k

CacheInv == ResultsInv /\ RememberedIsQueued

\* Requests are records: a key and a password make one.
LEMMA RequestFacts ==
  ASSUME NEW r \in Request
  PROVE  /\ r.user \in Users /\ r.new \in Passwords
         /\ Key(r) \in Keys /\ Key(r)[1] = r.user
         /\ r # None /\ r.new # None
         /\ \A q \in Request : Key(q) = Key(r) /\ q.new = r.new => q = r
  BY PasswordAssumption DEF PasswordAssumption, Key, Keys

\* A key names a user.
LEMMA KeyFacts == \A k \in Keys : k[1] \in Users
  BY RequestFacts DEF Keys

\* A new cache is empty.
LEMMA CacheInit == Init => CacheInv
  BY PasswordAssumption
  DEF PasswordAssumption, Init, CacheInv, ResultsInv, TypeOK, LastChangesAreRemembered,
      RememberedIsQueued, Users

\* The queue after an execution is a sequence of keys, without its head if it was full, and
\* with the key of r at its end.
LEMMA QueueMoves ==
  ASSUME NEW q \in Seq(Keys), NEW k \in Keys, NEW n \in Nat \ {0}, Len(q) <= n,
         NEW s, s = Append(IF Len(q) < n THEN q ELSE Tail(q), k)
  PROVE  /\ s \in Seq(Keys) /\ Len(s) <= n
         /\ Len(q) < n => /\ Len(s) = Len(q) + 1
                          /\ \A i \in 1..Len(q) : s[i] = q[i]
         /\ Len(q) = n => /\ Len(s) = n
                          /\ \A i \in 1..n - 1 : s[i] = q[i + 1]
         /\ s[Len(s)] = k
<1>1. CASE Len(q) < n
  BY <1>1
<1>2. CASE Len(q) = n
  <2>1. q # <<>>
    BY <1>2
  <2>2. /\ Tail(q) \in Seq(Keys) /\ Len(Tail(q)) = n - 1
        /\ \A i \in 1..n - 1 : Tail(q)[i] = q[i + 1]
    BY <1>2, <2>1
  <2>3. s = Append(Tail(q), k)
    BY <1>2
  <2> QED
    BY <1>2, <2>2, <2>3
<1> QED
  BY <1>1, <1>2

\* An execution makes every other change one change older and the oldest one,
\* if the cache was full, is forgotten.
LEMMA CacheUpdate ==
  ASSUME CacheInv, NEW r \in Request, UpdatePassword(r)
  PROVE  CacheInv'
<1> DEFINE full == Len(order) = Capacity
           gone == IF Len(order) < Capacity THEN {} ELSE {Head(order)}
<1>1. /\ Capacity \in Nat \ {0} /\ order \in Seq(Keys) /\ Len(order) <= Capacity
      /\ Len(order) \in Nat
      /\ age \in [Keys -> 0..Capacity] /\ results \in [Keys -> WellFormed \cup {None}]
  BY PasswordAssumption DEF PasswordAssumption, CacheInv, ResultsInv, TypeOK
<1>2. /\ Key(r) \in Keys /\ results[Key(r)] = None /\ r.new \in WellFormed /\ r.new # None
      /\ r.user \in Devices
  BY RequestFacts DEF UpdatePassword, Acceptable
<1>3. order' = Append(IF Len(order) < Capacity THEN order ELSE Tail(order), Key(r))
  BY <1>1 DEF UpdatePassword
<1>4. /\ order' \in Seq(Keys) /\ Len(order') <= Capacity
      /\ ~full => /\ Len(order') = Len(order) + 1
                  /\ \A i \in 1..Len(order) : order'[i] = order[i]
      /\ full => /\ Len(order') = Capacity
                 /\ \A i \in 1..Capacity - 1 : order'[i] = order[i + 1]
      /\ order'[Len(order')] = Key(r)
  BY <1>1, <1>2, <1>3, QueueMoves
<1>5. full => gone = {order[1]} /\ order[1] \in Keys
  BY <1>1
<1>6. gone \subseteq Keys
  BY <1>1, <1>5
<1>7. results' = [k \in Keys |-> IF k = Key(r) THEN r.new
                                 ELSE IF k \in gone THEN None ELSE results[k]]
  BY DEF UpdatePassword
<1>8. age' = [k \in Keys |-> IF k = Key(r) THEN 0
                             ELSE IF age[k] < Capacity THEN age[k] + 1 ELSE Capacity]
  BY DEF UpdatePassword, Executed
<1>9. \A i \in 1..Len(order) : /\ order[i] \in Keys /\ order[i] # Key(r)
                               /\ age[order[i]] = Len(order) - i /\ results[order[i]] # None
  BY <1>1, <1>2 DEF CacheInv, ResultsInv, LastChangesAreRemembered
<1>10. TypeOK'
  <2>1. password' \in [Devices -> WellFormed]
    BY <1>2 DEF UpdatePassword, CacheInv, ResultsInv, TypeOK
  <2>2. results' \in [Keys -> WellFormed \cup {None}]
    BY <1>1, <1>2, <1>7
  <2>3. age' \in [Keys -> 0..Capacity]
    BY <1>1, <1>8
  <2>4. lost' \subseteq Users
    BY <1>6, KeyFacts DEF UpdatePassword, Executed, CacheInv, ResultsInv, TypeOK
  <2>5. answers' \subseteq [request : Request, status : Status]
    <3>1. [request |-> r, status |-> "success"] \in [request : Request, status : Status]
      BY DEF Status
    <3> QED
      BY <3>1 DEF UpdatePassword, Reply, CacheInv, ResultsInv, TypeOK
  <2>6. applied' \subseteq Request
    BY DEF UpdatePassword, Executed, CacheInv, ResultsInv, TypeOK
  <2> QED
    BY <1>4, <2>1, <2>2, <2>3, <2>4, <2>5, <2>6
    DEF UpdatePassword, client, CacheInv, ResultsInv, TypeOK
<1>11. RememberedIsQueued'
  <2> SUFFICES ASSUME NEW k \in Keys, results'[k] # None
               PROVE  \E i \in 1..Len(order') : order'[i] = k
    BY <1>4 DEF RememberedIsQueued
  <2>1. CASE k = Key(r)
    BY <2>1, <1>1, <1>4
  <2>2. CASE k # Key(r)
    <3>1. k \notin gone /\ results[k] # None
      BY <2>2, <1>7
    <3>2. PICK i \in 1..Len(order) : order[i] = k
      BY <3>1, <1>1 DEF CacheInv, RememberedIsQueued
    <3>3. CASE ~full
      BY <3>2, <3>3, <1>1, <1>4
    <3>4. CASE full
      <4>1. i # 1
        BY <3>1, <3>2, <3>4, <1>5
      <4>2. i - 1 \in 1..Capacity - 1 /\ order'[i - 1] = order[i]
        <5>1. i - 1 \in 1..Capacity - 1
          BY <4>1, <3>2, <3>4, <1>1
        <5>2. order'[i - 1] = order[(i - 1) + 1]
          BY <5>1, <3>4, <1>4
        <5> QED
          BY <5>1, <5>2, <3>2, <1>1
      <4>3. i - 1 \in 1..Len(order')
        BY <4>2, <3>4, <1>1, <1>4
      <4> QED
        BY <4>2, <4>3, <3>2
    <3> QED
      BY <3>3, <3>4
  <2> QED
    BY <2>1, <2>2
<1>12. \A i \in DOMAIN order' : age'[order'[i]] = Len(order') - i
  <2> SUFFICES ASSUME NEW i \in 1..Len(order') PROVE age'[order'[i]] = Len(order') - i
    BY <1>4
  <2>1. CASE i = Len(order')
    BY <2>1, <1>2, <1>4, <1>8
  <2>2. CASE i # Len(order') /\ ~full
    <3>1. i \in 1..Len(order) /\ order'[i] = order[i] /\ Len(order) < Capacity
      <4>1. /\ Len(order') = Len(order) + 1
            /\ \A j \in 1..Len(order) : order'[j] = order[j]
        BY <2>2, <1>4
      <4>2. i \in 1..Len(order) /\ Len(order) < Capacity
        BY <4>1, <2>2, <1>1
      <4> QED
        BY <4>1, <4>2
    <3>2. /\ order[i] \in Keys /\ order[i] # Key(r)
          /\ age[order[i]] = Len(order) - i /\ age[order[i]] < Capacity
      BY <3>1, <1>1, <1>9
    <3>3. age'[order[i]] = age[order[i]] + 1
      BY <3>2, <1>8
    <3>4. Len(order') = Len(order) + 1
      BY <2>2, <1>4
    <3> QED
      BY <3>1, <3>2, <3>3, <3>4, <1>1
  <2>3. CASE i # Len(order') /\ full
    <3>1. i + 1 \in 1..Len(order) /\ order'[i] = order[i + 1]
      <4>1. /\ Len(order') = Capacity /\ Len(order) = Capacity
            /\ \A j \in 1..Capacity - 1 : order'[j] = order[j + 1]
        BY <2>3, <1>4
      <4>2. i \in 1..Capacity - 1 /\ i + 1 \in 1..Capacity
        BY <4>1, <2>3, <1>1
      <4> QED
        BY <4>1, <4>2
    <3>2. /\ order[i + 1] \in Keys /\ order[i + 1] # Key(r)
          /\ age[order[i + 1]] = Capacity - (i + 1) /\ age[order[i + 1]] < Capacity
      <4>1. /\ order[i + 1] \in Keys /\ order[i + 1] # Key(r)
            /\ age[order[i + 1]] = Len(order) - (i + 1)
        BY <3>1, <1>9
      <4>2. Len(order) = Capacity /\ i + 1 > 0
        BY <2>3
      <4> QED
        BY <4>1, <4>2, <1>1
    <3>3. age'[order[i + 1]] = age[order[i + 1]] + 1
      BY <3>2, <1>8
    <3>4. Len(order') = Capacity
      BY <2>3, <1>4
    <3> QED
      BY <3>1, <3>2, <3>3, <3>4, <1>1
  <2> QED
    BY <2>1, <2>2, <2>3
<1>13. \A k \in Keys : results'[k] # None <=> age'[k] < Capacity
  <2> SUFFICES ASSUME NEW k \in Keys, k # Key(r)
               PROVE  results'[k] # None <=> age'[k] < Capacity
    BY <1>1, <1>2, <1>7, <1>8
  <2>1. results[k] # None <=> age[k] < Capacity
    BY DEF CacheInv, ResultsInv, LastChangesAreRemembered
  <2>2. CASE results[k] = None
    BY <2>1, <2>2, <1>1, <1>7, <1>8
  <2>3. CASE results[k] # None
    <3>1. PICK i \in 1..Len(order) : order[i] = k
      BY <2>3, <1>1 DEF CacheInv, RememberedIsQueued
    <3>2. age[k] = Len(order) - i
      BY <3>1, <1>9
    <3>3. age'[k] = age[k] + 1
      BY <2>1, <2>3, <1>1, <1>8
    <3>4. CASE ~full
      BY <3>1, <3>2, <3>3, <3>4, <2>3, <1>1, <1>7
    <3>5. CASE full
      <4>1. k \in gone <=> i = 1
        BY <3>1, <3>5, <1>1, <1>5, <1>9
      <4> QED
        BY <4>1, <3>1, <3>2, <3>3, <3>5, <2>3, <1>1, <1>7
    <3> QED
      BY <3>4, <3>5
  <2> QED
    BY <2>2, <2>3
<1> QED
  BY <1>10, <1>11, <1>12, <1>13 DEF CacheInv, ResultsInv, LastChangesAreRemembered

\* An answer changes nothing that the server keeps.
LEMMA CacheRefuse ==
  ASSUME CacheInv, NEW r \in Request, NEW status \in Status, Refuse(r, status)
  PROVE  CacheInv'
<1>1. [request |-> r, status |-> status] \in [request : Request, status : Status]
  OBVIOUS
<1>2. answers' \subseteq [request : Request, status : Status]
  BY <1>1 DEF Refuse, Reply, CacheInv, ResultsInv, TypeOK
<1> QED
  BY <1>2 DEF Refuse, server, client, history, CacheInv, ResultsInv, TypeOK,
              LastChangesAreRemembered, RememberedIsQueued

\* The other steps of the handler.
LEMMA CacheHandler ==
  ASSUME CacheInv, NEW r \in sent, change_password(r)
  PROVE  CacheInv'
<1>1. r \in Request
  BY DEF CacheInv, ResultsInv, TypeOK
<1>2. "success" \in Status /\ "used" \in Status /\ "not allowed" \in Status
  BY DEF Status
<1>3. CASE UNCHANGED vars
  BY <1>3 DEF vars, server, client, history, CacheInv, ResultsInv, TypeOK,
              LastChangesAreRemembered, RememberedIsQueued
<1>4. CASE \E status \in Status : Refuse(r, status)
  BY <1>1, <1>4, CacheRefuse
<1>5. CASE UpdatePassword(r)
  BY <1>1, <1>5, CacheUpdate
<1> QED
  BY <1>2, <1>3, <1>4, <1>5
  DEF change_password, NotAuthenticated, NotAllowed, Replay, IdUsed, UpdateFails

\* The steps of the clients and of their connections leave the cache alone.
LEMMA CacheClients ==
  ASSUME CacheInv,
         \/ \E u \in Users : login_user(u) \/ Disconnect(u)
         \/ \E r \in Request : Begin(r)
         \/ \E a \in answers : Receive(a)
  PROVE  CacheInv'
<1>1. TypeOK /\ UNCHANGED <<password, results, order, restarts, age, applied, lost>>
  BY DEF CacheInv, ResultsInv, login_user, Disconnect, Begin, Receive, server, client, history
<1>2. /\ session' \subseteq Users /\ sent' \subseteq Request
      /\ answers' \subseteq [request : Request, status : Status]
  BY <1>1 DEF login_user, Disconnect, Begin, Receive, server, client, history, TypeOK
<1>3. pending' \in [Users -> Request \cup {None}] /\ known' \in [Users -> Passwords]
  <2>1. CASE UNCHANGED <<pending, known>>
    BY <1>1, <2>1 DEF TypeOK
  <2>2. ASSUME NEW r \in Request, Begin(r)
        PROVE  pending' \in [Users -> Request \cup {None}] /\ known' \in [Users -> Passwords]
    BY <1>1, <2>2 DEF Begin, TypeOK
  <2>3. ASSUME NEW a \in answers, Receive(a)
        PROVE  pending' \in [Users -> Request \cup {None}] /\ known' \in [Users -> Passwords]
    <3>1. a.request \in Request
      BY <1>1 DEF TypeOK
    <3>2. a.request.user \in Users /\ pending[a.request.user] \in Request
      BY <1>1, <2>3, <3>1, RequestFacts DEF Receive, TypeOK
    <3>3. pending[a.request.user].new \in Passwords
      BY <3>2, RequestFacts
    <3> QED
      BY <1>1, <2>3, <3>2, <3>3 DEF Receive, TypeOK
  <2> QED
    BY <2>1, <2>2, <2>3 DEF login_user, Disconnect, client
<1> QED
  BY <1>1, <1>2, <1>3 DEF CacheInv, ResultsInv, TypeOK, LastChangesAreRemembered,
                          RememberedIsQueued

\* A restarted server remembers nothing.
LEMMA CacheRestart ==
  ASSUME CacheInv, Restart
  PROVE  CacheInv'
<1>1. /\ Capacity \in Nat \ {0} /\ MaxRestarts \in Nat /\ None \notin WellFormed
  BY PasswordAssumption DEF PasswordAssumption
<1>2. restarts' \in 0..MaxRestarts
  BY <1>1 DEF Restart, CacheInv, ResultsInv, TypeOK
<1>3. lost' \subseteq Users
  BY KeyFacts DEF Restart, CacheInv, ResultsInv, TypeOK
<1>4. results' = [k \in Keys |-> None] /\ order' = <<>> /\ age' = [k \in Keys |-> Capacity]
  BY DEF Restart
<1>5. TypeOK'
  BY <1>1, <1>2, <1>3, <1>4 DEF Restart, client, CacheInv, ResultsInv, TypeOK
<1>6. LastChangesAreRemembered' /\ RememberedIsQueued'
  BY <1>1, <1>4 DEF LastChangesAreRemembered, RememberedIsQueued
<1> QED
  BY <1>5, <1>6 DEF CacheInv, ResultsInv

LEMMA CacheStep == CacheInv /\ [Next]_vars => CacheInv'
<1> SUFFICES ASSUME CacheInv, [Next]_vars PROVE CacheInv'
  OBVIOUS
<1>1. CASE UNCHANGED vars
  BY <1>1 DEF vars, server, client, history, CacheInv, ResultsInv, TypeOK,
              LastChangesAreRemembered, RememberedIsQueued
<1> QED
  BY <1>1, CacheHandler, CacheClients, CacheRestart DEF Next

THEOREM CacheInvariant == Spec => []CacheInv
  BY CacheInit, CacheStep, PTL DEF Spec

\* change_password, its eviction: the map and the queue of remembered results hold
\* exactly the last Capacity changes, whatever the number of devices and of requests.
THEOREM ResultsHold == Spec => []ResultsInv
<1>1. CacheInv => ResultsInv
  BY DEF CacheInv
<1> QED
  BY <1>1, CacheInvariant, PTL

-----------------------------------------------------------------------------
(* The clients.                                                            *)

\* The devices whose clients never use an id twice and whose results are all remembered.
Safe == Devices \ (Careless \cup lost)

\* A careful client makes one request with an id.
SentIsUnique ==
  \A q, r \in sent : q.user \notin Careless /\ Key(q) = Key(r) => q = r

\* A client waits for a request of its own that it has sent.
PendingIsSent ==
  \A u \in Users : pending[u] # None => pending[u] \in sent /\ pending[u].user = u

\* What is executed was sent, and is a change that a device may make.
AppliedIsSent ==
  \A r \in applied : r \in sent /\ r.user \in Devices /\ r.new \in WellFormed

\* What is remembered was executed.
ResultIsApplied ==
  \A k \in Keys : results[k] # None => \E r \in applied : Key(r) = k /\ r.new = results[k]

\* What was executed is remembered, but for the users it is recorded of.
AppliedIsRemembered ==
  \A r \in applied : r.user \notin Careless \cup lost => results[Key(r)] = r.new

\* What an answer says of its request.
IsTrue(a) ==
  /\ a.request \in sent
  /\ a.status = "success" => a.request \in applied
  /\ a.status = "used" => a.request.user \in Careless
  /\ a.status = "not allowed" => a.request.user \in Temps \/ a.request.new \notin WellFormed

AnswersAreTrue == \A a \in answers : IsTrue(a)

\* A request that a late message can still execute is the one its client waits for.
SentIsSettled ==
  \A r \in sent : r.user \in Safe =>
    \/ r = pending[r.user]
    \/ r.new \notin WellFormed
    \/ r \in applied

\* The stored password is the one that is waited for, once that change was executed, and
\* the one confirmed last before.
PasswordIsKnown ==
  \A d \in Safe :
    password[d] = IF pending[d] # None /\ pending[d] \in applied THEN pending[d].new
                                                                 ELSE known[d]

ClientInv ==
  /\ SentIsUnique
  /\ PendingIsSent
  /\ AppliedIsSent
  /\ ResultIsApplied
  /\ AppliedIsRemembered
  /\ AnswersAreTrue
  /\ SentIsSettled
  /\ PasswordIsKnown

ClientVars == <<sent, pending, applied, results, lost, password, known>>

LEMMA ClientInit == Init => ClientInv
  BY DEF Init, ClientInv, SentIsUnique, PendingIsSent, AppliedIsSent, ResultIsApplied,
         AppliedIsRemembered, AnswersAreTrue, SentIsSettled, PasswordIsKnown, Users, Safe

\* Steps that only make or drop answers.
LEMMA ClientAnswers ==
  ASSUME ClientInv, UNCHANGED ClientVars, \A a \in answers' : a \in answers \/ IsTrue(a)
  PROVE  ClientInv'
<1>1. AnswersAreTrue'
  BY DEF ClientInv, ClientVars, AnswersAreTrue, IsTrue
<1> QED
  BY <1>1 DEF ClientInv, ClientVars, SentIsUnique, PendingIsSent, AppliedIsSent,
              ResultIsApplied, AppliedIsRemembered, SentIsSettled, PasswordIsKnown, Safe

\* A handler that refuses or repeats tells the truth.
LEMMA ClientRefuse ==
  ASSUME CacheInv, ClientInv, NEW r \in sent, NotAllowed(r) \/ Replay(r) \/ IdUsed(r)
  PROVE  ClientInv'
<1>1. /\ r \in Request /\ applied \subseteq Request /\ Key(r) \in Keys
      /\ r.new # None /\ results[Key(r)] \in WellFormed \cup {None}
  BY RequestFacts DEF CacheInv, ResultsInv, TypeOK
<1>2. UNCHANGED ClientVars
  BY DEF NotAllowed, Replay, IdUsed, Refuse, server, client, history, ClientVars
<1>3. CASE NotAllowed(r)
  <2>1. IsTrue([request |-> r, status |-> "not allowed"])
    BY <1>3 DEF NotAllowed, IsTrue
  <2> QED
    BY <1>2, <1>3, <2>1, ClientAnswers DEF NotAllowed, Refuse, Reply
<1>4. CASE Replay(r)
  <2>1. PICK q \in applied : Key(q) = Key(r) /\ q.new = r.new
    BY <1>1, <1>4 DEF Replay, ClientInv, ResultIsApplied
  <2>2. q = r
    BY <1>1, <2>1, RequestFacts
  <2>3. IsTrue([request |-> r, status |-> "success"])
    BY <2>1, <2>2 DEF IsTrue
  <2> QED
    BY <1>2, <1>4, <2>3, ClientAnswers DEF Replay, Refuse, Reply
<1>5. CASE IdUsed(r)
  <2>1. PICK q \in applied : Key(q) = Key(r) /\ q.new # r.new
    BY <1>1, <1>5 DEF IdUsed, ClientInv, ResultIsApplied
  <2>2. r.user \in Careless
    BY <1>1, <2>1, RequestFacts DEF ClientInv, SentIsUnique, AppliedIsSent
  <2>3. IsTrue([request |-> r, status |-> "used"])
    BY <2>2 DEF IsTrue
  <2> QED
    BY <1>2, <1>5, <2>3, ClientAnswers DEF IdUsed, Refuse, Reply
<1> QED
  BY <1>3, <1>4, <1>5

\* A request of a safe device that is executed is the one its client waits for, and is
\* executed for the first time.
LEMMA ClientUpdate ==
  ASSUME CacheInv, ClientInv, NEW r \in sent, UpdatePassword(r)
  PROVE  ClientInv'
<1> DEFINE gone == IF Len(order) < Capacity THEN {} ELSE {Head(order)}
<1>1. /\ r \in Request /\ Key(r) \in Keys /\ r.user \in Devices /\ r.new \in WellFormed
      /\ r.new # None /\ results[Key(r)] = None
  BY RequestFacts DEF UpdatePassword, Acceptable, CacheInv, ResultsInv, TypeOK
<1>2. /\ applied' = applied \cup {r} /\ lost' = lost \cup {k[1] : k \in gone}
      /\ results' = [k \in Keys |-> IF k = Key(r) THEN r.new
                                    ELSE IF k \in gone THEN None ELSE results[k]]
      /\ password' = [password EXCEPT ![r.user] = r.new]
      /\ answers' = answers \cup {[request |-> r, status |-> "success"]}
      /\ UNCHANGED <<sent, pending, known>>
  BY DEF UpdatePassword, Executed, Reply, client
<1>3. \A q \in applied : q \in sent /\ q \in Request /\ Key(q) \in Keys /\ Key(q)[1] = q.user
  BY RequestFacts DEF CacheInv, ResultsInv, TypeOK, ClientInv, AppliedIsSent
<1>4. SentIsUnique' /\ PendingIsSent' /\ AppliedIsSent'
  BY <1>1, <1>2 DEF ClientInv, SentIsUnique, PendingIsSent, AppliedIsSent
<1>5. ResultIsApplied'
  BY <1>1, <1>2 DEF ClientInv, ResultIsApplied
<1>6. AppliedIsRemembered'
  <2> SUFFICES ASSUME NEW q \in applied', q.user \notin Careless \cup lost'
               PROVE  results'[Key(q)] = q.new
    BY DEF AppliedIsRemembered
  <2>1. CASE q = r
    BY <2>1, <1>1, <1>2
  <2>2. CASE q # r
    <3>1. q \in applied /\ results[Key(q)] = q.new
      BY <2>2, <1>2 DEF ClientInv, AppliedIsRemembered
    <3>2. Key(q) # Key(r)
      BY <3>1, <2>2, <1>3 DEF ClientInv, SentIsUnique
    <3>3. Key(q) \notin gone
      BY <3>1, <1>2, <1>3
    <3> QED
      BY <3>1, <3>2, <3>3, <1>2, <1>3
  <2> QED
    BY <2>1, <2>2
<1>7. AnswersAreTrue'
  <2> SUFFICES ASSUME NEW a \in answers' PROVE IsTrue(a)'
    BY DEF AnswersAreTrue
  <2>1. CASE a \in answers
    <3>1. IsTrue(a)
      BY <2>1 DEF ClientInv, AnswersAreTrue
    <3> QED
      BY <3>1, <1>2 DEF IsTrue
  <2>2. CASE a = [request |-> r, status |-> "success"]
    <3>1. a.request = r /\ a.status = "success"
      BY <2>2
    <3> QED
      BY <3>1, <1>2 DEF IsTrue
  <2> QED
    BY <2>1, <2>2, <1>2
<1>8. Safe' \subseteq Safe
  BY <1>2 DEF Safe
<1>9. SentIsSettled'
  BY <1>2, <1>8 DEF ClientInv, SentIsSettled
<1>10. PasswordIsKnown'
  <2> SUFFICES ASSUME NEW d \in Safe'
               PROVE  password'[d] = IF pending[d] # None /\ pending[d] \in applied'
                                     THEN pending[d].new ELSE known[d]
    BY <1>2 DEF PasswordIsKnown
  <2>1. d \in Devices /\ d \in Users /\ password \in [Devices -> WellFormed]
    BY <1>8 DEF Safe, Users, CacheInv, ResultsInv, TypeOK
  <2>2. CASE d = r.user
    <3>1. r \notin applied
      BY <2>2, <1>1, <1>8 DEF Safe, ClientInv, AppliedIsRemembered
    <3>2. pending[d] = r
      BY <2>2, <3>1, <1>1, <1>8 DEF ClientInv, SentIsSettled
    <3>3. r # None
      BY <1>1, RequestFacts
    <3> QED
      BY <2>1, <2>2, <3>2, <3>3, <1>2
  <2>3. CASE d # r.user
    <3>1. pending[d] # None => pending[d] # r
      BY <2>1, <2>3 DEF ClientInv, PendingIsSent
    <3> QED
      BY <2>1, <2>3, <3>1, <1>2, <1>8 DEF ClientInv, PasswordIsKnown
  <2> QED
    BY <2>2, <2>3
<1> QED
  BY <1>4, <1>5, <1>6, <1>7, <1>9, <1>10 DEF ClientInv

\* A fresh request of a careful client was never executed.
LEMMA ClientBegin ==
  ASSUME CacheInv, ClientInv, NEW r \in Request, Begin(r)
  PROVE  ClientInv'
<1>1. /\ r.user \in Users /\ r # None /\ pending \in [Users -> Request \cup {None}]
      /\ sent \subseteq Request
  BY RequestFacts DEF CacheInv, ResultsInv, TypeOK
<1>2. /\ pending[r.user] = None
      /\ pending' = [pending EXCEPT ![r.user] = r] /\ sent' = sent \cup {r}
      /\ r.user \in Careless \/ \A q \in sent : Key(q) # Key(r)
      /\ UNCHANGED <<applied, results, lost, password, known, answers>>
  BY DEF Begin, server, history
<1>3. \A q \in Request : Key(q) = Key(r) => q.user = r.user
  BY RequestFacts
<1>4. SentIsUnique'
  BY <1>1, <1>2, <1>3 DEF ClientInv, SentIsUnique
<1>5. PendingIsSent' /\ AppliedIsSent' /\ ResultIsApplied' /\ AppliedIsRemembered'
  BY <1>1, <1>2 DEF ClientInv, PendingIsSent, AppliedIsSent, ResultIsApplied,
                    AppliedIsRemembered
<1>6. AnswersAreTrue'
  BY <1>2 DEF ClientInv, AnswersAreTrue, IsTrue
<1>7. Safe' = Safe
  BY <1>2 DEF Safe
<1>8. SentIsSettled'
  <2> SUFFICES ASSUME NEW q \in sent', q.user \in Safe
               PROVE  q = pending'[q.user] \/ q.new \notin WellFormed \/ q \in applied
    BY <1>2, <1>7 DEF SentIsSettled
  <2>1. CASE q = r
    BY <2>1, <1>1, <1>2
  <2>2. CASE q # r
    <3>1. q \in sent /\ q # None
      BY <2>2, <1>1, <1>2, RequestFacts
    <3> QED
      BY <3>1, <1>1, <1>2 DEF ClientInv, SentIsSettled
  <2> QED
    BY <2>1, <2>2
<1>9. PasswordIsKnown'
  <2> SUFFICES ASSUME NEW d \in Safe
               PROVE  password[d] = IF pending'[d] # None /\ pending'[d] \in applied
                                    THEN pending'[d].new ELSE known[d]
    BY <1>2, <1>7 DEF PasswordIsKnown
  <2>1. CASE d = r.user
    <3>1. r \notin applied
      BY <2>1, <1>2 DEF Safe, ClientInv, AppliedIsSent
    <3> QED
      BY <2>1, <3>1, <1>1, <1>2 DEF ClientInv, PasswordIsKnown
  <2>2. CASE d # r.user
    BY <2>2, <1>1, <1>2 DEF ClientInv, PasswordIsKnown, Safe, Users
  <2> QED
    BY <2>1, <2>2
<1> QED
  BY <1>4, <1>5, <1>6, <1>8, <1>9 DEF ClientInv

\* The answer that a careful client takes is that to the request it waits for.
LEMMA ClientReceive ==
  ASSUME CacheInv, ClientInv, NEW a \in answers, Receive(a)
  PROVE  ClientInv'
<1> DEFINE u == a.request.user
<1>1. /\ a.request \in Request /\ a.status \in Status /\ u \in Users
      /\ pending \in [Users -> Request \cup {None}] /\ known \in [Users -> Passwords]
  BY RequestFacts DEF CacheInv, ResultsInv, TypeOK
<1>2. /\ pending[u] # None /\ pending[u].id = a.request.id
      /\ known' = IF a.status = "success" THEN [known EXCEPT ![u] = pending[u].new] ELSE known
      /\ pending' = [pending EXCEPT ![u] = None]
      /\ UNCHANGED <<applied, results, lost, password, sent, answers>>
  BY DEF Receive, server, history
<1>3. IsTrue(a)
  BY DEF ClientInv, AnswersAreTrue
<1>4. SentIsUnique' /\ AppliedIsSent' /\ ResultIsApplied' /\ AppliedIsRemembered'
  BY <1>2 DEF ClientInv, SentIsUnique, AppliedIsSent, ResultIsApplied, AppliedIsRemembered
<1>5. AnswersAreTrue'
  BY <1>2 DEF ClientInv, AnswersAreTrue, IsTrue
<1>6. PendingIsSent'
  BY <1>1, <1>2 DEF ClientInv, PendingIsSent
<1>7. Safe' = Safe
  BY <1>2 DEF Safe
<1>8. u \in Safe => a.request = pending[u]
  <2> SUFFICES ASSUME u \in Safe PROVE a.request = pending[u]
    OBVIOUS
  <2>1. pending[u] \in sent /\ pending[u].user = u
    BY <1>1, <1>2 DEF ClientInv, PendingIsSent
  <2>2. Key(a.request) = Key(pending[u])
    BY <1>2, <2>1 DEF Key
  <2> QED
    BY <1>3, <2>1, <2>2 DEF IsTrue, Safe, ClientInv, SentIsUnique
<1>9. u \in Safe => \/ a.status = "success" /\ a.request \in applied
                    \/ a.status # "success" /\ a.request.new \notin WellFormed
  BY <1>1, <1>3, PasswordAssumption DEF IsTrue, Safe, Status, PasswordAssumption
<1>10. SentIsSettled'
  <2> SUFFICES ASSUME NEW q \in sent, q.user \in Safe
               PROVE  q = pending'[q.user] \/ q.new \notin WellFormed \/ q \in applied
    BY <1>2, <1>7 DEF SentIsSettled
  <2>1. q = pending[q.user] \/ q.new \notin WellFormed \/ q \in applied
    BY DEF ClientInv, SentIsSettled
  <2>2. q.user \in Users
    BY DEF Safe, Users
  <2>3. CASE q.user # u
    BY <2>1, <2>2, <2>3, <1>1, <1>2
  <2>4. CASE q.user = u
    BY <2>1, <2>4, <1>8, <1>9
  <2> QED
    BY <2>3, <2>4
<1>11. PasswordIsKnown'
  <2> SUFFICES ASSUME NEW d \in Safe
               PROVE  password[d] = IF pending'[d] # None /\ pending'[d] \in applied
                                    THEN pending'[d].new ELSE known'[d]
    BY <1>2, <1>7 DEF PasswordIsKnown
  <2>1. /\ d \in Users
        /\ password[d] = IF pending[d] # None /\ pending[d] \in applied
                         THEN pending[d].new ELSE known[d]
    BY DEF Safe, Users, ClientInv, PasswordIsKnown
  <2>2. CASE d # u
    BY <2>1, <2>2, <1>1, <1>2
  <2>3. CASE d = u /\ a.status = "success"
    BY <2>1, <2>3, <1>1, <1>2, <1>8, <1>9
  <2>4. CASE d = u /\ a.status # "success"
    <3>1. pending[d] \notin applied
      BY <2>4, <1>8, <1>9 DEF ClientInv, AppliedIsSent
    <3> QED
      BY <2>1, <2>4, <3>1, <1>1, <1>2
  <2> QED
    BY <2>2, <2>3, <2>4
<1> QED
  BY <1>4, <1>5, <1>6, <1>10, <1>11 DEF ClientInv

\* A restart forgets results, and so records whose.
LEMMA ClientRestart ==
  ASSUME CacheInv, ClientInv, Restart
  PROVE  ClientInv'
<1>1. /\ results' = [k \in Keys |-> None] /\ answers' = {}
      /\ lost' = lost \cup {k[1] : k \in {l \in Keys : results[l] # None}}
      /\ UNCHANGED <<password, sent, pending, known, applied>>
  BY DEF Restart, client
<1>2. Safe' \subseteq Safe
  BY <1>1 DEF Safe
<1>3. AppliedIsRemembered'
  <2> SUFFICES ASSUME NEW r \in applied, r.user \notin Careless \cup lost'
               PROVE  FALSE
    BY <1>1 DEF AppliedIsRemembered
  <2>1. Key(r) \in Keys /\ Key(r)[1] = r.user /\ r.new # None
    BY RequestFacts DEF CacheInv, ResultsInv, TypeOK
  <2>2. results[Key(r)] # None
    BY <1>1, <2>1 DEF ClientInv, AppliedIsRemembered
  <2> QED
    BY <1>1, <2>1, <2>2
<1> QED
  BY <1>1, <1>2, <1>3
  DEF ClientInv, SentIsUnique, PendingIsSent, AppliedIsSent, ResultIsApplied,
      AnswersAreTrue, SentIsSettled, PasswordIsKnown

LEMMA ClientStep == CacheInv /\ ClientInv /\ [Next]_vars => ClientInv'
<1> SUFFICES ASSUME CacheInv, ClientInv, [Next]_vars PROVE ClientInv'
  OBVIOUS
<1>1. CASE UNCHANGED vars
  BY <1>1, ClientAnswers DEF vars, server, client, history, ClientVars
<1>2. ASSUME NEW r \in sent, change_password(r) PROVE ClientInv'
  BY <1>1, <1>2, ClientRefuse, ClientUpdate
  DEF change_password, NotAuthenticated, UpdateFails
<1>3. ASSUME NEW u \in Users, login_user(u) \/ Disconnect(u) PROVE ClientInv'
  BY <1>3, ClientAnswers DEF login_user, Disconnect, client, history, ClientVars
<1> QED
  BY <1>1, <1>2, <1>3, ClientBegin, ClientReceive, ClientRestart DEF Next

THEOREM ClientInvariant == Spec => []ClientInv
  BY ClientInit, ClientStep, CacheInvariant, PTL DEF Spec

\* change_password: an answer of success is only ever sent for a request whose own
\* password was stored under its own id, however often ids are reused and results
\* are evicted or lost with a restart.
THEOREM SuccessIsExecuted == Spec => []SuccessWasExecuted
<1>1. ClientInv => SuccessWasExecuted
  BY DEF ClientInv, AnswersAreTrue, IsTrue, SuccessWasExecuted
<1> QED
  BY <1>1, ClientInvariant, PTL

\* change_password under retries: a device that uses each id once and whose results
\* stay remembered knows the stored password at all times, whatever messages are
\* lost, repeated or late.
THEOREM NoLockout == Spec => []NobodyIsLockedOut
<1>1. ClientInv => NobodyIsLockedOut
  BY DEF ClientInv, PasswordIsKnown, Safe, NobodyIsLockedOut, Credentials
<1> QED
  BY <1>1, ClientInvariant, PTL
=============================================================================
