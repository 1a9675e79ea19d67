--------------------------- MODULE PasswordChange ---------------------------
(***************************************************************************)
(* src/src/signal_negotiation.cpp, change_password: a device changes the   *)
(* password under which it is registered.  Requests and answers get lost   *)
(* or late, so a client sends a request again, with the same request id,   *)
(* until it is answered, and the server remembers the results of the last  *)
(* Capacity changes to answer a repeated request without executing it.     *)
(*                                                                         *)
(* The handler holds password_change_mutex_ from the look-up to the        *)
(* eviction, so it is one action.  A password is a value; the fingerprint  *)
(* that the server remembers and the salted hash in the table devices tell *)
(* values apart and do nothing else.  The clients are external: a careful  *)
(* one changes its password once at a time, each time with a fresh request *)
(* id, and logs in with the password that was confirmed last or, while a   *)
(* change is pending, with the new one.  A careless one reuses ids.        *)
(***************************************************************************)
EXTENDS Naturals, Sequences

CONSTANTS
  Devices,      \* the ids registered with a password
  Temps,        \* "C-" and "web-" identities
  Careless,     \* bound: the devices that may use a request id again
  Request,      \* bound: the requests [user, id, new] that clients may make
  Passwords,
  WellFormed,   \* the passwords of exactly six characters
  Initial,      \* the password each device was registered with
  None,         \* no password, no change
  Capacity,     \* kMaxRememberedPasswordChanges
  MaxRestarts   \* bound on the restarts of the server

Users == Devices \cup Temps

ASSUME PasswordAssumption ==
  /\ Devices \cap Temps = {}
  /\ Careless \subseteq Devices
  /\ Request \subseteq [user : Users, id : {r.id : r \in Request}, new : Passwords]
  /\ WellFormed \subseteq Passwords /\ None \notin Passwords \cup Request
  /\ Initial \in WellFormed
  /\ Capacity \in Nat \ {0} /\ MaxRestarts \in Nat

VARIABLES
  password,  \* devices.password_salt, password_hash
  session,   \* the users that have an authenticated connection
  results,   \* password_change_results_: the fingerprint, or None, by key
  order,     \* password_change_result_order_
  sent,      \* requests sent so far: each may arrive any number of times
  answers,   \* answers sent on connections that are open
  pending,   \* by client: the change it has asked for, or None
  known,     \* by client: the password that was confirmed last
  restarts,  \* restarts so far
  age,       \* history, by key: changes executed since it was executed last
  applied,   \* history: the requests executed so far
  lost       \* history: users of whose changes a result is remembered no more

server == <<password, session, results, order>>
client == <<sent, pending, known>>
history == <<age, applied, lost>>
vars == <<server, client, answers, restarts, history>>

Key(r) == <<r.user, r.id>>
Keys == {Key(r) : r \in Request}

\* An answer names the user and the request id.  The password it was asked
\* with is not in the message: it is recorded here for the properties.  The
\* answers "Not authenticated" and "Failed to update password" are not kept:
\* a client that gets one goes on sending its request.
Status == {"success", "used", "not allowed"}
Reply(r, status) == answers' = answers \cup {[request |-> r, status |-> status]}

TypeOK ==
  /\ password \in [Devices -> WellFormed]
  /\ session \subseteq Users
  /\ results \in [Keys -> WellFormed \cup {None}]
  /\ order \in Seq(Keys) /\ Len(order) <= Capacity
  /\ sent \subseteq Request
  /\ answers \subseteq [request : Request, status : Status]
  /\ pending \in [Users -> Request \cup {None}]
  /\ known \in [Users -> Passwords]
  /\ restarts \in 0..MaxRestarts
  /\ age \in [Keys -> 0..Capacity]
  /\ applied \subseteq Request
  /\ lost \subseteq Users

Init ==
  /\ password = [d \in Devices |-> Initial]
  /\ session = {}
  /\ results = [k \in Keys |-> None] /\ order = <<>>
  /\ sent = {} /\ answers = {}
  /\ pending = [u \in Users |-> None] /\ known = [u \in Users |-> Initial]
  /\ restarts = 0
  /\ age = [k \in Keys |-> Capacity] /\ applied = {} /\ lost = {}

-----------------------------------------------------------------------------
(* The handler change_password, one action per outcome.                    *)

\* A request that its mutex-protected part sees.
Acceptable(r) ==
  /\ r \in sent
  /\ r.user \in session
  /\ r.user \in Devices
  /\ r.new \in WellFormed

Refuse(r, status) == Reply(r, status) /\ UNCHANGED <<server, client, restarts, history>>

NotAuthenticated(r) == r \in sent /\ r.user \notin session /\ UNCHANGED vars

\* A temporary identity has no password to change, and a password has exactly
\* six characters.
NotAllowed(r) ==
  /\ r \in sent /\ r.user \in session
  /\ r.user \in Temps \/ r.new \notin WellFormed
  /\ Refuse(r, "not allowed")

\* Mutant: a repeated request is recognised and dropped.
Replay_Silent(r) ==
  /\ Acceptable(r) /\ results[Key(r)] = r.new
  /\ UNCHANGED vars

\* Mutant: the fingerprint is not compared.
Replay_AnyPassword(r) ==
  /\ Acceptable(r) /\ results[Key(r)] # None
  /\ Refuse(r, "success")

\* The remembered response is sent again.
Replay(r) ==
  /\ Acceptable(r) /\ results[Key(r)] = r.new
  /\ Refuse(r, "success")

IdUsed(r) ==
  /\ Acceptable(r) /\ results[Key(r)] \notin {None, r.new}
  /\ Refuse(r, "used")

\* UpdatePassword fails: nothing is remembered, a retry will be executed.
UpdateFails(r) ==
  /\ Acceptable(r) /\ results[Key(r)] = None
  /\ UNCHANGED vars

\* The history of an execution of r, after which the key gone is forgotten.
Executed(r, gone) ==
  /\ age' = [k \in Keys |-> IF k = Key(r) THEN 0
                            ELSE IF age[k] < Capacity THEN age[k] + 1 ELSE Capacity]
  /\ applied' = applied \cup {r}
  /\ lost' = lost \cup {k[1] : k \in gone}

\* Mutant: a repeated request is executed again, as if nothing was remembered.
UpdatePassword_Again(r) ==
  /\ Acceptable(r)
  /\ password' = [password EXCEPT ![r.user] = r.new]
  /\ results' = [results EXCEPT ![Key(r)] = r.new]
  /\ order' = IF results[Key(r)] = None /\ Len(order) < Capacity
              THEN Append(order, Key(r)) ELSE order
  /\ Executed(r, {})
  /\ Reply(r, "success")
  /\ UNCHANGED <<session, client, restarts>>

\* Mutant: the newest result is evicted in place of the oldest.
UpdatePassword_EvictsNewest(r) ==
  LET gone == IF Len(order) < Capacity THEN {} ELSE {order[Capacity]} IN
  /\ Acceptable(r) /\ results[Key(r)] = None
  /\ password' = [password EXCEPT ![r.user] = r.new]
  /\ results' = [k \in Keys |-> IF k = Key(r) THEN r.new
                                ELSE IF k \in gone THEN None ELSE results[k]]
  /\ order' = Append(IF gone = {} THEN order ELSE SubSeq(order, 1, Capacity - 1), Key(r))
  /\ Executed(r, gone)
  /\ Reply(r, "success")
  /\ UNCHANGED <<session, client, restarts>>

\* The password is stored and the success remembered; beyond Capacity results
\* the oldest is evicted.
UpdatePassword(r) ==
  LET gone == IF Len(order) < Capacity THEN {} ELSE {Head(order)} IN
  /\ Acceptable(r) /\ results[Key(r)] = None
  /\ password' = [password EXCEPT ![r.user] = r.new]
  /\ results' = [k \in Keys |-> IF k = Key(r) THEN r.new
                                ELSE IF k \in gone THEN None ELSE results[k]]
  /\ order' = Append(IF gone = {} THEN order ELSE Tail(order), Key(r))
  /\ Executed(r, gone)
  /\ Reply(r, "success")
  /\ UNCHANGED <<session, client, restarts>>

change_password(r) ==
  \/ NotAuthenticated(r)
  \/ NotAllowed(r)
  \/ Replay(r)
  \/ IdUsed(r)
  \/ UpdateFails(r)
  \/ UpdatePassword(r)

-----------------------------------------------------------------------------
(* Logins, the end of connections, and restarts.                           *)

\* What the client of a device may present.
Credentials(u) == {known[u]} \cup (IF pending[u] = None THEN {} ELSE {pending[u].new})

\* AddDevice compares the password with the stored one.
login_user(u) ==
  /\ u \notin session
  /\ u \in Devices => password[u] \in Credentials(u)
  /\ session' = session \cup {u}
  /\ UNCHANGED <<password, results, order, client, answers, restarts, history>>

\* The answers that the client has not read are lost with its connection.
Disconnect(u) ==
  /\ u \in session
  /\ session' = session \ {u}
  /\ answers' = {a \in answers : a.request.user # u}
  /\ UNCHANGED <<password, results, order, client, restarts, history>>

\* The table devices survives, the remembered results do not.
Restart ==
  /\ restarts < MaxRestarts
  /\ restarts' = restarts + 1
  /\ session' = {} /\ answers' = {}
  /\ results' = [k \in Keys |-> None] /\ order' = <<>>
  /\ age' = [k \in Keys |-> Capacity]
  /\ lost' = lost \cup {k[1] : k \in {l \in Keys : results[l] # None}}
  /\ UNCHANGED <<password, client, applied>>

-----------------------------------------------------------------------------
(* The clients.                                                            *)

Begin(r) ==
  /\ r.user \in session /\ pending[r.user] = None
  /\ r.user \in Careless \/ \A q \in sent : Key(q) # Key(r)
  /\ pending' = [pending EXCEPT ![r.user] = r]
  /\ sent' = sent \cup {r}
  /\ UNCHANGED <<server, known, answers, restarts, history>>

\* The client takes an answer with the id it waits for.
Receive(a) ==
  LET u == a.request.user IN
  /\ a \in answers
  /\ pending[u] # None /\ pending[u].id = a.request.id
  /\ known' = IF a.status = "success" THEN [known EXCEPT ![u] = pending[u].new] ELSE known
  /\ pending' = [pending EXCEPT ![u] = None]
  /\ UNCHANGED <<server, sent, answers, restarts, history>>

-----------------------------------------------------------------------------
Next ==
  \/ \E r \in sent : change_password(r)
  \/ \E u \in Users : login_user(u)
  \/ \E u \in Users : Disconnect(u)
  \/ Restart
  \/ \E r \in Request : Begin(r)
  \/ \E a \in answers : Receive(a)

Spec == Init /\ [][Next]_vars

\* A client keeps logging in and sending its pending request again, not every
\* connection ends before its answer is read, and the database does not fail for ever.
Waiting(d) == IF pending[d] = None THEN {} ELSE {pending[d]}
Fairness ==
  \A d \in Devices \ Careless :
    /\ WF_vars(login_user(d))
    /\ SF_vars(\E r \in Waiting(d) : NotAllowed(r))
    /\ SF_vars(\E r \in Waiting(d) : UpdatePassword(r))
    /\ SF_vars(\E r \in Waiting(d) : Replay(r))
    /\ SF_vars(\E a \in answers : a.request.user = d /\ Receive(a))

FairSpec == Spec /\ Fairness

-----------------------------------------------------------------------------
(* Properties.                                                             *)

\* The server remembers exactly the Capacity changes that it executed last: no
\* change is executed again before Capacity others were, none is held longer,
\* and the queue and the map evict together.
LastChangesAreRemembered ==
  /\ \A k \in Keys : results[k] # None <=> age[k] < Capacity
  /\ \A i \in DOMAIN order : age[order[i]] = Len(order) - i

\* The invariant of the cache: types, at most Capacity results, and just those of
\* the last changes.
ResultsInv == TypeOK /\ LastChangesAreRemembered

\* Who is told of success had its own password stored under its own request
\* id, even if the client used the id for two passwords.
SuccessWasExecuted ==
  \A a \in answers : a.status = "success" => a.request \in applied

\* As long as the results of a careful device's changes are remembered, no lost,
\* late or repeated message leaves it with a password it does not know: the
\* stored one is the one confirmed last or the one it is waiting for.
NobodyIsLockedOut ==
  \A d \in Devices \ (Careless \cup lost) : password[d] \in Credentials(d)

\* A careful device whose results stay remembered sees each change answered.
ChangesEnd ==
  \A d \in Devices \ Careless :
    []<>(pending[d] = None \/ d \in lost)
=============================================================================
