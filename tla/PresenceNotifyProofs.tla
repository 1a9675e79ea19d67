------------------------- MODULE PresenceNotifyProofs -------------------------
(***************************************************************************)
(* Proofs about the notifications of presence, for any users, watchers and *)
(* requests.                                                               *)
(*                                                                         *)
(* No mutex covers a change of a device from the table to its messages, so *)
(* the invariant follows each change: a watcher that has not heard of it   *)
(* yet is still among those that some thread will read, or has read, for   *)
(* its messages.  This needs that a watcher is listed before the table is  *)
(* read for its answer, and that it is online when it is looked for.       *)
(***************************************************************************)
EXTENDS PresenceNotify, TLAPS

Steps == {"idle", "login", "unwatch", "offline", "notify", "filter", "send",
          "subscribe", "query", "answer"}

Tasks == [at : Steps, user : Users \cup {NoUser}, online : BOOLEAN,
          targets : SUBSET Watchers, mode : Modes,
          devices : SUBSET Users, answer : SUBSET Users]

Telling == {"notify", "filter", "send"}
Requested == {"subscribe", "query", "answer"}

\* A busy thread is at work for somebody, an idle one for nobody; the checker
\* neither logs in nor answers.
TasksAreNamed ==
  /\ \A th \in Threads : task[th].at = "idle" <=> task[th].user = NoUser
  /\ \A th \in Threads : task[th].at = "idle" => task[th] = Idle
  /\ task["checker"].at \notin Requested \cup {"login"}

\* Whoever is about to be forgotten has no session.  Whoever asks may have lost its own.
SessionsFitTasks ==
  /\ \A th \in Threads : task[th].at \in {"unwatch", "offline"} => task[th].user \notin connected
  /\ task["loop"].at \in Requested => task["loop"].user \in Watchers

ConnectedIsStored ==
  \A u \in connected : u \in dbOnline \/ (At("loop", "login") /\ task["loop"].user = u)

\* A client that has subscribed is connected, online in the table, and listed.
SubscribedIsListed ==
  \A w \in Watchers :
    /\ asked[w] # {} => w \in connected \cap dbOnline
    /\ asked[w] \subseteq lists[w]

\* So will be the client that asks now, by the time the table is read for it, unless its
\* session ends before.
RequestIsListed ==
  LET me == task["loop"] IN
  me.user \in connected =>
  /\ me.at = "subscribe" /\ me.mode = "replace" => asked[me.user] \subseteq me.devices
  /\ me.at \in {"query", "answer"} /\ me.mode # "query" => me.devices \subseteq lists[me.user]

\* A thread tells what the table says, which is the last change.
TellsLast(th) == task[th].online <=> task[th].user \in dbOnline

\* So does every thread, unless the other one has changed the device meanwhile.
MessagesAreTrue ==
  \A th \in Threads :
    task[th].at \in Telling => TellsLast(th) \/ task[th].user \in crossed

\* So is an answer, except for the devices that have changed since.
AnswerIsTrue ==
  At("loop", "answer") =>
    \A u \in task["loop"].devices \ stale : u \in task["loop"].answer <=> u \in dbOnline

ToldIsTrue ==
  \A p \in told \ raced : p[2] \notin crossed => word[p] = State(p[2] \in dbOnline)

\* A thread is going to tell w of the last change of u.
WillTell(w, u) ==
  \E th \in Threads :
    /\ task[th].user = u /\ TellsLast(th)
    /\ \/ task[th].at = "notify"
       \/ task[th].at \in {"filter", "send"} /\ w \in task[th].targets

\* Every subscriber of a device has heard of its last change, or will.
ChangesAreTold ==
  \A w \in Watchers : \A u \in asked[w] \ {w} : <<w, u>> \in told \/ WillTell(w, u)

\* Likewise the client that is being answered, for the devices that have changed
\* since the table was read, which the answer has wrong.
StaleIsTold ==
  LET me == task["loop"] IN
  me.at = "answer" /\ me.mode # "query" /\ me.user \in connected =>
    \A u \in (me.devices \cap stale) \ {me.user} : <<me.user, u>> \in told \/ WillTell(me.user, u)

NotifyIInv ==
  /\ TypeOK
  /\ TasksAreNamed
  /\ SessionsFitTasks
  /\ ConnectedIsStored
  /\ SubscribedIsListed
  /\ RequestIsListed
  /\ MessagesAreTrue
  /\ AnswerIsTrue
  /\ ToldIsTrue
  /\ ChangesAreTold
  /\ StaleIsTold
-----------------------------------------------------------------------------
(* What the steps have in common.                                          *)

LEMMA IdleTask == Idle \in Tasks /\ Idle.at = "idle" /\ Idle.user = NoUser
  BY DEF Idle, Task, Tasks, Steps, Modes

\* A task begins with its step and its user.
LEMMA TaskBegins ==
  ASSUME NEW at \in Steps, NEW u \in Users
  PROVE  /\ Task(at, u) \in Tasks
         /\ Task(at, u).at = at /\ Task(at, u).user = u
         /\ Task(at, u).targets = {} /\ Task(at, u).devices = {}
  BY DEF Task, Tasks, Steps, Modes

LEMMA TaskTypes == TypeOK => task \in [Threads -> Tasks]
  BY DEF TypeOK, Tasks, Steps

\* The thread that steps has the new task, the other one keeps its own.
LEMMA Goes ==
  ASSUME TypeOK, TasksAreNamed, NEW th \in Threads, NEW t \in Tasks, Goto(th, t),
         t.at = "idle" <=> t.user = NoUser,
         t.at = "idle" => t = Idle,
         th = "checker" => t.at \notin Requested \cup {"login"}
  PROVE  /\ task' \in [Threads -> Tasks] /\ task'[th] = t
         /\ \A o \in Threads \ {th} : task'[o] = task[o]
         /\ TasksAreNamed'
<1>1. /\ task' \in [Threads -> Tasks] /\ task'[th] = t
      /\ \A o \in Threads \ {th} : task'[o] = task[o]
  BY TaskTypes DEF Goto
<1>2. TasksAreNamed'
  BY <1>1 DEF TasksAreNamed, Threads
<1> QED
  BY <1>1, <1>2

\* The types of all variables, put together again.
LEMMA TypesMeet ==
  ASSUME TypeOK, task' \in [Threads -> Tasks],
         NEW th \in Threads, \A o \in Threads \ {th} : task'[o] = task[o],
         task'[th].at = "send" => task'[th].targets # {},
         connected' \subseteq Users, dbOnline' \subseteq Users,
         lists' \in [Watchers -> SUBSET Users], asked' \in [Watchers -> SUBSET Users],
         word' \in [Pairs -> {"nothing", "online", "offline"}],
         told' \subseteq Pairs, raced' \subseteq Pairs,
         stale' \subseteq Users, crossed' \subseteq Users
  PROVE  TypeOK'
<1>1. \A o \in Threads : task'[o].at = "send" => task'[o].targets # {}
  <2> SUFFICES ASSUME NEW o \in Threads PROVE task'[o].at = "send" => task'[o].targets # {}
    OBVIOUS
  <2>1. CASE o = th
    BY <2>1
  <2>2. CASE o # th
    BY <2>2 DEF TypeOK, At
  <2> QED
    BY <2>1, <2>2
<1> QED
  BY <1>1 DEF TypeOK, At, Tasks, Steps

-----------------------------------------------------------------------------
(* The steps of the operations.                                            *)

\* A thread goes on telling the watchers of its user: whoever is connected, and listed
\* for the user, has been told or is still to be told.
LEMMA TellingPreserves ==
  ASSUME NotifyIInv, NEW th \in Threads, NEW n \in Tasks, Goto(th, n),
         task[th].at \in Telling,
         n = Idle \/ (/\ n.at \in {"filter", "send"} /\ n.user = task[th].user
                      /\ n.online = task[th].online),
         n.at = "send" => n.targets # {},
         UNCHANGED <<connected, dbOnline, lists, asked, stale, crossed>>,
         told \subseteq told', told' \subseteq Pairs, raced' \subseteq Pairs,
         word' \in [Pairs -> {"nothing", "online", "offline"}],
         \A p \in told' \ raced' :
           \/ p \in told \ raced /\ word'[p] = word[p]
           \/ p[2] = task[th].user /\ word'[p] = State(task[th].online),
         TellsLast(th) => \A x \in (Watchers \cap connected \cap dbOnline) \ {task[th].user} :
           /\ task[th].user \in lists[x]
           /\ task[th].at = "notify" \/ x \in task[th].targets
           => \/ <<x, task[th].user>> \in told'
              \/ n.at \in {"filter", "send"} /\ x \in n.targets
  PROVE  NotifyIInv'
<1> DEFINE me == task[th]
<1>1. TypeOK /\ TasksAreNamed /\ task \in [Threads -> Tasks]
  BY TaskTypes DEF NotifyIInv
<1>2. /\ me.user # NoUser /\ me.at # "idle"
      /\ n.at = "idle" <=> n.user = NoUser
      /\ n.at = "idle" => n = Idle
      /\ n.at \in {"idle", "filter", "send"}
      /\ n.user \in {NoUser, me.user}
  BY <1>1, IdleTask DEF TasksAreNamed, Telling
<1>3. /\ task' \in [Threads -> Tasks] /\ task'[th] = n
      /\ \A o \in Threads \ {th} : task'[o] = task[o]
      /\ TasksAreNamed'
  BY <1>1, <1>2, Goes DEF Requested
<1>4. TypeOK'
  BY <1>1, <1>3, TypesMeet DEF TypeOK
<1>5. SessionsFitTasks'
  BY <1>2, <1>3 DEF NotifyIInv, SessionsFitTasks, Requested, Threads
<1>6. ConnectedIsStored' /\ SubscribedIsListed'
  BY <1>2, <1>3 DEF NotifyIInv, ConnectedIsStored, SubscribedIsListed, At, Threads, Telling
<1>7. RequestIsListed' /\ AnswerIsTrue'
  BY <1>2, <1>3 DEF NotifyIInv, RequestIsListed, AnswerIsTrue, At, Threads
<1>8. MessagesAreTrue'
  <2> SUFFICES ASSUME NEW o \in Threads, task'[o].at \in Telling
               PROVE  TellsLast(o)' \/ task'[o].user \in crossed
    BY DEF MessagesAreTrue
  <2>1. CASE o = th
    BY <1>2, <1>3, <2>1, IdleTask DEF NotifyIInv, MessagesAreTrue, Telling, TellsLast
  <2>2. CASE o # th
    BY <1>3, <2>2 DEF NotifyIInv, MessagesAreTrue, TellsLast
  <2> QED
    BY <2>1, <2>2
<1>9. ToldIsTrue'
  <2>1. me.user \notin crossed => State(me.online) = State(me.user \in dbOnline)
    BY DEF NotifyIInv, MessagesAreTrue, TellsLast, State
  <2> SUFFICES ASSUME NEW p \in told' \ raced', p[2] \notin crossed
               PROVE  word'[p] = State(p[2] \in dbOnline)
    BY DEF ToldIsTrue
  <2>2. CASE p \in told \ raced /\ word'[p] = word[p]
    BY <2>2 DEF NotifyIInv, ToldIsTrue
  <2>3. CASE p[2] = me.user /\ word'[p] = State(me.online)
    BY <2>1, <2>3
  <2> QED
    BY <2>2, <2>3
<1>10. ASSUME NEW x \in Watchers \cap connected \cap dbOnline, NEW u \in lists[x] \ {x},
              <<x, u>> \in told \/ WillTell(x, u)
       PROVE  (<<x, u>> \in told \/ WillTell(x, u))'
  <2>1. CASE <<x, u>> \in told
    BY <2>1
  <2>2. CASE WillTell(x, u)
    <3>1. PICK o \in Threads :
            /\ task[o].user = u /\ TellsLast(o)
            /\ \/ task[o].at = "notify"
               \/ task[o].at \in {"filter", "send"} /\ x \in task[o].targets
      BY <2>2 DEF WillTell
    <3>2. CASE o # th
      BY <1>3, <3>1, <3>2 DEF WillTell, TellsLast
    <3>3. CASE o = th
      <4>1. <<x, u>> \in told' \/ (n.at \in {"filter", "send"} /\ x \in n.targets)
        BY <1>10, <3>1, <3>3
      <4>2. n.at \in {"filter", "send"} => n.user = u /\ n.online = me.online
        BY <3>1, <3>3, IdleTask
      <4> QED
        BY <1>3, <3>1, <3>3, <4>1, <4>2 DEF WillTell, TellsLast
    <3> QED
      BY <3>2, <3>3
  <2> QED
    BY <1>10, <2>1, <2>2
<1>11. ChangesAreTold'
  BY <1>1, <1>10 DEF NotifyIInv, ChangesAreTold, SubscribedIsListed, TypeOK
<1>12. StaleIsTold'
  <2> DEFINE l == task["loop"]
  <2> SUFFICES ASSUME task'["loop"].at = "answer", task'["loop"].mode # "query",
                      task'["loop"].user \in connected,
                      NEW u \in (task'["loop"].devices \cap stale) \ {task'["loop"].user}
               PROVE  (<<l.user, u>> \in told \/ WillTell(l.user, u))'
    BY DEF StaleIsTold
  <2>1. task'["loop"] = l
    BY <1>2, <1>3 DEF Threads
  <2>2. l.user \in Watchers \cap connected \cap dbOnline
    BY <2>1 DEF NotifyIInv, SessionsFitTasks, Requested, ConnectedIsStored, At
  <2>3. PICK x \in Watchers \cap connected \cap dbOnline : x = l.user
    BY <2>2
  <2>4. u \in lists[x] \ {x}
    BY <2>1, <2>3 DEF NotifyIInv, RequestIsListed
  <2>5. <<x, u>> \in told \/ WillTell(x, u)
    BY <2>1, <2>3 DEF NotifyIInv, StaleIsTold
  <2>6. (<<x, u>> \in told \/ WillTell(x, u))'
    BY <1>10, <2>4, <2>5
  <2> QED
    BY <2>1, <2>3, <2>6
<1> QED
  BY <1>3, <1>4, <1>5, <1>6, <1>7, <1>8, <1>9, <1>11, <1>12 DEF NotifyIInv
LEMMA NotifyWatchersPreserves ==
  ASSUME NotifyIInv, NEW th \in Threads, NotifyWatchers(th)
  PROVE  NotifyIInv'
<1> DEFINE me == task[th]
           watchers == {x \in Watchers : me.user \in lists[x]}
           n == IF watchers = {} THEN Idle ELSE [me EXCEPT !.at = "filter", !.targets = watchers]
<1>1. /\ me \in Tasks /\ me.at = "notify" /\ Goto(th, n)
      /\ UNCHANGED <<connected, dbOnline, lists, asked, word, told, stale, raced, crossed>>
  BY TaskTypes DEF NotifyIInv, NotifyWatchers, At
<1>2. /\ n \in Tasks
      /\ n = Idle \/ (n.at = "filter" /\ n.user = me.user /\ n.online = me.online)
      /\ watchers # {} => n.at = "filter" /\ n.targets = watchers
  <2> HIDE DEF watchers
  <2>1. watchers \subseteq Watchers
    BY DEF watchers
  <2>2. CASE watchers = {}
    BY <2>2, IdleTask
  <2>3. CASE watchers # {}
    <3> DEFINE m == [me EXCEPT !.at = "filter", !.targets = watchers]
    <3>1. m \in Tasks /\ m.at = "filter" /\ m.targets = watchers
          /\ m.user = me.user /\ m.online = me.online
      BY <1>1, <2>1 DEF Tasks, Steps
    <3> QED
      BY <2>3, <3>1
  <2> QED
    BY <2>2, <2>3
<1> HIDE DEF n
<1>3. ASSUME NEW x \in Watchers, me.user \in lists[x]
      PROVE  n.at \in {"filter", "send"} /\ x \in n.targets
  BY <1>2, <1>3
<1>4. told \subseteq Pairs /\ raced \subseteq Pairs
      /\ word \in [Pairs -> {"nothing", "online", "offline"}]
  BY DEF NotifyIInv, TypeOK
<1> QED
  BY <1>1, <1>2, <1>3, <1>4, IdleTask, TellingPreserves DEF Telling

\* A watcher that is connected is online in the table by the time anybody is told.
LEMMA NotifyFilterPreserves ==
  ASSUME NotifyIInv, NEW th \in Threads, NotifyFilter(th)
  PROVE  NotifyIInv'
<1> DEFINE me == task[th]
           targets == (me.targets \cap dbOnline) \ {me.user}
           n == IF targets = {} THEN Idle ELSE [me EXCEPT !.at = "send", !.targets = targets]
<1>1. /\ me \in Tasks /\ me.at = "filter" /\ Goto(th, n)
      /\ UNCHANGED <<connected, dbOnline, lists, asked, word, told, stale, raced, crossed>>
  BY TaskTypes DEF NotifyIInv, NotifyFilter, At
<1>2. /\ n \in Tasks
      /\ n = Idle \/ (n.at = "send" /\ n.user = me.user /\ n.online = me.online)
      /\ n.at = "send" => n.targets # {}
      /\ targets # {} => n.at = "send" /\ n.targets = targets
  <2>1. targets \subseteq Watchers
    BY <1>1 DEF Tasks
  <2> HIDE DEF targets
  <2>2. CASE targets = {}
    BY <2>2, IdleTask
  <2>3. CASE targets # {}
    <3> DEFINE m == [me EXCEPT !.at = "send", !.targets = targets]
    <3>1. m \in Tasks /\ m.at = "send" /\ m.targets = targets
          /\ m.user = me.user /\ m.online = me.online
      BY <1>1, <2>1 DEF Tasks, Steps
    <3> QED
      BY <2>3, <3>1
  <2> QED
    BY <2>2, <2>3
<1> HIDE DEF n
<1>3. ASSUME NEW x \in dbOnline \ {me.user}, x \in me.targets
      PROVE  n.at \in {"filter", "send"} /\ x \in n.targets
  BY <1>2, <1>3
<1>4. told \subseteq Pairs /\ raced \subseteq Pairs
      /\ word \in [Pairs -> {"nothing", "online", "offline"}]
  BY DEF NotifyIInv, TypeOK
<1> QED
  BY <1>1, <1>2, <1>3, <1>4, IdleTask, TellingPreserves DEF Telling

LEMMA NotifySendPreserves ==
  ASSUME NotifyIInv, NEW th \in Threads, NotifySend(th)
  PROVE  NotifyIInv'
<1> DEFINE me == task[th]
<1>1. /\ me \in Tasks /\ me.at = "send" /\ me.user \in Users
      /\ UNCHANGED <<connected, dbOnline, lists, asked, stale, crossed>>
  BY TaskTypes DEF NotifyIInv, NotifySend, At, TasksAreNamed, Tasks
<1>2. /\ told \subseteq Pairs /\ raced \subseteq Pairs
      /\ word \in [Pairs -> {"nothing", "online", "offline"}]
  BY DEF NotifyIInv, TypeOK
<1>3. PICK x \in me.targets :
        /\ Goto(th, IF me.targets \ {x} = {} THEN Idle ELSE [me EXCEPT !.targets = @ \ {x}])
        /\ IF x \in connected
           THEN /\ word' = [word EXCEPT ![<<x, me.user>>] = State(me.online)]
                /\ told' = IF TellsLast(th) THEN told \cup {<<x, me.user>>} ELSE told
                /\ raced' = raced \ {<<x, me.user>>}
           ELSE UNCHANGED <<word, told, raced>>
  BY DEF NotifySend, Hear, TellsLast
<1> DEFINE rest == me.targets \ {x}
           n == IF rest = {} THEN Idle ELSE [me EXCEPT !.targets = rest]
<1>4. Goto(th, n)
  BY <1>3
<1>5. /\ n \in Tasks
      /\ n = Idle \/ (n.at = "send" /\ n.user = me.user /\ n.online = me.online)
      /\ n.at = "send" => n.targets # {}
      /\ rest # {} => n.at = "send" /\ n.targets = rest
  <2>1. rest \subseteq Watchers
    BY <1>1 DEF Tasks
  <2> HIDE DEF rest
  <2>2. CASE rest = {}
    BY <2>2, IdleTask
  <2>3. CASE rest # {}
    <3> DEFINE m == [me EXCEPT !.targets = rest]
    <3>1. m \in Tasks /\ m.at = "send" /\ m.targets = rest
          /\ m.user = me.user /\ m.online = me.online
      BY <1>1, <2>1 DEF Tasks, Steps
    <3> QED
      BY <2>3, <3>1
  <2> QED
    BY <2>2, <2>3
<1>6. <<x, me.user>> \in Pairs /\ State(me.online) \in {"online", "offline"}
  BY <1>1, <1>3 DEF Pairs, Tasks, State
<1>7. /\ told \subseteq told' /\ told' \subseteq Pairs /\ raced' \subseteq Pairs
      /\ word' \in [Pairs -> {"nothing", "online", "offline"}]
  BY <1>2, <1>3, <1>6
<1>8. ASSUME NEW p \in told' \ raced'
      PROVE  \/ p \in told \ raced /\ word'[p] = word[p]
             \/ p[2] = me.user /\ word'[p] = State(me.online)
  <2>1. CASE p = <<x, me.user>> /\ x \in connected
    BY <1>2, <1>3, <1>6, <2>1
  <2>2. CASE ~(p = <<x, me.user>> /\ x \in connected)
    BY <1>2, <1>3, <1>8, <2>2
  <2> QED
    BY <2>1, <2>2
<1>9. ASSUME TellsLast(th), NEW y \in connected, y \in me.targets
      PROVE  <<y, me.user>> \in told' \/ (n.at \in {"filter", "send"} /\ y \in n.targets)
  <2>1. CASE y = x
    BY <1>3, <1>9, <2>1
  <2>2. CASE y # x
    BY <1>5, <1>9, <2>2
  <2> QED
    BY <2>1, <2>2
<1> HIDE DEF n
<1> QED
  BY <1>1, <1>4, <1>5, <1>7, <1>8, <1>9, IdleTask, TellingPreserves DEF Telling
\* The table changes, and the thread that changed it will tell of it.  What the other
\* thread still has to tell of the same user is out of date.
LEMMA StorePreserves ==
  ASSUME NotifyIInv, NEW th \in Threads, NEW n \in Tasks, Goto(th, n),
         task[th].at \in {"login", "offline"},
         NEW on \in BOOLEAN, on <=> task[th].at = "login",
         SetDeviceOnline(th, task[th].user, on),
         n.at = "notify" /\ n.user = task[th].user /\ n.online = on,
         UNCHANGED <<connected, lists, asked, word, raced>>
  PROVE  NotifyIInv'
<1> DEFINE me == task[th]
<1>1. TypeOK /\ TasksAreNamed /\ task \in [Threads -> Tasks]
  BY TaskTypes DEF NotifyIInv
<1>2. me.user \in Users /\ me.user # NoUser
  BY <1>1, NotifyAssumption DEF TasksAreNamed, Tasks, NotifyAssumption
<1>3. /\ task' \in [Threads -> Tasks] /\ task'[th] = n
      /\ \A o \in Threads \ {th} : task'[o] = task[o]
      /\ TasksAreNamed'
  BY <1>1, <1>2, Goes DEF Requested
<1>4. /\ dbOnline' \subseteq Users
      /\ \A u : u # me.user => (u \in dbOnline' <=> u \in dbOnline)
      /\ me.user \in dbOnline' <=> on
  BY <1>1, <1>2 DEF SetDeviceOnline, TypeOK
<1>5. /\ told' \subseteq told /\ stale \subseteq stale'
      /\ stale' \subseteq stale \cup (IF At("loop", "answer") THEN {me.user} ELSE {})
      /\ \A p \in told \ told' : p[2] = me.user
      /\ dbOnline' # dbOnline => \A p \in told' : p[2] # me.user
      /\ dbOnline' # dbOnline /\ At("loop", "answer") => me.user \in stale'
  BY DEF SetDeviceOnline
<1>17. /\ crossed' \subseteq Users
       /\ \A u : u # me.user => (u \in crossed' <=> u \in crossed)
       /\ dbOnline' = dbOnline => crossed' = crossed
       /\ dbOnline' # dbOnline /\ OtherTells(th, me.user) => me.user \in crossed'
  BY <1>1, <1>2 DEF SetDeviceOnline, TypeOK
<1>6. TypeOK'
  <2>1. told' \subseteq Pairs /\ stale' \subseteq Users
    BY <1>1, <1>2, <1>5 DEF TypeOK
  <2> QED
    BY <1>1, <1>3, <1>4, <1>17, <2>1, TypesMeet DEF TypeOK
<1>7. SessionsFitTasks'
  BY <1>3 DEF NotifyIInv, SessionsFitTasks, Requested, Threads
<1>8. ConnectedIsStored'
  <2> SUFFICES ASSUME NEW u \in connected
               PROVE  u \in dbOnline' \/ (task'["loop"].at = "login" /\ task'["loop"].user = u)
    BY DEF ConnectedIsStored, At
  <2>1. u \in Users
    BY <1>1 DEF TypeOK
  <2>2. CASE u # me.user
    BY <1>3, <1>4, <2>1, <2>2 DEF NotifyIInv, ConnectedIsStored, At, Threads
  <2>3. CASE u = me.user
    BY <1>4, <2>3 DEF NotifyIInv, SessionsFitTasks
  <2> QED
    BY <2>2, <2>3
<1>9. SubscribedIsListed'
  <2> SUFFICES ASSUME NEW w \in Watchers, asked[w] # {}
               PROVE  w \in dbOnline'
    BY DEF NotifyIInv, SubscribedIsListed
  <2>1. w \in Users /\ w \in connected \cap dbOnline
    BY NotifyAssumption DEF NotifyIInv, SubscribedIsListed, NotifyAssumption
  <2>2. me.user = w => on
    BY <2>1 DEF NotifyIInv, SessionsFitTasks
  <2> QED
    BY <1>4, <2>1, <2>2
<1>10. RequestIsListed'
  BY <1>3 DEF NotifyIInv, RequestIsListed, Threads
<1>11. MessagesAreTrue'
  <2> SUFFICES ASSUME NEW o \in Threads, task'[o].at \in Telling
               PROVE  TellsLast(o)' \/ task'[o].user \in crossed'
    BY DEF MessagesAreTrue
  <2>1. CASE o = th
    BY <1>3, <1>4, <2>1 DEF TellsLast
  <2>2. CASE o # th
    <3>1. task[o].at \in Telling /\ task'[o] = task[o]
      BY <1>3, <2>2
    <3>2. TellsLast(o) \/ task[o].user \in crossed
      BY <3>1 DEF NotifyIInv, MessagesAreTrue
    <3>3. CASE dbOnline' = dbOnline
      BY <1>17, <3>1, <3>2, <3>3 DEF TellsLast
    <3>4. CASE dbOnline' # dbOnline /\ task[o].user = me.user
      BY <1>17, <2>2, <3>1, <3>4 DEF OtherTells, Telling
    <3>5. CASE task[o].user # me.user
      BY <1>4, <1>17, <3>1, <3>2, <3>5 DEF TellsLast
    <3> QED
      BY <3>3, <3>4, <3>5
  <2> QED
    BY <2>1, <2>2
<1>12. AnswerIsTrue'
  <2> SUFFICES ASSUME task'["loop"].at = "answer",
                      NEW u \in task'["loop"].devices \ stale'
               PROVE  u \in task'["loop"].answer <=> u \in dbOnline'
    BY DEF AnswerIsTrue, At
  <2>1. task'["loop"] = task["loop"]
    BY <1>3 DEF Threads
  <2>2. u \in Users /\ u \notin stale
    BY <1>1, <1>5, <2>1 DEF Tasks, Threads
  <2>3. u \in task["loop"].answer <=> u \in dbOnline
    BY <2>1, <2>2 DEF NotifyIInv, AnswerIsTrue, At
  <2>4. u = me.user => dbOnline' = dbOnline
    BY <1>5, <2>1 DEF At
  <2> QED
    BY <1>4, <2>1, <2>2, <2>3, <2>4
<1>13. ToldIsTrue'
  <2> SUFFICES ASSUME NEW p \in told' \ raced, p[2] \notin crossed'
               PROVE  word[p] = State(p[2] \in dbOnline')
    BY DEF ToldIsTrue
  <2>1. (p[2] \in dbOnline' <=> p[2] \in dbOnline) /\ p[2] \notin crossed
    BY <1>4, <1>5, <1>17
  <2>2. word[p] = State(p[2] \in dbOnline)
    BY <1>5, <2>1 DEF NotifyIInv, ToldIsTrue
  <2> QED
    BY <2>1, <2>2
<1>14. ASSUME NEW x, NEW u, <<x, u>> \in told \/ WillTell(x, u)
       PROVE  (<<x, u>> \in told \/ WillTell(x, u))'
  <2>1. CASE u = me.user
    BY <1>3, <1>4, <2>1 DEF WillTell, TellsLast
  <2>2. CASE u # me.user /\ <<x, u>> \in told
    BY <1>5, <2>2
  <2>3. CASE u # me.user /\ WillTell(x, u)
    BY <1>3, <1>4, <2>3 DEF WillTell, TellsLast
  <2> QED
    BY <1>14, <2>1, <2>2, <2>3
<1>15. ChangesAreTold'
  BY <1>14 DEF NotifyIInv, ChangesAreTold
<1>16. StaleIsTold'
  <2> DEFINE l == task["loop"]
  <2> SUFFICES ASSUME task'["loop"].at = "answer", task'["loop"].mode # "query",
                      task'["loop"].user \in connected,
                      NEW u \in (task'["loop"].devices \cap stale') \ {task'["loop"].user}
               PROVE  (<<l.user, u>> \in told \/ WillTell(l.user, u))'
    BY DEF StaleIsTold
  <2>1. task'["loop"] = l
    BY <1>3 DEF Threads
  <2>2. PICK x : x = l.user
    OBVIOUS
  <2>3. CASE u = me.user
    <3>1. WillTell(x, u)'
      BY <1>3, <1>4, <2>3 DEF WillTell, TellsLast
    <3> QED
      BY <2>1, <2>2, <3>1
  <2>4. CASE u # me.user
    <3>1. <<x, u>> \in told \/ WillTell(x, u)
      BY <1>5, <2>1, <2>2, <2>4 DEF NotifyIInv, StaleIsTold
    <3>2. (<<x, u>> \in told \/ WillTell(x, u))'
      BY <1>14, <3>1
    <3> QED
      BY <2>1, <2>2, <3>2
  <2> QED
    BY <2>3, <2>4
<1> QED
  BY <1>3, <1>6, <1>7, <1>8, <1>9, <1>10, <1>11, <1>12, <1>13, <1>15, <1>16 DEF NotifyIInv

LEMMA ChangesPreserve ==
  ASSUME NotifyIInv, NEW th \in Threads, (th = "loop" /\ OnLogin) \/ OnLogoutStore(th)
  PROVE  NotifyIInv'
<1> DEFINE me == task[th]
           m(on) == [me EXCEPT !.at = "notify", !.online = on]
<1>1. me \in Tasks
  BY TaskTypes DEF NotifyIInv
<1>2. ASSUME NEW on \in BOOLEAN
      PROVE  m(on) \in Tasks /\ m(on).at = "notify" /\ m(on).user = me.user /\ m(on).online = on
  BY <1>1 DEF Tasks, Steps
<1>3. CASE th = "loop" /\ OnLogin
  <2>1. /\ me.at = "login" /\ Goto(th, m(TRUE)) /\ SetDeviceOnline(th, me.user, TRUE)
        /\ UNCHANGED <<connected, lists, asked, word, raced>>
    BY <1>3 DEF OnLogin, At
  <2> HIDE DEF m
  <2> QED
    BY <1>2, <2>1, StorePreserves
<1>4. CASE OnLogoutStore(th)
  <2>1. /\ me.at = "offline" /\ Goto(th, m(FALSE)) /\ SetDeviceOnline(th, me.user, FALSE)
        /\ UNCHANGED <<connected, lists, asked, word, raced>>
    BY <1>4 DEF OnLogoutStore, At
  <2> HIDE DEF m
  <2> QED
    BY <1>2, <2>1, StorePreserves
<1> QED
  BY <1>3, <1>4
\* A session ends: nobody is told yet, and its client is subscribed to nothing any more.
LEMMA LeavePreserves ==
  ASSUME NotifyIInv, NEW th \in Threads, NEW u \in connected,
         task[th] = Idle, SessionEnds(u), Goto(th, Task("unwatch", u)),
         UNCHANGED <<dbOnline, lists, stale, crossed>>
  PROVE  NotifyIInv'
<1> DEFINE n == Task("unwatch", u)
<1>1. TypeOK /\ TasksAreNamed /\ task \in [Threads -> Tasks]
  BY TaskTypes DEF NotifyIInv
<1>2. /\ u \in Users /\ n \in Tasks /\ n.at = "unwatch" /\ n.user = u /\ u # NoUser
  BY <1>1, TaskBegins, NotifyAssumption DEF TypeOK, Steps, NotifyAssumption
<1> HIDE DEF n
<1>3. /\ task' \in [Threads -> Tasks] /\ task'[th] = n
      /\ \A o \in Threads \ {th} : task'[o] = task[o]
      /\ TasksAreNamed'
  <2>1. Goto(th, n)
    BY DEF n
  <2> QED
    BY <1>1, <1>2, <2>1, Goes DEF Requested
<1>4. /\ asked' \in [Watchers -> SUBSET Users] /\ \A w \in Watchers : asked'[w] \subseteq asked[w]
      /\ u \in Watchers => asked'[u] = {}
      /\ connected' = connected \ {u}
  BY <1>1 DEF TypeOK, SessionEnds
<1>15. /\ word' \in [Pairs -> {"nothing", "online", "offline"}]
       /\ told' = {p \in told : p[1] # u} /\ raced' = {p \in raced : p[1] # u}
       /\ \A p \in Pairs : p[1] # u => word'[p] = word[p]
  BY <1>1 DEF TypeOK, SessionEnds
<1>5. TypeOK'
  BY <1>1, <1>2, <1>3, <1>4, <1>15, TypesMeet DEF TypeOK
<1>6. task[th].at = "idle" /\ task[th].user = NoUser
  BY IdleTask
<1>7. SessionsFitTasks'
  BY <1>2, <1>3, <1>4 DEF NotifyIInv, SessionsFitTasks, Requested, Threads
<1>8. ConnectedIsStored'
  BY <1>2, <1>3, <1>4, <1>6 DEF NotifyIInv, ConnectedIsStored, At, Threads
<1>9. SubscribedIsListed'
  BY <1>4 DEF NotifyIInv, SubscribedIsListed
<1>10. RequestIsListed'
  <2> SUFFICES ASSUME task'["loop"].at \in Requested
               PROVE  RequestIsListed'
    BY DEF RequestIsListed, Requested
  <2>1. task'["loop"] = task["loop"] /\ task["loop"].user \in Watchers
    BY <1>2, <1>3 DEF NotifyIInv, SessionsFitTasks, Requested, Threads
  <2> QED
    BY <1>4, <2>1 DEF NotifyIInv, RequestIsListed
<1>11. AnswerIsTrue'
  BY <1>2, <1>3 DEF NotifyIInv, AnswerIsTrue, At, Threads
<1>17. MessagesAreTrue'
  BY <1>2, <1>3 DEF NotifyIInv, MessagesAreTrue, TellsLast, Telling
<1>16. ToldIsTrue'
  BY <1>1, <1>15 DEF NotifyIInv, ToldIsTrue, TypeOK
<1>12. ASSUME NEW x, x # u, NEW v \in Users, <<x, v>> \in told \/ WillTell(x, v)
       PROVE  (<<x, v>> \in told \/ WillTell(x, v))'
  BY <1>3, <1>6, <1>12, <1>15 DEF WillTell, TellsLast
<1>13. ChangesAreTold'
  BY <1>1, <1>4, <1>12 DEF NotifyIInv, ChangesAreTold, TypeOK
<1>14. StaleIsTold'
  <2> DEFINE l == task["loop"]
  <2> SUFFICES ASSUME task'["loop"].at = "answer", task'["loop"].mode # "query",
                      task'["loop"].user \in connected',
                      NEW v \in (task'["loop"].devices \cap stale) \ {task'["loop"].user}
               PROVE  (<<l.user, v>> \in told \/ WillTell(l.user, v))'
    BY DEF StaleIsTold
  <2>1. task'["loop"] = l
    BY <1>2, <1>3 DEF Threads
  <2>2. PICK x \in connected \ {u} : x = l.user
    BY <1>4, <2>1
  <2>3. <<x, v>> \in told \/ WillTell(x, v)
    BY <2>1, <2>2 DEF NotifyIInv, StaleIsTold
  <2>4. v \in Users
    BY <1>1 DEF TypeOK
  <2>5. (<<x, v>> \in told \/ WillTell(x, v))'
    BY <1>12, <2>3, <2>4
  <2> QED
    BY <2>1, <2>2, <2>5
<1> QED
  BY <1>3, <1>5, <1>7, <1>8, <1>9, <1>10, <1>11, <1>13, <1>14, <1>16,
     <1>17 DEF NotifyIInv

LEMMA SessionEndsPreserve ==
  ASSUME NotifyIInv, NEW u \in Users, OnClose(u) \/ OnSessionTimeout(u)
  PROVE  NotifyIInv'
<1>1. CASE OnClose(u)
  BY <1>1, LeavePreserves DEF OnClose, Threads
<1>2. CASE OnSessionTimeout(u)
  BY <1>2, LeavePreserves DEF OnSessionTimeout, Threads
<1> QED
  BY <1>1, <1>2

\* A step of a thread that is not telling, and whose user stays the same or is new, makes
\* nobody hear less.
LEMMA OthersStillTell ==
  ASSUME NEW th \in Threads, task[th].at \notin Telling,
         \A o \in Threads \ {th} : task'[o] = task[o],
         told' = told, dbOnline' = dbOnline
  PROVE  \A x, u : <<x, u>> \in told \/ WillTell(x, u) => (<<x, u>> \in told \/ WillTell(x, u))'
  BY DEF WillTell, TellsLast, Telling

LEMMA UnwatchPreserves ==
  ASSUME NotifyIInv, NEW th \in Threads, OnLogoutUnwatch(th)
  PROVE  NotifyIInv'
<1> DEFINE me == task[th]
           n == [me EXCEPT !.at = "offline"]
<1>1. TypeOK /\ TasksAreNamed /\ task \in [Threads -> Tasks]
  BY TaskTypes DEF NotifyIInv
<1>2. /\ me.at = "unwatch" /\ Goto(th, n)
      /\ lists' = [w \in Watchers |-> IF w = me.user THEN {} ELSE lists[w]]
      /\ UNCHANGED <<connected, dbOnline, asked, word, told, stale, raced, crossed>>
  BY DEF OnLogoutUnwatch, At
<1>3. /\ n \in Tasks /\ n.at = "offline" /\ n.user = me.user
      /\ me.user \in Users /\ me.user # NoUser /\ me.user \notin connected
  BY <1>1, <1>2 DEF Tasks, Steps, TasksAreNamed, NotifyIInv, SessionsFitTasks
<1> HIDE DEF n
<1>4. /\ task' \in [Threads -> Tasks] /\ task'[th] = n
      /\ \A o \in Threads \ {th} : task'[o] = task[o]
      /\ TasksAreNamed'
  BY <1>1, <1>2, <1>3, Goes DEF Requested
<1>5. TypeOK'
  BY <1>1, <1>2, <1>3, <1>4, TypesMeet DEF TypeOK
<1>6. SessionsFitTasks'
  BY <1>2, <1>3, <1>4 DEF NotifyIInv, SessionsFitTasks, Requested, Threads
<1>7. ConnectedIsStored'
  BY <1>2, <1>3, <1>4 DEF NotifyIInv, ConnectedIsStored, At, Threads
<1>8. SubscribedIsListed'
  <2> SUFFICES ASSUME NEW w \in Watchers PROVE asked[w] \subseteq lists'[w]
    BY <1>2 DEF NotifyIInv, SubscribedIsListed
  <2>1. CASE w = me.user
    BY <1>3, <2>1 DEF NotifyIInv, SubscribedIsListed
  <2>2. CASE w # me.user
    BY <1>2, <2>2 DEF NotifyIInv, SubscribedIsListed
  <2> QED
    BY <2>1, <2>2
<1>9. RequestIsListed'
  <2> SUFFICES ASSUME task'["loop"].at \in Requested
               PROVE  RequestIsListed'
    BY DEF RequestIsListed, Requested
  <2>1. /\ task'["loop"] = task["loop"] /\ task["loop"].user \in Watchers
    BY <1>3, <1>4 DEF NotifyIInv, SessionsFitTasks, Requested, Threads
  <2>2. task["loop"].user \in connected => lists'[task["loop"].user] = lists[task["loop"].user]
    BY <1>2, <1>3, <2>1
  <2> QED
    BY <1>2, <2>1, <2>2 DEF NotifyIInv, RequestIsListed
<1>10. MessagesAreTrue' /\ AnswerIsTrue' /\ ToldIsTrue'
  BY <1>2, <1>3, <1>4
  DEF NotifyIInv, MessagesAreTrue, AnswerIsTrue, ToldIsTrue, TellsLast, At, Telling, Threads
<1>11. \A x, u : <<x, u>> \in told \/ WillTell(x, u) => (<<x, u>> \in told \/ WillTell(x, u))'
  BY <1>2, <1>4, OthersStillTell DEF Telling
<1>12. ChangesAreTold'
  BY <1>2, <1>11 DEF NotifyIInv, ChangesAreTold
<1>13. StaleIsTold'
  <2> DEFINE l == task["loop"]
  <2> SUFFICES ASSUME task'["loop"].at = "answer" PROVE StaleIsTold'
    BY DEF StaleIsTold
  <2>1. task'["loop"] = l
    BY <1>3, <1>4 DEF Threads
  <2>2. PICK x : x = l.user
    OBVIOUS
  <2>3. l.mode # "query" /\ x \in connected =>
          \A u \in (l.devices \cap stale) \ {x} : <<x, u>> \in told \/ WillTell(x, u)
    BY <2>1, <2>2 DEF NotifyIInv, StaleIsTold
  <2>4. l.mode # "query" /\ x \in connected =>
          \A u \in (l.devices \cap stale) \ {x} : (<<x, u>> \in told \/ WillTell(x, u))'
    BY <1>11, <2>3
  <2> QED
    BY <1>2, <2>1, <2>2, <2>4 DEF StaleIsTold
<1> QED
  BY <1>4, <1>5, <1>6, <1>7, <1>8, <1>9, <1>10, <1>12, <1>13 DEF NotifyIInv
LEMMA LoginPreserves ==
  ASSUME NotifyIInv, NEW u \in Users, Login(u)
  PROVE  NotifyIInv'
<1> DEFINE n == Task("login", u)
<1>1. TypeOK /\ TasksAreNamed /\ task \in [Threads -> Tasks]
  BY TaskTypes DEF NotifyIInv
<1>2. /\ task["loop"] = Idle /\ task["checker"] = Idle /\ Goto("loop", n)
      /\ connected' = connected \cup {u}
      /\ UNCHANGED <<dbOnline, lists, asked, word, told, stale, raced, crossed>>
  BY DEF Login, LockFree
<1>3. /\ n \in Tasks /\ n.at = "login" /\ n.user = u /\ u # NoUser
      /\ task["loop"].at = "idle" /\ "loop" \in Threads
      /\ task["checker"].at = "idle" /\ task["checker"].user = NoUser
  BY <1>2, TaskBegins, IdleTask, NotifyAssumption DEF Steps, NotifyAssumption, Threads
<1> HIDE DEF n
<1>4. /\ task' \in [Threads -> Tasks] /\ task'["loop"] = n
      /\ \A o \in Threads \ {"loop"} : task'[o] = task[o]
      /\ TasksAreNamed'
  BY <1>1, <1>2, <1>3, Goes DEF Threads
<1>5. TypeOK'
  BY <1>1, <1>2, <1>3, <1>4, TypesMeet DEF TypeOK
<1>6. task'["loop"].at = "login" /\ task'["checker"].at = "idle"
  BY <1>3, <1>4 DEF Threads
<1>7. SessionsFitTasks'
  BY <1>6 DEF SessionsFitTasks, Requested, Threads
<1>8. ConnectedIsStored' /\ SubscribedIsListed'
  BY <1>2, <1>3, <1>4 DEF NotifyIInv, ConnectedIsStored, SubscribedIsListed, At
<1>9. RequestIsListed' /\ MessagesAreTrue' /\ AnswerIsTrue' /\ StaleIsTold'
  BY <1>6 DEF RequestIsListed, MessagesAreTrue, AnswerIsTrue, StaleIsTold, At, Telling, Threads
<1>10. ToldIsTrue'
  BY <1>2 DEF NotifyIInv, ToldIsTrue
<1>11. \A x, v : <<x, v>> \in told \/ WillTell(x, v) => (<<x, v>> \in told \/ WillTell(x, v))'
  BY <1>2, <1>3, <1>4, OthersStillTell DEF Telling
<1>12. ChangesAreTold'
  BY <1>2, <1>11 DEF NotifyIInv, ChangesAreTold
<1> QED
  BY <1>4, <1>5, <1>7, <1>8, <1>9, <1>10, <1>12 DEF NotifyIInv

\* A request has been read; the client gives up what it does not name any more.
LEMMA RequestPreserves ==
  ASSUME NotifyIInv, NEW w \in Watchers, NEW mode \in Modes, NEW devices \in Wishes,
         PresenceRequest(w, mode, devices)
  PROVE  NotifyIInv'
<1> DEFINE at == IF mode = "query" THEN "query" ELSE "subscribe"
           n == [Task(at, w) EXCEPT !.mode = mode, !.devices = devices]
<1>1. TypeOK /\ TasksAreNamed /\ task \in [Threads -> Tasks]
  BY TaskTypes DEF NotifyIInv
<1>2. /\ task["loop"] = Idle /\ w \in connected /\ Goto("loop", n)
      /\ asked' = [asked EXCEPT ![w] = IF mode = "replace" THEN @ \cap devices ELSE @]
      /\ UNCHANGED <<connected, dbOnline, lists, word, told, stale, raced, crossed>>
  BY DEF PresenceRequest
<1>3. /\ w \in Users /\ w # NoUser /\ devices \subseteq Users /\ at \in Steps
      /\ at \in {"query", "subscribe"} /\ (at = "query" => mode = "query")
      /\ task["loop"].at = "idle" /\ "loop" \in Threads
      /\ task["loop"].user = NoUser
  BY <1>2, IdleTask, NotifyAssumption DEF Steps, NotifyAssumption, Threads
<1> HIDE DEF at
<1>4. /\ n \in Tasks /\ n.at = at /\ n.user = w /\ n.mode = mode /\ n.devices = devices
  <2> DEFINE t == Task(at, w)
  <2>1. t \in Tasks /\ t.at = at /\ t.user = w
    BY <1>3, TaskBegins
  <2> HIDE DEF t
  <2>2. LET m == [t EXCEPT !.mode = mode, !.devices = devices] IN
        m \in Tasks /\ m.at = at /\ m.user = w /\ m.mode = mode /\ m.devices = devices
    BY <1>3, <2>1 DEF Tasks
  <2> QED
    BY <2>2 DEF t
<1> HIDE DEF n
<1>5. task["checker"] = Idle /\ task["checker"].user # w
  BY <1>3, IdleTask DEF PresenceRequest, LockFree
<1>6. /\ task' \in [Threads -> Tasks] /\ task'["loop"] = n
      /\ \A o \in Threads \ {"loop"} : task'[o] = task[o]
      /\ TasksAreNamed'
  <2>1. \A o \in Threads \ {"loop"} : task[o].user # n.user
    BY <1>4, <1>5 DEF Threads
  <2>2. n.at # "idle" /\ n.user # NoUser
    BY <1>3, <1>4
  <2> QED
    BY <1>1, <1>2, <1>3, <1>4, <2>1, <2>2, Goes
<1>7. /\ asked' \in [Watchers -> SUBSET Users] /\ \A x \in Watchers : asked'[x] \subseteq asked[x]
      /\ mode = "replace" => asked'[w] \subseteq devices
  BY <1>1, <1>2 DEF TypeOK
<1>8. TypeOK'
  BY <1>1, <1>2, <1>3, <1>4, <1>6, <1>7, TypesMeet DEF TypeOK
<1>9. /\ task'["loop"].at = at /\ task'["loop"].user = w /\ task'["loop"].mode = mode
      /\ task'["loop"].devices = devices /\ task'["checker"].at = "idle"
  BY <1>4, <1>5, <1>6, IdleTask DEF Threads
<1>10. SessionsFitTasks'
  BY <1>2, <1>3, <1>9 DEF SessionsFitTasks, Threads
<1>11. ConnectedIsStored'
  BY <1>2, <1>3 DEF NotifyIInv, ConnectedIsStored, At
<1>12. SubscribedIsListed'
  BY <1>2, <1>7 DEF NotifyIInv, SubscribedIsListed
<1>13. RequestIsListed'
  BY <1>3, <1>7, <1>9 DEF RequestIsListed
<1>14. MessagesAreTrue' /\ AnswerIsTrue' /\ StaleIsTold'
  BY <1>3, <1>9 DEF MessagesAreTrue, AnswerIsTrue, StaleIsTold, At, Telling, Threads
<1>15. ToldIsTrue'
  BY <1>2 DEF NotifyIInv, ToldIsTrue
<1>16. \A x, u : <<x, u>> \in told \/ WillTell(x, u) => (<<x, u>> \in told \/ WillTell(x, u))'
  BY <1>2, <1>3, <1>6, OthersStillTell DEF Telling
<1>17. ChangesAreTold'
  BY <1>7, <1>16 DEF NotifyIInv, ChangesAreTold
<1> QED
  BY <1>6, <1>8, <1>10, <1>11, <1>12, <1>13, <1>14, <1>15, <1>17 DEF NotifyIInv
\* The client is listed before the table is read for its answer.
LEMMA UpdatePreserves ==
  ASSUME NotifyIInv, UpdateUserDevices
  PROVE  NotifyIInv'
<1> DEFINE me == task["loop"]
           n == [me EXCEPT !.at = "query"]
           listed == me.devices \cup (IF me.mode = "replace" THEN {} ELSE lists[me.user])
<1>1. TypeOK /\ TasksAreNamed /\ task \in [Threads -> Tasks]
  BY TaskTypes DEF NotifyIInv
<1>2. /\ me.at = "subscribe" /\ Goto("loop", n)
      /\ lists' = [lists EXCEPT ![me.user] = listed]
      /\ UNCHANGED <<connected, dbOnline, asked, word, told, stale, raced, crossed>>
  BY DEF UpdateUserDevices, At
<1>3. /\ me \in Tasks /\ "loop" \in Threads
      /\ me.user \in Watchers /\ me.user \in Users /\ me.user # NoUser
  BY <1>1, <1>2, NotifyAssumption
  DEF Threads, NotifyIInv, SessionsFitTasks, Requested, NotifyAssumption
<1>4. /\ n \in Tasks /\ n.at = "query" /\ n.user = me.user /\ n.mode = me.mode
      /\ n.devices = me.devices
  BY <1>3 DEF Tasks, Steps
<1> HIDE DEF n
<1>5. /\ task' \in [Threads -> Tasks] /\ task'["loop"] = n
      /\ \A o \in Threads \ {"loop"} : task'[o] = task[o]
      /\ TasksAreNamed'
  BY <1>1, <1>2, <1>3, <1>4, Goes
<1>6. /\ listed \subseteq Users /\ me.devices \subseteq listed /\ asked[me.user] \subseteq listed
  BY <1>1, <1>2, <1>3 DEF TypeOK, Tasks, NotifyIInv, RequestIsListed, SubscribedIsListed
<1> HIDE DEF listed
<1>7. /\ lists' \in [Watchers -> SUBSET Users]
      /\ lists'[me.user] = listed /\ \A w \in Watchers \ {me.user} : lists'[w] = lists[w]
  BY <1>1, <1>2, <1>3, <1>6 DEF TypeOK
<1>8. TypeOK'
  BY <1>1, <1>2, <1>3, <1>4, <1>5, <1>7, TypesMeet DEF TypeOK
<1>9. SessionsFitTasks'
  BY <1>2, <1>3, <1>4, <1>5 DEF NotifyIInv, SessionsFitTasks, Requested, Threads
<1>10. ConnectedIsStored'
  BY <1>2 DEF NotifyIInv, ConnectedIsStored, At
<1>11. SubscribedIsListed'
  <2> SUFFICES ASSUME NEW w \in Watchers PROVE asked[w] \subseteq lists'[w]
    BY <1>2 DEF NotifyIInv, SubscribedIsListed
  <2>1. CASE w = me.user
    BY <1>6, <1>7, <2>1
  <2>2. CASE w # me.user
    BY <1>7, <2>2 DEF NotifyIInv, SubscribedIsListed
  <2> QED
    BY <2>1, <2>2
<1>12. RequestIsListed'
  BY <1>4, <1>5, <1>6, <1>7 DEF RequestIsListed
<1>13. MessagesAreTrue'
  BY <1>2, <1>4, <1>5 DEF NotifyIInv, MessagesAreTrue, TellsLast, Telling
<1>14. AnswerIsTrue' /\ StaleIsTold' /\ ToldIsTrue'
  BY <1>2, <1>4, <1>5 DEF NotifyIInv, AnswerIsTrue, StaleIsTold, ToldIsTrue, At
<1>15. \A x, u : <<x, u>> \in told \/ WillTell(x, u) => (<<x, u>> \in told \/ WillTell(x, u))'
  BY <1>2, <1>3, <1>5, OthersStillTell DEF Telling
<1>16. ChangesAreTold'
  BY <1>2, <1>15 DEF NotifyIInv, ChangesAreTold
<1> QED
  BY <1>5, <1>8, <1>9, <1>10, <1>11, <1>12, <1>13, <1>14, <1>16 DEF NotifyIInv

LEMMA BatchQueryPreserves ==
  ASSUME NotifyIInv, BatchQuery
  PROVE  NotifyIInv'
<1> DEFINE me == task["loop"]
           found == me.devices \cap dbOnline
           n == [me EXCEPT !.at = "answer", !.answer = found]
<1>1. TypeOK /\ TasksAreNamed /\ task \in [Threads -> Tasks]
  BY TaskTypes DEF NotifyIInv
<1>2. /\ me.at = "query" /\ Goto("loop", n) /\ stale' = {}
      /\ UNCHANGED <<connected, dbOnline, lists, asked, word, told, raced, crossed>>
  BY DEF BatchQuery, At
<1>3. /\ me \in Tasks /\ "loop" \in Threads /\ found \subseteq Users
      /\ me.user \in Watchers /\ me.user \in Users /\ me.user # NoUser
  BY <1>1, <1>2, NotifyAssumption
  DEF Threads, NotifyIInv, SessionsFitTasks, Requested, NotifyAssumption, TypeOK
<1> HIDE DEF found
<1>4. /\ n \in Tasks /\ n.at = "answer" /\ n.user = me.user /\ n.mode = me.mode
      /\ n.devices = me.devices /\ n.answer = found
  BY <1>3 DEF Tasks, Steps
<1> HIDE DEF n
<1>5. /\ task' \in [Threads -> Tasks] /\ task'["loop"] = n
      /\ \A o \in Threads \ {"loop"} : task'[o] = task[o]
      /\ TasksAreNamed'
  BY <1>1, <1>2, <1>3, <1>4, Goes
<1>6. TypeOK'
  BY <1>1, <1>2, <1>3, <1>4, <1>5, TypesMeet DEF TypeOK
<1>7. SessionsFitTasks'
  BY <1>2, <1>3, <1>4, <1>5 DEF NotifyIInv, SessionsFitTasks, Requested, Threads
<1>8. ConnectedIsStored' /\ SubscribedIsListed'
  BY <1>2 DEF NotifyIInv, ConnectedIsStored, SubscribedIsListed, At
<1>9. RequestIsListed'
  BY <1>2, <1>4, <1>5 DEF NotifyIInv, RequestIsListed
<1>10. MessagesAreTrue'
  BY <1>2, <1>4, <1>5 DEF NotifyIInv, MessagesAreTrue, TellsLast, Telling
<1>11. AnswerIsTrue'
  BY <1>2, <1>4, <1>5 DEF AnswerIsTrue, found
<1>12. StaleIsTold' /\ ToldIsTrue'
  BY <1>2 DEF NotifyIInv, StaleIsTold, ToldIsTrue
<1>13. \A x, u : <<x, u>> \in told \/ WillTell(x, u) => (<<x, u>> \in told \/ WillTell(x, u))'
  BY <1>2, <1>3, <1>5, OthersStillTell DEF Telling
<1>14. ChangesAreTold'
  BY <1>2, <1>13 DEF NotifyIInv, ChangesAreTold
<1> QED
  BY <1>5, <1>6, <1>7, <1>8, <1>9, <1>10, <1>11, <1>12, <1>14 DEF NotifyIInv

\* The answer may be wrong about the devices that changed since the table was read, but
\* the client has heard of these changes, or will.
LEMMA HeardAnswerPreserves ==
  ASSUME NotifyIInv, Answer, task["loop"].user \in connected
  PROVE  NotifyIInv'
<1> DEFINE me == task["loop"]
           named == {<<me.user, u>> : u \in me.devices}
<1>1. TypeOK /\ TasksAreNamed /\ task \in [Threads -> Tasks]
  BY TaskTypes DEF NotifyIInv
<1>2. /\ me.at = "answer" /\ Goto("loop", Idle) /\ stale' = {}
      /\ word' = [p \in Pairs |-> IF p \in named THEN State(p[2] \in me.answer) ELSE word[p]]
      /\ raced' = {p \in named : p[2] \in stale} \cup (raced \ named)
      /\ told' = told \cup {p \in named : p[2] \notin stale}
      /\ UNCHANGED <<connected, dbOnline, lists, crossed>>
  BY DEF Answer, At
<1>3. /\ me \in Tasks /\ "loop" \in Threads
      /\ me.user \in Watchers /\ me.user \in Users /\ me.user # NoUser
  BY <1>1, <1>2, NotifyAssumption
  DEF Threads, NotifyIInv, SessionsFitTasks, Requested, NotifyAssumption
<1>4. /\ me.devices \subseteq Users /\ named \subseteq Pairs
  BY <1>3 DEF Tasks, Pairs
<1>5. /\ task' \in [Threads -> Tasks] /\ task'["loop"] = Idle
      /\ \A o \in Threads \ {"loop"} : task'[o] = task[o]
      /\ TasksAreNamed'
  BY <1>1, <1>2, <1>3, IdleTask, Goes
<1>6. /\ asked' \in [Watchers -> SUBSET Users]
      /\ \A w \in Watchers \ {me.user} : asked'[w] = asked[w]
      /\ asked'[me.user] \subseteq asked[me.user] \cup me.devices
      /\ me.mode = "query" => asked'[me.user] = asked[me.user]
  <2> DEFINE now == CASE me.mode = "query" -> asked[me.user]
                      [] me.mode = "merge" -> asked[me.user] \cup me.devices
                      [] me.mode = "replace" -> me.devices
  <2>1. asked' = [asked EXCEPT ![me.user] = now]
    BY DEF Answer
  <2>2. me.mode \in Modes /\ asked[me.user] \subseteq Users
    BY <1>1, <1>3 DEF Tasks, TypeOK
  <2>3. /\ now \subseteq asked[me.user] \cup me.devices
        /\ me.mode = "query" => now = asked[me.user]
    BY <2>2 DEF Modes
  <2>4. now \subseteq Users
    BY <1>4, <2>2, <2>3
  <2> HIDE DEF now
  <2> QED
    BY <1>1, <1>3, <2>1, <2>3, <2>4 DEF TypeOK
<1>7. TypeOK'
  <2>1. told' \subseteq Pairs /\ raced' \subseteq Pairs
    BY <1>1, <1>2, <1>4 DEF TypeOK
  <2>2. word' \in [Pairs -> {"nothing", "online", "offline"}]
    BY <1>1, <1>2 DEF TypeOK, State
  <2>3. task'["loop"].at # "send"
    BY <1>5, IdleTask
  <2> HIDE DEF named
  <2> QED
    BY <1>1, <1>2, <1>3, <1>5, <1>6, <2>1, <2>2, <2>3, TypesMeet DEF TypeOK
<1>8. task'["loop"].at = "idle"
  BY <1>5, IdleTask
<1>9. SessionsFitTasks'
  BY <1>2, <1>5, <1>8 DEF NotifyIInv, SessionsFitTasks, Requested, Threads
<1>10. ConnectedIsStored'
  BY <1>2 DEF NotifyIInv, ConnectedIsStored, At
<1>11. me.user \in dbOnline
  BY <1>2, <1>3 DEF NotifyIInv, ConnectedIsStored, At
<1>12. SubscribedIsListed'
  <2>1. asked'[me.user] \subseteq lists[me.user]
    BY <1>2, <1>3, <1>6 DEF NotifyIInv, SubscribedIsListed, RequestIsListed
  <2> QED
    BY <1>2, <1>3, <1>6, <1>11, <2>1 DEF NotifyIInv, SubscribedIsListed
<1>13. RequestIsListed' /\ AnswerIsTrue' /\ StaleIsTold'
  BY <1>8 DEF RequestIsListed, AnswerIsTrue, StaleIsTold, At
<1>14. MessagesAreTrue'
  BY <1>2, <1>5, <1>8 DEF NotifyIInv, MessagesAreTrue, TellsLast, Telling
<1>15. ToldIsTrue'
  <2> SUFFICES ASSUME NEW p \in told' \ raced', p[2] \notin crossed
               PROVE  word'[p] = State(p[2] \in dbOnline)
    BY <1>2 DEF ToldIsTrue
  <2>1. p \in Pairs
    BY <1>7 DEF TypeOK
  <2>2. CASE p \in named
    <3>1. p[2] \in me.devices /\ p[2] \notin stale
      BY <1>2, <2>2
    <3>2. p[2] \in me.answer <=> p[2] \in dbOnline
      BY <1>2, <3>1 DEF NotifyIInv, AnswerIsTrue, At
    <3>3. word'[p] = State(p[2] \in me.answer)
      BY <1>2, <2>1, <2>2
    <3> QED
      BY <3>2, <3>3 DEF State
  <2>3. CASE p \notin named
    <3>1. p \in told \ raced /\ word'[p] = word[p]
      BY <1>2, <2>1, <2>3
    <3> QED
      BY <3>1 DEF NotifyIInv, ToldIsTrue
  <2> QED
    BY <2>2, <2>3
<1>16. ASSUME NEW x, NEW u, <<x, u>> \in told \/ WillTell(x, u)
       PROVE  (<<x, u>> \in told \/ WillTell(x, u))'
  <2>1. told \subseteq told'
    BY <1>2
  <2>2. WillTell(x, u) => WillTell(x, u)'
    BY <1>2, <1>5 DEF WillTell, TellsLast
  <2> QED
    BY <1>16, <2>1, <2>2
<1>17. ChangesAreTold'
  <2> SUFFICES ASSUME NEW x \in Watchers, NEW u \in asked'[x] \ {x}
               PROVE  (<<x, u>> \in told \/ WillTell(x, u))'
    BY DEF ChangesAreTold
  <2>1. CASE u \in asked[x]
    BY <1>16, <2>1 DEF NotifyIInv, ChangesAreTold
  <2>2. CASE u \notin asked[x]
    <3>1. x = me.user /\ u \in me.devices /\ me.mode # "query"
      BY <1>3, <1>6, <2>2
    <3>2. CASE u \in stale
      <4>1. <<x, u>> \in told \/ WillTell(x, u)
        BY <1>2, <3>1, <3>2 DEF NotifyIInv, StaleIsTold
      <4> QED
        BY <1>16, <4>1
    <3>3. CASE u \notin stale
      <4>1. <<x, u>> \in told'
        BY <1>2, <3>1, <3>3
      <4> QED
        BY <4>1
    <3> QED
      BY <3>2, <3>3
  <2> QED
    BY <2>1, <2>2
<1> QED
  BY <1>5, <1>7, <1>9, <1>10, <1>12, <1>13, <1>14, <1>15, <1>17 DEF NotifyIInv

\* Nobody hears the answer to a client whose session has ended.
LEMMA LostAnswerPreserves ==
  ASSUME NotifyIInv, Answer, task["loop"].user \notin connected
  PROVE  NotifyIInv'
<1> DEFINE me == task["loop"]
<1>1. TypeOK /\ TasksAreNamed /\ task \in [Threads -> Tasks] /\ "loop" \in Threads
  BY TaskTypes DEF NotifyIInv, Threads
<1>2. /\ me.at = "answer" /\ Goto("loop", Idle) /\ stale' = {}
      /\ UNCHANGED <<connected, dbOnline, lists, asked, word, told, raced, crossed>>
  BY DEF Answer, At
<1>3. /\ task' \in [Threads -> Tasks] /\ task'["loop"] = Idle
      /\ \A o \in Threads \ {"loop"} : task'[o] = task[o]
      /\ TasksAreNamed'
  BY <1>1, <1>2, IdleTask, Goes
<1>4. task'["loop"].at = "idle"
  BY <1>3, IdleTask
<1>5. TypeOK'
  BY <1>1, <1>2, <1>3, <1>4, TypesMeet DEF TypeOK
<1>6. SessionsFitTasks'
  BY <1>2, <1>3, <1>4 DEF NotifyIInv, SessionsFitTasks, Requested, Threads
<1>7. ConnectedIsStored' /\ SubscribedIsListed' /\ ToldIsTrue'
  BY <1>2 DEF NotifyIInv, ConnectedIsStored, SubscribedIsListed, ToldIsTrue, At
<1>8. RequestIsListed' /\ AnswerIsTrue' /\ StaleIsTold'
  BY <1>4 DEF RequestIsListed, AnswerIsTrue, StaleIsTold, At
<1>9. MessagesAreTrue'
  BY <1>2, <1>3, <1>4 DEF NotifyIInv, MessagesAreTrue, TellsLast, Telling
<1>10. \A x, u : <<x, u>> \in told \/ WillTell(x, u) => (<<x, u>> \in told \/ WillTell(x, u))'
  BY <1>1, <1>2, <1>3, OthersStillTell DEF Telling
<1>11. ChangesAreTold'
  BY <1>2, <1>10 DEF NotifyIInv, ChangesAreTold
<1> QED
  BY <1>3, <1>5, <1>6, <1>7, <1>8, <1>9, <1>11 DEF NotifyIInv

LEMMA AnswerPreserves == NotifyIInv /\ Answer => NotifyIInv'
  BY HeardAnswerPreserves, LostAnswerPreserves

-----------------------------------------------------------------------------
(* The theorems.                                                           *)

LEMMA NotifyIInvInit == Init => NotifyIInv
<1> SUFFICES ASSUME Init PROVE NotifyIInv
  OBVIOUS
<1>1. \A th \in Threads : task[th] = Idle /\ Idle \in Tasks
  BY IdleTask DEF Init
<1>2. \A th \in Threads : task[th].at = "idle" /\ task[th].user = NoUser
  BY <1>1, IdleTask
<1>3. TypeOK
  <2>1. task \in [Threads -> Tasks]
    BY <1>1 DEF Init
  <2>2. \A th \in Threads : task[th].at # "send"
    BY <1>2
  <2> QED
    BY <2>1, <2>2 DEF Init, TypeOK, Tasks, Steps, At
<1>4. TasksAreNamed
  BY <1>1, <1>2 DEF TasksAreNamed, Requested, Threads
<1>5. /\ SessionsFitTasks /\ RequestIsListed /\ MessagesAreTrue /\ AnswerIsTrue /\ StaleIsTold
  BY <1>2 DEF SessionsFitTasks, RequestIsListed, MessagesAreTrue, AnswerIsTrue, StaleIsTold,
              Requested, Telling, At, Threads
<1>6. ConnectedIsStored /\ SubscribedIsListed /\ ToldIsTrue /\ ChangesAreTold
  BY DEF Init, ConnectedIsStored, SubscribedIsListed, ToldIsTrue, ChangesAreTold
<1> QED
  BY <1>3, <1>4, <1>5, <1>6 DEF NotifyIInv

LEMMA NotifyIInvStep == NotifyIInv /\ [Next]_vars => NotifyIInv'
<1> SUFFICES ASSUME NotifyIInv, [Next]_vars PROVE NotifyIInv'
  OBVIOUS
<1>1. CASE UNCHANGED vars
  BY <1>1
  DEF vars, NotifyIInv, TypeOK, TasksAreNamed, SessionsFitTasks,
      ConnectedIsStored, SubscribedIsListed, RequestIsListed, MessagesAreTrue, AnswerIsTrue,
      ToldIsTrue, ChangesAreTold, StaleIsTold, WillTell, TellsLast, At
<1>2. ASSUME NEW u \in Users, Login(u) \/ OnClose(u) \/ OnSessionTimeout(u)
      PROVE  NotifyIInv'
  BY <1>2, LoginPreserves, SessionEndsPreserve
<1>3. ASSUME NEW w \in Watchers, NEW mode \in Modes, NEW devices \in Wishes,
             PresenceRequest(w, mode, devices)
      PROVE  NotifyIInv'
  BY <1>3, RequestPreserves
<1>4. CASE LoopStep
  BY <1>4, ChangesPreserve, UpdatePreserves, BatchQueryPreserves, AnswerPreserves
  DEF LoopStep, Threads
<1>5. ASSUME NEW th \in Threads, Step(th) PROVE NotifyIInv'
  BY <1>5, UnwatchPreserves, ChangesPreserve, NotifyWatchersPreserves,
     NotifyFilterPreserves, NotifySendPreserves
  DEF Step
<1> QED
  BY <1>1, <1>2, <1>3, <1>4, <1>5 DEF Next

LEMMA NotifyInvariance == Spec => []NotifyIInv
  BY NotifyIInvInit, NotifyIInvStep, PTL DEF Spec

\* Every client that is connected has heard of the last change of each device it has
\* subscribed to, once no thread is at work for that device, however the login or logout,
\* the subscription and the answer overlapped.
THEOREM SubscribersHear == Spec => []NotifyInv
<1>1. NotifyIInv => NotifyInv
  <2> SUFFICES ASSUME NotifyIInv PROVE NotifyInv
    OBVIOUS
  <2>1. NoChangeIsMissed
    BY DEF NotifyIInv, ChangesAreTold, NoChangeIsMissed, WillTell, Settled
  <2> QED
    BY <2>1 DEF NotifyIInv, NotifyInv
<1> QED
  BY <1>1, NotifyInvariance, PTL

\* What it heard last is what the table says, unless that was an answer that an update
\* had overtaken, or the device changed while the other thread was still telling of its
\* change before.
THEOREM LastWordHolds == Spec => []LastWordIsTrue
<1>1. NotifyIInv => LastWordIsTrue
  <2> SUFFICES ASSUME NotifyIInv, NEW w \in Watchers \cap connected,
                      NEW u \in asked[w] \ {w}, Settled(u), <<w, u>> \notin raced,
                      u \notin crossed
               PROVE  word[<<w, u>>] = State(u \in dbOnline)
    BY DEF LastWordIsTrue
  <2>1. <<w, u>> \in told \ raced
    BY DEF NotifyIInv, ChangesAreTold, WillTell, Settled
  <2> QED
    BY <2>1 DEF NotifyIInv, ToldIsTrue
<1> QED
  BY <1>1, NotifyInvariance, PTL
=============================================================================
