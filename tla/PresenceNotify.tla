--------------------------- MODULE PresenceNotify ---------------------------
(***************************************************************************)
(* src/src/presence_manager.cpp with its callers in signal_server.cpp: who *)
(* is told of whose coming and going.  A client subscribes to devices with *)
(* recent_connections_presence, is answered with their present states, and *)
(* gets a presence_update whenever one of them logs in or out.             *)
(*                                                                         *)
(* The watch lists, the table device_presence and the manager have a mutex *)
(* each.  A handler of the event loop takes them one after the other, and  *)
(* the alive checker does the same with the manager's mutex held from the  *)
(* timeout of a device to the last message about it.  Each critical        *)
(* section is an action.  A device may time out while a handler is at work *)
(* for it, so that both threads change its state and tell of it at once.   *)
(***************************************************************************)
EXTENDS Naturals, FiniteSets

CONSTANTS
  Users,     \* devices and clients, all of which may be watched
  Watchers,  \* bound: those that send recent_connections_presence
  Wishes,    \* bound: the sets of devices that a request may name
  NoUser

ASSUME NotifyAssumption ==
  Watchers \subseteq Users /\ Wishes \subseteq SUBSET Users /\ NoUser \notin Users

VARIABLES
  connected,  \* the users that the manager has a handle for
  dbOnline,   \* device_presence.online
  lists,      \* associations_, by watcher
  task,       \* what each thread has read and does next
  asked,      \* by watcher: what its client has subscribed to, and still wants
  word,       \* by watcher, user: what the client was told last
  told,       \* history: the watchers that know of the last change of a user
  stale,      \* history: the users that changed since the loop read the table
  raced,      \* history: by watcher, the users whose change overtook the answer
  crossed     \* history: the users whose last change came while the other thread
              \* was still telling of the change before

vars == <<connected, dbOnline, lists, task, asked, word, told, stale, raced, crossed>>

Threads == {"loop", "checker"}
Modes == {"query", "merge", "replace"}
Pairs == Watchers \X Users

\* online and targets: what to tell of user, and whom; devices: what a request
\* of user names; answer: those of devices that the table says are online.
Task(at, u) == [at |-> at, user |-> u, online |-> FALSE, targets |-> {},
                mode |-> "query", devices |-> {}, answer |-> {}]
Idle == Task("idle", NoUser)
At(th, where) == task[th].at = where
Goto(th, t) == task' = [task EXCEPT ![th] = t]

\* The checker holds the manager's mutex while it is at work.
LockFree(th) == th = "checker" \/ task["checker"] = Idle

TypeOK ==
  /\ connected \subseteq Users /\ dbOnline \subseteq Users
  /\ lists \in [Watchers -> SUBSET Users]
  /\ task \in [Threads -> [at : {"idle", "login", "unwatch", "offline", "notify",
                                 "filter", "send", "subscribe", "query", "answer"},
                           user : Users \cup {NoUser}, online : BOOLEAN,
                           targets : SUBSET Watchers, mode : Modes,
                           devices : SUBSET Users, answer : SUBSET Users]]
  /\ \A th \in Threads : At(th, "send") => task[th].targets # {}
  /\ asked \in [Watchers -> SUBSET Users]
  /\ word \in [Pairs -> {"nothing", "online", "offline"}]
  /\ told \subseteq Pairs /\ raced \subseteq Pairs
  /\ stale \subseteq Users /\ crossed \subseteq Users

Init ==
  /\ connected = {} /\ dbOnline = {}
  /\ lists = [w \in Watchers |-> {}]
  /\ task = [th \in Threads |-> Idle]
  /\ asked = [w \in Watchers |-> {}]
  /\ word = [p \in Pairs |-> "nothing"]
  /\ told = {} /\ stale = {} /\ raced = {} /\ crossed = {}

State(on) == IF on THEN "online" ELSE "offline"

\* Another thread is about to send messages about u.
OtherTells(th, u) ==
  \E o \in Threads \ {th} : task[o].at \in {"notify", "filter", "send"} /\ task[o].user = u

\* The history starts anew with a change: nobody has heard of it.
SetDeviceOnline(th, u, on) ==
  /\ dbOnline' = IF on THEN dbOnline \cup {u} ELSE dbOnline \ {u}
  /\ IF dbOnline' = dbOnline THEN UNCHANGED <<told, stale, crossed>>
     ELSE /\ told' = {p \in told : p[2] # u}
          /\ stale' = stale \cup (IF At("loop", "answer") THEN {u} ELSE {})
          /\ crossed' = IF OtherTells(th, u) THEN crossed \cup {u} ELSE crossed \ {u}

\* w hears from th of th's user, and knows of its last change if th tells that one.
Hear(w, th) ==
  LET u == task[th].user
      on == task[th].online IN
  /\ word' = [word EXCEPT ![<<w, u>>] = State(on)]
  /\ told' = IF on <=> u \in dbOnline THEN told \cup {<<w, u>>} ELSE told
  /\ raced' = raced \ {<<w, u>>}

-----------------------------------------------------------------------------
(* NotifyUserDevices: the watchers, those of them that are online, then one *)
(* message to each.                                                         *)

NotifyWatchers(th) ==
  LET me == task[th]
      watchers == {w \in Watchers : me.user \in lists[w]} IN
  /\ At(th, "notify")
  /\ Goto(th, IF watchers = {} THEN Idle
              ELSE [me EXCEPT !.at = "filter", !.targets = watchers])
  /\ UNCHANGED <<connected, dbOnline, lists, asked, word, told, stale, raced, crossed>>

\* The user itself is left out.
NotifyFilter(th) ==
  LET me == task[th]
      targets == (me.targets \cap dbOnline) \ {me.user} IN
  /\ At(th, "filter")
  /\ Goto(th, IF targets = {} THEN Idle ELSE [me EXCEPT !.at = "send", !.targets = targets])
  /\ UNCHANGED <<connected, dbOnline, lists, asked, word, told, stale, raced, crossed>>

\* Mutant: a message is tried again until its watcher is back.
NotifySend_Retries(th) ==
  LET me == task[th] IN
  /\ At(th, "send") /\ LockFree(th)
  /\ \E w \in me.targets :
       LET rest == me.targets \ {w} IN
       IF w \in connected
       THEN /\ Hear(w, th)
            /\ Goto(th, IF rest = {} THEN Idle ELSE [me EXCEPT !.targets = rest])
       ELSE UNCHANGED <<task, word, told, raced>>
  /\ UNCHANGED <<connected, dbOnline, lists, asked, stale, crossed>>

\* GetWsHandle finds no handle of a watcher that has gone: nothing is sent.
NotifySend(th) ==
  LET me == task[th] IN
  /\ At(th, "send") /\ LockFree(th)
  /\ \E w \in me.targets :
       LET rest == me.targets \ {w} IN
       /\ Goto(th, IF rest = {} THEN Idle ELSE [me EXCEPT !.targets = rest])
       /\ IF w \in connected THEN Hear(w, th) ELSE UNCHANGED <<word, told, raced>>
  /\ UNCHANGED <<connected, dbOnline, lists, asked, stale, crossed>>

-----------------------------------------------------------------------------
(* Logins and logouts.                                                     *)

\* login_user gives the user this connection, then OnLogin.
Login(u) ==
  /\ task["loop"] = Idle /\ LockFree("loop")
  /\ connected' = connected \cup {u}
  /\ Goto("loop", Task("login", u))
  /\ UNCHANGED <<dbOnline, lists, asked, word, told, stale, raced, crossed>>

OnLogin ==
  LET me == task["loop"] IN
  /\ At("loop", "login")
  /\ SetDeviceOnline("loop", me.user, TRUE)
  /\ Goto("loop", [me EXCEPT !.at = "notify", !.online = TRUE])
  /\ UNCHANGED <<connected, lists, asked, word, raced>>

\* The client of the session has gone, with what it has heard.
SessionEnds(u) ==
  /\ connected' = connected \ {u}
  /\ asked' = [w \in Watchers |-> IF w = u THEN {} ELSE asked[w]]
  /\ word' = [p \in Pairs |-> IF p[1] = u THEN "nothing" ELSE word[p]]
  /\ told' = {p \in told : p[1] # u}
  /\ raced' = {p \in raced : p[1] # u}

\* OnClose and OnFail: ReleaseUserSession ends the user's last session.
OnClose(u) ==
  /\ task["loop"] = Idle /\ LockFree("loop") /\ u \in connected
  /\ SessionEnds(u)
  /\ Goto("loop", Task("unwatch", u))
  /\ UNCHANGED <<dbOnline, lists, stale, crossed>>

OnLogoutUnwatch(th) ==
  LET me == task[th] IN
  /\ At(th, "unwatch")
  /\ lists' = [w \in Watchers |-> IF w = me.user THEN {} ELSE lists[w]]
  /\ Goto(th, [me EXCEPT !.at = "offline"])
  /\ UNCHANGED <<connected, dbOnline, asked, word, told, stale, raced, crossed>>

\* Mutant: the watchers of a device that goes are not told.
OnLogoutStore_Silent(th) ==
  LET me == task[th] IN
  /\ At(th, "offline")
  /\ SetDeviceOnline(th, me.user, FALSE)
  /\ Goto(th, Idle)
  /\ UNCHANGED <<connected, lists, asked, word, raced>>

OnLogoutStore(th) ==
  LET me == task[th] IN
  /\ At(th, "offline")
  /\ SetDeviceOnline(th, me.user, FALSE)
  /\ Goto(th, [me EXCEPT !.at = "notify", !.online = FALSE])
  /\ UNCHANGED <<connected, lists, asked, word, raced>>

\* A sweep that ends several sessions is here one sweep for each of them.
OnSessionTimeout(u) ==
  /\ task["checker"] = Idle /\ u \in connected
  /\ SessionEnds(u)
  /\ Goto("checker", Task("unwatch", u))
  /\ UNCHANGED <<dbOnline, lists, stale, crossed>>

-----------------------------------------------------------------------------
(* recent_connections_presence: GetUserId, then UpdateUserDevices unless    *)
(* the request only queries, then BatchQuery, then the answer.              *)

PresenceRequest(w, mode, devices) ==
  /\ task["loop"] = Idle /\ LockFree("loop") /\ w \in connected
  /\ Goto("loop", [Task(IF mode = "query" THEN "query" ELSE "subscribe", w)
                    EXCEPT !.mode = mode, !.devices = devices])
  /\ asked' = [asked EXCEPT ![w] = IF mode = "replace" THEN @ \cap devices ELSE @]
  /\ UNCHANGED <<connected, dbOnline, lists, word, told, stale, raced, crossed>>

\* Mutant: the devices of an old client's request replace those of the last.
UpdateUserDevices_Replaces ==
  LET me == task["loop"] IN
  /\ At("loop", "subscribe")
  /\ lists' = [lists EXCEPT ![me.user] = me.devices]
  /\ Goto("loop", [me EXCEPT !.at = "query"])
  /\ UNCHANGED <<connected, dbOnline, asked, word, told, stale, raced, crossed>>

\* Old clients name one device at a time: their requests merge.
UpdateUserDevices ==
  LET me == task["loop"] IN
  /\ At("loop", "subscribe")
  /\ lists' = [lists EXCEPT ![me.user] =
                 me.devices \cup (IF me.mode = "replace" THEN {} ELSE @)]
  /\ Goto("loop", [me EXCEPT !.at = "query"])
  /\ UNCHANGED <<connected, dbOnline, asked, word, told, stale, raced, crossed>>

BatchQuery ==
  LET me == task["loop"] IN
  /\ At("loop", "query")
  /\ Goto("loop", [me EXCEPT !.at = "answer", !.answer = me.devices \cap dbOnline])
  /\ stale' = {}
  /\ UNCHANGED <<connected, dbOnline, lists, asked, word, told, raced, crossed>>

\* The answer goes to the handle of the request: no mutex is needed.  A client whose
\* session has ended meanwhile is subscribed to nothing, whatever it reads.
Answer ==
  LET me == task["loop"]
      named == {<<me.user, d>> : d \in me.devices} IN
  /\ At("loop", "answer")
  /\ IF me.user \notin connected THEN UNCHANGED <<word, raced, told, asked>>
     ELSE /\ word' = [p \in Pairs |->
                       IF p \in named THEN State(p[2] \in me.answer) ELSE word[p]]
          /\ raced' = {p \in named : p[2] \in stale} \cup (raced \ named)
          /\ told' = told \cup {p \in named : p[2] \notin stale}
          /\ asked' = [asked EXCEPT ![me.user] =
                         CASE me.mode = "query" -> @
                           [] me.mode = "merge" -> @ \cup me.devices
                           [] me.mode = "replace" -> me.devices]
  /\ stale' = {}
  /\ Goto("loop", Idle)
  /\ UNCHANGED <<connected, dbOnline, lists, crossed>>

-----------------------------------------------------------------------------
LoopStep ==
  \/ OnLogin
  \/ UpdateUserDevices
  \/ BatchQuery
  \/ Answer

Step(th) ==
  \/ OnLogoutUnwatch(th)
  \/ OnLogoutStore(th)
  \/ NotifyWatchers(th)
  \/ NotifyFilter(th)
  \/ NotifySend(th)

Next ==
  \/ \E u \in Users : Login(u)
  \/ \E u \in Users : OnClose(u)
  \/ \E u \in Users : OnSessionTimeout(u)
  \/ \E w \in Watchers, mode \in Modes, devices \in Wishes : PresenceRequest(w, mode, devices)
  \/ LoopStep
  \/ \E th \in Threads : Step(th)

Spec == Init /\ [][Next]_vars

\* Each thread goes on with what it does.  The checker sleeps between two
\* sweeps, so that the loop gets the mutex if it waits for it.
Fairness == SF_vars(LoopStep \/ Step("loop")) /\ WF_vars(Step("checker"))

FairSpec == Spec /\ Fairness

-----------------------------------------------------------------------------
(* Properties.                                                             *)

Settled(d) == \A th \in Threads : task[th].user # d

\* A client that is connected has heard of the last change of every device it
\* has subscribed to, in the answer or in an update, whatever overlapped: the
\* subscription is made before the table is read, and the table is written
\* before the subscriptions are.
NoChangeIsMissed ==
  \A w \in Watchers \cap connected : \A d \in asked[w] \ {w} :
    Settled(d) => <<w, d>> \in told

\* The invariant of the notifications: types, somebody left to be told while the
\* messages are sent, and no change missed.
NotifyInv == TypeOK /\ NoChangeIsMissed

\* What it was told last is the state in the table.  There are two ways round that:
\* an answer for which the table was read before the device changed and which was
\* sent after the update; and a device that both threads were at work for, whose
\* state changed while the other thread was telling of the change before.
LastWordIsTrue ==
  \A w \in Watchers \cap connected : \A d \in asked[w] \ {w} :
    Settled(d) /\ <<w, d>> \notin raced /\ d \notin crossed =>
      word[<<w, d>>] = State(d \in dbOnline)

\* Every handler and every sweep ends: the messages that the checker sends with
\* the mutex held do not wait for the loop, and the loop's do not wait for ever.
HandlersEnd == \A th \in Threads : []<>(task[th] = Idle)
=============================================================================
