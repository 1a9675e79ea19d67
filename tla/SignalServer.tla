---------------------------- MODULE SignalServer ----------------------------
(***************************************************************************)
(* src/src/signal_server.cpp with the handlers of signal_negotiation.cpp,  *)
(* the presence manager and the registration table of the database.        *)
(*                                                                         *)
(* Two threads act on the sessions: the event loop, which runs one         *)
(* websocket, HTTP or timer handler at a time, and the alive checker.  A   *)
(* handler is a sequence of critical sections, and each of them is one     *)
(* action here; task[thread] says which one comes next.  The checker keeps *)
(* the mutex of the transmission manager for a whole sweep, callbacks      *)
(* included, so the loop's calls to the manager wait for the sweep to end, *)
(* but its calls to the presence manager and to the database do not.       *)
(*                                                                         *)
(* The transmission manager is the module of that name, instantiated on    *)
(* the same variables: every call to it is one of its actions.  Messages   *)
(* that only relay or report (offer, answer, candidates, queries, ICE      *)
(* configuration, notifications) change no state of this module.           *)
(***************************************************************************)
EXTENDS Naturals

CONSTANTS
  Users, Handles, NoUser, NoHandle, Reidentify,
  Webs,         \* the ids that start with "web-"
  Clones,       \* the ids that start with "C-": not presented as devices
  Marked,       \* the ids that contain "C-", wherever: not registered
  MayOverlap,   \* may a sweep begin before the handler that runs has ended?
  MayStall,     \* may ten seconds pass while a handler runs?
  MaxRestarts   \* bound on the restarts of the process

ASSUME ServerAssumption ==
  /\ NoUser \notin Users /\ NoHandle \notin Handles /\ Reidentify \in BOOLEAN
  /\ Webs \subseteq Users /\ Marked \subseteq Users
  /\ Clones \subseteq Marked /\ Webs \cap Clones = {}
  /\ MayOverlap \in BOOLEAN /\ MayStall \in BOOLEAN
  /\ MaxRestarts \in Nat

VARIABLES host, guests, wsHdl, wsUser, lastActive, row  \* TransmissionManager

TM == INSTANCE TransmissionManager

VARIABLES
  conn,        \* ws_connections_: the open websocket connections
  closing,     \* those on which the server has called close()
  online,      \* online_devices_ and online_web_clients_
  dbOnline,    \* device_presence.online
  watching,    \* the keys of associations_: who watches other devices
  network,     \* device_network_info_: the devices that have an entry
  registered,  \* the rows of the table devices
  cleanup,     \* has the recovered-session cleanup timer fired?
  task,        \* what each thread does next
  due,         \* the handles that the current sweep has yet to expire
  restarts,    \* restarts so far
  raced        \* history: <<at, u>> when a sweep ended the last session of u
               \* while the loop was about to run the section `at` for u

sessions == <<host, guests, wsHdl, wsUser, lastActive, row>>
presence == <<online, dbOnline, watching, network>>
sockets == <<conn, closing>>
rest == <<cleanup, due, restarts, raced>>
vars == <<sessions, presence, sockets, registered, task, rest>>

Threads == {"loop", "checker"}
Steps == {"idle", "bind", "host", "whoami", "online", "dbOnline", "network",
          "watch", "join", "webGone", "unwatch", "offline", "dbOffline",
          "forget", "sweep", "close"}
Tasks == [at : Steps,
          hdl : Handles \cup {NoHandle},
          user : Users \cup {NoUser},
          with : Users \cup {NoUser}]

Races == Steps \X Users

Idle == [at |-> "idle", hdl |-> NoHandle, user |-> NoUser, with |-> NoUser]
Task(at, h, u) == [at |-> at, hdl |-> h, user |-> u, with |-> NoUser]

\* Mutant: the sweep calls the timeout callback after it has let the mutex go.
LockFree_CallbackUnlocked == task["checker"].at # "sweep"

\* The mutex of the transmission manager is free unless a sweep is going on.
LockFree == task["checker"].at = "idle"

\* The loop can start a handler.
Ready == task["loop"] = Idle /\ (MayOverlap \/ LockFree)

\* A handler at `at` runs its next critical section.
At(th, at) == task[th].at = at

Goto(th, t) == task' = [task EXCEPT ![th] = t]

\* Where a message can come from.  One that arrives after close() is dropped.
Peers == conn \ closing

TypeOK ==
  /\ TM!TypeOK
  /\ conn \subseteq Handles /\ closing \subseteq conn
  /\ online \subseteq Users \ Clones /\ dbOnline \subseteq Users
  /\ watching \subseteq Users
  /\ network \subseteq Users
  /\ registered \subseteq Users \ Marked
  /\ cleanup \in {"pending", "done"}
  /\ task \in [Threads -> Tasks]
  /\ due \subseteq Handles
  /\ restarts \in 0..MaxRestarts
  /\ raced \subseteq Races

Init ==
  /\ TM!Init
  /\ conn = {} /\ closing = {}
  /\ online = {} /\ dbOnline = {} /\ watching = {} /\ network = {}
  /\ registered = {}
  /\ cleanup = "pending"
  /\ task = [th \in Threads |-> Idle]
  /\ due = {}
  /\ restarts = 0
  /\ raced = {}

-----------------------------------------------------------------------------
(* Handlers of the event loop that are one critical section.               *)

OnOpen(h) ==
  /\ Ready /\ h \notin conn
  /\ conn' = conn \cup {h}
  /\ UNCHANGED <<sessions, presence, closing, registered, task, rest>>

\* The ping message, and the ping and pong frames.
OnPing(h) ==
  /\ Ready /\ LockFree /\ h \in Peers
  /\ TM!UpdateWsHandleLastActiveTime(h)
  /\ UNCHANGED <<presence, sockets, registered, task, rest>>

\* The message names both ids, u may be empty.  A sweep between the test for the
\* host and the release only takes away what the release would, so the two are
\* one action.
leave_transmission(u, t) ==
  /\ Ready /\ LockFree /\ Peers # {}
  /\ IF u # NoUser /\ host[t] = u
                    THEN TM!ReleaseTransmission(t)
                    ELSE TM!ReleaseGuestFromTransmission(u)
  /\ UNCHANGED <<presence, sockets, registered, task, rest>>

\* POST .../transmissions/<t>/disconnect.  EndRemoteControlTransmission then
\* finds no row of t left, since the rows mirror the guests.
HandleDisconnect(t) ==
  /\ Ready /\ LockFree
  /\ TM!DisconnectTransmission(t)
  /\ UNCHANGED <<presence, sockets, registered, task, rest>>

\* The one-shot timer, 120 s after the start.
RecoveredSessionCleanup ==
  /\ Ready /\ LockFree /\ cleanup = "pending"
  /\ TM!PruneDisconnectedTransmissions
  /\ cleanup' = "done"
  /\ UNCHANGED <<presence, sockets, registered, task, due, restarts, raced>>

-----------------------------------------------------------------------------
(* login: AddDevice, BindUserToWsHandle, BindHostToTransmission, GetUserId,*)
(* then PresenceManager::OnLogin and EnqueueClientNetworkInfo.             *)

\* Mutant: a browser can log in again with the id it was given.
AddDevice_BrowserReturns(u) == registered' = registered \cup ({u} \ Marked)

\* A registered id comes back with its password; any other gets a fresh id.
\* Nobody is told the password of a browser's id, so a browser is always new.
\* An id with the mark of a clone is taken as it comes: AddDevice is skipped.
AddDevice(u) ==
  /\ u \in Webs => u \notin registered
  /\ registered' = registered \cup ({u} \ Marked)

RemoveDevice(u) == registered' = registered \ {u}

\* Somebody may know the password of t: a registered id, but not a browser's.
VerifyDevice(t) == t \in registered \ Webs

\* AddDevice may also fail; then nothing is bound.
login_user(h) ==
  /\ Ready /\ h \in Peers
  /\ \/ \E u \in Users :
          /\ Reidentify \/ wsUser[h] \in {NoUser, u}
          /\ AddDevice(u)
          /\ Goto("loop", Task("bind", h, u))
     \/ /\ Goto("loop", Task("whoami", h, NoUser))
        /\ UNCHANGED registered
  /\ UNCHANGED <<sessions, presence, sockets, rest>>

LoginBindUser ==
  LET me == task["loop"] IN
  /\ At("loop", "bind") /\ LockFree
  /\ TM!BindUserToWsHandle(me.user, me.hdl)
  /\ Goto("loop", Task("host", me.hdl, me.user))
  /\ raced' = {r \in raced : r[2] # me.user}
  /\ UNCHANGED <<presence, sockets, registered, cleanup, due, restarts>>

LoginBindHost ==
  LET me == task["loop"] IN
  /\ At("loop", "host") /\ LockFree
  /\ TM!BindHostToTransmission(me.user)
  /\ Goto("loop", Task("whoami", me.hdl, NoUser))
  /\ UNCHANGED <<presence, sockets, registered, rest>>

\* A failed login gets here as well, on a connection that may have a session.
LoginGetUserId ==
  LET me == task["loop"] IN
  /\ At("loop", "whoami") /\ LockFree
  /\ Goto("loop", IF wsUser[me.hdl] = NoUser THEN Idle
                  ELSE Task("online", me.hdl, wsUser[me.hdl]))
  /\ UNCHANGED <<sessions, presence, sockets, registered, rest>>

OnLoginMark ==
  LET me == task["loop"] IN
  /\ At("loop", "online")
  /\ online' = online \cup ({me.user} \ Clones)
  /\ Goto("loop", Task("dbOnline", me.hdl, me.user))
  /\ UNCHANGED <<sessions, dbOnline, watching, network, sockets, registered, rest>>

OnLoginStore ==
  LET me == task["loop"] IN
  /\ At("loop", "dbOnline")
  /\ dbOnline' = dbOnline \cup {me.user}
  /\ Goto("loop", Task("network", me.hdl, me.user))
  /\ UNCHANGED <<sessions, online, watching, network, sockets, registered, rest>>

EnqueueClientNetworkInfo ==
  LET me == task["loop"] IN
  /\ At("loop", "network")
  /\ network' = network \cup {me.user}
  /\ Goto("loop", Idle)
  /\ UNCHANGED <<sessions, online, dbOnline, watching, sockets, registered, rest>>

-----------------------------------------------------------------------------
(* recent_connections_presence: GetUserId, then UpdateUserDevices.         *)

PresenceRequest(h) ==
  /\ Ready /\ LockFree /\ h \in Peers /\ wsUser[h] # NoUser
  /\ Goto("loop", Task("watch", h, wsUser[h]))
  /\ UNCHANGED <<sessions, presence, sockets, registered, rest>>

\* What is watched tells nothing apart here: only who has an entry does.
UpdateUserDevices ==
  LET me == task["loop"] IN
  /\ At("loop", "watch")
  /\ watching' = watching \cup {me.user}
  /\ Goto("loop", Idle)
  /\ UNCHANGED <<sessions, online, dbOnline, network, sockets, registered, rest>>

-----------------------------------------------------------------------------
(* join_transmission: VerifyDevice, the host's handle, GetUserId, then     *)
(* BindGuestToTransmission.  If a sweep ends the host's session after its  *)
(* handle was read, the transmission is gone and the bind refuses, so that *)
(* read and GetUserId are one action.  The sender has to name the user of  *)
(* its connection: on one that has not logged in, the empty id.            *)

JoinRequest(h, t) ==
  /\ Ready /\ LockFree /\ h \in Peers
  /\ VerifyDevice(t)
  /\ host[t] # NoUser /\ wsHdl[host[t]] # NoHandle
  /\ Goto("loop", [Task("join", h, wsUser[h]) EXCEPT !.with = t])
  /\ UNCHANGED <<sessions, presence, sockets, registered, rest>>

JoinBindGuest ==
  LET me == task["loop"] IN
  /\ At("loop", "join") /\ LockFree
  /\ TM!BindGuestToTransmission(me.user, me.with)
  /\ Goto("loop", Idle)
  /\ UNCHANGED <<presence, sockets, registered, rest>>

-----------------------------------------------------------------------------
(* OnClose and OnFail, and the logout that they share with the checker.    *)

\* Mutant: only the handle is released, the memberships of its device stay.
OnClose_HandleOnly(h) ==
  /\ Ready /\ LockFree /\ h \in conn
  /\ TM!ReleaseUserFromWsHandle(h)
  /\ LET u == TM!LoggedOutBy(h) IN
     Goto("loop", IF u = NoUser THEN Idle ELSE Task("webGone", h, u))
  /\ conn' = conn \ {h} /\ closing' = closing \ {h}
  /\ UNCHANGED <<host, guests, row, presence, registered, rest>>

\* ReleaseUserSession; RemoveWsHandleLastActiveTime then has nothing to erase.
\* The loop alone uses ws_connections_, so its late erase is done here.
OnClose(h) ==
  /\ Ready /\ LockFree /\ h \in conn
  /\ TM!ReleaseUserSession(h)
  /\ LET u == TM!LoggedOutBy(h) IN
     Goto("loop", IF u = NoUser THEN Idle ELSE Task("webGone", h, u))
  /\ conn' = conn \ {h} /\ closing' = closing \ {h}
  /\ UNCHANGED <<presence, registered, rest>>

\* Mutant: a browser that times out keeps its registration.
OnWebClientDisconnect_CloseOnly(th) ==
  LET me == task[th] IN
  /\ At(th, "webGone")
  /\ IF me.user \in Webs /\ th = "loop" THEN RemoveDevice(me.user) ELSE UNCHANGED registered
  /\ Goto(th, [me EXCEPT !.at = IF th = "loop" THEN "unwatch" ELSE "close"])
  /\ UNCHANGED <<sessions, presence, sockets, rest>>

\* Before the logout in OnClose, after it in OnSessionTimeout.
OnWebClientDisconnect(th) ==
  LET me == task[th] IN
  /\ At(th, "webGone")
  /\ IF me.user \in Webs THEN RemoveDevice(me.user) ELSE UNCHANGED registered
  /\ Goto(th, [me EXCEPT !.at = IF th = "loop" THEN "unwatch" ELSE "close"])
  /\ UNCHANGED <<sessions, presence, sockets, rest>>

OnLogoutUnwatch(th) ==
  LET me == task[th] IN
  /\ At(th, "unwatch")
  /\ watching' = watching \ {me.user}
  /\ Goto(th, [me EXCEPT !.at = "offline"])
  /\ UNCHANGED <<sessions, online, dbOnline, network, sockets, registered, rest>>

OnLogoutMark(th) ==
  LET me == task[th] IN
  /\ At(th, "offline")
  /\ online' = online \ {me.user}
  /\ Goto(th, [me EXCEPT !.at = "dbOffline"])
  /\ UNCHANGED <<sessions, dbOnline, watching, network, sockets, registered, rest>>

OnLogoutStore(th) ==
  LET me == task[th] IN
  /\ At(th, "dbOffline")
  /\ dbOnline' = dbOnline \ {me.user}
  /\ Goto(th, [me EXCEPT !.at = "forget"])
  /\ UNCHANGED <<sessions, online, watching, network, sockets, registered, rest>>

\* Mutant: the address entry stays.
OnLogoutForget_Keeps(th) ==
  LET me == task[th] IN
  /\ At(th, "forget")
  /\ Goto(th, IF th = "loop" THEN Idle ELSE [me EXCEPT !.at = "webGone"])
  /\ UNCHANGED <<sessions, presence, sockets, registered, rest>>

OnLogoutForget(th) ==
  LET me == task[th] IN
  /\ At(th, "forget")
  /\ network' = network \ {me.user}
  /\ Goto(th, IF th = "loop" THEN Idle ELSE [me EXCEPT !.at = "webGone"])
  /\ UNCHANGED <<sessions, online, dbOnline, watching, sockets, registered, rest>>

-----------------------------------------------------------------------------
(* The alive checker: ExpireInactiveSessions under the manager's mutex.    *)

SweepBegin ==
  /\ LockFree /\ (MayOverlap \/ task["loop"] = Idle)
  /\ due' = {h \in Handles : lastActive[h] = "idle"}
  /\ due' # {}
  /\ Goto("checker", Task("sweep", NoHandle, NoUser))
  /\ UNCHANGED <<sessions, presence, sockets, registered, cleanup, restarts, raced>>

\* Mutant: the timeout releases and closes, but does not log out.
SweepExpire_NoLogout(h) ==
  /\ At("checker", "sweep") /\ h \in due
  /\ TM!ExpireInactiveSession(h)
  /\ LET u == TM!LoggedOutBy(h) IN
     /\ Goto("checker", Task("close", h, u))
     /\ raced' = raced \cup {<<task["loop"].at, v>> : v \in Users \cap {u} \cap {task["loop"].user}}
  /\ UNCHANGED <<presence, sockets, registered, cleanup, due, restarts>>

\* A handle that carried no final session is only closed.
SweepExpire(h) ==
  /\ At("checker", "sweep") /\ h \in due
  /\ TM!ExpireInactiveSession(h)
  /\ LET u == TM!LoggedOutBy(h) IN
     /\ Goto("checker", Task(IF u = NoUser THEN "close" ELSE "unwatch", h, u))
     /\ raced' = raced \cup {<<task["loop"].at, v>> : v \in Users \cap {u} \cap {task["loop"].user}}
  /\ UNCHANGED <<presence, sockets, registered, cleanup, due, restarts>>

\* Mutant: the timed-out connection is left open.
SweepClose_LeavesOpen ==
  LET me == task["checker"] IN
  /\ At("checker", "close")
  /\ due' = due \ {me.hdl}
  /\ Goto("checker", IF due' = {} THEN Idle ELSE Task("sweep", NoHandle, NoUser))
  /\ UNCHANGED <<sessions, presence, sockets, registered, cleanup, restarts, raced>>

\* The end of OnSessionTimeout; after the last due handle the mutex is free.
SweepClose ==
  LET me == task["checker"] IN
  /\ At("checker", "close")
  /\ closing' = closing \cup (conn \cap {me.hdl})
  /\ due' = due \ {me.hdl}
  /\ Goto("checker", IF due' = {} THEN Idle ELSE Task("sweep", NoHandle, NoUser))
  /\ UNCHANGED <<sessions, presence, conn, registered, cleanup, restarts, raced>>

-----------------------------------------------------------------------------
(* The environment.                                                        *)

BecomeIdle(h) ==
  /\ MayStall \/ task["loop"] = Idle
  /\ TM!BecomeIdle(h)
  /\ UNCHANGED <<presence, sockets, registered, task, rest>>

\* The process dies at any point and starts again: InitDB marks every device
\* offline and keeps or drops the session rows, memory is empty otherwise.
Restart(recovered) ==
  /\ restarts < MaxRestarts
  /\ restarts' = restarts + 1
  /\ TM!Restart(recovered)
  /\ conn' = {} /\ closing' = {}
  /\ online' = {} /\ dbOnline' = {} /\ watching' = {} /\ network' = {}
  /\ cleanup' = "pending"
  /\ task' = [th \in Threads |-> Idle]
  /\ due' = {} /\ raced' = {}
  /\ UNCHANGED registered

-----------------------------------------------------------------------------
LoopStep ==
  \/ LoginBindUser \/ LoginBindHost \/ LoginGetUserId
  \/ OnLoginMark \/ OnLoginStore \/ EnqueueClientNetworkInfo
  \/ UpdateUserDevices \/ JoinBindGuest

LogoutStep(th) ==
  \/ OnWebClientDisconnect(th) \/ OnLogoutUnwatch(th) \/ OnLogoutMark(th)
  \/ OnLogoutStore(th) \/ OnLogoutForget(th)

CheckerStep ==
  \/ SweepBegin \/ SweepClose \/ LogoutStep("checker")
  \/ \E h \in Handles : SweepExpire(h)

Next ==
  \/ \E h \in Handles : OnOpen(h)
  \/ \E h \in Handles : OnPing(h)
  \/ \E u \in Users \cup {NoUser}, t \in Users : leave_transmission(u, t)
  \/ \E t \in Users : HandleDisconnect(t)
  \/ RecoveredSessionCleanup
  \/ \E h \in Handles : login_user(h)
  \/ \E h \in Handles : PresenceRequest(h)
  \/ \E h \in Handles, t \in Users : JoinRequest(h, t)
  \/ \E h \in Handles : OnClose(h)
  \/ LoopStep
  \/ LogoutStep("loop")
  \/ CheckerStep
  \/ \E h \in Handles : BecomeIdle(h)
  \/ \E recovered \in BOOLEAN : Restart(recovered)

Spec == Init /\ [][Next]_vars

\* The threads keep running, and the mutex and the loop are free again and
\* again between handlers, so the checker gets its turn; the event loop serves
\* its queue in order, so a close that websocketpp has to report and a timer
\* that has expired get their turn however many messages arrive.
Fairness ==
  /\ SF_vars(CheckerStep)
  /\ WF_vars(LoopStep) /\ WF_vars(LogoutStep("loop"))
  /\ \A h \in Handles : SF_vars(h \in closing /\ OnClose(h))
  /\ SF_vars(RecoveredSessionCleanup)

FairSpec == Spec /\ Fairness

-----------------------------------------------------------------------------
(* Properties.  "Quiet" is any moment when neither thread is in a handler. *)

Quiet == \A th \in Threads : task[th] = Idle

Connected == {u \in Users : TM!HasUserConnection(u)}

\* The users whose last session a sweep ended while the loop, for them, was about
\* to run one of these sections, and who have not logged in since.
RacedAt(steps) == {u \in Users : \E at \in steps : <<at, u>> \in raced}

\* A device with an authenticated connection is shown online by the dashboard
\* and by presence queries, and its address is known, even if a sweep times
\* out another connection of it while it logs in.
ConnectedIsPresented ==
  Quiet => Connected \subseteq dbOnline \cap network \cap (online \cup Clones)

\* The registration of a connected device or browser is not taken away from it by
\* the end of another session.  Only who logged in with the mark of a clone in its
\* id, at its start or elsewhere, has none.
ConnectedIsRegistered == Connected \ Marked \subseteq registered

\* The invariant of the registrations, in the middle of handlers too: types, and
\* every connected device or browser without that mark is registered.
RegistrationsInv == TypeOK /\ ConnectedIsRegistered

\* A browser's registration does not outlive its last connection ("Remove web
\* client from database on disconnect"), as long as the process lives.
WebRegistrationsEnd ==
  Quiet /\ restarts = 0 => Webs \cap registered \subseteq Connected

\* Whoever is shown online is connected (README: "Online devices").  The code
\* breaks this: see the next property.
OnlineIsConnected == Quiet => online \cup dbOnline \subseteq Connected

\* Under every interleaving of the two threads, whoever is shown online is
\* connected, unless a sweep timed the device out between GetUserId and the very
\* statement of its OnLogin that showed it online, or the one before it.
OnlineIsConnectedOrRaced ==
  Quiet =>
    /\ online \subseteq Connected \cup RacedAt({"online"})
    /\ dbOnline \subseteq Connected \cup RacedAt({"online", "dbOnline"})

\* Under every interleaving, only connected devices keep an address entry, so that
\* the retries of failed lookups stop (README: "once no online client uses the
\* IP"), and only connected devices watch others.  An entry outlives its session
\* only if a sweep ended that session between GetUserId and the entry.
EntriesAreConnected ==
  Quiet =>
    /\ network \subseteq Connected \cup RacedAt({"online", "dbOnline", "network"})
    /\ watching \subseteq Connected \cup RacedAt({"watch"})

\* Under every interleaving, once the restored sessions have been cleaned up,
\* whoever hosts or controls a transmission is connected.  The exceptions: the
\* guest with the empty id, whom no logout removes, and a device that a sweep
\* timed out just before the bind that made it host or guest.
ParticipantsAreConnected ==
  Quiet /\ cleanup = "done" =>
    \A t \in Users :
      /\ host[t] \in Connected \cup RacedAt({"host"}) \cup {NoUser}
      /\ guests[t] \subseteq Connected \cup RacedAt({"join"}) \cup {NoUser}

\* "Reject connection request with unauthenticated sender": whoever has joined a
\* transmission has an id.  The code breaks this.
GuestsAreNamed == \A t \in Users : NoUser \notin guests[t]

\* "Close every expired connection": a connection without heartbeats is closed
\* unless it speaks up again in time.
SilentConnectionsEnd ==
  \A h \in Handles : lastActive[h] = "idle" ~> (lastActive[h] = "fresh" \/ h \notin conn)

\* A restored host or guest that does not come back leaves the transmission.
RestoredSessionsEnd ==
  \A u, t \in Users :
    TM!Participates(u, t) ~> (u \in Connected \/ ~TM!Participates(u, t))

\* The server uses the transmission manager as that module says.
UsesTransmissionManager == TM!Spec

=============================================================================
