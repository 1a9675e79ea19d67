------------------------- MODULE SignalServerProofs -------------------------
(***************************************************************************)
(* Proofs about the composed server, for any devices, connections and      *)
(* number of restarts, and for every interleaving of the two threads.      *)
(*                                                                         *)
(* First, a step of the server is a step of the transmission manager or    *)
(* none, so that the theorems about the manager hold of the server.  Then  *)
(* an invariant about what the threads have begun and not yet finished:    *)
(* what a handler is about to do, and for whom, is what makes up for the   *)
(* maps, tables and sets that disagree in the middle of it.  The last part *)
(* is about what a session leaves behind: nothing, but for the handlers    *)
(* that a sweep has overtaken.                                             *)
(***************************************************************************)
EXTENDS SignalServer, TLAPS

TMP == INSTANCE TransmissionManagerProofs

-----------------------------------------------------------------------------
(* What the threads have begun.                                            *)

LogoutSteps == {"webGone", "unwatch", "offline", "dbOffline", "forget"}

\* The device that a thread is logging out.
LoggingOut(th) == IF task[th].at \in LogoutSteps THEN {task[th].user} ELSE {}

\* A task names the handle and the devices that its next critical section needs.
TasksAreNamed ==
  /\ LET me == task["loop"] IN
     /\ me.at \notin {"sweep", "close"}
     /\ me.at \in {"bind", "host", "whoami"} => me.hdl \in Handles
     /\ me.at \notin {"idle", "whoami", "join"} => me.user \in Users
     /\ me.at = "join" => me.with \in Users
  /\ LET me == task["checker"] IN
     /\ me.at \in {"idle", "sweep", "close"} \cup LogoutSteps
     /\ me.at \in LogoutSteps => me.user \in Users

\* Whoever is being logged out has no connection, and gets none before that is done.
LoggedOutIsGone == \A th \in Threads : LoggingOut(th) \cap Connected = {}

\* The loop is about to present the session of h, or has got no further than `steps`.
Presenting(h, steps) ==
  LET me == task["loop"] IN
  \/ me.at \in {"host", "whoami"} /\ me.hdl = h
  \/ me.at \in steps /\ me.user = wsUser[h]

\* Every session is presented, or about to be.
SessionsArePresented ==
  \A h \in Handles : wsUser[h] # NoUser =>
    /\ wsUser[h] \in online \cup Clones \/ Presenting(h, {"online"})
    /\ wsUser[h] \in dbOnline \/ Presenting(h, {"online", "dbOnline"})
    /\ wsUser[h] \in network \/ Presenting(h, {"online", "dbOnline", "network"})

\* A login that is about to bind a device has a registration to bind, unless its id
\* needs none, and nobody is about to take it away.
LoginIsRegistered ==
  LET me == task["loop"] IN
  me.at = "bind" =>
    /\ me.user \in registered \cup Marked
    /\ me.user \in Webs \ Marked => me.user \notin Connected \cup LoggingOut("checker")

\* A browser that the checker logs out is registered until the checker removes it.
LeavingIsRegistered ==
  /\ LoggingOut("checker") \cap Webs \subseteq registered \cup Marked
  /\ task["loop"].at = "webGone" => task["loop"].user \notin LoggingOut("checker")

\* A browser that is registered has a connection, or one that was just given or taken.
BrowsersAreAwaited ==
  restarts = 0 =>
    \A u \in Webs \cap registered :
      \/ u \in Connected \cup LoggingOut("checker")
      \/ task["loop"].at \in {"bind", "webGone"} /\ task["loop"].user = u

ServerInv ==
  /\ TypeOK
  /\ TM!IInv
  /\ TasksAreNamed
  /\ LoggedOutIsGone
  /\ SessionsArePresented
  /\ ConnectedIsRegistered
  /\ LoginIsRegistered
  /\ LeavingIsRegistered
  /\ ~Reidentify => BrowsersAreAwaited

-----------------------------------------------------------------------------
(* What a session leaves behind.                                           *)

\* Whoever is connected, or was timed out when the loop was to do one of `steps` for it.
ConnectedOrRaced(steps) == Connected \cup RacedAt(steps)

\* A handler acts for a device that is still connected, or that a sweep has timed out
\* since the handler took its id.
ActingIsConnectedOrRaced ==
  LET me == task["loop"] IN
  /\ me.at = "host" => me.user \in ConnectedOrRaced({"host"})
  /\ me.at = "online" => me.user \in ConnectedOrRaced({"online"})
  /\ me.at = "dbOnline" => me.user \in ConnectedOrRaced({"online", "dbOnline"})
  /\ me.at = "network" => me.user \in ConnectedOrRaced({"online", "dbOnline", "network"})
  /\ me.at = "watch" => me.user \in ConnectedOrRaced({"watch"})
  /\ me.at = "join" => me.user \in ConnectedOrRaced({"join"}) \cup {NoUser}

\* The device that a thread is logging out, and has got no further with than `steps`.
\* The loop removes a browser's registration first, the checker last.
Leaving(th, steps) ==
  IF task[th].at \in steps \cup (IF th = "loop" THEN {"webGone"} ELSE {})
  THEN {task[th].user} ELSE {}

StillThere(steps, races) ==
  ConnectedOrRaced(races) \cup Leaving("loop", steps) \cup Leaving("checker", steps)

\* What is kept of a device is kept of a connected one, or about to be erased, or was
\* entered for one that a sweep had just timed out.
EntriesEnd ==
  /\ watching \subseteq StillThere({"unwatch"}, {"watch"})
  /\ online \subseteq StillThere({"unwatch", "offline"}, {"online"})
  /\ dbOnline \subseteq StillThere({"unwatch", "offline", "dbOffline"}, {"online", "dbOnline"})
  /\ network \subseteq StillThere({"unwatch", "offline", "dbOffline", "forget"},
                                 {"online", "dbOnline", "network"})

ParticipantsHaveSessions ==
  cleanup = "done" =>
    \A t \in Users : /\ host[t] \in ConnectedOrRaced({"host"}) \cup {NoUser}
                     /\ guests[t] \subseteq ConnectedOrRaced({"join"}) \cup {NoUser}

LeavingsInv ==
  /\ ActingIsConnectedOrRaced
  /\ EntriesEnd
  /\ ParticipantsHaveSessions

-----------------------------------------------------------------------------
(* The manager under the server.  TM is the manager that the server calls, *)
(* TMP the same module with its theorems.                                  *)

LEMMA ManagerConstants == TM!ConstantsAssumption /\ TMP!ConstantsAssumption
  BY ServerAssumption DEF ServerAssumption, TM!ConstantsAssumption, TMP!ConstantsAssumption

LEMMA SameInvariant == TM!IInv <=> TMP!IInv
  BY DEF TM!IInv, TM!TransmissionsInv, TM!TypeOK, TM!Ids, TM!TransmissionsWellFormed,
         TM!SessionRowsMirrorGuests,
         TM!WatchdogCoversSessions, TM!ConnectedIsRoutable, TM!Ages,
         TM!IsTransmissionExist, TM!HasUserConnection,
         TMP!IInv, TMP!TransmissionsInv, TMP!TypeOK, TMP!Ids, TMP!TransmissionsWellFormed,
         TMP!SessionRowsMirrorGuests,
         TMP!WatchdogCoversSessions, TMP!ConnectedIsRoutable, TMP!Ages,
         TMP!IsTransmissionExist, TMP!HasUserConnection

LEMMA SameNext == [TM!Next]_TM!vars <=> [TMP!Next]_TMP!vars
  BY DEF TM!Next, TM!Ids, TM!BindUserToWsHandle, TM!BindHostToTransmission,
         TM!BindGuestToTransmission, TM!ReleaseTransmission, TM!DisconnectTransmission,
         TM!ReleaseGuestFromTransmission, TM!PruneDisconnectedTransmissions,
         TM!ReleaseUserSession, TM!ExpireInactiveSession, TM!RemoveWsHandleLastActiveTime,
         TM!UpdateWsHandleLastActiveTime, TM!BecomeIdle, TM!Restart,
         TM!IsTransmissionExist, TM!HasUserConnection, TM!EndSessions, TM!StartSession,
         TM!ReleaseUserFromWsHandle, TM!OtherHandles, TM!IsFinalSession, TM!FirstHosted,
         TM!vars,
         TMP!Next, TMP!Ids, TMP!BindUserToWsHandle, TMP!BindHostToTransmission,
         TMP!BindGuestToTransmission, TMP!ReleaseTransmission, TMP!DisconnectTransmission,
         TMP!ReleaseGuestFromTransmission, TMP!PruneDisconnectedTransmissions,
         TMP!ReleaseUserSession, TMP!ExpireInactiveSession, TMP!RemoveWsHandleLastActiveTime,
         TMP!UpdateWsHandleLastActiveTime, TMP!BecomeIdle, TMP!Restart,
         TMP!IsTransmissionExist, TMP!HasUserConnection, TMP!EndSessions, TMP!StartSession,
         TMP!ReleaseUserFromWsHandle, TMP!OtherHandles, TMP!IsFinalSession, TMP!FirstHosted,
         TMP!vars

LEMMA ManagerInit == TM!Init => TM!IInv
<1>1. TM!Init <=> TMP!Init
  BY DEF TM!Init, TMP!Init
<1> QED
  BY <1>1, SameInvariant, ManagerConstants, TMP!InitEstablishes

LEMMA ManagerStep == TM!IInv /\ [TM!Next]_TM!vars => TM!IInv'
<1>1. TM!IInv' <=> TMP!IInv'
  BY SameInvariant, PTL
<1> QED
  BY <1>1, SameInvariant, SameNext, ManagerConstants, TMP!NextPreserves

-----------------------------------------------------------------------------
(* Types.                                                                  *)

LEMMA Moves ==
  ASSUME TypeOK, NEW th \in Threads, NEW t \in Tasks, Goto(th, t)
  PROVE  /\ task' \in [Threads -> Tasks]
         /\ task'[th] = t
         /\ \A o \in Threads : o # th => task'[o] = task[o]
  BY DEF Goto, TypeOK

LEMMA ThreadNames == "loop" \in Threads /\ "checker" \in Threads
  BY DEF Threads

\* The tasks that handlers make, and what they say.
LEMMA NewTasks ==
  ASSUME NEW h \in Handles \cup {NoHandle}, NEW u \in Users \cup {NoUser}
  PROVE  /\ Idle \in Tasks /\ Idle.at = "idle"
         /\ \A at \in {"bind", "host", "whoami", "online", "dbOnline", "network", "watch",
                       "webGone", "unwatch", "close", "sweep"} :
              /\ Task(at, h, u) \in Tasks
              /\ Task(at, h, u).at = at /\ Task(at, h, u).hdl = h /\ Task(at, h, u).user = u
  BY DEF Idle, Task, Tasks, Steps

LEMMA JoinTask ==
  ASSUME NEW h \in Handles, NEW u \in Users \cup {NoUser}, NEW t \in Users
  PROVE  LET j == [Task("join", h, u) EXCEPT !.with = t]
         IN  j \in Tasks /\ j.at = "join" /\ j.hdl = h /\ j.user = u /\ j.with = t
  BY DEF Task, Tasks, Steps

\* A logout goes from step to step for the same device.
LEMMA NextSteps ==
  ASSUME NEW me \in Tasks
  PROVE  \A at \in {"unwatch", "close", "offline", "dbOffline", "forget", "webGone"} :
           LET t == [me EXCEPT !.at = at]
           IN  t \in Tasks /\ t.at = at /\ t.user = me.user /\ t.hdl = me.hdl
  BY DEF Tasks, Steps

\* What a thread is doing is a task.
LEMMA OldTasks ==
  ASSUME TypeOK, NEW th \in Threads
  PROVE  /\ task[th] \in Tasks
         /\ task[th].hdl \in Handles \cup {NoHandle} /\ task[th].user \in Users \cup {NoUser}
  BY DEF TypeOK, Tasks

\* Handles and devices that tasks name are handles and devices, so that every step of the
\* server makes a step of the manager, or none.
LEMMA ManagerIsUsed ==
  ASSUME TypeOK, TasksAreNamed, [Next]_vars
  PROVE  [TM!Next]_TM!vars
<1>1. CASE UNCHANGED sessions
  BY <1>1 DEF sessions, TM!vars
<1>2. ASSUME NEW h \in Handles, OnPing(h) \/ OnClose(h) \/ SweepExpire(h) \/ BecomeIdle(h)
      PROVE  TM!Next
  BY <1>2 DEF OnPing, OnClose, SweepExpire, BecomeIdle, TM!Next
<1>3. ASSUME NEW u \in Users \cup {NoUser}, NEW t \in Users,
             leave_transmission(u, t) \/ HandleDisconnect(t)
      PROVE  TM!Next
  BY <1>3 DEF leave_transmission, HandleDisconnect, TM!Next, TM!Ids
<1>4. ASSUME RecoveredSessionCleanup \/ \E recovered \in BOOLEAN : Restart(recovered)
      PROVE  TM!Next
  BY <1>4 DEF RecoveredSessionCleanup, Restart, TM!Next
<1>5. ASSUME LoginBindUser \/ LoginBindHost \/ JoinBindGuest
      PROVE  TM!Next
  <2>1. task["loop"].user \in Users \cup {NoUser}
    BY OldTasks, ThreadNames
  <2> QED
    BY <1>5, <2>1
    DEF LoginBindUser, LoginBindHost, JoinBindGuest, At, TasksAreNamed, TM!Next, TM!Ids
<1> QED
  BY <1>1, <1>2, <1>3, <1>4, <1>5
  DEF Next, vars, OnOpen, login_user, PresenceRequest, JoinRequest, LoopStep, LogoutStep,
      CheckerStep, LoginGetUserId, OnLoginMark, OnLoginStore, EnqueueClientNetworkInfo,
      UpdateUserDevices, OnWebClientDisconnect, OnLogoutUnwatch, OnLogoutMark, OnLogoutStore,
      OnLogoutForget, SweepBegin, SweepClose

LEMMA SessionEnds ==
  ASSUME TM!TypeOK, NEW h \in Handles, TM!ReleaseUserSession(h)
  PROVE  /\ wsUser' = [wsUser EXCEPT ![h] = NoUser]
         /\ TM!LoggedOutBy(h) = NoUser \/ TM!LoggedOutBy(h) \in Connected
         /\ TM!LoggedOutBy(h) \in Users \cup {NoUser}
         /\ Connected' = Connected \ {TM!LoggedOutBy(h)}
<1>1. wsUser' = [wsUser EXCEPT ![h] = NoUser]
  BY DEF TM!ReleaseUserSession, TM!ReleaseUserFromWsHandle
<1>2. wsUser \in [Handles -> Users \cup {NoUser}] /\ NoUser \notin Users
  BY ServerAssumption DEF ServerAssumption, TM!TypeOK
<1>3. CASE TM!IsFinalSession(h)
  <2>1. TM!LoggedOutBy(h) = wsUser[h] /\ wsUser[h] # NoUser
        /\ \A k \in Handles : k # h => wsUser[k] # wsUser[h]
    BY <1>3 DEF TM!LoggedOutBy, TM!IsFinalSession, TM!OtherHandles
  <2> QED
    BY <1>1, <1>2, <2>1 DEF Connected, TM!HasUserConnection
<1>4. CASE ~TM!IsFinalSession(h)
  <2>1. TM!LoggedOutBy(h) = NoUser
    BY <1>4 DEF TM!LoggedOutBy
  <2>2. \A u \in Users : TM!HasUserConnection(u) => TM!HasUserConnection(u)'
    BY <1>1, <1>2, <1>4 DEF TM!IsFinalSession, TM!OtherHandles, TM!HasUserConnection
  <2>3. \A u \in Users : TM!HasUserConnection(u)' => TM!HasUserConnection(u)
    BY <1>1, <1>2 DEF TM!HasUserConnection
  <2> QED
    BY <1>1, <1>2, <2>1, <2>2, <2>3 DEF Connected
<1> QED
  BY <1>3, <1>4

LEMMA SessionBegins ==
  ASSUME TM!TypeOK, NEW u \in Users, NEW h \in Handles, TM!BindUserToWsHandle(u, h)
  PROVE  /\ wsUser' = [wsUser EXCEPT ![h] = u]
         /\ u \in Connected' /\ Connected' \subseteq Connected \cup {u}
         /\ ~Reidentify => Connected' = Connected \cup {u}
<1>1. /\ wsUser' = [wsUser EXCEPT ![h] = u]
      /\ Reidentify \/ wsUser[h] \in {NoUser, u}
  BY DEF TM!BindUserToWsHandle
<1>2. wsUser \in [Handles -> Users \cup {NoUser}] /\ NoUser \notin Users
  BY ServerAssumption DEF ServerAssumption, TM!TypeOK
<1> QED
  BY <1>1, <1>2 DEF Connected, TM!HasUserConnection

\* The steps that begin or end no session.
LEMMA SessionsStay ==
  ASSUME wsUser' = wsUser
  PROVE  Connected' = Connected
  BY DEF Connected, TM!HasUserConnection

\* Nobody is connected under the empty id.
LEMMA PresentUsers ==
  ASSUME NEW h \in Handles, TypeOK
  PROVE  /\ wsUser[h] \in Users \cup {NoUser}
         /\ wsUser[h] # NoUser => wsUser[h] \in Connected
         /\ Connected \subseteq Users /\ NoUser \notin Users
  BY ServerAssumption DEF ServerAssumption, TypeOK, TM!TypeOK, Connected, TM!HasUserConnection

-----------------------------------------------------------------------------
(* Every step preserves ServerInv.                                         *)

\* A step in which no thread moves, no session begins or ends, and no record changes.
LEMMA StillPreserves ==
  ASSUME ServerInv, TypeOK', TM!IInv',
         UNCHANGED <<wsUser, task, presence, registered, restarts>>
  PROVE  ServerInv'
<1>1. Connected' = Connected
  BY SessionsStay
<1>2. (TasksAreNamed /\ LoggedOutIsGone /\ LoginIsRegistered /\ LeavingIsRegistered)'
  BY <1>1 DEF ServerInv, TasksAreNamed, LoggedOutIsGone, LoginIsRegistered,
              LeavingIsRegistered, LoggingOut
<1>3. SessionsArePresented'
  BY DEF ServerInv, SessionsArePresented, Presenting, presence
<1>4. ConnectedIsRegistered'
  BY <1>1 DEF ServerInv, ConnectedIsRegistered
<1>5. ASSUME ~Reidentify PROVE BrowsersAreAwaited'
  BY <1>1, <1>5 DEF ServerInv, BrowsersAreAwaited, LoggingOut
<1> QED
  BY <1>2, <1>3, <1>4, <1>5 DEF ServerInv

\* The handlers that are one critical section, and the passing of time.
LEMMA ShortHandlersPreserve ==
  ASSUME ServerInv, TM!IInv',
         \/ \E h \in Handles : OnOpen(h)
         \/ \E h \in Handles : OnPing(h)
         \/ \E u \in Users \cup {NoUser}, t \in Users : leave_transmission(u, t)
         \/ \E t \in Users : HandleDisconnect(t)
         \/ RecoveredSessionCleanup
         \/ \E h \in Handles : BecomeIdle(h)
  PROVE  ServerInv'
<1>1. TM!TypeOK'
  BY DEF TM!IInv, TM!TransmissionsInv
<1>2. CASE \E h \in Handles : OnOpen(h)
  <2>1. UNCHANGED <<sessions, task, presence, closing, registered, rest>> /\ conn' \subseteq Handles
        /\ conn \subseteq conn'
    BY <1>2 DEF OnOpen, ServerInv, TypeOK
  <2>2. TypeOK'
    BY <1>1, <2>1 DEF ServerInv, TypeOK, presence, rest
  <2> QED
    BY <2>1, <2>2, StillPreserves DEF sessions, rest
<1>3. CASE \E h \in Handles : OnPing(h) \/ BecomeIdle(h)
  <2>1. UNCHANGED <<wsUser, task, presence, sockets, registered, rest>>
    BY <1>3 DEF OnPing, BecomeIdle, TM!UpdateWsHandleLastActiveTime, TM!BecomeIdle
  <2>2. TypeOK'
    BY <1>1, <2>1 DEF ServerInv, TypeOK, presence, rest, sockets
  <2> QED
    BY <2>1, <2>2, StillPreserves DEF rest
<1>4. CASE \/ \E u \in Users \cup {NoUser}, t \in Users : leave_transmission(u, t)
           \/ \E t \in Users : HandleDisconnect(t)
  <2>1. UNCHANGED <<wsUser, task, presence, sockets, registered, rest>>
    BY <1>4 DEF leave_transmission, HandleDisconnect, TM!ReleaseTransmission,
                TM!ReleaseGuestFromTransmission, TM!DisconnectTransmission, TM!vars
  <2>2. TypeOK'
    BY <1>1, <2>1 DEF ServerInv, TypeOK, presence, rest, sockets
  <2> QED
    BY <2>1, <2>2, StillPreserves DEF rest
<1>5. CASE RecoveredSessionCleanup
  <2>1. /\ UNCHANGED <<wsUser, task, presence, sockets, registered, due, restarts, raced>>
        /\ cleanup' = "done"
    BY <1>5 DEF RecoveredSessionCleanup, TM!PruneDisconnectedTransmissions
  <2>2. TypeOK'
    BY <1>1, <2>1 DEF ServerInv, TypeOK, presence, sockets
  <2> QED
    BY <2>1, <2>2, StillPreserves
<1> QED
  BY <1>2, <1>3, <1>4, <1>5

\* A login starts: an id that is not registered yet has no connection and is not being
\* logged out, for else it would be registered.
LEMMA LoginStarts ==
  ASSUME ServerInv, TM!IInv', NEW h \in Handles, login_user(h)
  PROVE  ServerInv'
<1> DEFINE t == task'["loop"]
<1>1. /\ UNCHANGED <<sessions, presence, sockets, rest>>
      /\ task["loop"].at = "idle"
      /\ Connected' = Connected
  BY SessionsStay, NewTasks DEF login_user, Ready, sessions
<1>2. PICK u \in Users \cup {NoUser} :
        \/ /\ u \in Users /\ AddDevice(u)
           /\ Goto("loop", Task("bind", h, u))
        \/ u = NoUser /\ UNCHANGED registered /\ Goto("loop", Task("whoami", h, NoUser))
  BY DEF login_user
<1>3. /\ task' \in [Threads -> Tasks] /\ task'["checker"] = task["checker"]
      /\ \/ t.at = "bind" /\ t.user = u /\ u \in Users /\ AddDevice(u)
         \/ t.at = "whoami" /\ UNCHANGED registered
      /\ t.hdl = h
  BY <1>2, NewTasks, ThreadNames, Moves DEF ServerInv
<1>4. /\ registered' \subseteq Users \ Marked
      /\ registered \subseteq registered'
      /\ registered' # registered => t.at = "bind" /\ registered' \subseteq registered \cup {t.user}
  BY <1>3 DEF AddDevice, ServerInv, TypeOK
<1>5. TypeOK'
  BY <1>1, <1>3, <1>4 DEF ServerInv, TypeOK, TM!IInv, TM!TransmissionsInv, presence, rest, sockets
<1>6. TasksAreNamed'
  BY <1>3 DEF ServerInv, TasksAreNamed
<1>7. LoggedOutIsGone'
  BY <1>1, <1>3 DEF ServerInv, LoggedOutIsGone, LoggingOut, LogoutSteps, Threads
<1>8. SessionsArePresented'
  BY <1>1 DEF ServerInv, SessionsArePresented, Presenting, sessions, presence
<1>9. ConnectedIsRegistered'
  BY <1>1, <1>4 DEF ServerInv, ConnectedIsRegistered
<1>10. LoginIsRegistered'
  BY <1>1, <1>3, ServerAssumption
  DEF ServerInv, LoginIsRegistered, ConnectedIsRegistered, LeavingIsRegistered, AddDevice,
      ServerAssumption, LoggingOut
<1>11. LeavingIsRegistered'
  BY <1>3, <1>4 DEF ServerInv, LeavingIsRegistered, LoggingOut
<1>12. ASSUME ~Reidentify PROVE BrowsersAreAwaited'
  BY <1>1, <1>3, <1>4, <1>12 DEF ServerInv, BrowsersAreAwaited, LoggingOut, rest
<1> QED
  BY <1>5, <1>6, <1>7, <1>8, <1>9, <1>10, <1>11, <1>12 DEF ServerInv

\* The loop goes to a task that needs neither a registration nor the presentation of a
\* session, from one that does not either: no record changes.
LEMMA RequestsStart ==
  ASSUME ServerInv, TM!IInv',
         \/ \E h \in Handles : PresenceRequest(h)
         \/ \E h \in Handles, t \in Users : JoinRequest(h, t)
  PROVE  ServerInv'
<1> DEFINE t == task'["loop"]
<1>1. /\ UNCHANGED <<sessions, presence, sockets, registered, rest>>
      /\ task["loop"].at = "idle"
      /\ Connected' = Connected
  BY SessionsStay, NewTasks DEF PresenceRequest, JoinRequest, Ready, sessions
<1>2. /\ task' \in [Threads -> Tasks] /\ task'["checker"] = task["checker"]
      /\ t.at \in {"watch", "join"}
      /\ t.at = "watch" => t.user \in Users
      /\ t.at = "join" => t.with \in Users
  <2>1. CASE \E h \in Handles : PresenceRequest(h)
    <3>1. PICK h \in Handles : /\ Goto("loop", Task("watch", h, wsUser[h]))
                               /\ wsUser[h] # NoUser
      BY <2>1 DEF PresenceRequest
    <3>2. wsUser[h] \in Users
      BY <3>1, PresentUsers DEF ServerInv
    <3> QED
      BY <3>1, <3>2, NewTasks, ThreadNames, Moves DEF ServerInv
  <2>2. CASE \E h \in Handles, w \in Users : JoinRequest(h, w)
    <3>1. PICK h \in Handles, w \in Users :
            Goto("loop", [Task("join", h, wsUser[h]) EXCEPT !.with = w])
      BY <2>2 DEF JoinRequest
    <3>2. wsUser[h] \in Users \cup {NoUser}
      BY PresentUsers DEF ServerInv
    <3> DEFINE j == [Task("join", h, wsUser[h]) EXCEPT !.with = w]
    <3>3. j \in Tasks /\ j.at = "join" /\ j.with \in Users
      BY <3>2, JoinTask
    <3> HIDE DEF j
    <3> QED
      BY <3>1, <3>3, ThreadNames, Moves DEF ServerInv, j
  <2> QED
    BY <2>1, <2>2
<1>3. TypeOK'
  BY <1>1, <1>2 DEF ServerInv, TypeOK, TM!IInv, TM!TransmissionsInv, presence, rest, sockets
<1>4. TasksAreNamed' /\ LoginIsRegistered'
  BY <1>2 DEF ServerInv, TasksAreNamed, LoginIsRegistered
<1>5. LoggedOutIsGone' /\ LeavingIsRegistered'
  BY <1>1, <1>2 DEF ServerInv, LoggedOutIsGone, LeavingIsRegistered, LoggingOut, LogoutSteps,
                    Threads
<1>6. SessionsArePresented'
  BY <1>1 DEF ServerInv, SessionsArePresented, Presenting, sessions, presence
<1>7. ConnectedIsRegistered'
  BY <1>1 DEF ServerInv, ConnectedIsRegistered
<1>8. ASSUME ~Reidentify PROVE BrowsersAreAwaited'
  BY <1>1, <1>2, <1>8 DEF ServerInv, BrowsersAreAwaited, LoggingOut, rest
<1> QED
  BY <1>3, <1>4, <1>5, <1>6, <1>7, <1>8 DEF ServerInv

\* The bind itself: the new session is presented by the steps that follow.
LEMMA LoginBinds ==
  ASSUME ServerInv, TM!IInv', LoginBindUser
  PROVE  ServerInv'
<1> DEFINE u == task["loop"].user
           h == task["loop"].hdl
           t == task'["loop"]
<1>1. /\ UNCHANGED <<presence, sockets, registered, cleanup, due, restarts>>
      /\ raced' \subseteq raced
      /\ task["loop"].at = "bind" /\ task["checker"].at = "idle"
      /\ u \in Users /\ h \in Handles
      /\ TM!BindUserToWsHandle(u, h) /\ Goto("loop", Task("host", h, u))
  BY NewTasks DEF LoginBindUser, At, LockFree, ServerInv, TasksAreNamed
<1>2. /\ wsUser' = [wsUser EXCEPT ![h] = u]
      /\ Connected' \subseteq Connected \cup {u}
      /\ ~Reidentify => Connected' = Connected \cup {u}
  BY <1>1, SessionBegins DEF ServerInv, TypeOK
<1>3. /\ task' \in [Threads -> Tasks] /\ task'["checker"] = task["checker"]
      /\ t.at = "host" /\ t.user = u /\ t.hdl = h
  BY <1>1, NewTasks, ThreadNames, Moves DEF ServerInv
<1>4. TypeOK'
  BY <1>1, <1>3 DEF ServerInv, TypeOK, TM!IInv, TM!TransmissionsInv, presence, sockets
<1>5. TasksAreNamed' /\ LoginIsRegistered'
  BY <1>1, <1>3 DEF ServerInv, TasksAreNamed, LoginIsRegistered
<1>6. LoggedOutIsGone' /\ LeavingIsRegistered'
  BY <1>1, <1>3 DEF LoggedOutIsGone, LeavingIsRegistered, LoggingOut, LogoutSteps, Threads
<1>7. SessionsArePresented'
  <2> SUFFICES ASSUME NEW k \in Handles, k # h, wsUser[k] # NoUser
               PROVE  wsUser'[k] = wsUser[k]
                      /\ wsUser[k] \in online \cup Clones
                      /\ wsUser[k] \in dbOnline /\ wsUser[k] \in network
    BY <1>1, <1>2, <1>3 DEF SessionsArePresented, Presenting, presence
  <2> QED
    BY <1>1, <1>2 DEF ServerInv, SessionsArePresented, Presenting, TypeOK, TM!TypeOK
<1>8. ConnectedIsRegistered'
  BY <1>1, <1>2 DEF ServerInv, ConnectedIsRegistered, LoginIsRegistered
<1>9. ASSUME ~Reidentify PROVE BrowsersAreAwaited'
  BY <1>1, <1>2, <1>3, <1>9
  DEF ServerInv, BrowsersAreAwaited, LoggingOut, LogoutSteps
<1> QED
  BY <1>4, <1>5, <1>6, <1>7, <1>8, <1>9 DEF ServerInv

\* The loop goes on within a handler, or ends it: whatever it was about to present is
\* presented, or is still to come.
LEMMA LoopMovesOn ==
  ASSUME ServerInv, TM!IInv',
         wsUser' = wsUser, UNCHANGED <<sockets, registered, rest>>,
         online \subseteq online', dbOnline \subseteq dbOnline', network \subseteq network',
         online' \subseteq Users \ Clones, dbOnline' \subseteq Users,
         network' \subseteq Users, watching' \subseteq Users,
         SessionsArePresented',
         task["loop"].at \notin {"bind", "webGone"},
         NEW t \in Tasks, Goto("loop", t),
         t.at \in {"idle", "whoami", "online", "dbOnline", "network"},
         t.at = "whoami" => t.hdl \in Handles,
         t.at \in {"online", "dbOnline", "network"} => t.user \in Users
  PROVE  ServerInv'
<1>1. Connected' = Connected
  BY SessionsStay
<1>2. task' \in [Threads -> Tasks] /\ task'["checker"] = task["checker"] /\ task'["loop"] = t
  BY ThreadNames, Moves DEF ServerInv
<1>3. TypeOK'
  BY <1>2 DEF ServerInv, TypeOK, TM!IInv, TM!TransmissionsInv, rest, sockets
<1>4. TasksAreNamed' /\ LoginIsRegistered'
  BY <1>2 DEF ServerInv, TasksAreNamed, LoginIsRegistered
<1>5. LoggedOutIsGone' /\ LeavingIsRegistered'
  BY <1>1, <1>2 DEF ServerInv, LoggedOutIsGone, LeavingIsRegistered, LoggingOut, LogoutSteps,
                    Threads
<1>6. ConnectedIsRegistered'
  BY <1>1 DEF ServerInv, ConnectedIsRegistered
<1>7. ASSUME ~Reidentify PROVE BrowsersAreAwaited'
  BY <1>1, <1>2, <1>7 DEF ServerInv, BrowsersAreAwaited, LoggingOut, rest
<1> QED
  BY <1>3, <1>4, <1>5, <1>6, <1>7 DEF ServerInv

LEMMA LoopStepsPreserve ==
  ASSUME ServerInv, TM!IInv', LoopStep
  PROVE  ServerInv'
<1> DEFINE me == task["loop"]
<1>1. /\ online \subseteq Users \ Clones /\ dbOnline \subseteq Users
      /\ watching \subseteq Users /\ network \subseteq Users
      /\ me.hdl \in Handles \cup {NoHandle} /\ me.user \in Users \cup {NoUser}
      /\ me.at \notin {"idle", "whoami", "join"} => me.user \in Users
      /\ me.at \in {"host", "whoami"} => me.hdl \in Handles
  BY OldTasks, ThreadNames DEF ServerInv, TypeOK, TasksAreNamed
<1>2. CASE LoginBindUser
  BY <1>2, LoginBinds
<1>3. CASE LoginBindHost
  <2>1. /\ me.at = "host" /\ Goto("loop", Task("whoami", me.hdl, NoUser))
        /\ wsUser' = wsUser /\ UNCHANGED <<presence, sockets, registered, rest>>
    BY <1>3 DEF LoginBindHost, At, TM!BindHostToTransmission
  <2>2. /\ Task("whoami", me.hdl, NoUser) \in Tasks
        /\ Task("whoami", me.hdl, NoUser).at = "whoami"
        /\ Task("whoami", me.hdl, NoUser).hdl = me.hdl
    BY <1>1, NewTasks
  <2>3. task'["loop"] = Task("whoami", me.hdl, NoUser)
    BY <2>1, <2>2, ThreadNames, Moves DEF ServerInv
  <2>4. SessionsArePresented'
    BY <2>1, <2>2, <2>3 DEF ServerInv, SessionsArePresented, Presenting, presence
  <2> QED
    BY <1>1, <2>1, <2>2, <2>4, LoopMovesOn DEF presence
<1>4. CASE LoginGetUserId
  <2> DEFINE t == IF wsUser[me.hdl] = NoUser THEN Idle ELSE Task("online", me.hdl, wsUser[me.hdl])
  <2>1. /\ me.at = "whoami" /\ me.hdl \in Handles /\ Goto("loop", t)
        /\ wsUser' = wsUser /\ UNCHANGED <<presence, sockets, registered, rest>>
    BY <1>1, <1>4 DEF LoginGetUserId, At, sessions
  <2>2. wsUser[me.hdl] \in Users \cup {NoUser}
    BY <2>1, PresentUsers DEF ServerInv
  <2>3. /\ t \in Tasks
        /\ wsUser[me.hdl] = NoUser => t.at = "idle"
        /\ wsUser[me.hdl] # NoUser => t.at = "online" /\ t.user = wsUser[me.hdl]
    BY <1>1, <2>2, NewTasks
  <2> HIDE DEF t
  <2>4. task'["loop"] = t
    BY <2>1, <2>3, ThreadNames, Moves DEF ServerInv
  <2>5. SessionsArePresented'
    BY <2>1, <2>3, <2>4 DEF ServerInv, SessionsArePresented, Presenting, presence
  <2>6. t.at \in {"idle", "online"} /\ (t.at = "online" => t.user \in Users)
    BY <2>2, <2>3
  <2> QED
    BY <1>1, <2>1, <2>3, <2>5, <2>6, LoopMovesOn DEF presence
<1>5. CASE OnLoginMark
  <2> DEFINE t == Task("dbOnline", me.hdl, me.user)
  <2>1. /\ me.at = "online" /\ Goto("loop", t)
        /\ online' = online \cup ({me.user} \ Clones)
        /\ wsUser' = wsUser
        /\ UNCHANGED <<dbOnline, watching, network, sockets, registered, rest>>
    BY <1>5 DEF OnLoginMark, At, sessions
  <2>2. t \in Tasks /\ t.at = "dbOnline" /\ t.user = me.user /\ me.user \in Users
    BY <1>1, <2>1, NewTasks
  <2> HIDE DEF t
  <2>3. task'["loop"] = t
    BY <2>1, <2>2, ThreadNames, Moves DEF ServerInv
  <2>4. SessionsArePresented'
    BY <2>1, <2>2, <2>3 DEF ServerInv, SessionsArePresented, Presenting
  <2> QED
    BY <1>1, <2>1, <2>2, <2>4, LoopMovesOn
<1>6. CASE OnLoginStore
  <2> DEFINE t == Task("network", me.hdl, me.user)
  <2>1. /\ me.at = "dbOnline" /\ Goto("loop", t)
        /\ dbOnline' = dbOnline \cup {me.user}
        /\ wsUser' = wsUser
        /\ UNCHANGED <<online, watching, network, sockets, registered, rest>>
    BY <1>6 DEF OnLoginStore, At, sessions
  <2>2. t \in Tasks /\ t.at = "network" /\ t.user = me.user /\ me.user \in Users
    BY <1>1, <2>1, NewTasks
  <2> HIDE DEF t
  <2>3. task'["loop"] = t
    BY <2>1, <2>2, ThreadNames, Moves DEF ServerInv
  <2>4. SessionsArePresented'
    BY <2>1, <2>2, <2>3 DEF ServerInv, SessionsArePresented, Presenting
  <2> QED
    BY <1>1, <2>1, <2>2, <2>4, LoopMovesOn
<1>7. CASE EnqueueClientNetworkInfo
  <2>1. /\ me.at = "network" /\ Goto("loop", Idle)
        /\ network' = network \cup {me.user}
        /\ wsUser' = wsUser
        /\ UNCHANGED <<online, dbOnline, watching, sockets, registered, rest>>
    BY <1>7 DEF EnqueueClientNetworkInfo, At, sessions
  <2>2. Idle \in Tasks /\ Idle.at = "idle" /\ me.user \in Users
    BY <1>1, <2>1, NewTasks
  <2>3. SessionsArePresented'
    BY <2>1 DEF ServerInv, SessionsArePresented, Presenting
  <2> QED
    BY <1>1, <2>1, <2>2, <2>3, LoopMovesOn
<1>8. CASE UpdateUserDevices \/ JoinBindGuest
  <2>1. /\ me.at \in {"watch", "join"} /\ Goto("loop", Idle)
        /\ watching' = watching \/ (me.at = "watch" /\ watching' = watching \cup {me.user})
        /\ wsUser' = wsUser
        /\ UNCHANGED <<online, dbOnline, network, sockets, registered, rest>>
    BY <1>8
    DEF UpdateUserDevices, JoinBindGuest, At, sessions, presence, TM!BindGuestToTransmission,
        TM!vars
  <2>2. Idle \in Tasks /\ Idle.at = "idle" /\ watching' \subseteq Users
    BY <1>1, <2>1, NewTasks
  <2>3. SessionsArePresented'
    BY <2>1 DEF ServerInv, SessionsArePresented, Presenting
  <2> QED
    BY <1>1, <2>1, <2>2, <2>3, LoopMovesOn
<1> QED
  BY <1>2, <1>3, <1>4, <1>5, <1>6, <1>7, <1>8 DEF LoopStep

\* A connection ends.  If it was the last one of its device, the loop logs the device out.
LEMMA ClosePreserves ==
  ASSUME ServerInv, TM!IInv', NEW h \in Handles, OnClose(h)
  PROVE  ServerInv'
<1> DEFINE u == TM!LoggedOutBy(h)
           t == task'["loop"]
<1>1. /\ UNCHANGED <<presence, registered, rest>>
      /\ task["loop"].at = "idle" /\ task["checker"].at = "idle"
      /\ TM!ReleaseUserSession(h)
      /\ Goto("loop", IF u = NoUser THEN Idle ELSE Task("webGone", h, u))
      /\ conn' \subseteq Handles /\ closing' \subseteq conn'
  BY NewTasks DEF OnClose, Ready, LockFree, ServerInv, TypeOK
<1>2. /\ wsUser' = [wsUser EXCEPT ![h] = NoUser]
      /\ u = NoUser \/ u \in Connected
      /\ u \in Users \cup {NoUser}
      /\ Connected' = Connected \ {u}
  BY <1>1, SessionEnds DEF ServerInv, TypeOK
<1> HIDE DEF u
<1>3. /\ task' \in [Threads -> Tasks] /\ task'["checker"] = task["checker"]
      /\ u = NoUser => t.at = "idle"
      /\ u # NoUser => t.at = "webGone" /\ t.user = u
  BY <1>1, <1>2, NewTasks, ThreadNames, Moves DEF ServerInv
<1>4. TypeOK'
  BY <1>1, <1>3 DEF ServerInv, TypeOK, TM!IInv, TM!TransmissionsInv, presence, rest
<1>5. TasksAreNamed' /\ LoginIsRegistered'
  BY <1>2, <1>3 DEF ServerInv, TasksAreNamed, LoginIsRegistered
<1>6. LoggedOutIsGone' /\ LeavingIsRegistered'
  BY <1>1, <1>2, <1>3 DEF LoggedOutIsGone, LeavingIsRegistered, LoggingOut, LogoutSteps, Threads
<1>7. SessionsArePresented'
  BY <1>1, <1>2 DEF ServerInv, SessionsArePresented, Presenting, presence, TypeOK, TM!TypeOK
<1>8. ConnectedIsRegistered'
  BY <1>1, <1>2 DEF ServerInv, ConnectedIsRegistered
<1>9. ASSUME ~Reidentify PROVE BrowsersAreAwaited'
  BY <1>1, <1>2, <1>3, <1>9, ServerAssumption
  DEF ServerInv, BrowsersAreAwaited, LoggingOut, LogoutSteps, rest, ServerAssumption
<1> QED
  BY <1>4, <1>5, <1>6, <1>7, <1>8, <1>9 DEF ServerInv

\* A thread goes on with what it does, for the same device.
LEMMA Advances ==
  ASSUME TypeOK, NEW th \in Threads,
         NEW at \in {"unwatch", "close", "offline", "dbOffline", "forget", "webGone"},
         Goto(th, [task[th] EXCEPT !.at = at])
  PROVE  /\ task' \in [Threads -> Tasks]
         /\ task'[th].at = at /\ task'[th].user = task[th].user
         /\ \A o \in Threads : o # th => task'[o] = task[o]
<1> DEFINE t == [task[th] EXCEPT !.at = at]
<1>1. t \in Tasks /\ t.at = at /\ t.user = task[th].user
  BY OldTasks, NextSteps
<1>2. Goto(th, t)
  OBVIOUS
<1> HIDE DEF t
<1> QED
  BY <1>1, <1>2, Moves

\* The order of a logout: the loop removes a browser's registration first and then erases
\* what is kept of it, the checker removes the registration last and closes the connection.
LEMMA LogoutMoves ==
  ASSUME TypeOK, NEW th \in Threads, LogoutStep(th)
  PROVE  LET me == task[th]
             t  == task'[th]
         IN  /\ task' \in [Threads -> Tasks]
             /\ \A o \in Threads : o # th => task'[o] = task[o]
             /\ me.at \in LogoutSteps
             /\ \/ th = "loop" /\ t.at = "idle"
                \/ t.at \in {"unwatch", "offline", "dbOffline", "forget"} /\ t.user = me.user
                \/ th = "checker" /\ t.at = "close"
                \/ th = "checker" /\ t.at = "webGone" /\ t.user = me.user
             /\ me.at = "webGone" <=> t.at = "close" \/ (t.at = "unwatch" /\ th = "loop")
<1>1. CASE OnWebClientDisconnect(th)
  <2>1. CASE th = "loop"
    <3>1. task[th].at = "webGone" /\ Goto(th, [task[th] EXCEPT !.at = "unwatch"])
      BY <1>1, <2>1 DEF OnWebClientDisconnect, At
    <3> QED
      BY <2>1, <3>1, Advances DEF LogoutSteps
  <2>2. CASE th = "checker"
    <3>1. task[th].at = "webGone" /\ Goto(th, [task[th] EXCEPT !.at = "close"])
      BY <1>1, <2>2 DEF OnWebClientDisconnect, At
    <3> QED
      BY <2>2, <3>1, Advances DEF LogoutSteps
  <2> QED
    BY <2>1, <2>2 DEF Threads
<1>2. CASE OnLogoutUnwatch(th)
  <2>1. task[th].at = "unwatch" /\ Goto(th, [task[th] EXCEPT !.at = "offline"])
    BY <1>2 DEF OnLogoutUnwatch, At
  <2> QED
    BY <2>1, Advances DEF LogoutSteps
<1>3. CASE OnLogoutMark(th)
  <2>1. task[th].at = "offline" /\ Goto(th, [task[th] EXCEPT !.at = "dbOffline"])
    BY <1>3 DEF OnLogoutMark, At
  <2> QED
    BY <2>1, Advances DEF LogoutSteps
<1>4. CASE OnLogoutStore(th)
  <2>1. task[th].at = "dbOffline" /\ Goto(th, [task[th] EXCEPT !.at = "forget"])
    BY <1>4 DEF OnLogoutStore, At
  <2> QED
    BY <2>1, Advances DEF LogoutSteps
<1>5. CASE OnLogoutForget(th)
  <2>1. CASE th = "loop"
    <3>1. task[th].at = "forget" /\ Goto(th, Idle)
      BY <1>5, <2>1 DEF OnLogoutForget, At
    <3> QED
      BY <2>1, <3>1, NewTasks, Moves DEF LogoutSteps
  <2>2. CASE th = "checker"
    <3>1. task[th].at = "forget" /\ Goto(th, [task[th] EXCEPT !.at = "webGone"])
      BY <1>5, <2>2 DEF OnLogoutForget, At
    <3> QED
      BY <2>2, <3>1, Advances DEF LogoutSteps
  <2> QED
    BY <2>1, <2>2 DEF Threads
<1> QED
  BY <1>1, <1>2, <1>3, <1>4, <1>5 DEF LogoutStep

\* A logout erases what is kept of a device that has no connection: this takes nothing from
\* the sessions, and only the browser's own registration from the table.
LEMMA LogoutStepsPreserve ==
  ASSUME ServerInv, TM!IInv', NEW th \in Threads, LogoutStep(th)
  PROVE  ServerInv'
<1> DEFINE me == task[th]
           u == task[th].user
           t == task'[th]
<1>1. /\ UNCHANGED <<sessions, sockets, rest>> /\ Connected' = Connected
      /\ me.at \in LogoutSteps
      /\ online \ {u} \subseteq online' /\ online' \subseteq online
      /\ dbOnline \ {u} \subseteq dbOnline' /\ dbOnline' \subseteq dbOnline
      /\ network \ {u} \subseteq network' /\ network' \subseteq network
      /\ watching' \subseteq watching
  BY SessionsStay
  DEF LogoutStep, OnWebClientDisconnect, OnLogoutUnwatch, OnLogoutMark, OnLogoutStore,
      OnLogoutForget, At, LogoutSteps, sessions, presence
<1>2. /\ me.at = "webGone" => registered' = registered \ ({u} \cap Webs)
      /\ me.at # "webGone" => registered' = registered
  BY DEF LogoutStep, OnWebClientDisconnect, OnLogoutUnwatch, OnLogoutMark, OnLogoutStore,
         OnLogoutForget, At, RemoveDevice
<1>5. /\ task' \in [Threads -> Tasks]
      /\ \A o \in Threads : o # th => task'[o] = task[o]
      /\ \/ th = "loop" /\ t.at = "idle"
         \/ t.at \in {"unwatch", "offline", "dbOffline", "forget"} /\ t.user = u
         \/ th = "checker" /\ t.at = "close"
         \/ th = "checker" /\ t.at = "webGone" /\ t.user = u
      /\ me.at = "webGone" <=> t.at = "close" \/ (t.at = "unwatch" /\ th = "loop")
  BY LogoutMoves DEF ServerInv
<1>6. u \in Users /\ u \notin Connected
  BY <1>1, ThreadNames
  DEF ServerInv, TasksAreNamed, LoggedOutIsGone, LoggingOut, LogoutSteps, Threads
<1>7. TypeOK'
  BY <1>1, <1>2, <1>5 DEF ServerInv, TypeOK, TM!IInv, TM!TransmissionsInv, rest, sockets
<1>8. TasksAreNamed'
  BY <1>5, <1>6, ThreadNames DEF ServerInv, TasksAreNamed, LogoutSteps, Threads
<1>9. LoggedOutIsGone'
  BY <1>1, <1>5, <1>6 DEF ServerInv, LoggedOutIsGone, LoggingOut, LogoutSteps
<1>10. SessionsArePresented'
  <2>1. /\ task["loop"].at \in {"host", "whoami", "online", "dbOnline", "network"}
           => task'["loop"] = task["loop"]
    BY <1>1, <1>5, ThreadNames DEF LogoutSteps
  <2>2. \A h \in Handles : wsUser[h] # NoUser => wsUser[h] # u
    BY <1>6, PresentUsers DEF ServerInv
  <2> QED
    BY <1>1, <2>1, <2>2 DEF ServerInv, SessionsArePresented, Presenting, sessions
<1>11. ConnectedIsRegistered'
  BY <1>1, <1>2, <1>6 DEF ServerInv, ConnectedIsRegistered
<1>12. LoginIsRegistered'
  <2> SUFFICES ASSUME task'["loop"].at = "bind" PROVE LoginIsRegistered'
    BY DEF LoginIsRegistered
  <2>1. th = "checker" /\ task'["loop"] = task["loop"]
    BY <1>5, ThreadNames DEF Threads
  <2>2. u \in LoggingOut("checker") /\ LoggingOut("checker")' \subseteq {u}
    BY <1>1, <1>5, <2>1 DEF LoggingOut, LogoutSteps
  <2> QED
    BY <1>1, <1>2, <2>1, <2>2 DEF ServerInv, LoginIsRegistered
<1>13. LeavingIsRegistered'
  <2>1. CASE th = "loop"
    <3>1. u \notin LoggingOut("checker") \/ me.at # "webGone"
      BY <2>1 DEF ServerInv, LeavingIsRegistered
    <3>2. task'["checker"] = task["checker"] /\ task'["loop"].at # "webGone"
      BY <1>5, <2>1, ThreadNames
    <3> QED
      BY <1>2, <3>1, <3>2 DEF ServerInv, LeavingIsRegistered, LoggingOut
  <2>2. CASE th = "checker"
    <3>1. task'["loop"] = task["loop"] /\ LoggingOut("checker") = {u}
      BY <1>1, <1>5, <2>2, ThreadNames DEF LoggingOut
    <3>2. CASE me.at = "webGone"
      <4>2. t.at = "close"
        BY <1>5, <2>2, <3>2
      <4>3. LoggingOut("checker")' = {}
        BY <2>2, <4>2 DEF LoggingOut, LogoutSteps
      <4> QED
        BY <4>3 DEF LeavingIsRegistered
    <3>3. CASE me.at # "webGone"
      BY <1>2, <1>5, <2>2, <3>1, <3>3 DEF ServerInv, LeavingIsRegistered, LoggingOut
    <3> QED
      BY <3>2, <3>3
  <2> QED
    BY <2>1, <2>2 DEF Threads
<1>14. ASSUME ~Reidentify PROVE BrowsersAreAwaited'
  <2> SUFFICES ASSUME restarts = 0, NEW w \in Webs, w \in registered'
               PROVE  \/ w \in Connected \cup LoggingOut("checker")'
                      \/ task'["loop"].at \in {"bind", "webGone"} /\ task'["loop"].user = w
    BY <1>1 DEF BrowsersAreAwaited, rest
  <2>1. w \in registered /\ (me.at = "webGone" => w # u)
    BY <1>2
  <2>2. \/ w \in Connected \cup LoggingOut("checker")
        \/ task["loop"].at \in {"bind", "webGone"} /\ task["loop"].user = w
    BY <1>14, <2>1 DEF ServerInv, BrowsersAreAwaited
  <2>3. CASE th = "loop"
    <3>1. task'["checker"] = task["checker"]
      BY <1>5, <2>3, ThreadNames
    <3>2. task["loop"].at \in {"bind", "webGone"} => task["loop"].user # w
      BY <1>1, <2>1, <2>3 DEF LogoutSteps
    <3> QED
      BY <2>2, <3>1, <3>2 DEF LoggingOut
  <2>4. CASE th = "checker"
    <3>1. task'["loop"] = task["loop"]
      BY <1>5, <2>4, ThreadNames
    <3>2. w \in LoggingOut("checker") => w = u /\ me.at # "webGone"
      BY <2>1, <2>4 DEF LoggingOut
    <3>3. me.at # "webGone" => t.at \in LogoutSteps /\ t.user = u
      BY <1>1, <1>5, <2>4 DEF LogoutSteps
    <3> QED
      BY <2>2, <2>4, <3>1, <3>2, <3>3 DEF LoggingOut
  <2> QED
    BY <2>3, <2>4 DEF Threads
<1> QED
  BY <1>7, <1>8, <1>9, <1>10, <1>11, <1>12, <1>13, <1>14 DEF ServerInv

\* The checker ends sessions: those it ends for good leave a device that it logs out.
LEMMA SweepStepsPreserve ==
  ASSUME ServerInv, TM!IInv',
         SweepBegin \/ SweepClose \/ \E h \in Handles : SweepExpire(h)
  PROVE  ServerInv'
<1> DEFINE t == task'["checker"]
<1>1. CASE SweepBegin \/ SweepClose
  <2>1. /\ UNCHANGED <<sessions, presence, conn, registered, cleanup, restarts, raced>>
        /\ closing' \subseteq conn' /\ due' \subseteq Handles
        /\ task["checker"].at \in {"idle", "close"}
        /\ Goto("checker", Idle) \/ Goto("checker", Task("sweep", NoHandle, NoUser))
    BY <1>1 DEF SweepBegin, SweepClose, LockFree, At, ServerInv, TypeOK, sockets
  <2>2. /\ task' \in [Threads -> Tasks] /\ task'["loop"] = task["loop"]
        /\ t.at \in {"idle", "sweep"}
    <3>1. CASE Goto("checker", Idle)
      BY <3>1, NewTasks, ThreadNames, Moves DEF ServerInv
    <3>2. CASE Goto("checker", Task("sweep", NoHandle, NoUser))
      BY <3>2, NewTasks, ThreadNames, Moves DEF ServerInv
    <3> QED
      BY <2>1, <3>1, <3>2
  <2>3. Connected' = Connected
    BY <2>1, SessionsStay DEF sessions
  <2>4. TypeOK'
    BY <2>1, <2>2 DEF ServerInv, TypeOK, TM!IInv, TM!TransmissionsInv, presence
  <2>5. TasksAreNamed'
    BY <2>2 DEF ServerInv, TasksAreNamed, LogoutSteps
  <2>6. LoggingOut("checker") = {} /\ LoggingOut("checker")' = {}
        /\ LoggingOut("loop")' = LoggingOut("loop")
    BY <2>1, <2>2 DEF LoggingOut, LogoutSteps
  <2>7. LoggedOutIsGone' /\ LoginIsRegistered' /\ LeavingIsRegistered'
    BY <2>1, <2>2, <2>3, <2>6
    DEF ServerInv, LoggedOutIsGone, LoginIsRegistered, LeavingIsRegistered, Threads
  <2>8. SessionsArePresented'
    BY <2>1, <2>2 DEF ServerInv, SessionsArePresented, Presenting, sessions, presence
  <2>9. ConnectedIsRegistered'
    BY <2>1, <2>3 DEF ServerInv, ConnectedIsRegistered
  <2>10. ASSUME ~Reidentify PROVE BrowsersAreAwaited'
    BY <2>1, <2>2, <2>3, <2>6, <2>10 DEF ServerInv, BrowsersAreAwaited
  <2> QED
    BY <2>4, <2>5, <2>7, <2>8, <2>9, <2>10 DEF ServerInv
<1>2. ASSUME NEW h \in Handles, SweepExpire(h) PROVE ServerInv'
  <2> DEFINE u == TM!LoggedOutBy(h)
  <2>1. /\ UNCHANGED <<presence, sockets, registered, cleanup, due, restarts>>
        /\ task["checker"].at = "sweep"
        /\ TM!ReleaseUserSession(h)
        /\ Goto("checker", Task(IF u = NoUser THEN "close" ELSE "unwatch", h, u))
    BY <1>2 DEF SweepExpire, At, TM!ExpireInactiveSession
  <2>2. /\ wsUser' = [wsUser EXCEPT ![h] = NoUser]
        /\ u = NoUser \/ u \in Connected
        /\ u \in Users \cup {NoUser}
        /\ Connected' = Connected \ {u}
    BY <2>1, SessionEnds DEF ServerInv, TypeOK
  <2> HIDE DEF u
  <2>3. /\ task' \in [Threads -> Tasks] /\ task'["loop"] = task["loop"]
        /\ u = NoUser => t.at = "close"
        /\ u # NoUser => t.at = "unwatch" /\ t.user = u
    <3>1. CASE u = NoUser
      <4>1. Goto("checker", Task("close", h, u))
        BY <2>1, <3>1
      <4> QED
        BY <2>2, <3>1, <4>1, NewTasks, ThreadNames, Moves DEF ServerInv
    <3>2. CASE u # NoUser
      <4>1. Goto("checker", Task("unwatch", h, u))
        BY <2>1, <3>2
      <4> QED
        BY <2>2, <3>2, <4>1, NewTasks, ThreadNames, Moves DEF ServerInv
    <3> QED
      BY <3>1, <3>2
  <2>4. TypeOK'
    <3>1. raced' \subseteq Races
      <4>1. task["loop"].at \in Steps
        BY OldTasks, ThreadNames DEF ServerInv, Tasks
      <4> QED
        BY <1>2, <4>1 DEF SweepExpire, ServerInv, TypeOK, Races
    <3> QED
      BY <2>1, <2>3, <3>1 DEF ServerInv, TypeOK, TM!IInv, TM!TransmissionsInv, presence, sockets
  <2>5. TasksAreNamed'
    BY <2>2, <2>3 DEF ServerInv, TasksAreNamed, LogoutSteps
  <2>6. /\ LoggingOut("checker") = {}
        /\ LoggingOut("checker")' = IF u = NoUser THEN {} ELSE {u}
        /\ LoggingOut("loop")' = LoggingOut("loop")
    BY <2>1, <2>3 DEF LoggingOut, LogoutSteps
  <2>7. LoggedOutIsGone'
    BY <2>2, <2>6 DEF ServerInv, LoggedOutIsGone, Threads
  <2>8. SessionsArePresented'
    BY <2>1, <2>2, <2>3
    DEF ServerInv, SessionsArePresented, Presenting, presence, TypeOK, TM!TypeOK
  <2>9. ConnectedIsRegistered'
    BY <2>1, <2>2 DEF ServerInv, ConnectedIsRegistered
  <2>10. LoginIsRegistered'
    BY <2>1, <2>2, <2>3, <2>6 DEF ServerInv, LoginIsRegistered
  <2>11. LeavingIsRegistered'
    <3>1. LoggingOut("checker")' \cap Webs \subseteq registered' \cup Marked
      BY <2>1, <2>2, <2>6, ServerAssumption DEF ServerInv, ConnectedIsRegistered, ServerAssumption
    <3>2. ASSUME task["loop"].at = "webGone" PROVE task["loop"].user \notin LoggingOut("checker")'
      <4>1. task["loop"].user \notin Connected
        BY <3>2, ThreadNames DEF ServerInv, LoggedOutIsGone, LoggingOut, LogoutSteps
      <4> QED
        BY <2>2, <2>6, <4>1
    <3> QED
      BY <2>3, <3>1, <3>2 DEF LeavingIsRegistered
  <2>12. ASSUME ~Reidentify PROVE BrowsersAreAwaited'
    BY <2>1, <2>2, <2>3, <2>6, <2>12, ServerAssumption
    DEF ServerInv, BrowsersAreAwaited, ServerAssumption
  <2> QED
    BY <2>4, <2>5, <2>7, <2>8, <2>9, <2>10, <2>11, <2>12 DEF ServerInv
<1> QED
  BY <1>1, <1>2

\* After a restart nobody is connected, and nobody does anything.
LEMMA RestartServerPreserves ==
  ASSUME ServerInv, TM!IInv', NEW recovered \in BOOLEAN, Restart(recovered)
  PROVE  ServerInv'
<1>1. /\ wsUser' = [h \in Handles |-> NoUser]
      /\ task' = [th \in Threads |-> Idle]
      /\ restarts' = restarts + 1 /\ restarts < MaxRestarts
      /\ registered' = registered
      /\ restarts \in 0..MaxRestarts /\ MaxRestarts \in Nat
  BY ServerAssumption DEF Restart, TM!Restart, ServerInv, TypeOK, ServerAssumption
<1>2. task' \in [Threads -> Tasks]
  BY <1>1, NewTasks
<1>3. restarts' \in 0..MaxRestarts /\ restarts' # 0
  BY <1>1
<1>4. TypeOK'
  BY <1>1, <1>2, <1>3 DEF Restart, ServerInv, TypeOK, TM!IInv, TM!TransmissionsInv
<1>5. Connected' = {}
  BY <1>1, ServerAssumption DEF ServerAssumption, Connected, TM!HasUserConnection
<1>6. task'["loop"].at = "idle" /\ task'["checker"].at = "idle"
  BY <1>1, ThreadNames DEF Idle
<1>7. (LoggedOutIsGone /\ ConnectedIsRegistered)'
  BY <1>5 DEF LoggedOutIsGone, ConnectedIsRegistered
<1>8. (TasksAreNamed /\ LoginIsRegistered /\ LeavingIsRegistered)'
  BY <1>6 DEF TasksAreNamed, LoginIsRegistered, LeavingIsRegistered, LoggingOut, LogoutSteps
<1>9. SessionsArePresented' /\ BrowsersAreAwaited'
  BY <1>1, <1>3 DEF SessionsArePresented, BrowsersAreAwaited
<1> QED
  BY <1>4, <1>7, <1>8, <1>9 DEF ServerInv

LEMMA ServerInit == Init => ServerInv
<1> SUFFICES ASSUME Init PROVE ServerInv
  OBVIOUS
<1>1. TM!IInv
  BY ManagerInit DEF Init
<1>2. \A h \in Handles : wsUser[h] = NoUser
  BY DEF Init, TM!Init
<1>3. Connected = {}
  BY <1>2, ServerAssumption DEF ServerAssumption, Connected, TM!HasUserConnection
<1>4. task["loop"].at = "idle" /\ task["checker"].at = "idle"
  BY ThreadNames DEF Init, Idle
<1>5. task \in [Threads -> Tasks]
  BY NewTasks DEF Init
<1>6. TypeOK
  BY <1>1, <1>5, ServerAssumption DEF ServerAssumption, Init, TypeOK, TM!IInv, TM!TransmissionsInv
<1>7. LoggedOutIsGone
  BY <1>3 DEF LoggedOutIsGone
<1>8. TasksAreNamed /\ LoginIsRegistered /\ LeavingIsRegistered
  BY <1>4 DEF TasksAreNamed, LoginIsRegistered, LeavingIsRegistered, LoggingOut, LogoutSteps
<1>9. SessionsArePresented
  BY <1>2 DEF SessionsArePresented
<1>10. ConnectedIsRegistered /\ BrowsersAreAwaited
  BY <1>3 DEF ConnectedIsRegistered, BrowsersAreAwaited, Init
<1> QED
  BY <1>1, <1>6, <1>7, <1>8, <1>9, <1>10 DEF ServerInv

LEMMA ServerStep == ServerInv /\ [Next]_vars => ServerInv'
<1> SUFFICES ASSUME ServerInv, [Next]_vars PROVE ServerInv'
  OBVIOUS
<1>1. TM!IInv'
  BY ManagerIsUsed, ManagerStep DEF ServerInv
<1>2. CASE UNCHANGED vars
  <2>1. TypeOK'
    BY <1>1, <1>2 DEF ServerInv, TypeOK, TM!IInv, TM!TransmissionsInv, vars, presence, sockets, rest
  <2> QED
    BY <1>1, <1>2, <2>1, StillPreserves DEF vars, sessions, rest
<1>3. ASSUME NEW h \in Handles, login_user(h) PROVE ServerInv'
  BY <1>1, <1>3, LoginStarts
<1>4. ASSUME NEW h \in Handles, OnClose(h) PROVE ServerInv'
  BY <1>1, <1>4, ClosePreserves
<1>5. ASSUME NEW th \in Threads, LogoutStep(th) PROVE ServerInv'
  BY <1>1, <1>5, LogoutStepsPreserve
<1>6. ASSUME NEW recovered \in BOOLEAN, Restart(recovered) PROVE ServerInv'
  BY <1>1, <1>6, RestartServerPreserves
<1>7. CASE LoopStep
  BY <1>1, <1>7, LoopStepsPreserve
<1>8. CASE SweepBegin \/ SweepClose \/ \E h \in Handles : SweepExpire(h)
  BY <1>1, <1>8, SweepStepsPreserve
<1>9. CASE \/ \E h \in Handles : PresenceRequest(h)
           \/ \E h \in Handles, t \in Users : JoinRequest(h, t)
  BY <1>1, <1>9, RequestsStart
<1>10. CASE \/ \E h \in Handles : OnOpen(h)
            \/ \E h \in Handles : OnPing(h)
            \/ \E u \in Users \cup {NoUser}, t \in Users : leave_transmission(u, t)
            \/ \E t \in Users : HandleDisconnect(t)
            \/ RecoveredSessionCleanup
            \/ \E h \in Handles : BecomeIdle(h)
  BY <1>1, <1>10, ShortHandlersPreserve
<1> QED
  BY <1>2, <1>3, <1>4, <1>5, <1>6, <1>7, <1>8, <1>9, <1>10, ThreadNames DEF Next, CheckerStep

-----------------------------------------------------------------------------
(* What holds of every server.                                             *)

LEMMA ServerInvariance == Spec => []ServerInv
  BY ServerInit, ServerStep, PTL DEF Spec

\* The composed server, with its two threads and their interleavings, calls the manager
\* as its module says: each step is one operation of the manager, or leaves it alone.
THEOREM ServerUsesManager == Spec => UsesTransmissionManager
<1>1. Init => TM!Init
  BY DEF Init
<1>2. ServerInv /\ [Next]_vars => [TM!Next]_TM!vars
  BY ManagerIsUsed DEF ServerInv
<1> QED
  BY <1>1, <1>2, ServerInvariance, PTL DEF Spec, UsesTransmissionManager, TM!Spec

\* Whatever a sweep does while another connection logs in or out, no connected device or
\* browser is left without its row in the table devices.
THEOREM ConnectedStayRegistered == Spec => []RegistrationsInv
<1>1. ServerInv => RegistrationsInv
  BY DEF ServerInv, RegistrationsInv
<1> QED
  BY <1>1, ServerInvariance, PTL

\* Between handlers every connected device is shown online, in memory and in the database,
\* and has an address entry: a sweep that overlaps its login takes none of this away.
THEOREM ConnectedArePresented == Spec => []ConnectedIsPresented
<1>1. ASSUME ServerInv PROVE ConnectedIsPresented
  <2> SUFFICES ASSUME Quiet, NEW h \in Handles, wsUser[h] \in Users
               PROVE  wsUser[h] \in dbOnline \cap network \cap (online \cup Clones)
    BY DEF ConnectedIsPresented, Connected, TM!HasUserConnection
  <2>1. task["loop"].at = "idle"
    BY ThreadNames, NewTasks DEF Quiet
  <2>2. wsUser[h] # NoUser
    BY ServerAssumption DEF ServerAssumption
  <2> QED
    BY <1>1, <2>1, <2>2 DEF ServerInv, SessionsArePresented, Presenting
<1> QED
  BY <1>1, ServerInvariance, PTL

\* As long as connections keep their identity and the process lives, a browser's row goes
\* when its last connection does, whichever of the two threads ends that connection.
THEOREM BrowsersAreRemoved ==
  ASSUME ~Reidentify
  PROVE  Spec => []WebRegistrationsEnd
<1>1. ASSUME ServerInv PROVE WebRegistrationsEnd
  <2> SUFFICES ASSUME Quiet, restarts = 0, NEW u \in Webs \cap registered
               PROVE  u \in Connected
    BY DEF WebRegistrationsEnd
  <2>1. task["loop"].at = "idle" /\ task["checker"].at = "idle"
    BY ThreadNames, NewTasks DEF Quiet
  <2> QED
    BY <1>1, <2>1 DEF ServerInv, BrowsersAreAwaited, LoggingOut, LogoutSteps
<1> QED
  BY <1>1, ServerInvariance, PTL

-----------------------------------------------------------------------------
(* What a session leaves behind, whichever thread ends it.                 *)

LEMMA LoopMoves ==
  ASSUME ServerInv, LoopStep
  PROVE  LET me == task["loop"]
             t  == task'["loop"]
         IN  /\ task'["checker"] = task["checker"]
             /\ me.at \in {"bind", "host", "whoami", "online", "dbOnline", "network",
                           "watch", "join"}
             /\ t.at \in {"idle", "host", "whoami", "online", "dbOnline", "network"}
             /\ t.at = "host" =>
                  LoginBindUser /\ me.at = "bind" /\ t.user = me.user /\ t.hdl = me.hdl
             /\ t.at = "online" =>
                  me.at = "whoami" /\ t.user = wsUser[me.hdl] /\ wsUser[me.hdl] # NoUser
             /\ t.at = "dbOnline" => me.at = "online" /\ t.user = me.user
             /\ t.at = "network" => me.at = "dbOnline" /\ t.user = me.user
<1> DEFINE me == task["loop"]
<1>1. /\ me.hdl \in Handles \cup {NoHandle} /\ me.user \in Users \cup {NoUser}
      /\ me.at = "whoami" => wsUser[me.hdl] \in Users \cup {NoUser}
  BY OldTasks, ThreadNames, PresentUsers DEF ServerInv, TasksAreNamed
<1>2. CASE LoginBindUser
  <2>1. me.at = "bind" /\ Goto("loop", Task("host", me.hdl, me.user))
    BY <1>2 DEF LoginBindUser, At
  <2> DEFINE n == Task("host", me.hdl, me.user)
  <2>2. n \in Tasks /\ n.at = "host" /\ n.user = me.user /\ n.hdl = me.hdl
    <3>1. me.hdl \in Handles \cup {NoHandle} /\ me.user \in Users \cup {NoUser}
      BY <1>1
    <3> HIDE DEF me
    <3> QED
      BY <3>1, NewTasks
  <2> HIDE DEF n
  <2>3. task'["loop"] = n /\ task'["checker"] = task["checker"]
    BY <2>1, <2>2, ThreadNames, Moves DEF ServerInv, n
  <2> QED
    BY <1>2, <2>1, <2>2, <2>3
<1>3. CASE LoginBindHost
  <2>1. me.at = "host" /\ Goto("loop", Task("whoami", me.hdl, NoUser))
    BY <1>3 DEF LoginBindHost, At
  <2> QED
    BY <1>1, <2>1, NewTasks, ThreadNames, Moves DEF ServerInv
<1>4. CASE LoginGetUserId
  <2>1. /\ me.at = "whoami"
        /\ Goto("loop", IF wsUser[me.hdl] = NoUser THEN Idle
                        ELSE Task("online", me.hdl, wsUser[me.hdl]))
    BY <1>4 DEF LoginGetUserId, At
  <2>2. CASE wsUser[me.hdl] = NoUser
    BY <2>1, <2>2, NewTasks, ThreadNames, Moves DEF ServerInv
  <2>3. CASE wsUser[me.hdl] # NoUser
    <3>1. Goto("loop", Task("online", me.hdl, wsUser[me.hdl]))
      BY <2>1, <2>3
    <3> DEFINE u == wsUser[me.hdl]
               n == Task("online", me.hdl, u)
    <3>2. u \in Users \cup {NoUser} /\ me.hdl \in Handles \cup {NoHandle}
      BY <1>1, <2>1
    <3>3. n \in Tasks /\ n.at = "online" /\ n.user = u
      <4> HIDE DEF u
      <4> QED
        BY <3>2, NewTasks
    <3>4. task'["loop"] = n /\ task'["checker"] = task["checker"]
      BY <3>1, <3>3, ThreadNames, Moves DEF ServerInv
    <3> HIDE DEF n
    <3> QED
      BY <2>1, <2>3, <3>3, <3>4
  <2> QED
    BY <2>2, <2>3
<1>5. CASE OnLoginMark
  <2>1. me.at = "online" /\ Goto("loop", Task("dbOnline", me.hdl, me.user))
    BY <1>5 DEF OnLoginMark, At
  <2> QED
    BY <1>1, <2>1, NewTasks, ThreadNames, Moves DEF ServerInv
<1>6. CASE OnLoginStore
  <2>1. me.at = "dbOnline" /\ Goto("loop", Task("network", me.hdl, me.user))
    BY <1>6 DEF OnLoginStore, At
  <2> QED
    BY <1>1, <2>1, NewTasks, ThreadNames, Moves DEF ServerInv
<1>7. CASE EnqueueClientNetworkInfo \/ UpdateUserDevices \/ JoinBindGuest
  <2>1. me.at \in {"network", "watch", "join"} /\ Goto("loop", Idle)
    BY <1>7 DEF EnqueueClientNetworkInfo, UpdateUserDevices, JoinBindGuest, At
  <2> QED
    BY <2>1, NewTasks, ThreadNames, Moves DEF ServerInv
<1> QED
  BY <1>2, <1>3, <1>4, <1>5, <1>6, <1>7 DEF LoopStep

\* Nobody new is excused, and nobody less, when no session begins or ends.
LEMMA RacesStay ==
  ASSUME wsUser' = wsUser, raced' = raced
  PROVE  \A S : ConnectedOrRaced(S)' = ConnectedOrRaced(S)
<1>1. Connected' = Connected
  BY SessionsStay
<1> QED
  BY <1>1 DEF ConnectedOrRaced, RacedAt

LEMMA RacedUsers ==
  /\ \A S : ConnectedOrRaced(S) \subseteq Users /\ Connected \subseteq ConnectedOrRaced(S)
  /\ NoUser \notin Users
  BY ServerAssumption DEF ServerAssumption, ConnectedOrRaced, Connected, RacedAt

\* Who logs in is connected, and needs no excuse any longer.
LEMMA RacesBegin ==
  ASSUME ~Reidentify, ServerInv, LoginBindUser
  PROVE  /\ task["loop"].user \in Connected'
         /\ \A S : ConnectedOrRaced(S) \subseteq ConnectedOrRaced(S)'
<1> DEFINE u == task["loop"].user
<1>1. /\ TM!BindUserToWsHandle(u, task["loop"].hdl) /\ u \in Users /\ task["loop"].hdl \in Handles
      /\ raced' = {r \in raced : r[2] # u}
  BY DEF LoginBindUser, At, ServerInv, TasksAreNamed
<1>2. Connected' = Connected \cup {u}
  BY <1>1, SessionBegins DEF ServerInv, TypeOK
<1> HIDE DEF u
<1>3. ASSUME NEW S, NEW v \in RacedAt(S), v # u PROVE v \in RacedAt(S)'
  <2>1. PICK at \in S : <<at, v>> \in raced
    BY <1>3 DEF RacedAt
  <2>2. <<at, v>> \in raced'
    BY <1>1, <1>3, <2>1
  <2> QED
    BY <2>1, <2>2, <1>3 DEF RacedAt
<1> QED
  BY <1>2, <1>3 DEF ConnectedOrRaced, u

\* Who loses its last connection to a sweep while the loop acts for it is excused.
LEMMA RacesEnd ==
  ASSUME ServerInv, NEW h \in Handles, OnClose(h) \/ SweepExpire(h)
  PROVE  /\ \A S : ConnectedOrRaced(S) \ {TM!LoggedOutBy(h)} \subseteq ConnectedOrRaced(S)'
         /\ SweepExpire(h) =>
              \A S : /\ task["loop"].user = TM!LoggedOutBy(h)
                    /\ task["loop"].user \in Users /\ task["loop"].at \in S
                    => task["loop"].user \in ConnectedOrRaced(S)'
<1> DEFINE u == TM!LoggedOutBy(h)
<1>1. TM!ReleaseUserSession(h) /\ raced \subseteq raced'
  BY DEF OnClose, SweepExpire, TM!ExpireInactiveSession, rest
<1>2. Connected' = Connected \ {u}
  BY <1>1, SessionEnds DEF ServerInv, TypeOK
<1>3. SweepExpire(h) =>
        raced' = raced \cup {<<task["loop"].at, v>> : v \in Users \cap {u} \cap {task["loop"].user}}
  BY DEF SweepExpire
<1> HIDE DEF u
<1>4. \A S : ConnectedOrRaced(S) \ {u} \subseteq ConnectedOrRaced(S)'
  BY <1>1, <1>2 DEF ConnectedOrRaced, RacedAt
<1>5. ASSUME SweepExpire(h), NEW S, task["loop"].user = u, u \in Users, task["loop"].at \in S
      PROVE  u \in ConnectedOrRaced(S)'
  <2>1. <<task["loop"].at, u>> \in raced'
    BY <1>3, <1>5
  <2> QED
    BY <1>5, <2>1 DEF ConnectedOrRaced, RacedAt
<1> QED
  BY <1>4, <1>5 DEF u

\* The device that a handler acts for was connected when the handler took its id; only a
\* sweep can have ended its session since.
LEMMA ActingStep ==
  ASSUME ~Reidentify, ServerInv, ActingIsConnectedOrRaced, [Next]_vars
  PROVE  ActingIsConnectedOrRaced'
<1> DEFINE me == task["loop"]
           t  == task'["loop"]
<1>1. CASE wsUser' = wsUser /\ raced' = raced /\ t = me
  BY <1>1, RacesStay DEF ActingIsConnectedOrRaced
<1>2. ASSUME t.at \notin {"host", "online", "dbOnline", "network", "watch", "join"}
      PROVE  ActingIsConnectedOrRaced'
  BY <1>2 DEF ActingIsConnectedOrRaced
<1>3. ASSUME NEW h \in Handles, login_user(h) \/ OnClose(h) PROVE ActingIsConnectedOrRaced'
  <2>1. CASE login_user(h)
    <3>1. t.at \in {"bind", "whoami"}
      BY <2>1, NewTasks, ThreadNames, Moves DEF login_user, ServerInv
    <3> QED
      BY <1>2, <3>1
  <2>2. CASE OnClose(h)
    <3> DEFINE u == TM!LoggedOutBy(h)
    <3>1. u \in Users \cup {NoUser}
      BY <2>2, SessionEnds DEF OnClose, ServerInv, TypeOK
    <3>2. Goto("loop", IF u = NoUser THEN Idle ELSE Task("webGone", h, u))
      BY <2>2 DEF OnClose
    <3> HIDE DEF u
    <3>3. t.at \in {"idle", "webGone"}
      BY <3>1, <3>2, NewTasks, ThreadNames, Moves DEF ServerInv
    <3> QED
      BY <1>2, <3>3
  <2> QED
    BY <1>3, <2>1, <2>2
<1>4. ASSUME NEW h \in Handles, PresenceRequest(h) \/ \E w \in Users : JoinRequest(h, w)
      PROVE  ActingIsConnectedOrRaced'
  <2> DEFINE u == wsUser[h]
  <2>1. /\ u \in Connected \cup {NoUser} /\ u \in Users \cup {NoUser}
        /\ \A S : Connected \subseteq ConnectedOrRaced(S)'
    BY <1>4, PresentUsers, RacesStay, RacedUsers
    DEF PresenceRequest, JoinRequest, sessions, rest, ServerInv
  <2>2. CASE PresenceRequest(h)
    <3>1. Goto("loop", Task("watch", h, u)) /\ u # NoUser
      BY <2>2 DEF PresenceRequest
    <3> HIDE DEF u
    <3>2. t.at = "watch" /\ t.user = u
      BY <2>1, <3>1, NewTasks, ThreadNames, Moves DEF ServerInv
    <3> QED
      BY <2>1, <3>1, <3>2 DEF ActingIsConnectedOrRaced
  <2>3. ASSUME NEW w \in Users, JoinRequest(h, w) PROVE ActingIsConnectedOrRaced'
    <3> DEFINE j == [Task("join", h, u) EXCEPT !.with = w]
    <3>1. Goto("loop", j)
      BY <2>3 DEF JoinRequest
    <3>2. j \in Tasks /\ j.at = "join" /\ j.user = u
      <4> HIDE DEF u
      <4> QED
        BY <2>1, JoinTask
    <3> HIDE DEF j, u
    <3>3. t = j
      BY <3>1, <3>2, ThreadNames, Moves DEF ServerInv
    <3> QED
      BY <2>1, <3>2, <3>3 DEF ActingIsConnectedOrRaced
  <2> QED
    BY <1>4, <2>2, <2>3
<1>5. CASE LoopStep
  <2>1. CASE LoginBindUser
    <3>1. me.user \in ConnectedOrRaced({"host"})'
      BY <2>1, RacesBegin DEF ConnectedOrRaced
    <3>2. t.at = "host" => t.user = me.user
      BY <1>5, LoopMoves
    <3>3. t.at = "host"
      <4>1. me.hdl \in Handles \cup {NoHandle} /\ me.user \in Users \cup {NoUser}
        BY OldTasks, ThreadNames DEF ServerInv
      <4>2. Goto("loop", Task("host", me.hdl, me.user))
        BY <2>1 DEF LoginBindUser
      <4> QED
        BY <4>1, <4>2, NewTasks, ThreadNames, Moves DEF ServerInv
    <3> QED
      BY <3>1, <3>2, <3>3 DEF ActingIsConnectedOrRaced
  <2>2. CASE ~LoginBindUser
    <3>1. wsUser' = wsUser /\ raced' = raced
      BY <1>5, <2>2
      DEF LoopStep, LoginBindHost, LoginGetUserId, OnLoginMark, OnLoginStore,
          EnqueueClientNetworkInfo, UpdateUserDevices, JoinBindGuest, sessions, rest,
          TM!BindHostToTransmission, TM!BindGuestToTransmission, TM!vars
    <3>2. \A S : ConnectedOrRaced(S)' = ConnectedOrRaced(S)
      BY <3>1, RacesStay
    <3>3. CASE t.at = "online"
      <4>1. t.user = wsUser[me.hdl] /\ wsUser[me.hdl] # NoUser /\ me.hdl \in Handles
        BY <1>5, <3>3, LoopMoves DEF ServerInv, TasksAreNamed
      <4>2. t.user \in Connected
        BY <4>1, PresentUsers DEF ServerInv
      <4> QED
        BY <3>2, <3>3, <4>2, RacedUsers DEF ActingIsConnectedOrRaced
    <3>4. CASE t.at = "dbOnline"
      <4>1. me.at = "online" /\ t.user = me.user
        BY <1>5, <3>4, LoopMoves
      <4>2. t.user \in ConnectedOrRaced({"online", "dbOnline"})
        BY <4>1 DEF ActingIsConnectedOrRaced, ConnectedOrRaced, RacedAt
      <4> QED
        BY <3>2, <3>4, <4>2 DEF ActingIsConnectedOrRaced
    <3>5. CASE t.at = "network"
      <4>1. me.at = "dbOnline" /\ t.user = me.user
        BY <1>5, <3>5, LoopMoves
      <4>2. t.user \in ConnectedOrRaced({"online", "dbOnline", "network"})
        BY <4>1 DEF ActingIsConnectedOrRaced, ConnectedOrRaced, RacedAt
      <4> QED
        BY <3>2, <3>5, <4>2 DEF ActingIsConnectedOrRaced
    <3>6. CASE t.at \in {"idle", "whoami"}
      BY <1>2, <3>6
    <3> QED
      BY <1>5, <2>2, <3>3, <3>4, <3>5, <3>6, LoopMoves
  <2> QED
    BY <2>1, <2>2
<1>6. ASSUME NEW th \in Threads, LogoutStep(th) PROVE ActingIsConnectedOrRaced'
  <2>1. wsUser' = wsUser /\ raced' = raced
    BY <1>6 DEF LogoutStep, OnWebClientDisconnect, OnLogoutUnwatch, OnLogoutMark, OnLogoutStore,
                OnLogoutForget, sessions, rest
  <2>2. CASE th = "checker"
    <3>1. t = me
      BY <1>6, <2>2, LogoutMoves, ThreadNames DEF ServerInv
    <3> QED
      BY <1>1, <2>1, <3>1
  <2>3. CASE th = "loop"
    <3>1. t.at \in {"idle", "unwatch", "offline", "dbOffline", "forget"}
      BY <1>6, <2>3, LogoutMoves DEF ServerInv
    <3> QED
      BY <1>2, <3>1
  <2> QED
    BY <2>2, <2>3 DEF Threads
<1>7. ASSUME NEW h \in Handles, SweepExpire(h) PROVE ActingIsConnectedOrRaced'
  <2>1. t = me
    BY <1>7, ThreadNames DEF SweepExpire, Goto, ServerInv, TypeOK
  <2>2. \A S : me.user \in ConnectedOrRaced(S) /\ me.at \in S => me.user \in ConnectedOrRaced(S)'
    BY <1>7, RacesEnd, RacedUsers
  <2> HIDE DEF me, t
  <2>3. /\ me.at = "host" => me.user \in ConnectedOrRaced({"host"})'
        /\ me.at = "online" => me.user \in ConnectedOrRaced({"online"})'
        /\ me.at = "dbOnline" => me.user \in ConnectedOrRaced({"online", "dbOnline"})'
        /\ me.at = "network" => me.user \in ConnectedOrRaced({"online", "dbOnline", "network"})'
        /\ me.at = "watch" => me.user \in ConnectedOrRaced({"watch"})'
        /\ me.at = "join" => me.user \in ConnectedOrRaced({"join"})' \cup {NoUser}
    BY <2>2 DEF ActingIsConnectedOrRaced, me
  <2> QED
    BY <2>1, <2>3 DEF ActingIsConnectedOrRaced, me, t
<1>8. CASE SweepBegin \/ SweepClose
  <2>1. t = me /\ wsUser' = wsUser /\ raced' = raced
    BY <1>8, ThreadNames DEF SweepBegin, SweepClose, Goto, sessions, ServerInv, TypeOK
  <2> QED
    BY <1>1, <2>1
<1>9. ASSUME NEW recovered \in BOOLEAN, Restart(recovered) PROVE ActingIsConnectedOrRaced'
  <2>1. t.at = "idle"
    BY <1>9, ThreadNames DEF Restart, Idle
  <2> QED
    BY <1>2, <2>1
<1>10. CASE \/ UNCHANGED vars
            \/ \E h \in Handles : OnOpen(h) \/ OnPing(h) \/ BecomeIdle(h)
            \/ \E u \in Users \cup {NoUser}, w \in Users : leave_transmission(u, w)
            \/ \E w \in Users : HandleDisconnect(w)
            \/ RecoveredSessionCleanup
  <2>1. wsUser' = wsUser /\ raced' = raced /\ t = me
    BY <1>10
    DEF vars, sessions, rest, OnOpen, OnPing, BecomeIdle, leave_transmission, HandleDisconnect,
        RecoveredSessionCleanup, TM!UpdateWsHandleLastActiveTime, TM!BecomeIdle,
        TM!ReleaseTransmission, TM!ReleaseGuestFromTransmission, TM!DisconnectTransmission,
        TM!PruneDisconnectedTransmissions, TM!vars
  <2> QED
    BY <1>1, <2>1
<1> QED
  BY <1>3, <1>4, <1>5, <1>6, <1>7, <1>8, <1>9, <1>10, ThreadNames DEF Next, CheckerStep

\* Entries are added for connected devices only, or after a race, and nobody loses a
\* connection.
LEMMA EntriesKept ==
  ASSUME EntriesEnd, \A S : ConnectedOrRaced(S) \subseteq ConnectedOrRaced(S)',
         watching' \subseteq watching \cup ConnectedOrRaced({"watch"}),
         online' \subseteq online \cup ConnectedOrRaced({"online"}),
         dbOnline' \subseteq dbOnline \cup ConnectedOrRaced({"online", "dbOnline"}),
         network' \subseteq network \cup ConnectedOrRaced({"online", "dbOnline", "network"}),
         \A th \in Threads : task'[th] = task[th] \/ task[th].at \notin LogoutSteps
  PROVE  EntriesEnd'
<1>1. \A th \in Threads :
        /\ Leaving(th, {"unwatch"}) \subseteq Leaving(th, {"unwatch"})'
        /\ Leaving(th, {"unwatch", "offline"}) \subseteq Leaving(th, {"unwatch", "offline"})'
        /\ Leaving(th, {"unwatch", "offline", "dbOffline"})
             \subseteq Leaving(th, {"unwatch", "offline", "dbOffline"})'
        /\ Leaving(th, {"unwatch", "offline", "dbOffline", "forget"})
             \subseteq Leaving(th, {"unwatch", "offline", "dbOffline", "forget"})'
  BY DEF Leaving, LogoutSteps
<1> QED
  BY <1>1, ThreadNames DEF EntriesEnd, StillThere

\* The device that loses its last connection is the one that the thread now logs out.
LEMMA EntriesLeft ==
  ASSUME EntriesEnd, UNCHANGED presence,
         NEW th \in Threads, NEW u,
         \A S : ConnectedOrRaced(S) \ {u} \subseteq ConnectedOrRaced(S)',
         task[th].at \notin LogoutSteps,
         \A o \in Threads : o # th => task'[o] = task[o],
         \/ u \notin Users
         \/ /\ task'[th].at \in {"unwatch"} \cup (IF th = "loop" THEN {"webGone"} ELSE {})
            /\ task'[th].user = u
  PROVE  EntriesEnd'
<1>1. \A o \in Threads : o # th => \A steps : Leaving(o, steps)' = Leaving(o, steps)
  BY DEF Leaving
<1>2. /\ Leaving(th, {"unwatch"}) = {}
      /\ Leaving(th, {"unwatch", "offline"}) = {}
      /\ Leaving(th, {"unwatch", "offline", "dbOffline"}) = {}
      /\ Leaving(th, {"unwatch", "offline", "dbOffline", "forget"}) = {}
  BY DEF Leaving, LogoutSteps
<1>3. u \in Users =>
      /\ u \in Leaving(th, {"unwatch"})'
      /\ u \in Leaving(th, {"unwatch", "offline"})'
      /\ u \in Leaving(th, {"unwatch", "offline", "dbOffline"})'
      /\ u \in Leaving(th, {"unwatch", "offline", "dbOffline", "forget"})'
  BY DEF Leaving
<1>4. th = "loop" \/ th = "checker"
  BY DEF Threads
<1>5. \A S : ConnectedOrRaced(S) \subseteq ConnectedOrRaced(S)' \cup ({u} \cap Users)
  BY RacedUsers
<1> QED
  BY <1>1, <1>2, <1>3, <1>4, <1>5, ThreadNames DEF EntriesEnd, StillThere, presence

\* A logout takes the device off each list before it goes on.
LEMMA EntriesErased ==
  ASSUME ServerInv, EntriesEnd, NEW th \in Threads, LogoutStep(th)
  PROVE  EntriesEnd'
<1> DEFINE u  == task[th].user
           at == task[th].at
           t  == task'[th]
<1>1. /\ \A o \in Threads : o # th => task'[o] = task[o]
      /\ \A S : ConnectedOrRaced(S)' = ConnectedOrRaced(S)
  BY LogoutMoves, RacesStay
  DEF ServerInv, LogoutStep, OnWebClientDisconnect, OnLogoutUnwatch, OnLogoutMark,
      OnLogoutStore, OnLogoutForget, sessions, rest
<1>2. \A o \in Threads : o # th => \A steps : Leaving(o, steps)' = Leaving(o, steps)
  BY <1>1 DEF Leaving
<1>3. /\ t.at = "idle" \/ t.at = "close" \/ t.user = u
      /\ \/ at = "webGone" /\ th = "loop" /\ t.at = "unwatch" /\ UNCHANGED presence
         \/ at = "webGone" /\ th = "checker" /\ UNCHANGED presence
         \/ /\ at = "unwatch" /\ t.at = "offline"
            /\ watching' = watching \ {u} /\ UNCHANGED <<online, dbOnline, network>>
         \/ /\ at = "offline" /\ t.at = "dbOffline"
            /\ online' = online \ {u} /\ UNCHANGED <<watching, dbOnline, network>>
         \/ /\ at = "dbOffline" /\ t.at = "forget"
            /\ dbOnline' = dbOnline \ {u} /\ UNCHANGED <<watching, online, network>>
         \/ /\ at = "forget"
            /\ network' = network \ {u} /\ UNCHANGED <<watching, online, dbOnline>>
  <2>1. CASE OnWebClientDisconnect(th)
    <3>1. /\ at = "webGone" /\ UNCHANGED presence
          /\ Goto(th, [task[th] EXCEPT !.at = IF th = "loop" THEN "unwatch" ELSE "close"])
      BY <2>1 DEF OnWebClientDisconnect, At
    <3>2. CASE th = "loop"
      <4>1. Goto(th, [task[th] EXCEPT !.at = "unwatch"])
        BY <3>1, <3>2
      <4> QED
        BY <3>1, <3>2, <4>1, Advances DEF ServerInv
    <3>3. CASE th = "checker"
      <4>1. Goto(th, [task[th] EXCEPT !.at = "close"])
        BY <3>1, <3>3
      <4> QED
        BY <3>1, <3>3, <4>1, Advances DEF ServerInv
    <3> QED
      BY <3>2, <3>3 DEF Threads
  <2>2. CASE OnLogoutUnwatch(th)
    <3>1. /\ at = "unwatch" /\ Goto(th, [task[th] EXCEPT !.at = "offline"])
          /\ watching' = watching \ {u} /\ UNCHANGED <<online, dbOnline, network>>
      BY <2>2 DEF OnLogoutUnwatch, At
    <3> QED
      BY <3>1, Advances DEF ServerInv
  <2>3. CASE OnLogoutMark(th)
    <3>1. /\ at = "offline" /\ Goto(th, [task[th] EXCEPT !.at = "dbOffline"])
          /\ online' = online \ {u} /\ UNCHANGED <<watching, dbOnline, network>>
      BY <2>3 DEF OnLogoutMark, At
    <3> QED
      BY <3>1, Advances DEF ServerInv
  <2>4. CASE OnLogoutStore(th)
    <3>1. /\ at = "dbOffline" /\ Goto(th, [task[th] EXCEPT !.at = "forget"])
          /\ dbOnline' = dbOnline \ {u} /\ UNCHANGED <<watching, online, network>>
      BY <2>4 DEF OnLogoutStore, At
    <3> QED
      BY <3>1, Advances DEF ServerInv
  <2>5. CASE OnLogoutForget(th)
    <3>1. /\ at = "forget"
          /\ network' = network \ {u} /\ UNCHANGED <<watching, online, dbOnline>>
      BY <2>5 DEF OnLogoutForget, At
    <3>2. t.at = "idle" \/ t.at = "close" \/ t.user = u
      BY LogoutMoves DEF ServerInv
    <3> QED
      BY <3>1, <3>2
  <2> QED
    BY <2>1, <2>2, <2>3, <2>4, <2>5 DEF LogoutStep
<1>4. /\ watching' \subseteq Leaving(th, {"unwatch"})'
           \cup (watching \ Leaving(th, {"unwatch"}))
      /\ online' \subseteq Leaving(th, {"unwatch", "offline"})'
           \cup (online \ Leaving(th, {"unwatch", "offline"}))
  BY <1>3 DEF Leaving, presence
<1>5. /\ dbOnline' \subseteq Leaving(th, {"unwatch", "offline", "dbOffline"})'
           \cup (dbOnline \ Leaving(th, {"unwatch", "offline", "dbOffline"}))
      /\ network' \subseteq Leaving(th, {"unwatch", "offline", "dbOffline", "forget"})'
           \cup (network \ Leaving(th, {"unwatch", "offline", "dbOffline", "forget"}))
  BY <1>3 DEF Leaving, presence
<1>6. th = "loop" \/ th = "checker"
  BY DEF Threads
<1> QED
  BY <1>1, <1>2, <1>4, <1>5, <1>6, ThreadNames DEF EntriesEnd, StillThere

LEMMA EntriesStep ==
  ASSUME ~Reidentify, ServerInv, ActingIsConnectedOrRaced, EntriesEnd, [Next]_vars
  PROVE  EntriesEnd'
<1> DEFINE me == task["loop"]
<1>1. ASSUME wsUser' = wsUser, raced' = raced, UNCHANGED <<presence, task>> PROVE EntriesEnd'
  BY <1>1, RacesStay, EntriesKept DEF presence
<1>2. ASSUME NEW t, Goto("loop", t), me.at \notin LogoutSteps, UNCHANGED presence,
             \A S : ConnectedOrRaced(S) \subseteq ConnectedOrRaced(S)'
      PROVE  EntriesEnd'
  <2>1. task'["checker"] = task["checker"]
    BY <1>2, ThreadNames DEF Goto, ServerInv, TypeOK
  <2> QED
    BY <1>2, <2>1, EntriesKept DEF presence, Threads
<1>3. ASSUME NEW h \in Handles,
             login_user(h) \/ PresenceRequest(h) \/ \E w \in Users : JoinRequest(h, w)
      PROVE  EntriesEnd'
  <2>1. /\ UNCHANGED presence /\ wsUser' = wsUser /\ raced' = raced /\ me.at = "idle"
        /\ \E t : Goto("loop", t)
    BY <1>3, NewTasks DEF login_user, PresenceRequest, JoinRequest, Ready, sessions, rest
  <2> QED
    BY <1>2, <2>1, RacesStay DEF LogoutSteps
<1>4. CASE LoopStep
  <2>1. me.at \notin LogoutSteps /\ task'["checker"] = task["checker"]
    BY <1>4, LoopMoves DEF LogoutSteps
  <2>2. CASE LoginBindUser
    <3>1. UNCHANGED presence
      BY <2>2 DEF LoginBindUser
    <3> QED
      BY <2>1, <2>2, <3>1, RacesBegin, EntriesKept DEF presence, Threads
  <2>3. CASE LoginBindHost \/ LoginGetUserId \/ JoinBindGuest
    <3>1. wsUser' = wsUser /\ raced' = raced /\ UNCHANGED presence
      BY <2>3
      DEF LoginBindHost, LoginGetUserId, JoinBindGuest, sessions, rest,
          TM!BindHostToTransmission, TM!BindGuestToTransmission, TM!vars
    <3> QED
      BY <2>1, <3>1, RacesStay, EntriesKept DEF presence, Threads
  <2>4. CASE OnLoginMark \/ OnLoginStore \/ EnqueueClientNetworkInfo \/ UpdateUserDevices
    <3>1. /\ wsUser' = wsUser /\ raced' = raced
          /\ online' = online \/ (me.at = "online" /\ online' \subseteq online \cup {me.user})
          /\ dbOnline' = dbOnline
             \/ (me.at = "dbOnline" /\ dbOnline' \subseteq dbOnline \cup {me.user})
          /\ network' = network \/ (me.at = "network" /\ network' \subseteq network \cup {me.user})
          /\ watching' = watching \/ (me.at = "watch" /\ watching' \subseteq watching \cup {me.user})
      BY <2>4
      DEF OnLoginMark, OnLoginStore, EnqueueClientNetworkInfo, UpdateUserDevices, At, sessions, rest
    <3>2. /\ watching' \subseteq watching \cup ConnectedOrRaced({"watch"})
          /\ online' \subseteq online \cup ConnectedOrRaced({"online"})
          /\ dbOnline' \subseteq dbOnline \cup ConnectedOrRaced({"online", "dbOnline"})
          /\ network' \subseteq network \cup ConnectedOrRaced({"online", "dbOnline", "network"})
      BY <3>1 DEF ActingIsConnectedOrRaced
    <3> QED
      BY <2>1, <3>1, <3>2, RacesStay, EntriesKept DEF Threads
  <2> QED
    BY <1>4, <2>2, <2>3, <2>4 DEF LoopStep
<1>5. ASSUME NEW h \in Handles, OnClose(h) PROVE EntriesEnd'
  <2> DEFINE u == TM!LoggedOutBy(h)
  <2>1. /\ UNCHANGED presence /\ me.at = "idle"
        /\ Goto("loop", IF u = NoUser THEN Idle ELSE Task("webGone", h, u))
    BY <1>5, NewTasks DEF OnClose, Ready
  <2>2. /\ u = NoUser \/ u \in Connected
        /\ u \in Users \cup {NoUser}
        /\ \A S : ConnectedOrRaced(S) \ {u} \subseteq ConnectedOrRaced(S)'
    BY <1>5, SessionEnds, RacesEnd DEF OnClose, ServerInv, TypeOK
  <2>3. \A S : NoUser \notin ConnectedOrRaced(S)
    BY RacedUsers
  <2> HIDE DEF u
  <2>4. CASE u = NoUser
    BY <1>2, <2>1, <2>2, <2>3, <2>4 DEF LogoutSteps
  <2>5. CASE u # NoUser
    <3>1. Goto("loop", Task("webGone", h, u))
      BY <2>1, <2>5
    <3>2. /\ task'["loop"].at = "webGone" /\ task'["loop"].user = u
          /\ \A o \in Threads : o # "loop" => task'[o] = task[o]
      BY <2>2, <3>1, NewTasks, ThreadNames, Moves DEF ServerInv
    <3>3. me.at \notin LogoutSteps
      BY <2>1 DEF LogoutSteps
    <3> QED
      BY <2>1, <2>2, <3>2, <3>3, ThreadNames, EntriesLeft
  <2> QED
    BY <2>4, <2>5
<1>6. ASSUME NEW h \in Handles, SweepExpire(h) PROVE EntriesEnd'
  <2> DEFINE u == TM!LoggedOutBy(h)
             step == IF u = NoUser THEN "close" ELSE "unwatch"
  <2>1. /\ UNCHANGED presence /\ task["checker"].at = "sweep"
        /\ Goto("checker", Task(step, h, u))
        /\ TM!ReleaseUserSession(h)
    BY <1>6 DEF SweepExpire, At, TM!ExpireInactiveSession
  <2>2. /\ u = NoUser \/ u \in Connected
        /\ u \in Users \cup {NoUser}
        /\ \A S : ConnectedOrRaced(S) \ {u} \subseteq ConnectedOrRaced(S)'
    BY <1>6, <2>1, SessionEnds, RacesEnd DEF ServerInv, TypeOK
  <2>3. NoUser \notin Users
    BY RacedUsers
  <2>4. step \in {"close", "unwatch"} /\ (u \in Users => step = "unwatch")
    BY <2>3
  <2> HIDE DEF u, step
  <2>5. /\ task'["checker"].at = step /\ task'["checker"].user = u
        /\ \A o \in Threads : o # "checker" => task'[o] = task[o]
    BY <2>1, <2>2, <2>4, NewTasks, ThreadNames, Moves DEF ServerInv
  <2>6. task["checker"].at \notin LogoutSteps
    BY <2>1 DEF LogoutSteps
  <2> QED
    BY <2>1, <2>2, <2>4, <2>5, <2>6, ThreadNames, EntriesLeft
<1>7. CASE SweepBegin \/ SweepClose
  <2>1. /\ wsUser' = wsUser /\ raced' = raced /\ UNCHANGED presence
        /\ task'["loop"] = task["loop"] /\ task["checker"].at \notin LogoutSteps
    BY <1>7, ThreadNames
    DEF SweepBegin, SweepClose, LockFree, At, sessions, Goto, ServerInv, TypeOK, LogoutSteps
  <2> QED
    BY <2>1, RacesStay, EntriesKept DEF presence, Threads
<1>8. ASSUME NEW th \in Threads, LogoutStep(th) PROVE EntriesEnd'
  BY <1>8, EntriesErased
<1>9. ASSUME NEW recovered \in BOOLEAN, Restart(recovered) PROVE EntriesEnd'
  BY <1>9 DEF Restart, EntriesEnd
<1>10. CASE \/ UNCHANGED vars
            \/ \E h \in Handles : OnOpen(h) \/ OnPing(h) \/ BecomeIdle(h)
            \/ \E u \in Users \cup {NoUser}, w \in Users : leave_transmission(u, w)
            \/ \E w \in Users : HandleDisconnect(w)
            \/ RecoveredSessionCleanup
  <2>1. wsUser' = wsUser /\ raced' = raced /\ UNCHANGED <<presence, task>>
    BY <1>10
    DEF vars, sessions, rest, OnOpen, OnPing, BecomeIdle, leave_transmission, HandleDisconnect,
        RecoveredSessionCleanup, TM!UpdateWsHandleLastActiveTime, TM!BecomeIdle,
        TM!ReleaseTransmission, TM!ReleaseGuestFromTransmission, TM!DisconnectTransmission,
        TM!PruneDisconnectedTransmissions, TM!vars
  <2> QED
    BY <1>1, <2>1
<1> QED
  BY <1>3, <1>4, <1>5, <1>6, <1>7, <1>8, <1>9, <1>10, ThreadNames DEF Next, CheckerStep

\* The end of a session takes nobody into a transmission, and its device out of all.
LEMMA SessionEndLeaves ==
  ASSUME TM!IInv, NEW h \in Handles, TM!ReleaseUserSession(h)
  PROVE  \A t \in Users :
           /\ host'[t] \in {host[t], NoUser} /\ guests'[t] \subseteq guests[t]
           /\ TM!LoggedOutBy(h) # NoUser =>
                host'[t] # TM!LoggedOutBy(h) /\ TM!LoggedOutBy(h) \notin guests'[t]
<1>1. CASE TM!IsFinalSession(h)
  <2> DEFINE w == wsUser[h]
  <2>1. PICK own \in TM!FirstHosted(w) :
          /\ guests' = [x \in Users |-> IF x = own THEN {} ELSE guests[x] \ {w}]
          /\ host' = [x \in Users |-> IF x = own THEN NoUser ELSE host[x]]
    BY <1>1 DEF TM!ReleaseUserSession
  <2>2. TM!LoggedOutBy(h) = w /\ w # NoUser
    BY <1>1 DEF TM!LoggedOutBy, TM!IsFinalSession
  <2> SUFFICES ASSUME NEW t \in Users
               PROVE  /\ host'[t] \in {host[t], NoUser} /\ guests'[t] \subseteq guests[t]
                      /\ host'[t] # w /\ w \notin guests'[t]
    BY <2>2
  <2>3. host[t] = w => t = own
    BY <2>2 DEF TM!FirstHosted, TM!IInv, TM!TransmissionsInv, TM!TransmissionsWellFormed
  <2> QED
    BY <2>1, <2>2, <2>3
<1>2. CASE ~TM!IsFinalSession(h)
  BY <1>2 DEF TM!ReleaseUserSession, TM!LoggedOutBy
<1> QED
  BY <1>1, <1>2

LEMMA ParticipantsStep ==
  ASSUME ~Reidentify, ServerInv, ActingIsConnectedOrRaced, ParticipantsHaveSessions, [Next]_vars
  PROVE  ParticipantsHaveSessions'
<1> DEFINE me == task["loop"]
<1>1. ASSUME \A t \in Users : host'[t] \in {host[t], NoUser} /\ guests'[t] \subseteq guests[t],
             \A S : ConnectedOrRaced(S) \subseteq ConnectedOrRaced(S)', cleanup' = cleanup
      PROVE  ParticipantsHaveSessions'
  BY <1>1 DEF ParticipantsHaveSessions
<1>2. NoUser \notin Users /\ TM!TypeOK
  BY ServerAssumption DEF ServerAssumption, ServerInv, TypeOK
<1>3. CASE \/ \E u \in Users \cup {NoUser}, w \in Users : leave_transmission(u, w)
           \/ \E w \in Users : HandleDisconnect(w)
  <2>1. wsUser' = wsUser /\ raced' = raced /\ cleanup' = cleanup
    BY <1>3
    DEF leave_transmission, HandleDisconnect, TM!ReleaseTransmission,
        TM!ReleaseGuestFromTransmission, TM!DisconnectTransmission, TM!vars, rest
  <2>2. ASSUME NEW t \in Users
        PROVE  host'[t] \in {host[t], NoUser} /\ guests'[t] \subseteq guests[t]
    <3>1. ASSUME NEW w \in Users, TM!ReleaseTransmission(w)
          PROVE  host'[t] \in {host[t], NoUser} /\ guests'[t] \subseteq guests[t]
      BY <1>2, <3>1 DEF TM!ReleaseTransmission, TM!TypeOK
    <3>2. ASSUME NEW g \in Users \cup {NoUser}, TM!ReleaseGuestFromTransmission(g)
          PROVE  host'[t] \in {host[t], NoUser} /\ guests'[t] \subseteq guests[t]
      BY <3>2 DEF TM!ReleaseGuestFromTransmission
    <3>3. CASE UNCHANGED TM!vars
      BY <3>3 DEF TM!vars
    <3> QED
      BY <1>3, <3>1, <3>2, <3>3
      DEF leave_transmission, HandleDisconnect, TM!DisconnectTransmission
  <2> QED
    BY <1>1, <2>1, <2>2, RacesStay
<1>4. CASE RecoveredSessionCleanup
  <2>1. TM!PruneDisconnectedTransmissions /\ wsUser' = wsUser /\ raced' = raced
    BY <1>4 DEF RecoveredSessionCleanup, TM!PruneDisconnectedTransmissions
  <2> SUFFICES ASSUME NEW t \in Users
               PROVE  host'[t] \in Connected \cup {NoUser} /\ guests'[t] \subseteq Connected
    BY <2>1, RacesStay, RacedUsers DEF ParticipantsHaveSessions
  <2>2. host[t] \in Users \cup {NoUser} /\ guests[t] \subseteq Users \cup {NoUser}
    BY <1>2 DEF TM!TypeOK, TM!Ids
  <2>3. host'[t] \in Connected \cup {NoUser}
    BY <2>1, <2>2
    DEF TM!PruneDisconnectedTransmissions, TM!IsTransmissionExist, Connected
  <2>4. ASSUME NEW g \in guests'[t] PROVE g \in Connected
    <3>1. g \in guests[t] /\ TM!HasUserConnection(g)
      BY <2>1, <2>2, <2>4 DEF TM!PruneDisconnectedTransmissions, TM!Ids
    <3> QED
      BY <2>2, <3>1 DEF Connected, TM!HasUserConnection
  <2> QED
    BY <2>3, <2>4
<1>5. CASE LoginBindUser
  <2>1. UNCHANGED <<host, guests, cleanup>>
    BY <1>5 DEF LoginBindUser, TM!BindUserToWsHandle
  <2> QED
    BY <1>1, <1>5, <2>1, RacesBegin
<1>6. CASE LoginBindHost
  <2>1. /\ me.at = "host" /\ wsUser' = wsUser /\ raced' = raced /\ cleanup' = cleanup
        /\ me.user \in ConnectedOrRaced({"host"})
        /\ TM!BindHostToTransmission(me.user)
    BY <1>6 DEF LoginBindHost, At, ActingIsConnectedOrRaced, TM!BindHostToTransmission, rest
  <2>2. \A t \in Users : host'[t] \in {host[t], me.user} /\ guests'[t] = guests[t]
    BY <1>2, <2>1 DEF TM!BindHostToTransmission, TM!TypeOK
  <2> QED
    BY <2>1, <2>2, RacesStay DEF ParticipantsHaveSessions
<1>7. CASE JoinBindGuest
  <2>1. /\ me.at = "join" /\ wsUser' = wsUser /\ raced' = raced /\ cleanup' = cleanup
        /\ me.user \in ConnectedOrRaced({"join"}) \cup {NoUser}
        /\ TM!BindGuestToTransmission(me.user, me.with)
    BY <1>7
    DEF JoinBindGuest, At, ActingIsConnectedOrRaced, TM!BindGuestToTransmission, TM!vars, rest
  <2>2. \A t \in Users : host'[t] = host[t] /\ guests'[t] \subseteq guests[t] \cup {me.user}
    BY <1>2, <2>1 DEF TM!BindGuestToTransmission, TM!TypeOK, TM!vars
  <2> QED
    BY <2>1, <2>2, RacesStay DEF ParticipantsHaveSessions
<1>8. ASSUME NEW h \in Handles, OnClose(h) \/ SweepExpire(h)
      PROVE  ParticipantsHaveSessions'
  <2> DEFINE u == TM!LoggedOutBy(h)
  <2>1. TM!ReleaseUserSession(h) /\ cleanup' = cleanup
    BY <1>8 DEF OnClose, SweepExpire, TM!ExpireInactiveSession, rest
  <2>2. \A S : ConnectedOrRaced(S) \ {u} \subseteq ConnectedOrRaced(S)'
    BY <1>8, RacesEnd
  <2>3. \A t \in Users : /\ host'[t] \in {host[t], NoUser} /\ guests'[t] \subseteq guests[t]
                         /\ u # NoUser => host'[t] # u /\ u \notin guests'[t]
    BY <2>1, SessionEndLeaves DEF ServerInv
  <2> HIDE DEF u
  <2> QED
    BY <2>1, <2>2, <2>3 DEF ParticipantsHaveSessions
<1>9. ASSUME NEW recovered \in BOOLEAN, Restart(recovered) PROVE ParticipantsHaveSessions'
  BY <1>9 DEF Restart, ParticipantsHaveSessions
<1>10. CASE \/ UNCHANGED <<sessions, cleanup, raced>>
            \/ \E h \in Handles : OnPing(h) \/ BecomeIdle(h)
  <2>1. UNCHANGED <<host, guests, wsUser, cleanup, raced>>
    BY <1>10
    DEF sessions, rest, OnPing, BecomeIdle, TM!UpdateWsHandleLastActiveTime, TM!BecomeIdle
  <2> QED
    BY <1>1, <2>1, RacesStay
<1> QED
  BY <1>3, <1>4, <1>5, <1>6, <1>7, <1>8, <1>9, <1>10
  DEF Next, CheckerStep, LoopStep, LogoutStep, vars, rest, OnOpen, login_user, PresenceRequest,
      JoinRequest, LoginGetUserId, OnLoginMark, OnLoginStore, EnqueueClientNetworkInfo,
      UpdateUserDevices, OnWebClientDisconnect, OnLogoutUnwatch, OnLogoutMark, OnLogoutStore,
      OnLogoutForget, SweepBegin, SweepClose

LEMMA LeavingsInit == Init => LeavingsInv
<1> SUFFICES ASSUME Init PROVE LeavingsInv
  OBVIOUS
<1>1. task["loop"].at = "idle"
  BY ThreadNames DEF Init, Idle
<1> QED
  BY <1>1
  DEF Init, LeavingsInv, ActingIsConnectedOrRaced, EntriesEnd, ParticipantsHaveSessions

LEMMA LeavingsInvariance ==
  ASSUME ~Reidentify
  PROVE  Spec => [](ServerInv /\ LeavingsInv)
<1>1. Init => ServerInv /\ LeavingsInv
  BY ServerInit, LeavingsInit
<1>2. ServerInv /\ LeavingsInv /\ [Next]_vars => (ServerInv /\ LeavingsInv)'
  <2> SUFFICES ASSUME ServerInv, LeavingsInv, [Next]_vars PROVE (ServerInv /\ LeavingsInv)'
    OBVIOUS
  <2>1. ServerInv'
    BY ServerStep
  <2>2. (ActingIsConnectedOrRaced /\ EntriesEnd /\ ParticipantsHaveSessions)'
    BY ActingStep, EntriesStep, ParticipantsStep DEF LeavingsInv
  <2> QED
    BY <2>1, <2>2 DEF LeavingsInv
<1> QED
  BY <1>1, <1>2, PTL DEF Spec

\* Between handlers nobody is being logged out.
LEMMA QuietEntries ==
  ASSUME EntriesEnd, Quiet
  PROVE  /\ watching \subseteq ConnectedOrRaced({"watch"})
         /\ online \subseteq ConnectedOrRaced({"online"})
         /\ dbOnline \subseteq ConnectedOrRaced({"online", "dbOnline"})
         /\ network \subseteq ConnectedOrRaced({"online", "dbOnline", "network"})
<1>1. task["loop"].at = "idle" /\ task["checker"].at = "idle"
  BY ThreadNames, NewTasks DEF Quiet
<1> QED
  BY <1>1 DEF EntriesEnd, StillThere, Leaving

\* The window that the run ghost_online shows is the only way to a ghost: as long as
\* connections keep their identity, whoever is shown online between handlers has a
\* connection, or lost it to a sweep within the statements of its own OnLogin.
THEOREM ShownOnlineAreConnected ==
  ASSUME ~Reidentify
  PROVE  Spec => []OnlineIsConnectedOrRaced
<1>1. ServerInv /\ LeavingsInv => OnlineIsConnectedOrRaced
  BY QuietEntries DEF LeavingsInv, OnlineIsConnectedOrRaced, ConnectedOrRaced
<1> QED
  BY <1>1, LeavingsInvariance, PTL

\* Nor is there an address entry, or a watch list, of a device that has no connection,
\* but for one whose session a sweep ended just before the entry was made.
THEOREM EntriesBelongToConnected ==
  ASSUME ~Reidentify
  PROVE  Spec => []EntriesAreConnected
<1>1. ServerInv /\ LeavingsInv => EntriesAreConnected
  BY QuietEntries DEF LeavingsInv, EntriesAreConnected, ConnectedOrRaced
<1> QED
  BY <1>1, LeavingsInvariance, PTL

\* Nor does a device host or control a transmission without a connection, once the cleanup
\* has dealt with what was restored, unless a sweep ended its session just before the bind.
THEOREM ParticipantsStayConnected ==
  ASSUME ~Reidentify
  PROVE  Spec => []ParticipantsAreConnected
<1>1. ServerInv /\ LeavingsInv => ParticipantsAreConnected
  BY DEF LeavingsInv, ParticipantsHaveSessions, ParticipantsAreConnected, ConnectedOrRaced
<1> QED
  BY <1>1, LeavingsInvariance, PTL
=============================================================================
