------------------------ MODULE TransmissionManager ------------------------
(***************************************************************************)
(* src/src/transmission_manager.cpp: who is connected on which websocket   *)
(* handle, who hosts which transmission, who is a guest of it, and the     *)
(* persisted session rows that its remote-control callback keeps.          *)
(*                                                                         *)
(* Every public method holds ws_hdl_alive_checker_mutex_ from its first to *)
(* its last line, so one method is one action.  The event loop, the alive  *)
(* checker and the admin API are the callers; any order of calls is        *)
(* allowed here, and SignalServer says which orders the server produces.   *)
(*                                                                         *)
(* The server only ever calls BindHostToTransmission(id, id), so a         *)
(* transmission is named after the device that hosts it: transmission ids  *)
(* range over Users.                                                       *)
(***************************************************************************)

CONSTANTS
  Users,       \* device ids: regular, "web-" and "C-" ones alike
  Handles,     \* websocketpp::connection_hdl, by owner identity
  NoUser,      \* the empty device id
  NoHandle,    \* the empty connection_hdl
  Reidentify   \* may a connection log in a second time under another id?

ASSUME ConstantsAssumption ==
  /\ NoUser \notin Users
  /\ NoHandle \notin Handles
  /\ Reidentify \in BOOLEAN

VARIABLES
  host,        \* transmission_host_id_list_; NoUser where there is no entry
  guests,      \* transmission_guest_id_list_; {} where there is no entry
  wsHdl,       \* user_id_ws_hdl_list_; NoHandle where there is no entry
  wsUser,      \* ws_hdl_user_id_list_; NoUser where there is no entry
  lastActive,  \* ws_hdl_last_active_time_map_: "none", or how old the time is
  row          \* remote_control_sessions: row[t][g] is the host_id of the row
               \* with primary key (t, g), NoUser where there is no such row

vars == <<host, guests, wsHdl, wsUser, lastActive, row>>

\* A guest id is what a client says its own id is.  A connection that has not logged
\* in has the empty id, and the server lets it join as that.
Ids == Users \cup {NoUser}

\* A last-active time is "fresh" up to 10 s and "idle" beyond (line 481).
Ages == {"none", "fresh", "idle"}

TypeOK ==
  /\ host \in [Users -> Users \cup {NoUser}]
  /\ guests \in [Users -> SUBSET Ids]
  /\ wsHdl \in [Users -> Handles \cup {NoHandle}]
  /\ wsUser \in [Handles -> Users \cup {NoUser}]
  /\ lastActive \in [Handles -> Ages]
  /\ row \in [Users -> [Users -> Users \cup {NoUser}]]

Init ==
  /\ host = [t \in Users |-> NoUser]
  /\ guests = [t \in Users |-> {}]
  /\ wsHdl = [u \in Users |-> NoHandle]
  /\ wsUser = [h \in Handles |-> NoUser]
  /\ lastActive = [h \in Handles |-> "none"]
  /\ row = [t \in Users |-> [g \in Users |-> NoUser]]

-----------------------------------------------------------------------------
(* Queries.                                                                *)

IsTransmissionExist(t) == host[t] # NoUser

HasUserConnection(u) == u # NoUser /\ \E h \in Handles : wsUser[h] = u

OtherHandles(h) == {k \in Handles \ {h} : wsUser[k] = wsUser[h]}

\* Mutant: any handle of a device counts as its last one.
IsFinalSession_IgnoresDuplicates(h) == wsUser[h] # NoUser

\* h carries the only session of its device: releasing it logs the device out.
IsFinalSession(h) == wsUser[h] # NoUser /\ OtherHandles(h) = {}

\* What ReleaseUserSession(h) returns: the device to log out, or none.
LoggedOutBy(h) == IF IsFinalSession(h) THEN wsUser[h] ELSE NoUser

\* IsHost(u) returns the first transmission that u hosts, or none.
FirstHosted(u) ==
  LET hosted == {t \in Users : host[t] = u}
  IN  IF hosted = {} THEN {NoUser} ELSE hosted

-----------------------------------------------------------------------------
(* Effects the operations share.                                           *)

\* remote_control_session_callback_(t, host, g, false) for each of `ended`:
\* EndRemoteControlSession deletes the row with that primary key.
EndSessions(ended) ==
  row' = [t \in Users |-> [g \in Users |->
            IF <<t, g>> \in ended THEN NoUser ELSE row[t][g]]]

\* remote_control_session_callback_(t, host, g, true): INSERT OR IGNORE, refused
\* for a guest without an id.
StartSession(t, g) ==
  row' = IF g # NoUser /\ row[t][g] = NoUser THEN [row EXCEPT ![t][g] = host[t]] ELSE row

\* Mutant: the routing entry goes away although another handle remains.
ReleaseUserFromWsHandle_NoReassign(h) ==
  /\ lastActive' = [lastActive EXCEPT ![h] = "none"]
  /\ wsUser' = [wsUser EXCEPT ![h] = NoUser]
  /\ wsHdl' = IF wsUser[h] # NoUser /\ wsHdl[wsUser[h]] = h
                THEN [wsHdl EXCEPT ![wsUser[h]] = NoHandle] ELSE wsHdl

\* ReleaseUserFromWsHandle: the handle loses its user; the user's routing
\* entry moves to another of its handles, in map order, or goes away.
ReleaseUserFromWsHandle(h) ==
  /\ lastActive' = [lastActive EXCEPT ![h] = "none"]
  /\ wsUser' = [wsUser EXCEPT ![h] = NoUser]
  /\ IF wsUser[h] # NoUser /\ wsHdl[wsUser[h]] = h
       THEN \E k \in IF OtherHandles(h) = {} THEN {NoHandle} ELSE OtherHandles(h) :
              wsHdl' = [wsHdl EXCEPT ![wsUser[h]] = k]
       ELSE wsHdl' = wsHdl

-----------------------------------------------------------------------------
(* Operations.                                                             *)

\* Without Reidentify a handle is bound once and later only to the same user.
BindUserToWsHandle(u, h) ==
  /\ Reidentify \/ wsUser[h] \in {NoUser, u}
  /\ wsHdl' = [wsHdl EXCEPT ![u] = h]
  /\ wsUser' = [wsUser EXCEPT ![h] = u]
  /\ lastActive' = [lastActive EXCEPT ![h] = "fresh"]
  /\ UNCHANGED <<host, guests, row>>

BindHostToTransmission(u) ==
  /\ host' = IF IsTransmissionExist(u) THEN host ELSE [host EXCEPT ![u] = u]
  /\ UNCHANGED <<guests, wsHdl, wsUser, lastActive, row>>

\* Mutant: the host may join its own transmission.
BindGuestToTransmission_HostJoins(g, t) ==
  IF IsTransmissionExist(t) /\ g \notin guests[t]
    THEN /\ guests' = [guests EXCEPT ![t] = @ \cup {g}]
         /\ StartSession(t, g)
         /\ UNCHANGED <<host, wsHdl, wsUser, lastActive>>
    ELSE UNCHANGED vars

\* A missing transmission, the host itself and a present guest are refused.
BindGuestToTransmission(g, t) ==
  IF IsTransmissionExist(t) /\ host[t] # g /\ g \notin guests[t]
    THEN /\ guests' = [guests EXCEPT ![t] = @ \cup {g}]
         /\ StartSession(t, g)
         /\ UNCHANGED <<host, wsHdl, wsUser, lastActive>>
    ELSE UNCHANGED vars

ReleaseTransmission(t) ==
  /\ EndSessions({t} \X guests[t])
  /\ guests' = [guests EXCEPT ![t] = {}]
  /\ host' = [host EXCEPT ![t] = NoUser]
  /\ UNCHANGED <<wsHdl, wsUser, lastActive>>

\* Mutant: the guests are thrown out but the transmission stays open.
DisconnectTransmission_StaysOpen(t) ==
  /\ EndSessions({t} \X guests[t])
  /\ guests' = [guests EXCEPT ![t] = {}]
  /\ UNCHANGED <<host, wsHdl, wsUser, lastActive>>

DisconnectTransmission(t) ==
  IF IsTransmissionExist(t) THEN ReleaseTransmission(t) ELSE UNCHANGED vars

\* Mutant: the callback is told about the first transmission only.
ReleaseGuestFromTransmission_OneCallback(g) ==
  /\ LET joined == {t \in Users : g \in guests[t]}
     IN  EndSessions(IF joined = {} THEN {} ELSE {<<CHOOSE t \in joined : TRUE, g>>})
  /\ guests' = [t \in Users |-> guests[t] \ {g}]
  /\ UNCHANGED <<host, wsHdl, wsUser, lastActive>>

ReleaseGuestFromTransmission(g) ==
  /\ EndSessions({t \in Users : g \in guests[t]} \X {g})
  /\ guests' = [t \in Users |-> guests[t] \ {g}]
  /\ UNCHANGED <<host, wsHdl, wsUser, lastActive>>

\* Mutant: the guests of the transmissions that remain are not looked at.
PruneDisconnectedTransmissions_HostsOnly ==
  LET gone == {t \in Users : IsTransmissionExist(t) /\ ~HasUserConnection(host[t])}
  IN  /\ EndSessions({p \in gone \X Ids : p[2] \in guests[p[1]]})
      /\ guests' = [t \in Users |-> IF t \in gone THEN {} ELSE guests[t]]
      /\ host' = [t \in Users |-> IF t \in gone THEN NoUser ELSE host[t]]
      /\ UNCHANGED <<wsHdl, wsUser, lastActive>>

\* First the transmissions of disconnected hosts go, then, in those that
\* remain, the disconnected guests, a guest without an id being one of them.
PruneDisconnectedTransmissions ==
  LET gone  == {t \in Users : IsTransmissionExist(t) /\ ~HasUserConnection(host[t])}
      ended == {p \in Users \X Ids :
                  /\ p[2] \in guests[p[1]]
                  /\ p[1] \in gone \/ ~HasUserConnection(p[2])}
  IN  /\ EndSessions(ended)
      /\ guests' = [t \in Users |-> {g \in guests[t] : <<t, g>> \notin ended}]
      /\ host' = [t \in Users |-> IF t \in gone THEN NoUser ELSE host[t]]
      /\ UNCHANGED <<wsHdl, wsUser, lastActive>>

\* Mutant: the device leaves as a guest, but the transmission it hosts stays.
ReleaseUserSession_KeepsHost(h) ==
  /\ ReleaseUserFromWsHandle(h)
  /\ IF IsFinalSession(h)
       THEN LET u == wsUser[h] IN
            /\ EndSessions({t \in Users : u \in guests[t]} \X {u})
            /\ guests' = [t \in Users |-> guests[t] \ {u}]
            /\ UNCHANGED host
       ELSE UNCHANGED <<host, guests, row>>

\* Only the final session of a device ends its memberships: it leaves every
\* transmission it is a guest of, then the first one it hosts is released.
ReleaseUserSession(h) ==
  /\ ReleaseUserFromWsHandle(h)
  /\ IF IsFinalSession(h)
       THEN LET u == wsUser[h] IN
            \E own \in FirstHosted(u) :
              /\ EndSessions({p \in Users \X Ids :
                   p[2] \in guests[p[1]] /\ (p[2] = u \/ p[1] = own)})
              /\ guests' = [t \in Users |-> IF t = own THEN {} ELSE guests[t] \ {u}]
              /\ host' = [t \in Users |-> IF t = own THEN NoUser ELSE host[t]]
       ELSE UNCHANGED <<host, guests, row>>

\* One turn of the loop of ExpireInactiveSessions, for an entry past 10 s.
ExpireInactiveSession(h) ==
  /\ lastActive[h] = "idle"
  /\ ReleaseUserSession(h)

\* Called after ReleaseUserSession(h) by the closing handlers, the only
\* callers, when no login can have come in between.
RemoveWsHandleLastActiveTime(h) ==
  /\ wsUser[h] = NoUser
  /\ lastActive' = [lastActive EXCEPT ![h] = "none"]
  /\ UNCHANGED <<host, guests, wsHdl, wsUser, row>>

\* Mutant: a heartbeat counts on every handle, released ones included.
UpdateWsHandleLastActiveTime_NoGuard(h) ==
  /\ lastActive' = [lastActive EXCEPT ![h] = "fresh"]
  /\ UNCHANGED <<host, guests, wsHdl, wsUser, row>>

\* A heartbeat counts only on an authenticated handle.
UpdateWsHandleLastActiveTime(h) ==
  /\ lastActive' = IF wsUser[h] = NoUser THEN lastActive
                                         ELSE [lastActive EXCEPT ![h] = "fresh"]
  /\ UNCHANGED <<host, guests, wsHdl, wsUser, row>>

-----------------------------------------------------------------------------
(* The environment: time, and the death and restart of the process.        *)

\* Ten seconds pass without a heartbeat on h.
BecomeIdle(h) ==
  /\ lastActive[h] = "fresh"
  /\ lastActive' = [lastActive EXCEPT ![h] = "idle"]
  /\ UNCHANGED <<host, guests, wsHdl, wsUser, row>>

\* The process dies; the next one starts from the rows that InitDB kept: all
\* of them after a short outage, none after a long one.  Then
\* RestorePersistedRemoteControlSessions binds each row's host and guest; the
\* bind's own INSERT OR IGNORE leaves the row alone.
Restart(recovered) ==
  /\ row' = IF recovered THEN row ELSE [t \in Users |-> [g \in Users |-> NoUser]]
  /\ host' = [t \in Users |->
       IF \E g \in Users : row'[t][g] # NoUser
         THEN row'[t][CHOOSE g \in Users : row'[t][g] # NoUser] ELSE NoUser]
  /\ guests' = [t \in Users |-> {g \in Users : row'[t][g] # NoUser}]
  /\ wsHdl' = [u \in Users |-> NoHandle]
  /\ wsUser' = [h \in Handles |-> NoUser]
  /\ lastActive' = [h \in Handles |-> "none"]

-----------------------------------------------------------------------------
Next ==
  \/ \E u \in Users, h \in Handles : BindUserToWsHandle(u, h)
  \/ \E u \in Users : BindHostToTransmission(u)
  \/ \E g \in Ids, t \in Users : BindGuestToTransmission(g, t)
  \/ \E t \in Users : ReleaseTransmission(t)
  \/ \E t \in Users : DisconnectTransmission(t)
  \/ \E g \in Ids : ReleaseGuestFromTransmission(g)
  \/ PruneDisconnectedTransmissions
  \/ \E h \in Handles : ReleaseUserSession(h)
  \/ \E h \in Handles : ExpireInactiveSession(h)
  \/ \E h \in Handles : RemoveWsHandleLastActiveTime(h)
  \/ \E h \in Handles : UpdateWsHandleLastActiveTime(h)
  \/ \E h \in Handles : BecomeIdle(h)
  \/ \E recovered \in BOOLEAN : Restart(recovered)

Spec == Init /\ [][Next]_vars

-----------------------------------------------------------------------------
(* Invariants.                                                             *)

\* A guest list exists only under a live transmission, and never names its
\* own host: nobody controls a transmission that has gone.
TransmissionsWellFormed ==
  \A t \in Users :
    /\ host[t] \in {t, NoUser}
    /\ host[t] \notin guests[t]
    /\ guests[t] # {} => IsTransmissionExist(t)

\* The invariant of the manager's own maps, types included.
TransmissionsInv == TypeOK /\ TransmissionsWellFormed

\* The persisted rows are exactly the guests with an id, so that a restart between
\* two calls of the manager loses none of their sessions and resurrects none.  (A
\* guest without an id has no row: the dashboard's counts, which are taken from
\* the rows, leave it out, and a restart throws it out.)
SessionRowsMirrorGuests ==
  \A t, g \in Users : row[t][g] = IF g \in guests[t] THEN host[t] ELSE NoUser

\* The watchdog watches exactly the authenticated connections: a session it
\* does not watch would never time out, and an entry without a session would
\* be the revival of a released one that the comment at line 441 rules out.
WatchdogCoversSessions ==
  \A h \in Handles : lastActive[h] = "none" <=> wsUser[h] = NoUser

\* A connected device can always be sent a message: its routing entry exists
\* and, when no connection changed its identity, is one of its own handles.
ConnectedIsRoutable ==
  \A u \in Users :
    /\ HasUserConnection(u) => wsHdl[u] # NoHandle
    /\ ~Reidentify /\ wsHdl[u] # NoHandle => wsUser[wsHdl[u]] = u

IInv ==
  /\ TransmissionsInv
  /\ SessionRowsMirrorGuests
  /\ WatchdogCoversSessions
  /\ ConnectedIsRoutable

-----------------------------------------------------------------------------
(* Action properties.                                                      *)

\* u takes part in transmission t, as its host or as a guest.
Participates(u, t) == host[t] = u \/ u \in guests[t]

\* Unless the process restarts, a device that loses its last connection is
\* left in no transmission, as host or as guest (test lines 115-128, 186-189).
FinalReleaseLeavesNothing ==
  [][(\A b \in BOOLEAN : ~Restart(b)) =>
       \A u \in Users :
         HasUserConnection(u) /\ ~HasUserConnection(u)' =>
           \A t \in Users : ~Participates(u, t)']_vars

\* A device that keeps a connection keeps the transmission it hosts while
\* connections come and go ("closing one duplicate websocket does not log out
\* device", test line 178).
DuplicateCloseKeepsHosting ==
  [][wsUser' # wsUser =>
       \A u \in Users :
         HasUserConnection(u) /\ HasUserConnection(u)' => host'[u] = host[u]]_vars

-----------------------------------------------------------------------------
(* The manager implements ControlSessions: the sessions are the reverse    *)
(* map, and who controls whom is what the database rows say.               *)

CS == INSTANCE ControlSessions WITH
        session <- wsUser,
        open <- {t \in Users : IsTransmissionExist(t)},
        controls <- {p \in Users \X Users : row[p[1]][p[2]] # NoUser}

\* Every operation is one step of the promise, or none: the handlers, the
\* timeouts, the cleanup and the recovery keep it between them.
ImplementsControlSessions == CS!Spec
=============================================================================
