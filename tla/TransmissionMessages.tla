------------------------ MODULE TransmissionMessages ------------------------
(***************************************************************************)
(* The messages about a transmission: user_join_transmission to its host,  *)
(* offers, answers and candidates between two of its members,              *)
(* user_leave_transmission and admin_disconnect_transmission to all of     *)
(* them (src/src/signal_negotiation.cpp, admin_controller.cpp).            *)
(*                                                                         *)
(* A handler of the event loop asks the manager who is a member, then for  *)
(* the connection of each, sends, and changes the memberships, with the    *)
(* manager's mutex taken anew for each step.  In between the alive checker *)
(* ends sessions and closes their connections; it holds that mutex all the *)
(* while.  A device may have several connections, and messages go to the   *)
(* one that the manager routes to.  Statements of the database may fail:   *)
(* the callbacks ignore that.  The id of a transmission is its host's.  A  *)
(* request without a user's id passes as that of a connection without one. *)
(***************************************************************************)
EXTENDS Naturals, FiniteSets

CONSTANTS
  Users,
  Conns,       \* the connections: pairs of a user and a number
  NoConn,
  Named,       \* bound: the transmissions that a request may name
  MaxFailures  \* bound on the statements that fail

ASSUME MessagesAssumption ==
  /\ "" \notin Users
  /\ Conns \subseteq Users \X Nat /\ NoConn \notin Conns
  /\ Named \subseteq Users /\ MaxFailures \in Nat

VARIABLES
  bound,    \* ws_hdl_user_id_list_: the connections that have a session
  route,    \* user_id_ws_hdl_list_
  closing,  \* the connection that the alive checker is about to close
  hosted,   \* transmission_host_id_list_
  guests,   \* transmission_guest_id_list_
  dbRows,   \* remote_control_sessions: transmission and guest
  failures, \* statements that have failed
  job,      \* the handler that the event loop runs, and what it has read
  told,     \* history: those that this handler's message has reached,
  lost,     \* those whose connection was closed before the message was sent,
  affected, \* those that were members, and connected, when it changed that
  unended   \* and whether a statement has failed while an administrator's ran

roster == <<bound, route, closing, hosted, guests>>
store == <<dbRows, failures>>
history == <<told, lost, affected, unended>>
messageVars == <<roster, store, job, history>>

NoJob == [at |-> "idle", kind |-> "relay", user |-> "", trans |-> "", conn |-> NoConn,
          peer |-> "", via |-> NoConn, tell |-> {}]

\* GetAllUserIdOfTransmission.
Members(t) == IF t \in hosted THEN {t} \cup guests[t] ELSE {}
ConnsOf(u, conns) == {c \in conns : c[1] = u}
Connected(u) == ConnsOf(u, bound) # {}

\* What a request may name as a user, GetUserId and GetWsHandle of it.
UserIds == Users \cup {""}
UserOf(c) == IF c \in bound THEN c[1] ELSE ""
RouteOf(u) == IF u = "" THEN NoConn ELSE route[u]

\* The checker holds the manager's mutex until it has closed the connection.
LockFree == closing = NoConn

MessagesTypeOK ==
  LET MaybeConn == Conns \cup {NoConn} IN
  /\ bound \subseteq Conns /\ closing \in MaybeConn \ bound
  /\ route \in [Users -> MaybeConn]
  /\ hosted \subseteq Users /\ guests \in [Users -> SUBSET UserIds]
  /\ dbRows \subseteq Users \X Users /\ failures \in 0..MaxFailures
  /\ job \in [at : {"idle", "check", "bind", "route", "send", "tell", "isHost", "release",
                    "releaseGuest", "list", "end", "done"},
              kind : {"join", "offer", "relay", "leave", "admin"}, user : UserIds,
              trans : UserIds, conn : MaybeConn, peer : UserIds, via : MaybeConn,
              tell : SUBSET UserIds]
  /\ told \subseteq Users /\ lost \subseteq Users
  /\ affected \subseteq Users /\ unended \in BOOLEAN

MessagesInit ==
  /\ bound = {} /\ route = [u \in Users |-> NoConn] /\ closing = NoConn
  /\ hosted = {} /\ guests = [u \in Users |-> {}]
  /\ dbRows = {} /\ failures = 0
  /\ job = NoJob
  /\ told = {} /\ lost = {} /\ affected = {} /\ unended = FALSE

-----------------------------------------------------------------------------
(* The manager: sessions end, and the rows of the pairs with them.          *)

\* EndRemoteControlSession of each pair, some of which may fail.
EndRows(pairs) ==
  \E failed \in SUBSET (pairs \cap dbRows) :
    /\ failures + Cardinality(failed) <= MaxFailures
    /\ failures' = failures + Cardinality(failed)
    /\ dbRows' = (dbRows \ pairs) \cup failed
    /\ unended' = (job.kind = "admin" /\ (unended \/ failed # {}))

ReleaseTransmission(t) ==
  /\ EndRows({t} \X guests[t])
  /\ hosted' = hosted \ {t}
  /\ guests' = [guests EXCEPT ![t] = {}]

ReleaseGuestFromTransmission(u) ==
  /\ EndRows({<<t, u>> : t \in {t \in Users : u \in guests[t]}})
  /\ guests' = [t \in Users |-> guests[t] \ {u}]
  /\ UNCHANGED hosted

\* Mutant: memberships end with any of several connections.
ReleaseUserSession_EndsAll(c) ==
  LET u == c[1]
      rest == ConnsOf(u, bound \ {c}) IN
  /\ c \in bound
  /\ bound' = bound \ {c}
  /\ IF route[u] # c THEN UNCHANGED route
     ELSE \E d \in IF rest = {} THEN {NoConn} ELSE rest : route' = [route EXCEPT ![u] = d]
  /\ EndRows({u} \X guests[u] \cup {<<t, u>> : t \in {t \in Users : u \in guests[t]}})
  /\ hosted' = hosted \ {u}
  /\ guests' = [t \in Users |-> IF t = u THEN {} ELSE guests[t] \ {u}]

\* ReleaseUserSession: another connection takes over, or all memberships end.
ReleaseUserSession(c) ==
  LET u == c[1]
      rest == ConnsOf(u, bound \ {c}) IN
  /\ c \in bound
  /\ bound' = bound \ {c}
  /\ IF route[u] # c THEN UNCHANGED route
     ELSE \E d \in IF rest = {} THEN {NoConn} ELSE rest : route' = [route EXCEPT ![u] = d]
  /\ IF rest # {} THEN UNCHANGED <<hosted, guests, store, unended>>
     ELSE /\ EndRows({u} \X guests[u] \cup {<<t, u>> : t \in {t \in Users : u \in guests[t]}})
          /\ hosted' = hosted \ {u}
          /\ guests' = [t \in Users |-> IF t = u THEN {} ELSE guests[t] \ {u}]

SweepExpire(c) ==
  /\ LockFree
  /\ ReleaseUserSession(c)
  /\ closing' = c
  /\ UNCHANGED <<job, told, lost, affected>>

SweepClose ==
  /\ closing # NoConn
  /\ closing' = NoConn
  /\ UNCHANGED <<bound, route, hosted, guests, store, job, history>>

-----------------------------------------------------------------------------
(* The event loop.                                                          *)

Idle == job.at = "idle"
Goto(step) == job' = [job EXCEPT !.at = step]

OnClose(c) ==
  /\ Idle /\ LockFree
  /\ ReleaseUserSession(c)
  /\ UNCHANGED <<closing, job, told, lost, affected>>

\* Mutant: a login does not wait for the checker.
LoginUser_Unlocked(c) ==
  /\ Idle /\ c \notin bound
  /\ bound' = bound \cup {c}
  /\ route' = [route EXCEPT ![c[1]] = c]
  /\ hosted' = hosted \cup {c[1]}
  /\ UNCHANGED <<closing, guests, store, job, history>>

\* login_user: every device hosts a transmission of its own.
LoginUser(c) ==
  /\ Idle /\ LockFree /\ c \notin bound
  /\ bound' = bound \cup {c}
  /\ route' = [route EXCEPT ![c[1]] = c]
  /\ hosted' = hosted \cup {c[1]}
  /\ UNCHANGED <<closing, guests, store, job, history>>

Begin(step, kind, c, u, t, peer, tell) ==
  /\ Idle /\ LockFree
  /\ job' = [NoJob EXCEPT !.at = step, !.kind = kind, !.conn = c, !.user = u,
                          !.trans = t, !.peer = peer, !.tell = tell]
  /\ told' = {} /\ lost' = {} /\ affected' = {} /\ unended' = FALSE
  /\ UNCHANGED <<roster, store>>

\* join_transmission with the right password.  The host's id and its connection
\* are read under two locks: if it goes in between there is no connection.
JoinRequest(c, u, t) ==
  /\ t \in hosted
  /\ Begin("route", "join", c, u, t, t, {})

\* GetUserId: the sender is, still, the user that it names.
SenderCheck ==
  /\ job.at = "check" /\ LockFree
  /\ Goto(IF UserOf(job.conn) # job.user THEN "done"
          ELSE IF job.kind = "join" THEN "bind" ELSE "route")
  /\ UNCHANGED <<roster, store, history>>

\* BindGuestToTransmission with its callback, which refuses a row without a
\* guest.  The result is ignored: the host is sent the message even if there is
\* no transmission any more.
JoinBindGuest ==
  LET t == job.trans
      u == job.user IN
  /\ job.at = "bind" /\ LockFree
  /\ IF t \in hosted /\ t # u /\ u \notin guests[t]
     THEN /\ guests' = [guests EXCEPT ![t] = @ \cup {u}]
          /\ \/ u = "" /\ UNCHANGED store
             \/ u # "" /\ dbRows' = dbRows \cup {<<t, u>>} /\ UNCHANGED failures
             \/ u # "" /\ failures < MaxFailures /\ failures' = failures + 1 /\ UNCHANGED dbRows
     ELSE UNCHANGED <<guests, store>>
  /\ Goto("send")
  /\ UNCHANGED <<bound, route, closing, hosted, history>>

\* offer: the sender and the receiver are members, and one of them the host.
\* The host's id is read before the members: if it goes there are none.
Offer(c, u, t, v) ==
  /\ u # v /\ t \in {u, v} /\ {u, v} \subseteq Members(t)
  /\ Begin("check", "offer", c, u, t, v, {})

\* answer, new_candidate, new_candidate_mid: nothing is checked.
Relay(v) == Begin("route", "relay", NoConn, "", "", v, {})

\* GetWsHandle of the receiver.
LookUpRoute ==
  /\ job.at = "route" /\ LockFree
  /\ job' = [job EXCEPT !.via = RouteOf(job.peer),
                        !.at = IF job.kind # "join" THEN "send"
                               ELSE IF RouteOf(job.peer) = NoConn THEN "done" ELSE "check"]
  /\ UNCHANGED <<roster, store, history>>

\* SendMsg does not take the manager's mutex: it fails once the connection is
\* closed, which is not noticed.
SendMsg ==
  /\ job.at = "send"
  /\ IF job.via # NoConn /\ job.via \in bound \cup {closing}
     THEN told' = told \cup {job.peer} /\ UNCHANGED lost
     ELSE /\ lost' = IF job.via = NoConn THEN lost ELSE lost \cup {job.peer}
          /\ UNCHANGED told
  /\ job' = [job EXCEPT !.via = NoConn,
                        !.at = IF job.kind \in {"leave", "admin"} THEN "tell" ELSE "done"]
  /\ UNCHANGED <<roster, store, affected, unended>>

\* leave_transmission: the message names the user, who is not told.  Nobody checks
\* that it comes from that user.
LeaveTransmission(u, t) == Begin("tell", "leave", NoConn, u, t, "", Members(t) \ {u})

\* Mutant: only the host is told that an administrator ends the transmission.
HandleDisconnect_HostOnly(t) == Begin("tell", "admin", NoConn, "", t, "", Members(t) \cap {t})

\* HandleDisconnect of the dashboard: the members are those of the snapshot.
HandleDisconnect(t) == Begin("tell", "admin", NoConn, "", t, "", Members(t))

TellNext ==
  /\ job.at = "tell" /\ LockFree
  /\ IF job.tell = {} THEN Goto(IF job.kind = "admin" THEN "release" ELSE "isHost")
     ELSE \E v \in job.tell :
            job' = [job EXCEPT !.at = "send", !.peer = v, !.via = RouteOf(v), !.tell = @ \ {v}]
  /\ UNCHANGED <<roster, store, history>>

IsHostOfTransmission ==
  /\ job.at = "isHost" /\ LockFree
  /\ Goto(IF job.trans = job.user /\ job.trans \in hosted THEN "release" ELSE "releaseGuest")
  /\ UNCHANGED <<roster, store, history>>

Affect == affected' = {v \in Members(job.trans) \ {job.user} : Connected(v)}

\* Mutant: rows are only looked for if there is no transmission in memory.
ReleaseAll_IfExisted ==
  /\ job.at = "release" /\ LockFree
  /\ IF job.trans \in hosted THEN ReleaseTransmission(job.trans)
     ELSE UNCHANGED <<hosted, guests, store, unended>>
  /\ Goto(IF job.kind = "admin" /\ job.trans \notin hosted THEN "list" ELSE "done")
  /\ Affect
  /\ UNCHANGED <<bound, route, closing, told, lost>>

\* ReleaseTransmission, or DisconnectTransmission by the administrator.
ReleaseAll ==
  /\ job.at = "release" /\ LockFree
  /\ IF job.trans \in hosted THEN ReleaseTransmission(job.trans)
     ELSE UNCHANGED <<hosted, guests, store, unended>>
  /\ Goto(IF job.kind = "admin" THEN "list" ELSE "done")
  /\ Affect
  /\ UNCHANGED <<bound, route, closing, told, lost>>

\* The guest leaves every transmission, whichever it named.
LeaveAsGuest ==
  /\ job.at = "releaseGuest" /\ LockFree
  /\ ReleaseGuestFromTransmission(job.user)
  /\ Goto("done")
  /\ Affect
  /\ UNCHANGED <<bound, route, closing, told, lost>>

\* HandleDisconnect looks for rows that are left, whether or not there was a
\* transmission in memory.
ListRemoteControlSessions ==
  /\ job.at = "list"
  /\ Goto(IF \E g \in Users : <<job.trans, g>> \in dbRows THEN "end" ELSE "done")
  /\ unended' = FALSE
  /\ UNCHANGED <<roster, store, told, lost, affected>>

EndRemoteControlTransmission ==
  /\ job.at = "end"
  /\ EndRows({job.trans} \X Users)
  /\ Goto("done")
  /\ UNCHANGED <<roster, told, lost, affected>>

Return ==
  /\ job.at = "done"
  /\ job' = NoJob
  /\ told' = {} /\ lost' = {} /\ affected' = {} /\ unended' = FALSE
  /\ UNCHANGED <<roster, store>>

\* The process starts again.  If it was away for long, the rows are deleted;
\* otherwise the memberships are those of the rows, and nobody is connected.
Restart ==
  /\ \E recovered \in BOOLEAN : dbRows' = IF recovered THEN dbRows ELSE {}
  /\ hosted' = {row[1] : row \in dbRows'}
  /\ guests' = [t \in Users |-> {u \in Users : <<t, u>> \in dbRows'}]
  /\ bound' = {} /\ route' = [u \in Users |-> NoConn] /\ closing' = NoConn
  /\ job' = NoJob
  /\ told' = {} /\ lost' = {} /\ affected' = {} /\ unended' = FALSE
  /\ UNCHANGED failures

\* The one-shot timer after a restart: PruneDisconnectedTransmissions.
RecoveredSessionCleanup ==
  LET gone == {t \in hosted : ~Connected(t)}
      stays == [t \in Users |-> IF t \in gone THEN {} ELSE {u \in guests[t] : Connected(u)}] IN
  /\ Idle /\ LockFree
  /\ EndRows({p \in Users \X Users : p[2] \in guests[p[1]] \ stays[p[1]]})
  /\ hosted' = hosted \ gone
  /\ guests' = stays
  /\ UNCHANGED <<bound, route, closing, job, told, lost, affected>>

MessagesNext ==
  \/ \E c \in Conns : SweepExpire(c)
  \/ SweepClose
  \/ \E c \in Conns : OnClose(c)
  \/ \E c \in Conns : LoginUser(c)
  \/ \E c \in Conns, t \in Named : \E u \in {c[1], ""} : JoinRequest(c, u, t)
  \/ \E c \in Conns, t \in Named, v \in UserIds : \E u \in {c[1], ""} : Offer(c, u, t, v)
  \/ \E v \in UserIds : Relay(v)
  \/ \E u \in UserIds, t \in Named : LeaveTransmission(u, t)
  \/ \E t \in Named : HandleDisconnect(t)
  \/ SenderCheck
  \/ JoinBindGuest
  \/ LookUpRoute
  \/ SendMsg
  \/ TellNext
  \/ IsHostOfTransmission
  \/ ReleaseAll
  \/ LeaveAsGuest
  \/ ListRemoteControlSessions
  \/ EndRemoteControlTransmission
  \/ Return
  \/ RecoveredSessionCleanup
  \/ Restart

MessagesSpec == MessagesInit /\ [][MessagesNext]_messageVars

-----------------------------------------------------------------------------
(* Properties.                                                             *)

\* Whoever is connected and a member when somebody leaves a transmission, or an
\* administrator ends it, has been sent the message about it, unless the very
\* connection that was looked up for the message was closed before it was sent.
MembersAreTold == job.at = "done" => affected \subseteq told \cup lost

\* When an offer or the announcement of a join, with the credentials it carries,
\* has been sent, its sender and its receiver are still members of the
\* transmission, which the handler checked, or joined, some critical sections ago.
\* The exception is one whose last connection was lost in the meantime.
ReceiversAreInside ==
  job.kind \in {"join", "offer"} /\ told # {} =>
    \/ {job.user} \cup told \subseteq Members(job.trans)
    \/ \E u \in ({job.user} \cup told) \ {""} : ~Connected(u)

\* Once an administrator has ended a transmission, no session of it is left in
\* memory, nor a row of it in the table, even one that failed to be ended
\* earlier, unless the statements that end the rows fail again.
NothingIsLeft ==
  job.at = "done" /\ job.kind = "admin" =>
    /\ Members(job.trans) = {}
    /\ unended \/ \A g \in Users : <<job.trans, g>> \notin dbRows
=============================================================================
