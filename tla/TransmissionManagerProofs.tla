--------------------- MODULE TransmissionManagerProofs ---------------------
(* The invariants of TransmissionManager, proved for every set of devices  *)
(* and handles.  IInv is their conjunction and is inductive as it stands:  *)
(* SessionRowsMirrorGuests needs TransmissionsWellFormed (the row names    *)
(* the host that the guest list hangs under), and ConnectedIsRoutable      *)
(* needs only the types.  One lemma per operation, one step per conjunct.  *)
EXTENDS TransmissionManager, TLAPS

USE ConstantsAssumption DEF TransmissionsInv, Ids

LEMMA InitEstablishes == Init => IInv
  BY DEF Init, IInv, TypeOK, Ages, TransmissionsWellFormed, IsTransmissionExist,
     SessionRowsMirrorGuests, WatchdogCoversSessions, ConnectedIsRoutable,
     HasUserConnection

LEMMA UnchangedPreserves == IInv /\ UNCHANGED vars => IInv'
  BY DEF vars, IInv, TypeOK, TransmissionsWellFormed, IsTransmissionExist,
     SessionRowsMirrorGuests, WatchdogCoversSessions, ConnectedIsRoutable,
     HasUserConnection

\* The three parts that speak of connections do not see the transmissions.
LEMMA ConnectionsUntouched ==
  ASSUME WatchdogCoversSessions, ConnectedIsRoutable,
         UNCHANGED <<wsHdl, wsUser, lastActive>>
  PROVE  WatchdogCoversSessions' /\ ConnectedIsRoutable'
  BY DEF WatchdogCoversSessions, ConnectedIsRoutable, HasUserConnection

\* Nor do the parts that speak of transmissions see the connections.
LEMMA TransmissionsUntouched ==
  ASSUME TransmissionsWellFormed, SessionRowsMirrorGuests,
         UNCHANGED <<host, guests, row>>
  PROVE  TransmissionsWellFormed' /\ SessionRowsMirrorGuests'
  BY DEF TransmissionsWellFormed, SessionRowsMirrorGuests, IsTransmissionExist

LEMMA BindUserPreserves ==
  ASSUME IInv, NEW u \in Users, NEW h \in Handles, BindUserToWsHandle(u, h)
  PROVE  IInv'
<1> USE DEF BindUserToWsHandle
<1>1. TypeOK'
  BY DEF IInv, TypeOK, Ages
<1>2. TransmissionsWellFormed' /\ SessionRowsMirrorGuests'
  BY TransmissionsUntouched DEF IInv
<1>3. WatchdogCoversSessions'
  BY DEF IInv, TypeOK, WatchdogCoversSessions
<1>4. ConnectedIsRoutable'
  BY DEF IInv, TypeOK, ConnectedIsRoutable, HasUserConnection
<1>5. QED
  BY <1>1, <1>2, <1>3, <1>4 DEF IInv

LEMMA BindHostPreserves ==
  ASSUME IInv, NEW u \in Users, BindHostToTransmission(u)
  PROVE  IInv'
<1> USE DEF BindHostToTransmission, IsTransmissionExist
<1>1. TypeOK'
  BY DEF IInv, TypeOK
<1>2. TransmissionsWellFormed'
  BY DEF IInv, TypeOK, TransmissionsWellFormed
<1>3. SessionRowsMirrorGuests'
  BY DEF IInv, TypeOK, TransmissionsWellFormed, SessionRowsMirrorGuests
<1>4. WatchdogCoversSessions' /\ ConnectedIsRoutable'
  BY ConnectionsUntouched DEF IInv
<1>5. QED
  BY <1>1, <1>2, <1>3, <1>4 DEF IInv

LEMMA BindGuestPreserves ==
  ASSUME IInv, NEW g \in Ids, NEW t \in Users, BindGuestToTransmission(g, t)
  PROVE  IInv'
<1>1. CASE ~(IsTransmissionExist(t) /\ host[t] # g /\ g \notin guests[t])
  BY <1>1, UnchangedPreserves DEF BindGuestToTransmission
<1>2. CASE IsTransmissionExist(t) /\ host[t] # g /\ g \notin guests[t]
  <2> USE DEF BindGuestToTransmission, StartSession, IsTransmissionExist
  <2>1. ASSUME g # NoUser PROVE row' = [row EXCEPT ![t] = [row[t] EXCEPT ![g] = host[t]]]
    <3>1. row[t][g] = NoUser
      BY <1>2, <2>1 DEF IInv, SessionRowsMirrorGuests
    <3>2. QED
      BY <1>2, <2>1, <3>1 DEF IInv, TypeOK
  <2>2. ASSUME g = NoUser PROVE row' = row
    BY <1>2, <2>2
  <2>3. TypeOK'
    <3>1. guests' \in [Users -> SUBSET Ids]
      BY <1>2 DEF IInv, TypeOK
    <3>2. row' \in [Users -> [Users -> Users \cup {NoUser}]]
      <4>1. CASE g # NoUser
        <5>1. [row[t] EXCEPT ![g] = host[t]] \in [Users -> Users \cup {NoUser}]
          BY <4>1 DEF IInv, TypeOK
        <5>2. row \in [Users -> [Users -> Users \cup {NoUser}]]
          BY DEF IInv, TypeOK
        <5>3. QED
          BY <2>1, <4>1, <5>1, <5>2
      <4>2. CASE g = NoUser
        BY <2>2, <4>2 DEF IInv, TypeOK
      <4>3. QED
        BY <4>1, <4>2
    <3>3. QED
      BY <1>2, <3>1, <3>2 DEF IInv, TypeOK
  <2>4. TransmissionsWellFormed'
    BY <1>2 DEF IInv, TypeOK, TransmissionsWellFormed
  <2>5. SessionRowsMirrorGuests'
    <3>1. \A x, y \in Users :
            row'[x][y] = IF x = t /\ y = g THEN host[t] ELSE row[x][y]
      BY <2>1, <2>2 DEF IInv, TypeOK
    <3>2. \A x, y \in Users :
            y \in guests'[x] <=> y \in guests[x] \/ (x = t /\ y = g)
      BY <1>2 DEF IInv, TypeOK
    <3>3. QED
      BY <1>2, <3>1, <3>2 DEF IInv, SessionRowsMirrorGuests
  <2>6. WatchdogCoversSessions' /\ ConnectedIsRoutable'
    BY <1>2, ConnectionsUntouched DEF IInv
  <2>7. QED
    BY <2>3, <2>4, <2>5, <2>6 DEF IInv
<1>3. QED
  BY <1>1, <1>2

\* What the four releasing operations have in common: some (transmission,
\* guest) pairs end, with their rows, and some transmissions go, with all
\* their guests.
LEMMA EndingPreserves ==
  ASSUME IInv,
         NEW gone \in SUBSET Users, NEW ended \in SUBSET (Users \X Ids),
         EndSessions(ended),
         guests' \in [Users -> SUBSET Ids],
         \A t \in Users, g \in Ids :
           g \in guests'[t] <=> g \in guests[t] /\ <<t, g>> \notin ended,
         host' \in [Users -> Users \cup {NoUser}],
         \A t \in Users : host'[t] = IF t \in gone THEN NoUser ELSE host[t],
         \A t \in gone : \A g \in guests[t] : <<t, g>> \in ended
  PROVE  /\ row' \in [Users -> [Users -> Users \cup {NoUser}]]
         /\ TransmissionsWellFormed'
         /\ SessionRowsMirrorGuests'
<1>1. row' \in [Users -> [Users -> Users \cup {NoUser}]]
  BY DEF EndSessions, IInv, TypeOK
<1>2. TransmissionsWellFormed'
  <2> SUFFICES ASSUME NEW t \in Users
               PROVE  /\ host'[t] \in {t, NoUser}
                      /\ host'[t] \notin guests'[t]
                      /\ guests'[t] # {} => host'[t] # NoUser
    BY DEF TransmissionsWellFormed, IsTransmissionExist
  <2>1. guests'[t] \in SUBSET Ids /\ guests'[t] \subseteq guests[t]
    OBVIOUS
  <2>2. CASE t \in gone
    BY <2>1, <2>2
  <2>3. CASE t \notin gone
    BY <2>1, <2>3 DEF IInv, TransmissionsWellFormed, IsTransmissionExist
  <2>4. QED
    BY <2>2, <2>3
<1>3. SessionRowsMirrorGuests'
  <2> SUFFICES ASSUME NEW t \in Users, NEW g \in Users
               PROVE  row'[t][g] = IF g \in guests'[t] THEN host'[t] ELSE NoUser
    BY DEF SessionRowsMirrorGuests
  <2>1. row'[t][g] = IF <<t, g>> \in ended THEN NoUser ELSE row[t][g]
    BY DEF EndSessions
  <2>2. row[t][g] = IF g \in guests[t] THEN host[t] ELSE NoUser
    BY DEF IInv, SessionRowsMirrorGuests
  <2>3. CASE t \in gone
    BY <2>1, <2>2, <2>3
  <2>4. CASE t \notin gone
    BY <2>1, <2>2, <2>4
  <2>5. QED
    BY <2>3, <2>4
<1>4. QED
  BY <1>1, <1>2, <1>3

LEMMA ReleaseTransmissionPreserves ==
  ASSUME IInv, NEW t \in Users, ReleaseTransmission(t)
  PROVE  IInv'
<1> DEFINE ended == {t} \X guests[t]
<1>1. ended \in SUBSET (Users \X Ids)
  BY DEF IInv, TypeOK
<1>2. /\ guests' \in [Users -> SUBSET Ids]
      /\ \A x \in Users, g \in Ids : g \in guests'[x] <=> g \in guests[x] /\ <<x, g>> \notin ended
  BY DEF ReleaseTransmission, IInv, TypeOK
<1>3. /\ host' \in [Users -> Users \cup {NoUser}]
      /\ \A x \in Users : host'[x] = IF x \in {t} THEN NoUser ELSE host[x]
  BY DEF ReleaseTransmission, IInv, TypeOK
<1>4. EndSessions(ended)
  BY DEF ReleaseTransmission
<1>5. \A x \in {t} : \A g \in guests[x] : <<x, g>> \in ended
  OBVIOUS
<1> HIDE DEF ended
<1>6. /\ row' \in [Users -> [Users -> Users \cup {NoUser}]]
      /\ TransmissionsWellFormed'
      /\ SessionRowsMirrorGuests'
  <2>1. {t} \in SUBSET Users
    OBVIOUS
  <2>2. QED
    BY <2>1, <1>1, <1>2, <1>3, <1>4, <1>5, EndingPreserves
<1>7. WatchdogCoversSessions' /\ ConnectedIsRoutable'
  BY ConnectionsUntouched DEF IInv, ReleaseTransmission
<1>8. QED
  BY <1>2, <1>3, <1>6, <1>7 DEF IInv, TypeOK, ReleaseTransmission

LEMMA DisconnectPreserves ==
  ASSUME IInv, NEW t \in Users, DisconnectTransmission(t)
  PROVE  IInv'
  BY ReleaseTransmissionPreserves, UnchangedPreserves DEF DisconnectTransmission

LEMMA ReleaseGuestPreserves ==
  ASSUME IInv, NEW g \in Ids, ReleaseGuestFromTransmission(g)
  PROVE  IInv'
<1> DEFINE ended == {t \in Users : g \in guests[t]} \X {g}
<1>1. ended \in SUBSET (Users \X Ids)
  OBVIOUS
<1>2. /\ guests' \in [Users -> SUBSET Ids]
      /\ \A x \in Users, y \in Ids :
           y \in guests'[x] <=> y \in guests[x] /\ <<x, y>> \notin ended
  BY DEF ReleaseGuestFromTransmission, IInv, TypeOK
<1>3. /\ host' \in [Users -> Users \cup {NoUser}]
      /\ \A x \in Users : host'[x] = IF x \in {} THEN NoUser ELSE host[x]
  BY DEF ReleaseGuestFromTransmission, IInv, TypeOK
<1>4. EndSessions(ended)
  BY DEF ReleaseGuestFromTransmission
<1> HIDE DEF ended
<1>5. /\ row' \in [Users -> [Users -> Users \cup {NoUser}]]
      /\ TransmissionsWellFormed'
      /\ SessionRowsMirrorGuests'
  <2>1. {} \in SUBSET Users /\ \A x \in {} : \A y \in guests[x] : <<x, y>> \in ended
    OBVIOUS
  <2>2. QED
    BY <2>1, <1>1, <1>2, <1>3, <1>4, EndingPreserves
<1>6. WatchdogCoversSessions' /\ ConnectedIsRoutable'
  BY ConnectionsUntouched DEF IInv, ReleaseGuestFromTransmission
<1>7. QED
  BY <1>2, <1>3, <1>5, <1>6 DEF IInv, TypeOK, ReleaseGuestFromTransmission

LEMMA PrunePreserves ==
  ASSUME IInv, PruneDisconnectedTransmissions
  PROVE  IInv'
<1> DEFINE gone  == {t \in Users : IsTransmissionExist(t) /\ ~HasUserConnection(host[t])}
           ended == {p \in Users \X Ids :
                       /\ p[2] \in guests[p[1]]
                       /\ p[1] \in gone \/ ~HasUserConnection(p[2])}
<1>1. gone \in SUBSET Users /\ ended \in SUBSET (Users \X Ids)
  OBVIOUS
<1>2. /\ EndSessions(ended)
      /\ guests' = [t \in Users |-> {g \in guests[t] : <<t, g>> \notin ended}]
      /\ host' = [t \in Users |-> IF t \in gone THEN NoUser ELSE host[t]]
      /\ UNCHANGED <<wsHdl, wsUser, lastActive>>
  BY DEF PruneDisconnectedTransmissions
<1>3. \A t \in gone : \A g \in guests[t] : <<t, g>> \in ended
  BY DEF IInv, TypeOK
<1> HIDE DEF gone, ended
<1>4. /\ guests' \in [Users -> SUBSET Ids]
      /\ \A t \in Users, g \in Ids :
           g \in guests'[t] <=> g \in guests[t] /\ <<t, g>> \notin ended
  BY <1>2 DEF IInv, TypeOK
<1>5. /\ host' \in [Users -> Users \cup {NoUser}]
      /\ \A t \in Users : host'[t] = IF t \in gone THEN NoUser ELSE host[t]
  BY <1>2 DEF IInv, TypeOK
<1>6. /\ row' \in [Users -> [Users -> Users \cup {NoUser}]]
      /\ TransmissionsWellFormed'
      /\ SessionRowsMirrorGuests'
  BY <1>1, <1>2, <1>3, <1>4, <1>5, EndingPreserves
<1>7. WatchdogCoversSessions' /\ ConnectedIsRoutable'
  BY <1>2, ConnectionsUntouched DEF IInv
<1>8. QED
  BY <1>2, <1>4, <1>5, <1>6, <1>7 DEF IInv, TypeOK

\* Releasing a handle keeps the connection maps consistent: if it was its
\* user's routing entry, the entry moves to another of the user's handles.
LEMMA ReleaseHandlePreserves ==
  ASSUME IInv, NEW h \in Handles, ReleaseUserFromWsHandle(h)
  PROVE  /\ wsHdl' \in [Users -> Handles \cup {NoHandle}]
         /\ wsUser' \in [Handles -> Users \cup {NoUser}]
         /\ lastActive' \in [Handles -> Ages]
         /\ WatchdogCoversSessions'
         /\ ConnectedIsRoutable'
<1>1. /\ wsUser' \in [Handles -> Users \cup {NoUser}]
      /\ lastActive' \in [Handles -> Ages]
      /\ WatchdogCoversSessions'
  BY DEF ReleaseUserFromWsHandle, WatchdogCoversSessions, IInv, TypeOK, Ages
<1>2. CASE wsUser[h] # NoUser /\ wsHdl[wsUser[h]] = h
  <2>1. PICK k \in IF OtherHandles(h) = {} THEN {NoHandle} ELSE OtherHandles(h) :
          wsHdl' = [wsHdl EXCEPT ![wsUser[h]] = k]
    BY <1>2 DEF ReleaseUserFromWsHandle
  <2>2. k \in Handles \cup {NoHandle}
    BY DEF OtherHandles
  <2>3. wsHdl' \in [Users -> Handles \cup {NoHandle}]
    BY <2>1, <2>2 DEF IInv, TypeOK
  <2>4. wsUser' = [wsUser EXCEPT ![h] = NoUser]
    BY DEF ReleaseUserFromWsHandle
  <2>5. CASE OtherHandles(h) = {}
    <3>1. ASSUME NEW u \in Users, u = wsUser[h]
          PROVE  ~HasUserConnection(u)'
      BY <2>4, <2>5, <3>1, <1>2 DEF HasUserConnection, OtherHandles, IInv, TypeOK
    <3>2. \A u \in Users : u # wsUser[h] =>
            wsHdl'[u] = wsHdl[u] /\ (HasUserConnection(u)' => HasUserConnection(u))
      BY <2>1, <2>4, <1>2 DEF HasUserConnection, IInv, TypeOK
    <3>3. k = NoHandle
      BY <2>5
    <3>4. \A u \in Users : ~Reidentify /\ u # wsUser[h] /\ wsHdl[u] # NoHandle =>
            wsHdl[u] # h
      BY DEF IInv, ConnectedIsRoutable
    <3>5. ASSUME NEW u \in Users
          PROVE  /\ HasUserConnection(u)' => wsHdl'[u] # NoHandle
                 /\ ~Reidentify /\ wsHdl'[u] # NoHandle => wsUser'[wsHdl'[u]] = u
      <4>1. CASE u = wsUser[h]
        <5>1. wsHdl'[u] = NoHandle
          BY <2>1, <3>3, <4>1 DEF IInv, TypeOK
        <5>2. QED
          BY <3>1, <4>1, <5>1
      <4>2. CASE u # wsUser[h]
        <5>1. HasUserConnection(u) => wsHdl[u] # NoHandle
          BY DEF IInv, ConnectedIsRoutable
        <5>2. ASSUME ~Reidentify, wsHdl[u] # NoHandle
              PROVE  wsUser'[wsHdl[u]] = u
          BY <2>4, <3>4, <4>2, <5>2 DEF IInv, TypeOK, ConnectedIsRoutable
        <5>3. QED
          BY <3>2, <4>2, <5>1, <5>2
      <4>3. QED
        BY <4>1, <4>2
    <3>6. ConnectedIsRoutable'
      BY <3>5 DEF ConnectedIsRoutable, HasUserConnection
    <3>7. QED
      BY <1>1, <2>3, <3>6
  <2>6. CASE OtherHandles(h) # {}
    <3>1. k \in Handles /\ k # h /\ wsUser[k] = wsUser[h]
      BY <2>6 DEF OtherHandles
    <3>2. ConnectedIsRoutable'
      BY <1>2, <2>1, <2>4, <3>1 DEF ConnectedIsRoutable, IInv, TypeOK, HasUserConnection
    <3>3. QED
      BY <1>1, <2>3, <3>2
  <2>7. QED
    BY <2>5, <2>6
<1>3. CASE ~(wsUser[h] # NoUser /\ wsHdl[wsUser[h]] = h)
  <2>1. wsHdl' = wsHdl /\ wsUser' = [wsUser EXCEPT ![h] = NoUser]
    BY <1>3 DEF ReleaseUserFromWsHandle
  <2>2. ConnectedIsRoutable'
    BY <1>3, <2>1 DEF ConnectedIsRoutable, IInv, TypeOK, HasUserConnection
  <2>3. QED
    BY <1>1, <2>1, <2>2 DEF IInv, TypeOK
<1>4. QED
  BY <1>2, <1>3

LEMMA ReleaseSessionPreserves ==
  ASSUME IInv, NEW h \in Handles, ReleaseUserSession(h)
  PROVE  IInv'
<1>1. ReleaseUserFromWsHandle(h)
  BY DEF ReleaseUserSession
<1>2. /\ wsHdl' \in [Users -> Handles \cup {NoHandle}]
      /\ wsUser' \in [Handles -> Users \cup {NoUser}]
      /\ lastActive' \in [Handles -> Ages]
      /\ WatchdogCoversSessions'
      /\ ConnectedIsRoutable'
  BY <1>1, ReleaseHandlePreserves
<1>3. CASE ~IsFinalSession(h)
  <2>1. UNCHANGED <<host, guests, row>>
    BY <1>3 DEF ReleaseUserSession
  <2>2. QED
    BY <1>2, <2>1, TransmissionsUntouched DEF IInv, TypeOK
<1>4. CASE IsFinalSession(h)
  <2> DEFINE u == wsUser[h]
  <2>1. PICK own \in FirstHosted(u) :
          /\ EndSessions({p \in Users \X Ids :
               p[2] \in guests[p[1]] /\ (p[2] = u \/ p[1] = own)})
          /\ guests' = [t \in Users |-> IF t = own THEN {} ELSE guests[t] \ {u}]
          /\ host' = [t \in Users |-> IF t = own THEN NoUser ELSE host[t]]
    BY <1>4 DEF ReleaseUserSession
  <2> DEFINE gone  == {t \in Users : t = own}
             ended == {p \in Users \X Ids :
                         p[2] \in guests[p[1]] /\ (p[2] = u \/ p[1] = own)}
  <2>2. gone \in SUBSET Users /\ ended \in SUBSET (Users \X Ids)
    OBVIOUS
  <2>3. EndSessions(ended)
    BY <2>1
  <2>4. /\ guests' \in [Users -> SUBSET Ids]
        /\ \A t \in Users, g \in Ids :
             g \in guests'[t] <=> g \in guests[t] /\ <<t, g>> \notin ended
    BY <2>1 DEF IInv, TypeOK
  <2>5. /\ host' \in [Users -> Users \cup {NoUser}]
        /\ \A t \in Users : host'[t] = IF t \in gone THEN NoUser ELSE host[t]
    BY <2>1 DEF IInv, TypeOK
  <2>6. \A t \in gone : \A g \in guests[t] : <<t, g>> \in ended
    BY DEF IInv, TypeOK
  <2> HIDE DEF gone, ended, u
  <2>7. /\ row' \in [Users -> [Users -> Users \cup {NoUser}]]
        /\ TransmissionsWellFormed'
        /\ SessionRowsMirrorGuests'
    BY <2>2, <2>3, <2>4, <2>5, <2>6, EndingPreserves
  <2>8. QED
    BY <1>2, <2>4, <2>5, <2>7 DEF IInv, TypeOK
<1>5. QED
  BY <1>3, <1>4

LEMMA HeartbeatPreserves ==
  ASSUME IInv, NEW h \in Handles,
         \/ RemoveWsHandleLastActiveTime(h)
         \/ UpdateWsHandleLastActiveTime(h)
         \/ BecomeIdle(h)
  PROVE  IInv'
<1>1. UNCHANGED <<host, guests, wsHdl, wsUser, row>>
  BY DEF RemoveWsHandleLastActiveTime, UpdateWsHandleLastActiveTime, BecomeIdle
<1>2. lastActive' \in [Handles -> Ages] /\ WatchdogCoversSessions'
  BY DEF RemoveWsHandleLastActiveTime, UpdateWsHandleLastActiveTime, BecomeIdle,
     IInv, TypeOK, WatchdogCoversSessions, Ages
<1>3. TransmissionsWellFormed' /\ SessionRowsMirrorGuests'
  BY <1>1, TransmissionsUntouched DEF IInv
<1>4. ConnectedIsRoutable'
  BY <1>1 DEF IInv, ConnectedIsRoutable, HasUserConnection
<1>5. QED
  BY <1>1, <1>2, <1>3, <1>4 DEF IInv, TypeOK

\* After a restart the transmissions are rebuilt from the rows alone, and the
\* rows are those of the guest lists that the dead process held.
LEMMA RestartPreserves ==
  ASSUME IInv, NEW recovered \in BOOLEAN, Restart(recovered)
  PROVE  IInv'
<1>1. /\ wsHdl' = [u \in Users |-> NoHandle]
      /\ wsUser' = [h \in Handles |-> NoUser]
      /\ lastActive' = [h \in Handles |-> "none"]
  BY DEF Restart
<1>2. \A t, g \in Users : row'[t][g] # NoUser => row'[t][g] = t /\ g # t
  BY DEF Restart, IInv, TypeOK, SessionRowsMirrorGuests, TransmissionsWellFormed,
     IsTransmissionExist
<1>3. row' \in [Users -> [Users -> Users \cup {NoUser}]]
  BY DEF Restart, IInv, TypeOK
<1>4. guests' = [t \in Users |-> {g \in Users : row'[t][g] # NoUser}]
  BY DEF Restart
<1>5. host' = [t \in Users |->
        IF \E g \in Users : row'[t][g] # NoUser
          THEN row'[t][CHOOSE g \in Users : row'[t][g] # NoUser] ELSE NoUser]
  BY DEF Restart
<1>6. \A t \in Users : host'[t] = IF guests'[t] = {} THEN NoUser ELSE t
  <2> SUFFICES ASSUME NEW t \in Users
               PROVE  host'[t] = IF guests'[t] = {} THEN NoUser ELSE t
    OBVIOUS
  <2>1. CASE \E g \in Users : row'[t][g] # NoUser
    <3> DEFINE w == CHOOSE g \in Users : row'[t][g] # NoUser
    <3>1. w \in Users /\ row'[t][w] # NoUser
      BY <2>1
    <3>2. host'[t] = row'[t][w]
      BY <1>5, <2>1
    <3> HIDE DEF w
    <3>3. QED
      BY <1>2, <1>4, <3>1, <3>2
  <2>2. CASE ~\E g \in Users : row'[t][g] # NoUser
    BY <1>4, <1>5, <2>2
  <2>3. QED
    BY <2>1, <2>2
<1>7. host' \in [Users -> Users \cup {NoUser}] /\ guests' \in [Users -> SUBSET Ids]
  <2>1. host' = [t \in Users |-> host'[t]]
    BY <1>5
  <2>2. QED
    BY <1>4, <1>6, <2>1
<1>8. TypeOK'
  BY <1>1, <1>3, <1>7 DEF TypeOK, Ages
<1>9. TransmissionsWellFormed'
  BY <1>2, <1>4, <1>6 DEF TransmissionsWellFormed, IsTransmissionExist
<1>10. SessionRowsMirrorGuests'
  BY <1>2, <1>4, <1>6 DEF SessionRowsMirrorGuests
<1>11. WatchdogCoversSessions' /\ ConnectedIsRoutable'
  BY <1>1 DEF WatchdogCoversSessions, ConnectedIsRoutable, HasUserConnection
<1>12. QED
  BY <1>8, <1>9, <1>10, <1>11 DEF IInv

LEMMA NextPreserves == IInv /\ [Next]_vars => IInv'
<1> SUFFICES ASSUME IInv, [Next]_vars PROVE IInv'
  OBVIOUS
<1>1. ASSUME NEW u \in Users, NEW h \in Handles, BindUserToWsHandle(u, h) PROVE IInv'
  BY <1>1, BindUserPreserves
<1>2. ASSUME NEW u \in Users, BindHostToTransmission(u) PROVE IInv'
  BY <1>2, BindHostPreserves
<1>3. ASSUME NEW g \in Ids, NEW t \in Users, BindGuestToTransmission(g, t) PROVE IInv'
  BY <1>3, BindGuestPreserves
<1>4. ASSUME NEW t \in Users, ReleaseTransmission(t) \/ DisconnectTransmission(t)
      PROVE  IInv'
  BY <1>4, ReleaseTransmissionPreserves, DisconnectPreserves
<1>5. ASSUME NEW g \in Ids, ReleaseGuestFromTransmission(g) PROVE IInv'
  BY <1>5, ReleaseGuestPreserves
<1>6. ASSUME PruneDisconnectedTransmissions PROVE IInv'
  BY <1>6, PrunePreserves
<1>7. ASSUME NEW h \in Handles, ReleaseUserSession(h) \/ ExpireInactiveSession(h)
      PROVE  IInv'
  BY <1>7, ReleaseSessionPreserves DEF ExpireInactiveSession
<1>8. ASSUME NEW h \in Handles,
             \/ RemoveWsHandleLastActiveTime(h)
             \/ UpdateWsHandleLastActiveTime(h)
             \/ BecomeIdle(h)
      PROVE  IInv'
  BY <1>8, HeartbeatPreserves
<1>9. ASSUME NEW recovered \in BOOLEAN, Restart(recovered) PROVE IInv'
  BY <1>9, RestartPreserves
<1>10. CASE UNCHANGED vars
  BY <1>10, UnchangedPreserves
<1>11. QED
  BY <1>1, <1>2, <1>3, <1>4, <1>5, <1>6, <1>7, <1>8, <1>9, <1>10 DEF Next

\* All the invariants together, after any sequence of calls and restarts.
THEOREM Invariance == Spec => []IInv
  BY InitEstablishes, NextPreserves, PTL DEF Spec

\* Every variable keeps its type.
THEOREM TypeCorrect == Spec => []TypeOK
<1>1. IInv => TypeOK
  BY DEF IInv
<1>2. QED
  BY <1>1, Invariance, PTL

\* No guest list outlives its transmission, and no host is its own guest
\* (ReleaseTransmission, BindGuestToTransmission); the maps keep their types.
THEOREM TransmissionsStayWellFormed == Spec => []TransmissionsInv
<1>1. IInv => TransmissionsInv
  BY DEF IInv
<1>2. QED
  BY <1>1, Invariance, PTL

\* The rows of remote_control_sessions are the guests with an id in memory, whatever
\* is joined, left, pruned, disconnected, timed out or restarted.
THEOREM RowsMirrorGuests == Spec => []SessionRowsMirrorGuests
<1>1. IInv => SessionRowsMirrorGuests
  BY DEF IInv
<1>2. QED
  BY <1>1, Invariance, PTL

\* The alive checker watches the authenticated handles and no others.
THEOREM WatchdogIsExact == Spec => []WatchdogCoversSessions
<1>1. IInv => WatchdogCoversSessions
  BY DEF IInv
<1>2. QED
  BY <1>1, Invariance, PTL

\* GetWsHandle finds a handle for every connected device, and its own handle
\* as long as connections keep their identity.
THEOREM ConnectedStaysRoutable == Spec => []ConnectedIsRoutable
<1>1. IInv => ConnectedIsRoutable
  BY DEF IInv
<1>2. QED
  BY <1>1, Invariance, PTL

-----------------------------------------------------------------------------
(* The action properties, from the invariant.                              *)

LEMMA FinalReleaseStep ==
  ASSUME IInv, ~Reidentify, [Next]_vars, \A b \in BOOLEAN : ~Restart(b),
         NEW u \in Users, HasUserConnection(u), ~HasUserConnection(u)',
         NEW t \in Users
  PROVE  ~Participates(u, t)'
<1>1. ASSUME UNCHANGED wsUser PROVE FALSE
  BY <1>1 DEF HasUserConnection
<1>2. ASSUME NEW v \in Users, NEW h \in Handles, BindUserToWsHandle(v, h) PROVE FALSE
  BY <1>2 DEF BindUserToWsHandle, HasUserConnection, IInv, TypeOK
<1>3. ASSUME NEW h \in Handles, ReleaseUserSession(h) PROVE ~Participates(u, t)'
  <2>1. wsUser' = [wsUser EXCEPT ![h] = NoUser]
    BY <1>3 DEF ReleaseUserSession, ReleaseUserFromWsHandle
  <2>2. wsUser[h] = u /\ OtherHandles(h) = {}
    <3>1. PICK k \in Handles : wsUser[k] = u
      BY DEF HasUserConnection
    <3>2. ASSUME NEW j \in Handles PROVE wsUser'[j] # u
      BY DEF HasUserConnection
    <3>3. ASSUME NEW j \in Handles, j # h PROVE wsUser[j] # u
      BY <2>1, <3>2, <3>3 DEF IInv, TypeOK
    <3>4. k = h
      BY <3>1, <3>3
    <3>5. QED
      BY <3>1, <3>3, <3>4 DEF OtherHandles
  <2>3. IsFinalSession(h)
    BY <2>2, ConstantsAssumption DEF IsFinalSession
  <2>4. PICK own \in FirstHosted(wsUser[h]) :
          /\ guests' = [x \in Users |-> IF x = own THEN {} ELSE guests[x] \ {wsUser[h]}]
          /\ host' = [x \in Users |-> IF x = own THEN NoUser ELSE host[x]]
    BY <1>3, <2>3 DEF ReleaseUserSession
  <2>5. u \notin guests'[t]
    BY <2>2, <2>4
  <2>6. host'[t] # u
    <3>1. CASE host[t] = u
      <4>1. t = u
        BY <3>1, ConstantsAssumption DEF IInv, TransmissionsWellFormed
      <4>2. own = u
        BY <2>2, <3>1, <4>1, <2>4, ConstantsAssumption
           DEF FirstHosted, IInv, TransmissionsWellFormed
      <4>3. QED
        BY <2>4, <4>1, <4>2, ConstantsAssumption
    <3>2. CASE host[t] # u
      BY <2>4, <3>2, ConstantsAssumption
    <3>3. QED
      BY <3>1, <3>2
  <2>7. QED
    BY <2>5, <2>6 DEF Participates
<1>4. QED
  BY <1>1, <1>2, <1>3 DEF Next, vars, BindHostToTransmission,
     BindGuestToTransmission, ReleaseTransmission, DisconnectTransmission,
     ReleaseGuestFromTransmission, PruneDisconnectedTransmissions,
     ExpireInactiveSession, RemoveWsHandleLastActiveTime,
     UpdateWsHandleLastActiveTime, BecomeIdle

\* As long as connections keep their identity, closing or expiring the last
\* connection of a device takes it out of every transmission.
THEOREM FinalReleaseIsComplete ==
  ASSUME ~Reidentify
  PROVE  Spec => FinalReleaseLeavesNothing
<1>1. IInv /\ [Next]_vars =>
        [(\A b \in BOOLEAN : ~Restart(b)) =>
           \A u \in Users :
             HasUserConnection(u) /\ ~HasUserConnection(u)' =>
               \A t \in Users : ~Participates(u, t)']_vars
  BY FinalReleaseStep
<1>2. QED
  BY <1>1, Invariance, PTL DEF Spec, FinalReleaseLeavesNothing

LEMMA DuplicateCloseStep ==
  ASSUME IInv, [Next]_vars, wsUser' # wsUser,
         NEW u \in Users, HasUserConnection(u), HasUserConnection(u)'
  PROVE  host'[u] = host[u]
<1>1. ASSUME NEW v \in Users, NEW h \in Handles, BindUserToWsHandle(v, h)
      PROVE  host'[u] = host[u]
  BY <1>1 DEF BindUserToWsHandle
<1>2. ASSUME NEW h \in Handles, ReleaseUserSession(h)
      PROVE  host'[u] = host[u]
  <2>1. CASE ~IsFinalSession(h)
    BY <1>2, <2>1 DEF ReleaseUserSession
  <2>2. CASE IsFinalSession(h)
    <3>1. wsUser[h] # u
      <4>1. PICK k \in Handles : wsUser'[k] = u
        BY DEF HasUserConnection
      <4>2. wsUser' = [wsUser EXCEPT ![h] = NoUser]
        BY <1>2 DEF ReleaseUserSession, ReleaseUserFromWsHandle
      <4>3. k # h /\ wsUser[k] = u
        BY <4>1, <4>2, ConstantsAssumption DEF IInv, TypeOK
      <4>4. QED
        BY <2>2, <4>3 DEF IsFinalSession, OtherHandles
    <3>2. PICK own \in FirstHosted(wsUser[h]) :
            host' = [x \in Users |-> IF x = own THEN NoUser ELSE host[x]]
      BY <1>2, <2>2 DEF ReleaseUserSession
    <3>3. own # u
      BY <2>2, <3>1, ConstantsAssumption
         DEF IsFinalSession, FirstHosted, IInv, TransmissionsWellFormed
    <3>4. QED
      BY <3>2, <3>3
  <2>3. QED
    BY <2>1, <2>2
<1>3. ASSUME NEW recovered \in BOOLEAN, Restart(recovered) PROVE FALSE
  BY <1>3 DEF Restart, HasUserConnection
<1>4. QED
  BY <1>1, <1>2, <1>3 DEF Next, vars, BindHostToTransmission,
     BindGuestToTransmission, ReleaseTransmission, DisconnectTransmission,
     ReleaseGuestFromTransmission, PruneDisconnectedTransmissions,
     ExpireInactiveSession, RemoveWsHandleLastActiveTime,
     UpdateWsHandleLastActiveTime, BecomeIdle

\* A duplicate connection that comes or goes never ends the transmission of a
\* device that still has a connection.
THEOREM DuplicateCloseIsHarmless == Spec => DuplicateCloseKeepsHosting
<1>1. IInv /\ [Next]_vars =>
        [wsUser' # wsUser =>
           \A u \in Users :
             HasUserConnection(u) /\ HasUserConnection(u)' => host'[u] = host[u]]_vars
  BY DuplicateCloseStep
<1>2. QED
  BY <1>1, Invariance, PTL DEF Spec, DuplicateCloseKeepsHosting

-----------------------------------------------------------------------------
(* TransmissionManager implements ControlSessions: initial states map to   *)
(* initial states, and every step maps to a step of the promise or to none.*)
(* IInv is what makes the rows in the database a faithful picture of the   *)
(* guest lists in memory.                                                  *)

\* The mapped variables, as state functions.
Opened == {t \in Users : IsTransmissionExist(t)}
Controls == {p \in Users \X Users : row[p[1]][p[2]] # NoUser}

LEMMA ControlsAreGuests ==
  ASSUME IInv
  PROVE  /\ \A t \in Users : t \in Opened <=> host[t] # NoUser
         /\ \A t, g \in Users : <<t, g>> \in Controls <=> g \in guests[t]
         /\ \A t, g \in Users : <<t, g>> \in Controls => t \in Opened
  BY DEF IInv, SessionRowsMirrorGuests, TransmissionsWellFormed, IsTransmissionExist,
     Opened, Controls

LEMMA ControlsAreGuestsAfter ==
  ASSUME IInv'
  PROVE  /\ \A t \in Users : t \in Opened' <=> host'[t] # NoUser
         /\ \A t, g \in Users : <<t, g>> \in Controls' <=> g \in guests'[t]
         /\ \A t, g \in Users : <<t, g>> \in Controls' => t \in Opened'
  BY DEF IInv, SessionRowsMirrorGuests, TransmissionsWellFormed, IsTransmissionExist,
     Opened, Controls

LEMMA InitMaps == Init => CS!Init
  BY DEF Init, CS!Init, IsTransmissionExist

\* Two sets of pairs are equal when they hold the same pairs of devices.
LEMMA PairsEqual ==
  ASSUME NEW S \in SUBSET (Users \X Users), NEW T \in SUBSET (Users \X Users),
         \A t, g \in Users : <<t, g>> \in S <=> <<t, g>> \in T
  PROVE  S = T
  OBVIOUS

LEMMA FirstsOf ==
  ASSUME NEW S \in SUBSET (Users \X Users), NEW T \in SUBSET Users,
         \A t \in Users : t \in T <=> \E g \in Users : <<t, g>> \in S
  PROVE  T = {p[1] : p \in S}
<1>1. ASSUME NEW p \in S PROVE p[1] \in T
  <2>1. p = <<p[1], p[2]>> /\ p[1] \in Users /\ p[2] \in Users
    OBVIOUS
  <2>2. QED
    BY <2>1
<1>2. ASSUME NEW t \in T PROVE \E p \in S : p[1] = t
  OBVIOUS
<1>3. QED
  BY <1>1, <1>2

LEMMA BindUserMaps ==
  ASSUME ~Reidentify, NEW u \in Users, NEW h \in Handles, BindUserToWsHandle(u, h)
  PROVE  CS!Authenticate(u, h)
  BY DEF BindUserToWsHandle, CS!Authenticate, IsTransmissionExist

LEMMA BindHostMaps ==
  ASSUME IInv, NEW u \in Users, BindHostToTransmission(u)
  PROVE  CS!Open(u)
<1>1. Opened' = Opened \cup {u}
  BY ConstantsAssumption DEF BindHostToTransmission, IsTransmissionExist, Opened, IInv, TypeOK
<1>2. QED
  BY <1>1 DEF CS!Open, Opened, BindHostToTransmission

LEMMA BindGuestMaps ==
  ASSUME IInv, IInv', NEW g \in Ids, NEW t \in Users,
         BindGuestToTransmission(g, t)
  PROVE  (g \in Users /\ CS!Control(t, g)) \/ UNCHANGED CS!vars
<1>1. CASE ~(IsTransmissionExist(t) /\ host[t] # g /\ g \notin guests[t])
  BY <1>1 DEF BindGuestToTransmission, vars, CS!vars, IsTransmissionExist
<1>4. CASE IsTransmissionExist(t) /\ host[t] # g /\ g \notin guests[t] /\ g = NoUser
  BY <1>4 DEF BindGuestToTransmission, StartSession, CS!vars, IsTransmissionExist
<1>2. CASE IsTransmissionExist(t) /\ host[t] # g /\ g \notin guests[t] /\ g # NoUser
  <2>1. /\ guests' = [guests EXCEPT ![t] = guests[t] \cup {g}]
        /\ UNCHANGED <<host, wsUser>>
    BY <1>2 DEF BindGuestToTransmission
  <2>2. g # t /\ t \in Opened
    BY <1>2 DEF IInv, TransmissionsWellFormed, IsTransmissionExist, Opened
  <2>3. Controls' = Controls \cup {<<t, g>>}
    <3>1. \A x, y \in Users :
            <<x, y>> \in Controls' <=> <<x, y>> \in Controls \cup {<<t, g>>}
      <4>1. \A x, y \in Users : y \in guests'[x] <=> y \in guests[x] \/ (x = t /\ y = g)
        BY <2>1 DEF IInv, TypeOK
      <4>2. \A x, y \in Users :
              <<x, y>> \in Controls' <=> <<x, y>> \in Controls \/ (x = t /\ y = g)
        BY <4>1, ControlsAreGuests, ControlsAreGuestsAfter
      <4>3. QED
        BY <4>2
    <3>2. <<t, g>> \in Users \X Users
      BY <1>2
    <3>3. QED
      BY <3>1, <3>2, PairsEqual DEF Controls
  <2>4. QED
    BY <1>2, <2>1, <2>2, <2>3 DEF CS!Control, Opened, Controls, IsTransmissionExist
<1>3. QED
  BY <1>1, <1>2, <1>4

LEMMA ReleaseTransmissionMaps ==
  ASSUME IInv, IInv', NEW t \in Users, ReleaseTransmission(t)
  PROVE  CS!Shut(t)
<1>1. /\ guests' = [guests EXCEPT ![t] = {}]
      /\ host' = [host EXCEPT ![t] = NoUser]
      /\ UNCHANGED wsUser
  BY DEF ReleaseTransmission
<1>2. Opened' = Opened \ {t}
  BY <1>1 DEF Opened, IsTransmissionExist, IInv, TypeOK
<1>3. Controls' = {p \in Controls : p[1] # t}
  <2>1. \A x, y \in Users :
          <<x, y>> \in Controls' <=> <<x, y>> \in {p \in Controls : p[1] # t}
    <3>1. \A x, y \in Users : y \in guests'[x] <=> y \in guests[x] /\ x # t
      BY <1>1 DEF IInv, TypeOK
    <3>2. \A x, y \in Users : <<x, y>> \in Controls' <=> <<x, y>> \in Controls /\ x # t
      BY <3>1, ControlsAreGuests, ControlsAreGuestsAfter
    <3>3. QED
      BY <3>2
  <2>2. QED
    BY <2>1, PairsEqual DEF Controls
<1>4. QED
  BY <1>1, <1>2, <1>3 DEF CS!Shut, Opened, Controls

LEMMA ReleaseGuestMaps ==
  ASSUME IInv, IInv', NEW g \in Ids, ReleaseGuestFromTransmission(g)
  PROVE  (g \in Users /\ CS!Withdraw(g)) \/ UNCHANGED CS!vars
<1>1. /\ guests' = [t \in Users |-> guests[t] \ {g}]
      /\ UNCHANGED <<host, wsUser>>
  BY DEF ReleaseGuestFromTransmission
<1>2. Controls' = {p \in Controls : p[2] # g}
  <2>1. \A x, y \in Users :
          <<x, y>> \in Controls' <=> <<x, y>> \in {p \in Controls : p[2] # g}
    BY <1>1, ControlsAreGuests, ControlsAreGuestsAfter
  <2>2. QED
    BY <2>1, PairsEqual DEF Controls
<1>3. g = NoUser => Controls' = Controls
  BY <1>2 DEF Controls
<1>4. QED
  BY <1>1, <1>2, <1>3 DEF CS!Withdraw, CS!vars, Controls, IsTransmissionExist

LEMMA PruneMaps ==
  ASSUME IInv, IInv', PruneDisconnectedTransmissions
  PROVE  CS!DropAbsent
<1> DEFINE absent == {u \in Users : ~CS!Present(u)}
           gone == {t \in Users : IsTransmissionExist(t) /\ ~HasUserConnection(host[t])}
           ended == {p \in Users \X Ids :
                       /\ p[2] \in guests[p[1]]
                       /\ p[1] \in gone \/ ~HasUserConnection(p[2])}
<1>1. /\ guests' = [t \in Users |-> {g \in guests[t] : <<t, g>> \notin ended}]
      /\ host' = [t \in Users |-> IF t \in gone THEN NoUser ELSE host[t]]
      /\ UNCHANGED wsUser
  BY DEF PruneDisconnectedTransmissions
<1>2. \A u \in Users : u \in absent <=> ~HasUserConnection(u)
  BY DEF CS!Present, HasUserConnection
<1>3. \A t \in Users : t \in gone <=> t \in Opened /\ t \in absent
  BY <1>2 DEF Opened, IInv, TransmissionsWellFormed, IsTransmissionExist
<1>4. \A t, g \in Users :
        <<t, g>> \in ended <=> g \in guests[t] /\ (t \in gone \/ g \in absent)
  BY <1>2
<1> HIDE DEF absent, gone, ended
<1>5. \A t, g \in Users :
        g \in guests'[t] <=> g \in guests[t] /\ <<t, g>> \notin ended
  BY <1>1 DEF IInv, TypeOK
<1>6. \A t \in Users : host'[t] # NoUser <=> host[t] # NoUser /\ t \notin gone
  BY <1>1
<1>7. Opened' = Opened \ absent
  BY <1>3, <1>6 DEF Opened, IsTransmissionExist
<1>8. Controls' = {p \in Controls : p[1] \notin absent /\ p[2] \notin absent}
  <2>1. \A t, g \in Users :
          <<t, g>> \in Controls' <=>
            <<t, g>> \in {p \in Controls : p[1] \notin absent /\ p[2] \notin absent}
    BY <1>3, <1>4, <1>5, ControlsAreGuests, ControlsAreGuestsAfter
  <2>2. QED
    BY <2>1, PairsEqual DEF Controls
<1>9. QED
  BY <1>1, <1>7, <1>8 DEF CS!DropAbsent, CS!Without, Opened, Controls, absent

\* The devices whose last session ends in this step: the one of h, or none.
LEMMA GoneIsFinal ==
  ASSUME IInv, NEW h \in Handles, ReleaseUserFromWsHandle(h), NEW u \in Users
  PROVE  CS!Present(u) /\ ~CS!Present(u)' <=> wsUser[h] = u /\ IsFinalSession(h)
<1>1. wsUser' = [wsUser EXCEPT ![h] = NoUser]
  BY DEF ReleaseUserFromWsHandle
<1>2. wsUser'[h] = NoUser /\ \A j \in Handles : j # h => wsUser'[j] = wsUser[j]
  BY <1>1 DEF IInv, TypeOK
<1>3. u # NoUser
  BY ConstantsAssumption
<1>4. CASE wsUser[h] = u /\ IsFinalSession(h)
  BY <1>2, <1>3, <1>4 DEF CS!Present, IsFinalSession, OtherHandles
<1>5. CASE wsUser[h] = u /\ ~IsFinalSession(h)
  <2>1. PICK k \in Handles \ {h} : wsUser[k] = u
    BY <1>3, <1>5 DEF IsFinalSession, OtherHandles
  <2>2. wsUser'[k] = u
    BY <1>2, <2>1
  <2>3. QED
    BY <1>5, <2>1, <2>2 DEF CS!Present
<1>6. CASE wsUser[h] # u
  BY <1>2, <1>3, <1>6 DEF CS!Present
<1>7. QED
  BY <1>4, <1>5, <1>6

LEMMA ReleaseSessionMaps ==
  ASSUME IInv, IInv', NEW h \in Handles, ReleaseUserSession(h)
  PROVE  CS!EndSession(h)
<1> DEFINE gone == {u \in Users : CS!Present(u) /\ ~CS!Present(u)'}
<1>1. ReleaseUserFromWsHandle(h)
  BY DEF ReleaseUserSession
<1>2. \A u \in Users : u \in gone <=> wsUser[h] = u /\ IsFinalSession(h)
  BY <1>1, GoneIsFinal
<1>3. wsUser' = [wsUser EXCEPT ![h] = NoUser]
  BY <1>1 DEF ReleaseUserFromWsHandle
<1>4. Opened' = Opened \ gone /\ Controls' = {p \in Controls : p[1] \notin gone /\ p[2] \notin gone}
  <2>1. CASE ~IsFinalSession(h)
    <3>1. UNCHANGED <<host, row>>
      BY <2>1 DEF ReleaseUserSession
    <3>2. gone = {}
      BY <1>2, <2>1
    <3> HIDE DEF gone
    <3>3. QED
      BY <3>1, <3>2 DEF Opened, Controls, IsTransmissionExist
  <2>2. CASE IsFinalSession(h)
    <3>1. PICK own \in FirstHosted(wsUser[h]) :
            /\ guests' = [t \in Users |-> IF t = own THEN {} ELSE guests[t] \ {wsUser[h]}]
            /\ host' = [t \in Users |-> IF t = own THEN NoUser ELSE host[t]]
      BY <2>2 DEF ReleaseUserSession
    <3>2. wsUser[h] \in Users
      BY <2>2 DEF IsFinalSession, IInv, TypeOK
    <3>3. \A t \in Users : host[t] = wsUser[h] <=> t = wsUser[h] /\ host[t] # NoUser
      BY <3>2, ConstantsAssumption DEF IInv, TransmissionsWellFormed
    <3>4. own = wsUser[h] \/ (own = NoUser /\ host[wsUser[h]] = NoUser)
      BY <3>2, <3>3, ConstantsAssumption DEF FirstHosted, IInv, TransmissionsWellFormed
    <3>5. \A u \in Users : u \in gone <=> u = wsUser[h]
      BY <1>2, <2>2
    <3> HIDE DEF gone
    <3>6. \A t \in Users : host'[t] # NoUser <=> host[t] # NoUser /\ t \notin gone
      BY <3>1, <3>2, <3>4, <3>5, ConstantsAssumption
    <3>7. Opened' = Opened \ gone
      BY <3>6 DEF Opened, IsTransmissionExist
    <3>8. host[wsUser[h]] = NoUser => guests[wsUser[h]] = {}
      BY <3>2 DEF IInv, TransmissionsWellFormed, IsTransmissionExist
    <3>9. \A t, g \in Users :
            g \in guests'[t] <=> g \in guests[t] /\ t \notin gone /\ g \notin gone
      BY <3>1, <3>2, <3>4, <3>5, <3>8, ConstantsAssumption
    <3>10. \A t, g \in Users :
             <<t, g>> \in Controls' <=>
               <<t, g>> \in {p \in Controls : p[1] \notin gone /\ p[2] \notin gone}
      BY <3>9, ControlsAreGuests, ControlsAreGuestsAfter
    <3>11. Controls' = {p \in Controls : p[1] \notin gone /\ p[2] \notin gone}
      BY <3>10, PairsEqual DEF Controls
    <3>12. QED
      BY <3>7, <3>11
  <2>3. QED
    BY <2>1, <2>2
<1>5. QED
  BY <1>3, <1>4 DEF CS!EndSession, CS!Without, Opened, Controls

LEMMA HeartbeatMaps ==
  ASSUME NEW h \in Handles,
         \/ RemoveWsHandleLastActiveTime(h)
         \/ UpdateWsHandleLastActiveTime(h)
         \/ BecomeIdle(h)
  PROVE  UNCHANGED CS!vars
  BY DEF RemoveWsHandleLastActiveTime, UpdateWsHandleLastActiveTime, BecomeIdle,
     CS!vars, IsTransmissionExist

LEMMA RestartMaps ==
  ASSUME IInv, IInv', NEW recovered \in BOOLEAN, Restart(recovered)
  PROVE  CS!Outage(recovered)
<1>1. wsUser' = [h \in Handles |-> NoUser]
  BY DEF Restart
<1>2. row' = IF recovered THEN row ELSE [t \in Users |-> [g \in Users |-> NoUser]]
  BY DEF Restart
<1>3. Controls' = IF recovered THEN Controls ELSE {}
  BY <1>2 DEF Controls
<1>4. \A t \in Users : t \in Opened' <=> \E g \in Users : <<t, g>> \in Controls'
  <2> SUFFICES ASSUME NEW t \in Users
               PROVE  t \in Opened' <=> \E g \in Users : <<t, g>> \in Controls'
    OBVIOUS
  <2>1. CASE \E g \in Users : row'[t][g] # NoUser
    BY <2>1, ControlsAreGuestsAfter DEF Controls
  <2>2. CASE ~\E g \in Users : row'[t][g] # NoUser
    <3>1. host'[t] = NoUser
      BY <2>2 DEF Restart
    <3>2. QED
      BY <2>2, <3>1, ControlsAreGuestsAfter DEF Controls
  <2>3. QED
    BY <2>1, <2>2
<1>5. Opened' = {p[1] : p \in Controls'}
  BY <1>4, FirstsOf DEF Controls, Opened
<1>6. QED
  BY <1>1, <1>3, <1>5 DEF CS!Outage, Opened, Controls

\* Every step of the manager is a step of the promise or changes nothing in it.
LEMMA StepMaps ==
  ASSUME ~Reidentify, IInv, IInv', [Next]_vars
  PROVE  [CS!Next]_(CS!vars)
<1>1. UNCHANGED vars => UNCHANGED CS!vars
  BY DEF vars, CS!vars, IsTransmissionExist
<1>2. ASSUME NEW u \in Users, NEW h \in Handles, BindUserToWsHandle(u, h)
      PROVE  CS!Next
  BY <1>2, BindUserMaps DEF CS!Next
<1>3. ASSUME NEW u \in Users, BindHostToTransmission(u) PROVE CS!Next
  BY <1>3, BindHostMaps DEF CS!Next
<1>4. ASSUME NEW g \in Ids, NEW t \in Users, BindGuestToTransmission(g, t)
      PROVE  [CS!Next]_(CS!vars)
  BY <1>4, BindGuestMaps DEF CS!Next
<1>5. ASSUME NEW t \in Users, ReleaseTransmission(t) PROVE CS!Next
  BY <1>5, ReleaseTransmissionMaps DEF CS!Next
<1>6. ASSUME NEW t \in Users, DisconnectTransmission(t) PROVE [CS!Next]_(CS!vars)
  BY <1>1, <1>5, <1>6 DEF DisconnectTransmission
<1>7. ASSUME NEW g \in Ids, ReleaseGuestFromTransmission(g) PROVE [CS!Next]_(CS!vars)
  BY <1>7, ReleaseGuestMaps DEF CS!Next
<1>8. ASSUME PruneDisconnectedTransmissions PROVE CS!Next
  BY <1>8, PruneMaps DEF CS!Next
<1>9. ASSUME NEW h \in Handles, ReleaseUserSession(h) \/ ExpireInactiveSession(h)
      PROVE  CS!Next
  BY <1>9, ReleaseSessionMaps DEF CS!Next, ExpireInactiveSession
<1>10. ASSUME NEW h \in Handles,
              \/ RemoveWsHandleLastActiveTime(h)
              \/ UpdateWsHandleLastActiveTime(h)
              \/ BecomeIdle(h)
       PROVE  UNCHANGED CS!vars
  BY <1>10, HeartbeatMaps
<1>11. ASSUME NEW recovered \in BOOLEAN, Restart(recovered) PROVE CS!Next
  BY <1>11, RestartMaps DEF CS!Next
<1>12. QED
  BY <1>1, <1>2, <1>3, <1>4, <1>5, <1>6, <1>7, <1>8, <1>9, <1>10, <1>11 DEF Next

\* As long as connections keep their identity, the manager with its maps and
\* its rows, through timeouts, prunings and restarts, keeps the promise of
\* ControlSessions.
THEOREM Refinement ==
  ASSUME ~Reidentify
  PROVE  Spec => ImplementsControlSessions
<1>1. IInv /\ IInv' /\ [Next]_vars => [CS!Next]_(CS!vars)
  BY StepMaps
<1>2. QED
  BY <1>1, InitMaps, Invariance, PTL DEF Spec, ImplementsControlSessions, CS!Spec
=============================================================================
