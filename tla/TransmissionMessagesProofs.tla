---------------------- MODULE TransmissionMessagesProofs ----------------------
(***************************************************************************)
(* Proofs about the messages of a transmission, for any devices and any    *)
(* number of connections and of failing statements.                        *)
(*                                                                         *)
(* The steps of a handler and those of the alive checker interleave, so    *)
(* the invariant says what a handler knows at each step: whom it has yet   *)
(* to tell, what it has ended, and that the memberships it read can only   *)
(* have shrunk, since the loop runs one handler at a time.                 *)
(***************************************************************************)
EXTENDS TransmissionMessages, FiniteSetTheorems, TLAPS

\* The statements that fail are counted: there are finitely many rows.
RowsAreFinite == IsFiniteSet(dbRows)

\* A message can be routed to whoever has a connection.
ConnectedIsRouted == \A u \in Users : Connected(u) => route[u] # NoConn

\* Each kind of handler has its own steps, and names the devices that they need.
JobIsWellFormed ==
  /\ job.at = "check" => job.kind \in {"join", "offer"}
  /\ job.at = "bind" => job.kind = "join"
  /\ job.at = "route" => job.kind \in {"join", "offer", "relay"}
  /\ job.at \in {"tell", "release"} => job.kind \in {"leave", "admin"}
  /\ job.at \in {"isHost", "releaseGuest"} => job.kind = "leave"
  /\ job.at \in {"list", "end"} => job.kind = "admin"
  /\ job.at = "idle" => job.kind = "relay"
  /\ job.kind # "relay" => job.trans \in Users
  /\ job.kind = "admin" => job.user = ""
  /\ job.peer = "" => job.via = NoConn

\* These are members of the transmission, or one of them has lost its last connection.
Inside(who) == who \subseteq Members(job.trans) \/ \E u \in who \ {""} : ~Connected(u)

\* One of sender and receiver is the host.  Both stay inside from the check on, those of
\* a join from the moment when the guest is bound.
PairIsInside ==
  /\ job.kind = "join" => job.peer = job.trans /\ Inside({job.peer})
  /\ job.kind = "offer" => job.trans \in {job.user, job.peer} /\ Inside({job.user, job.peer})
  /\ job.kind = "join" /\ (job.at = "send" \/ told # {}) => Inside({job.user, job.peer})
  /\ job.kind \in {"join", "offer"} => told \subseteq {job.peer}

\* Those that a handler still has to tell before it changes the memberships.
ToTell == job.tell \cup (IF job.at = "send" THEN {job.peer} ELSE {})

\* Until it changes them, every member that is still connected has been told, or will be.
MembersAreCovered ==
  /\ \/ job.at \in {"tell", "isHost", "release", "releaseGuest"}
     \/ job.at = "send" /\ job.kind \in {"leave", "admin"}
     => \A v \in Members(job.trans) \ {job.user} :
          Connected(v) => v \in told \cup lost \cup ToTell
  /\ job.at \in {"isHost", "release", "releaseGuest"} => job.tell = {}
  /\ job.at = "send" /\ job.kind \in {"leave", "admin"} =>
       (Connected(job.peer) => job.via # NoConn)

AffectedAreTold == affected \subseteq told \cup lost

\* What the administrator's handler has ended by the time it gets there.
EndedSoFar ==
  /\ job.at \in {"list", "end", "done"} /\ job.kind = "admin" => job.trans \notin hosted
  /\ job.at = "done" /\ job.kind = "admin" =>
       unended \/ \A g \in Users : <<job.trans, g>> \notin dbRows

MessagesInv ==
  /\ MessagesTypeOK
  /\ RowsAreFinite
  /\ ConnectedIsRouted
  /\ JobIsWellFormed
  /\ PairIsInside
  /\ MembersAreCovered
  /\ AffectedAreTold
  /\ EndedSoFar

Jobs ==
  [at : {"idle", "check", "bind", "route", "send", "tell", "isHost", "release",
         "releaseGuest", "list", "end", "done"},
   kind : {"join", "offer", "relay", "leave", "admin"}, user : UserIds,
   trans : UserIds, conn : Conns \cup {NoConn}, peer : UserIds,
   via : Conns \cup {NoConn}, tell : SUBSET UserIds]

USE DEF UserIds

-----------------------------------------------------------------------------
(* What the shared parts of the operations do.                             *)

LEMMA ConnsBelong ==
  NoConn \notin Conns /\ "" \notin Users /\ Named \subseteq Users /\ \A c \in Conns : c[1] \in Users
<1>1. \A c \in Users \X Nat : c[1] \in Users
  OBVIOUS
<1> QED
  BY <1>1, MessagesAssumption DEF MessagesAssumption

LEMMA ConnectedAreUsers == MessagesTypeOK => \A v : Connected(v) => v \in Users
<1> SUFFICES ASSUME MessagesTypeOK, NEW v, Connected(v) PROVE v \in Users
  OBVIOUS
<1>1. PICK c \in bound : c[1] = v
  BY DEF Connected, ConnsOf
<1> QED
  BY <1>1, ConnsBelong DEF MessagesTypeOK

LEMMA JobType == MessagesTypeOK => job \in Jobs
  BY DEF MessagesTypeOK, Jobs

\* A handler that goes on keeps what it has read.
LEMMA Goes ==
  ASSUME job \in Jobs,
         NEW step \in {"idle", "check", "bind", "route", "send", "tell", "isHost", "release",
                       "releaseGuest", "list", "end", "done"},
         Goto(step)
  PROVE  /\ job' \in Jobs /\ job'.at = step
         /\ job'.kind = job.kind /\ job'.user = job.user /\ job'.trans = job.trans
         /\ job'.conn = job.conn /\ job'.peer = job.peer /\ job'.via = job.via
         /\ job'.tell = job.tell
  BY DEF Goto, Jobs

LEMMA NoJobType ==
  /\ NoJob \in Jobs /\ NoJob.at = "idle" /\ NoJob.kind = "relay" /\ NoJob.tell = {}
  /\ NoJob.via = NoConn
  BY DEF NoJob, Jobs

\* Ending rows takes away rows only, those that are asked for unless that is noted.
LEMMA EndRowsEnds ==
  ASSUME MessagesTypeOK, RowsAreFinite, NEW pairs, EndRows(pairs)
  PROVE  /\ dbRows' \subseteq dbRows /\ IsFiniteSet(dbRows')
         /\ failures' \in 0..MaxFailures /\ unended' \in BOOLEAN
         /\ job.kind = "admin" /\ unended => unended'
         /\ job.kind = "admin" => unended' \/ dbRows' \cap pairs = {}
<1>1. PICK failed \in SUBSET (pairs \cap dbRows) :
        /\ failures + Cardinality(failed) <= MaxFailures
        /\ failures' = failures + Cardinality(failed)
        /\ dbRows' = (dbRows \ pairs) \cup failed
        /\ unended' = (job.kind = "admin" /\ (unended \/ failed # {}))
  BY DEF EndRows
<1>2. Cardinality(failed) \in Nat
  BY <1>1, FS_Subset, FS_CardinalityType DEF RowsAreFinite
<1>3. failures' \in 0..MaxFailures
  <2> DEFINE n == Cardinality(failed)
  <2>1. n \in Nat /\ failures + n <= MaxFailures /\ failures' = failures + n
    BY <1>1, <1>2
  <2>2. failures \in 0..MaxFailures /\ MaxFailures \in Nat
    BY MessagesAssumption DEF MessagesTypeOK, MessagesAssumption
  <2> HIDE DEF n
  <2> QED
    BY <2>1, <2>2
<1>4. dbRows' \subseteq dbRows
  BY <1>1
<1>5. IsFiniteSet(dbRows')
  BY <1>4, FS_Subset DEF RowsAreFinite
<1>6. unended' \in BOOLEAN /\ (job.kind = "admin" /\ unended => unended')
  BY <1>1
<1>7. job.kind = "admin" => unended' \/ failed = {}
  BY <1>1
<1>8. failed = {} => dbRows' \cap pairs = {}
  BY <1>1
<1> QED
  BY <1>3, <1>4, <1>5, <1>6, <1>7, <1>8

\* Rows are the same, or some were ended.
RowsShrink ==
  /\ dbRows' \subseteq dbRows /\ IsFiniteSet(dbRows')
  /\ failures' \in 0..MaxFailures /\ unended' \in BOOLEAN
  /\ job.kind = "admin" /\ unended => unended'

\* Memberships shrink.
RosterShrinks ==
  /\ bound' \subseteq bound
  /\ hosted' \subseteq hosted
  /\ guests' \in [Users -> SUBSET UserIds] /\ \A t \in Users : guests'[t] \subseteq guests[t]

\* Whoever is no longer a member has lost its last connection, or the host has.
MembersLeave ==
  \A t \in Users : \A u \in Members(t) :
    u \in Members(t)' \/ ~Connected(t)' \/ (u # "" /\ ~Connected(u)')

LEMMA SessionEndShrinks ==
  ASSUME MessagesTypeOK, RowsAreFinite, ConnectedIsRouted, NEW c \in Conns, ReleaseUserSession(c)
  PROVE  /\ RosterShrinks /\ RowsShrink
         /\ route' \in [Users -> Conns \cup {NoConn}] /\ ConnectedIsRouted'
         /\ c \notin bound' /\ MembersLeave
<1> DEFINE u == c[1]
           rest == ConnsOf(u, bound \ {c})
<1>1. /\ c \in bound /\ bound' = bound \ {c} /\ u \in Users
      /\ rest \subseteq Conns /\ NoConn \notin Conns
      /\ \A d \in Conns : d[1] \in Users
  <2>1. c \in bound /\ bound' = bound \ {c}
    BY DEF ReleaseUserSession
  <2>2. rest \subseteq bound /\ bound \subseteq Conns
    BY DEF ConnsOf, MessagesTypeOK
  <2> HIDE DEF rest
  <2> QED
    BY <2>1, <2>2, ConnsBelong
<1>2. \/ route[u] # c /\ UNCHANGED route
      \/ \E d \in IF rest = {} THEN {NoConn} ELSE rest : route' = [route EXCEPT ![u] = d]
  BY DEF ReleaseUserSession
<1>3. route' \in [Users -> Conns \cup {NoConn}]
  <2>1. route \in [Users -> Conns \cup {NoConn}]
    BY DEF MessagesTypeOK
  <2>2. ASSUME NEW d \in Conns \cup {NoConn}
        PROVE  [route EXCEPT ![u] = d] \in [Users -> Conns \cup {NoConn}]
    BY <2>1
  <2>3. \A d : d \in (IF rest = {} THEN {NoConn} ELSE rest) => d \in Conns \cup {NoConn}
    BY <1>1
  <2> HIDE DEF rest, u
  <2> QED
    BY <1>2, <2>1, <2>2, <2>3
<1>4. ConnectedIsRouted'
  <2> SUFFICES ASSUME NEW v \in Users, NEW d \in bound', d[1] = v
               PROVE  route'[v] # NoConn
    BY DEF ConnectedIsRouted, Connected, ConnsOf
  <2>1. route[v] # NoConn
    BY <1>1 DEF ConnectedIsRouted, Connected, ConnsOf
  <2>2. CASE v # u
    BY <1>1, <1>2, <2>1, <2>2 DEF MessagesTypeOK
  <2>3. CASE v = u
    <3>1. d \in rest
      BY <1>1, <2>3 DEF ConnsOf
    <3>2. CASE UNCHANGED route
      BY <2>1, <3>2
    <3>3. CASE \E e \in rest : route' = [route EXCEPT ![u] = e]
      <4> HIDE DEF rest, u
      <4>1. PICK e \in rest : route' = [route EXCEPT ![u] = e]
        BY <3>3
      <4>2. route'[u] = e /\ e # NoConn
        BY <1>1, <4>1 DEF MessagesTypeOK
      <4> QED
        BY <2>3, <4>2
    <3> QED
      BY <1>2, <3>1, <3>2, <3>3
  <2> QED
    BY <2>2, <2>3
<1>5. CASE rest # {}
  <2>1. UNCHANGED <<hosted, guests, dbRows, failures, unended>>
    BY <1>5 DEF ReleaseUserSession, store
  <2>2. RosterShrinks
    BY <1>1, <2>1 DEF RosterShrinks, MessagesTypeOK
  <2>3. RowsShrink
    BY <1>1, <2>1 DEF RowsShrink, MessagesTypeOK, RowsAreFinite
  <2>4. MembersLeave
    BY <2>1 DEF MembersLeave, Members
  <2> QED
    BY <1>1, <1>3, <1>4, <2>2, <2>3, <2>4
<1>6. CASE rest = {}
  <2>1. /\ EndRows({u} \X guests[u] \cup {<<t, u>> : t \in {t \in Users : u \in guests[t]}})
        /\ hosted' = hosted \ {u}
        /\ guests' = [t \in Users |-> IF t = u THEN {} ELSE guests[t] \ {u}]
    BY <1>6 DEF ReleaseUserSession
  <2>2. RowsShrink
    BY <2>1, EndRowsEnds DEF RowsShrink
  <2>3. RosterShrinks
    BY <1>1, <2>1 DEF RosterShrinks, MessagesTypeOK
  <2>4. MembersLeave
    <3> SUFFICES ASSUME NEW t \in Users, NEW x \in Members(t), x \notin Members(t)'
                 PROVE  u \in {t, x}
      <4>1. ~Connected(u)' /\ u # ""
        BY <1>1, <1>6, MessagesAssumption DEF Connected, ConnsOf, MessagesAssumption
      <4> HIDE DEF u
      <4> QED
        BY <4>1 DEF MembersLeave
    <3> HIDE DEF u
    <3> QED
      BY <2>1 DEF Members
  <2> QED
    BY <1>1, <1>3, <1>4, <2>2, <2>3, <2>4
<1> QED
  BY <1>5, <1>6

-----------------------------------------------------------------------------
(* Every step preserves MessagesInv.                                       *)

\* Those inside stay there while memberships end with last connections only.
LEMMA InsideStays ==
  ASSUME MessagesTypeOK, MembersLeave, bound' \subseteq bound, UNCHANGED job,
         NEW who, job.trans \in who, job.trans \in Users, Inside(who)
  PROVE  Inside(who)'
<1>1. \A v : Connected(v)' => Connected(v)
  BY DEF Connected, ConnsOf
<1>2. CASE \E u \in who \ {""} : ~Connected(u)
  BY <1>1, <1>2 DEF Inside
<1>3. CASE who \subseteq Members(job.trans) /\ ~ who \subseteq Members(job.trans)'
  <2>1. PICK u \in who : u \in Members(job.trans) /\ u \notin Members(job.trans)'
    BY <1>3
  <2>2. ~Connected(job.trans)' \/ (u # "" /\ ~Connected(u)')
    BY <2>1 DEF MembersLeave, Members
  <2>3. job.trans # ""
    BY MessagesAssumption DEF MessagesAssumption
  <2> QED
    BY <2>1, <2>2, <2>3 DEF Inside
<1> QED
  BY <1>2, <1>3 DEF Inside

LEMMA PairStaysInside ==
  ASSUME MessagesInv, MembersLeave, bound' \subseteq bound, UNCHANGED <<job, told>>
  PROVE  PairIsInside'
<1> DEFINE t == job.trans  p == job.peer  u == job.user
<1>1. MessagesTypeOK /\ UNCHANGED <<t, p, u>> /\ (job.kind # "relay" => t \in Users)
  BY DEF MessagesInv, JobIsWellFormed
<1>2. job.kind = "join" => p = t /\ Inside({p})'
  BY <1>1, InsideStays DEF MessagesInv, PairIsInside
<1>3. ASSUME t \in {u, p}, t \in Users, Inside({u, p}) PROVE Inside({u, p})'
  BY <1>1, <1>3, InsideStays
<1> QED
  BY <1>1, <1>2, <1>3 DEF MessagesInv, PairIsInside

\* Sessions and memberships end, the handler stays where it is.
LEMMA ShrinkingPreserves ==
  ASSUME MessagesInv, RosterShrinks, RowsShrink,
         route' \in [Users -> Conns \cup {NoConn}], ConnectedIsRouted',
         closing' \in (Conns \cup {NoConn}) \ bound',
         UNCHANGED <<job, told, lost, affected>>, PairIsInside'
  PROVE  MessagesInv'
<1>1. \A t : Members(t)' \subseteq Members(t)
  BY DEF RosterShrinks, Members, MessagesInv, MessagesTypeOK
<1>2. \A v : Connected(v)' => Connected(v)
  BY DEF RosterShrinks, Connected, ConnsOf
<1>3. MessagesTypeOK'
  <2>1. /\ bound' \subseteq Conns /\ hosted' \subseteq Users
        /\ guests' \in [Users -> SUBSET UserIds]
        /\ dbRows' \subseteq Users \X Users /\ failures' \in 0..MaxFailures
        /\ unended' \in BOOLEAN
    BY DEF RosterShrinks, RowsShrink, MessagesInv, MessagesTypeOK
  <2>2. job' \in Jobs
    BY JobType DEF MessagesInv
  <2>3. /\ told' \subseteq Users /\ lost' \subseteq Users
        /\ affected' \subseteq Users
    BY DEF MessagesInv, MessagesTypeOK
  <2> QED
    BY <2>1, <2>2, <2>3 DEF MessagesTypeOK, Jobs
<1>4. RowsAreFinite' /\ JobIsWellFormed' /\ AffectedAreTold'
  BY DEF RowsShrink, MessagesInv, RowsAreFinite, JobIsWellFormed, AffectedAreTold
<1>6. MembersAreCovered'
  <2>1. ToTell' = ToTell
    BY DEF ToTell
  <2> QED
    BY <1>1, <1>2, <2>1 DEF MessagesInv, MembersAreCovered
<1>7. EndedSoFar'
  BY DEF MessagesInv, EndedSoFar, RosterShrinks, RowsShrink
<1> QED
  BY <1>3, <1>4, <1>6, <1>7 DEF MessagesInv

LEMMA SessionEndPreserves ==
  ASSUME MessagesInv, NEW c \in Conns, SweepExpire(c) \/ OnClose(c)
  PROVE  MessagesInv'
<1>1. ReleaseUserSession(c) /\ UNCHANGED <<job, told, lost, affected>>
  BY DEF SweepExpire, OnClose
<1>2. /\ RosterShrinks /\ RowsShrink
      /\ route' \in [Users -> Conns \cup {NoConn}] /\ ConnectedIsRouted'
      /\ c \notin bound' /\ MembersLeave
  BY <1>1, SessionEndShrinks DEF MessagesInv
<1>3. closing' \in {c, closing}
  BY DEF SweepExpire, OnClose
<1>4. closing' \in (Conns \cup {NoConn}) \ bound'
  BY <1>2, <1>3 DEF MessagesInv, MessagesTypeOK, RosterShrinks
<1>5. PairIsInside'
  BY <1>1, <1>2, PairStaysInside DEF RosterShrinks
<1> QED
  BY <1>1, <1>2, <1>4, <1>5, ShrinkingPreserves

LEMMA SweepClosePreserves ==
  ASSUME MessagesInv, SweepClose \/ UNCHANGED messageVars
  PROVE  MessagesInv'
<1>1. UNCHANGED <<bound, route, hosted, guests, dbRows, failures, unended, job, told, lost,
                  affected>>
  BY DEF SweepClose, messageVars, roster, store, history
<1>2. closing' \in {NoConn, closing}
  BY DEF SweepClose, messageVars, roster
<1>3. closing' \in (Conns \cup {NoConn}) \ bound'
  BY <1>1, <1>2, MessagesAssumption DEF MessagesInv, MessagesTypeOK, MessagesAssumption
<1>4. RosterShrinks /\ RowsShrink
  BY <1>1 DEF RosterShrinks, RowsShrink, MessagesInv, MessagesTypeOK, RowsAreFinite
<1>5. route' \in [Users -> Conns \cup {NoConn}] /\ ConnectedIsRouted'
  BY <1>1 DEF MessagesInv, MessagesTypeOK, ConnectedIsRouted, Connected, ConnsOf
<1>6. MembersLeave
  BY <1>1 DEF MembersLeave, Members
<1>7. PairIsInside'
  BY <1>1, <1>6, PairStaysInside
<1> QED
  BY <1>1, <1>3, <1>4, <1>5, <1>7, ShrinkingPreserves

LEMMA CleanupPreserves ==
  ASSUME MessagesInv, RecoveredSessionCleanup
  PROVE  MessagesInv'
<1> DEFINE gone == {t \in hosted : ~Connected(t)}
           stays == [t \in Users |-> IF t \in gone THEN {} ELSE {u \in guests[t] : Connected(u)}]
<1>1. /\ EndRows({p \in Users \X Users : p[2] \in guests[p[1]] \ stays[p[1]]})
      /\ hosted' = hosted \ gone
      /\ guests' = stays
      /\ UNCHANGED <<bound, route, closing, job, told, lost, affected>>
  BY DEF RecoveredSessionCleanup
<1>2. RowsShrink
  BY <1>1, EndRowsEnds DEF MessagesInv, RowsShrink
<1>3. RosterShrinks
  BY <1>1 DEF MessagesInv, MessagesTypeOK, RosterShrinks
<1>4. /\ route' \in [Users -> Conns \cup {NoConn}] /\ ConnectedIsRouted'
      /\ closing' \in (Conns \cup {NoConn}) \ bound'
  BY <1>1 DEF MessagesInv, MessagesTypeOK, ConnectedIsRouted, Connected, ConnsOf
<1>5. PairIsInside'
  BY <1>1 DEF RecoveredSessionCleanup, Idle, MessagesInv, JobIsWellFormed, PairIsInside
<1> QED
  BY <1>1, <1>2, <1>3, <1>4, <1>5, ShrinkingPreserves

LEMMA LoginPreserves ==
  ASSUME MessagesInv, NEW c \in Conns, LoginUser(c)
  PROVE  MessagesInv'
<1>1. /\ job.at = "idle" /\ closing = NoConn
      /\ bound' = bound \cup {c} /\ route' = [route EXCEPT ![c[1]] = c]
      /\ hosted' = hosted \cup {c[1]}
      /\ UNCHANGED <<closing, guests, dbRows, failures, job, told, lost, affected, unended>>
      /\ c[1] \in Users /\ NoConn \notin Conns
  <2>1. c[1] \in Users /\ NoConn \notin Conns
    BY ConnsBelong
  <2> QED
    BY <2>1 DEF LoginUser, Idle, LockFree, store, history
<1>2. MessagesTypeOK'
  <2>1. route' \in [Users -> Conns \cup {NoConn}] /\ hosted' \subseteq Users
    BY <1>1 DEF MessagesInv, MessagesTypeOK
  <2>2. bound' \subseteq Conns /\ closing' \in (Conns \cup {NoConn}) \ bound'
    BY <1>1 DEF MessagesInv, MessagesTypeOK
  <2> QED
    BY <1>1, <2>1, <2>2 DEF MessagesInv, MessagesTypeOK
<1>3. ConnectedIsRouted'
  <2> SUFFICES ASSUME NEW v \in Users, NEW d \in bound', d[1] = v
               PROVE  route'[v] # NoConn
    BY DEF ConnectedIsRouted, Connected, ConnsOf
  <2>1. d \in bound \/ v = c[1]
    BY <1>1
  <2>2. d \in bound => route[v] # NoConn
    BY DEF MessagesInv, ConnectedIsRouted, Connected, ConnsOf
  <2>3. route \in [Users -> Conns \cup {NoConn}]
    BY DEF MessagesInv, MessagesTypeOK
  <2> QED
    BY <1>1, <2>1, <2>2, <2>3
<1>4. RowsAreFinite' /\ JobIsWellFormed' /\ AffectedAreTold'
  BY <1>1 DEF MessagesInv, RowsAreFinite, JobIsWellFormed, AffectedAreTold
<1>5. PairIsInside'
  BY <1>1 DEF MessagesInv, JobIsWellFormed, PairIsInside
<1>6. MembersAreCovered' /\ EndedSoFar'
  BY <1>1 DEF MembersAreCovered, EndedSoFar
<1> QED
  BY <1>2, <1>3, <1>4, <1>5, <1>6 DEF MessagesInv

\* A handler begins, with what it has read.
LEMMA BeginPreserves ==
  ASSUME MessagesInv, NEW c \in Conns \cup {NoConn},
         NEW u \in UserIds, NEW t \in UserIds, NEW peer \in UserIds,
         NEW tell \in SUBSET UserIds, NEW step \in {"check", "route", "tell"},
         NEW kind \in {"join", "offer", "relay", "leave", "admin"},
         Begin(step, kind, c, u, t, peer, tell),
         step = "tell" <=> kind \in {"leave", "admin"},
         step = "check" => kind = "offer",
         step = "tell" => Members(t) \ {u} \subseteq tell,
         kind # "relay" => t \in Users,
         kind = "admin" => u = "",
         kind = "join" => peer = t /\ t \in Members(t),
         kind = "offer" => t \in {u, peer} /\ {u, peer} \subseteq Members(t)
  PROVE  MessagesInv'
<1>1. /\ UNCHANGED <<bound, route, closing, hosted, guests, dbRows, failures>>
      /\ told' = {} /\ lost' = {} /\ affected' = {} /\ unended' = FALSE
  BY DEF Begin, roster, store
<1>2. /\ job' \in Jobs /\ job'.at = step /\ job'.kind = kind /\ job'.conn = c
      /\ job'.user = u /\ job'.trans = t /\ job'.peer = peer /\ job'.tell = tell
      /\ job'.via = NoConn
  BY DEF Begin, NoJob, Jobs
<1>3. \A x : Members(x)' = Members(x)
  BY <1>1 DEF Members
<1>5. MessagesTypeOK'
  BY <1>1, <1>2 DEF MessagesInv, MessagesTypeOK, Jobs
<1>6. ConnectedIsRouted' /\ RowsAreFinite'
  BY <1>1 DEF MessagesInv, ConnectedIsRouted, Connected, ConnsOf, RowsAreFinite
<1>7. JobIsWellFormed'
  BY <1>2 DEF JobIsWellFormed
<1>8. PairIsInside' /\ AffectedAreTold'
  BY <1>1, <1>2, <1>3 DEF PairIsInside, Inside, AffectedAreTold
<1>9. MembersAreCovered'
  BY <1>2, <1>3 DEF MembersAreCovered, ToTell
<1>10. EndedSoFar'
  BY <1>2 DEF EndedSoFar
<1> QED
  BY <1>5, <1>6, <1>7, <1>8, <1>9, <1>10 DEF MessagesInv

LEMMA RequestsPreserve ==
  ASSUME MessagesInv,
         \/ \E c \in Conns, t \in Named : \E u \in {c[1], ""} : JoinRequest(c, u, t)
         \/ \E c \in Conns, t \in Named, v \in UserIds : \E u \in {c[1], ""} : Offer(c, u, t, v)
         \/ \E v \in UserIds : Relay(v)
         \/ \E u \in UserIds, t \in Named : LeaveTransmission(u, t)
         \/ \E t \in Named : HandleDisconnect(t)
  PROVE  MessagesInv'
<1>1. /\ Named \subseteq Users /\ "" \notin Users
      /\ \A c \in Conns : c[1] \in Users
      /\ \A t : Members(t) \subseteq UserIds
  <2>1. \A t : Members(t) \subseteq UserIds
    BY DEF Members, MessagesInv, MessagesTypeOK
  <2> QED
    BY <2>1, ConnsBelong
<1>2. ASSUME NEW c \in Conns, NEW t \in Named, NEW u \in {c[1], ""}, JoinRequest(c, u, t)
      PROVE  MessagesInv'
  <2>1. t \in Members(t) /\ Begin("route", "join", c, u, t, t, {}) /\ u \in UserIds
    BY <1>1, <1>2 DEF JoinRequest, Members
  <2> QED
    BY <1>1, <2>1, BeginPreserves
<1>3. ASSUME NEW c \in Conns, NEW t \in Named, NEW v \in UserIds, NEW u \in {c[1], ""},
             Offer(c, u, t, v)
      PROVE  MessagesInv'
  <2>1. /\ t \in {u, v} /\ {u, v} \subseteq Members(t) /\ u \in UserIds
        /\ Begin("check", "offer", c, u, t, v, {})
    BY <1>1, <1>3 DEF Offer
  <2> QED
    BY <1>1, <2>1, BeginPreserves
<1>4. ASSUME NEW v \in UserIds, Relay(v) PROVE MessagesInv'
  <2>1. Begin("route", "relay", NoConn, "", "", v, {})
    BY <1>4 DEF Relay
  <2> QED
    BY <2>1, BeginPreserves
<1>5. ASSUME NEW u \in UserIds, NEW t \in Named, LeaveTransmission(u, t) PROVE MessagesInv'
  <2>1. Begin("tell", "leave", NoConn, u, t, "", Members(t) \ {u})
    BY <1>5 DEF LeaveTransmission
  <2> QED
    BY <1>1, <2>1, BeginPreserves
<1>6. ASSUME NEW t \in Named, HandleDisconnect(t) PROVE MessagesInv'
  <2>1. Begin("tell", "admin", NoConn, "", t, "", Members(t))
    BY <1>6 DEF HandleDisconnect
  <2> QED
    BY <1>1, <2>1, BeginPreserves
<1> QED
  BY <1>2, <1>3, <1>4, <1>5, <1>6

\* A step that changes neither sessions nor memberships, and reaches nobody with credentials
\* that it has not reached before.
LEMMA PairIsKept ==
  ASSUME MessagesInv, UNCHANGED <<bound, hosted, guests>>,
         job'.kind = job.kind, job'.user = job.user, job'.trans = job.trans, job'.peer = job.peer,
         told' \subseteq told \cup {job.peer},
         job.kind = "join" /\ (job'.at = "send" \/ told' # {}) => job.at = "send" \/ told # {}
  PROVE  PairIsInside'
<1>1. ASSUME NEW who, Inside(who) PROVE Inside(who)'
  BY <1>1 DEF Inside, Members, Connected, ConnsOf
<1> QED
  BY <1>1 DEF MessagesInv, PairIsInside

\* A step that changes no membership and no session, but goes on from one step of the
\* handler to the next.
LEMMA HandlerGoesOn ==
  ASSUME MessagesInv, UNCHANGED roster,
         dbRows' \subseteq Users \X Users, IsFiniteSet(dbRows'), failures' \in 0..MaxFailures,
         job' \in Jobs, told' \subseteq Users, lost' \subseteq Users, unended' \in BOOLEAN,
         UNCHANGED affected,
         told \cup lost \subseteq told' \cup lost',
         JobIsWellFormed', PairIsInside', MembersAreCovered',
         EndedSoFar'
  PROVE  MessagesInv'
<1>1. MessagesTypeOK'
  BY DEF MessagesInv, MessagesTypeOK, roster, Jobs
<1>2. ConnectedIsRouted' /\ AffectedAreTold' /\ RowsAreFinite'
  BY DEF MessagesInv, ConnectedIsRouted, Connected, ConnsOf, AffectedAreTold, roster,
         RowsAreFinite
<1> QED
  BY <1>1, <1>2 DEF MessagesInv

LEMMA SenderCheckPreserves ==
  ASSUME MessagesInv, SenderCheck
  PROVE  MessagesInv'
<1>1. job \in Jobs
  BY JobType DEF MessagesInv
<1>2. PICK step \in {"done", "bind", "route"} :
        /\ job.at = "check" /\ Goto(step)
        /\ step = "bind" => job.kind = "join"
  BY DEF SenderCheck
<1>3. /\ UNCHANGED <<roster, dbRows, failures, told, lost, affected, unended>>
  BY DEF SenderCheck, store, history
<1>4. /\ job' \in Jobs /\ job'.at = step
      /\ job'.kind = job.kind /\ job'.user = job.user /\ job'.trans = job.trans
      /\ job'.peer = job.peer /\ job'.via = job.via
  BY <1>1, <1>2, Goes
<1>5. /\ MessagesTypeOK /\ IsFiniteSet(dbRows) /\ JobIsWellFormed
      /\ job.kind \in {"join", "offer"}
  BY <1>2 DEF MessagesInv, RowsAreFinite, JobIsWellFormed
<1>6. JobIsWellFormed'
  BY <1>2, <1>4, <1>5 DEF JobIsWellFormed
<1>7. PairIsInside'
  BY <1>2, <1>3, <1>4, PairIsKept DEF roster
<1>8. MembersAreCovered' /\ EndedSoFar'
  BY <1>4, <1>5 DEF MembersAreCovered, EndedSoFar
<1> QED
  BY <1>3, <1>4, <1>5, <1>6, <1>7, <1>8, HandlerGoesOn DEF MessagesTypeOK

LEMMA LookUpRoutePreserves ==
  ASSUME MessagesInv, LookUpRoute
  PROVE  MessagesInv'
<1>1. job \in Jobs /\ MessagesTypeOK /\ IsFiniteSet(dbRows) /\ JobIsWellFormed
  BY JobType DEF MessagesInv, RowsAreFinite
<1>2. job.at = "route" /\ job.kind \in {"join", "offer", "relay"}
  BY <1>1 DEF LookUpRoute, JobIsWellFormed
<1>3. UNCHANGED <<roster, dbRows, failures, told, lost, affected, unended>>
  BY DEF LookUpRoute, store, history
<1>4. RouteOf(job.peer) \in Conns \cup {NoConn} /\ (job.peer = "" => RouteOf(job.peer) = NoConn)
  BY <1>1 DEF MessagesTypeOK, RouteOf, Jobs
<1>5. /\ job' \in Jobs /\ job'.at \in {"send", "done", "check"}
      /\ job'.at = "check" => job.kind = "join"
      /\ job'.at = "send" => job.kind # "join"
      /\ job'.kind = job.kind /\ job'.user = job.user /\ job'.trans = job.trans
      /\ job'.peer = job.peer /\ job'.via = RouteOf(job.peer)
  <2> DEFINE via == RouteOf(job.peer)
             step == IF job.kind # "join" THEN "send" ELSE IF via = NoConn THEN "done" ELSE "check"
  <2>1. job' = [job EXCEPT !.via = via, !.at = step]
    BY DEF LookUpRoute
  <2>2. /\ via \in Conns \cup {NoConn} /\ step \in {"send", "done", "check"}
        /\ step = "check" => job.kind = "join"
        /\ step = "send" => job.kind # "join"
    BY <1>4
  <2>6. via = RouteOf(job.peer)
    OBVIOUS
  <2> HIDE DEF via, step
  <2>3. job' \in Jobs
    BY <1>1, <2>1, <2>2 DEF Jobs
  <2>4. job'.at = step /\ job'.kind = job.kind
    BY <1>1, <2>1 DEF Jobs
  <2>5. job'.user = job.user /\ job'.trans = job.trans /\ job'.peer = job.peer /\ job'.via = via
    BY <1>1, <2>1 DEF Jobs
  <2> QED
    BY <2>2, <2>3, <2>4, <2>5, <2>6
<1>6. JobIsWellFormed'
  BY <1>1, <1>2, <1>4, <1>5 DEF JobIsWellFormed
<1>7. PairIsInside'
  BY <1>2, <1>3, <1>5, PairIsKept DEF roster
<1>8. MembersAreCovered' /\ EndedSoFar'
  BY <1>2, <1>5 DEF MembersAreCovered, EndedSoFar
<1> QED
  BY <1>1, <1>3, <1>5, <1>6, <1>7, <1>8, HandlerGoesOn DEF MessagesTypeOK

LEMMA SendMsgPreserves ==
  ASSUME MessagesInv, SendMsg
  PROVE  MessagesInv'
<1>1. job \in Jobs /\ MessagesTypeOK /\ IsFiniteSet(dbRows) /\ JobIsWellFormed
  BY JobType DEF MessagesInv, RowsAreFinite
<1>2. /\ job.at = "send" /\ (job.via # NoConn => job.peer \in Users)
      /\ UNCHANGED <<roster, dbRows, failures, affected, unended>>
      /\ told' \subseteq told \cup {job.peer} /\ told \subseteq told'
      /\ lost' \subseteq lost \cup {job.peer} /\ lost \subseteq lost'
      /\ IF job.via # NoConn THEN job.peer \in told' \cup lost' ELSE UNCHANGED <<told, lost>>
  BY <1>1 DEF SendMsg, JobIsWellFormed, store, Jobs
<1>3. /\ job' \in Jobs
      /\ job'.at = IF job.kind \in {"leave", "admin"} THEN "tell" ELSE "done"
      /\ job'.kind = job.kind /\ job'.user = job.user /\ job'.trans = job.trans
      /\ job'.peer = job.peer /\ job'.tell = job.tell /\ job'.via = NoConn
  <2> DEFINE step == IF job.kind \in {"leave", "admin"} THEN "tell" ELSE "done"
  <2>1. job' = [job EXCEPT !.via = NoConn, !.at = step]
    BY DEF SendMsg
  <2>2. step \in {"tell", "done"}
    OBVIOUS
  <2>3. job'.at = step
    BY <1>1, <2>1 DEF Jobs
  <2> HIDE DEF step
  <2>4. job' \in Jobs
    BY <1>1, <2>1, <2>2 DEF Jobs
  <2>5. /\ job'.kind = job.kind /\ job'.user = job.user /\ job'.trans = job.trans
        /\ job'.peer = job.peer /\ job'.tell = job.tell /\ job'.via = NoConn
    BY <1>1, <2>1 DEF Jobs
  <2> QED
    BY <2>3, <2>4, <2>5 DEF step
<1>4. JobIsWellFormed'
  BY <1>1, <1>2, <1>3 DEF JobIsWellFormed
<1>5. PairIsInside'
  BY <1>2, <1>3, PairIsKept DEF roster
<1>6. MembersAreCovered'
  <2> SUFFICES ASSUME job.kind \in {"leave", "admin"},
                      NEW v \in Members(job.trans)' \ {job.user}, Connected(v)'
               PROVE  v \in told' \cup lost' \cup job.tell
    BY <1>3 DEF MembersAreCovered, ToTell
  <2>1. v \in Members(job.trans) \ {job.user} /\ Connected(v)
    BY <1>2, <1>3 DEF Members, Connected, ConnsOf, roster
  <2>2. v \in told \cup lost \cup job.tell \cup {job.peer}
    BY <1>2, <2>1 DEF MessagesInv, MembersAreCovered, ToTell
  <2>3. Connected(job.peer) => job.peer \in told' \cup lost'
    BY <1>2 DEF MessagesInv, MembersAreCovered
  <2> QED
    BY <1>2, <2>1, <2>2, <2>3
<1>7. EndedSoFar'
  BY <1>3 DEF EndedSoFar
<1>8. told' \subseteq Users /\ lost' \subseteq Users
  BY <1>1, <1>2 DEF MessagesTypeOK
<1> QED
  BY <1>1, <1>2, <1>3, <1>4, <1>5, <1>6, <1>7, <1>8, HandlerGoesOn DEF MessagesTypeOK

\* One after the other; when nobody is left, the handler goes on to the memberships.
LEMMA TellNextPreserves ==
  ASSUME MessagesInv, TellNext
  PROVE  MessagesInv'
<1>1. job \in Jobs /\ MessagesTypeOK /\ IsFiniteSet(dbRows) /\ JobIsWellFormed
  BY JobType DEF MessagesInv, RowsAreFinite
<1>2. /\ job.at = "tell" /\ job.kind \in {"leave", "admin"}
      /\ UNCHANGED <<roster, dbRows, failures, told, lost, affected, unended>>
  BY <1>1 DEF TellNext, JobIsWellFormed, store, history
<1>3. /\ \A v : Connected(v)' = Connected(v)
      /\ \A v \in Members(job.trans) \ {job.user} : Connected(v) => v \in told \cup lost \cup job.tell
  BY <1>2 DEF MessagesInv, MembersAreCovered, ToTell, Members, Connected, ConnsOf, roster
<1>4. \/ /\ job' \in Jobs /\ job.tell = {} /\ job'.tell = {}
         /\ job'.at = IF job.kind = "admin" THEN "release" ELSE "isHost"
         /\ job'.peer = job.peer /\ job'.via = job.via
         /\ job'.kind = job.kind /\ job'.user = job.user /\ job'.trans = job.trans
      \/ /\ job' \in Jobs /\ job'.at = "send" /\ job'.via = RouteOf(job'.peer)
         /\ job.tell = job'.tell \cup {job'.peer}
         /\ job'.kind = job.kind /\ job'.user = job.user /\ job'.trans = job.trans
  <2>1. CASE job.tell = {}
    <3>1. Goto(IF job.kind = "admin" THEN "release" ELSE "isHost")
      BY <2>1 DEF TellNext
    <3> QED
      BY <1>1, <2>1, <3>1, Goes
  <2>2. CASE job.tell # {}
    <3>1. PICK v \in job.tell :
            job' = [job EXCEPT !.at = "send", !.peer = v, !.via = RouteOf(v), !.tell = @ \ {v}]
      BY <2>2 DEF TellNext
    <3> DEFINE via == RouteOf(v)
               left == job.tell \ {v}
    <3>2. v \in UserIds /\ via \in Conns \cup {NoConn} /\ job.tell \in SUBSET UserIds
      BY <1>1 DEF Jobs, MessagesTypeOK, RouteOf
    <3>3. left \in SUBSET UserIds /\ job.tell = left \cup {v}
      BY <3>2
    <3>4. job' = [job EXCEPT !.at = "send", !.peer = v, !.via = via, !.tell = left]
      BY <3>1
    <3>5. via = RouteOf(v)
      OBVIOUS
    <3> HIDE DEF via, left
    <3>6. job' \in Jobs
      BY <1>1, <3>2, <3>3, <3>4 DEF Jobs
    <3>7. /\ job'.at = "send" /\ job'.peer = v /\ job'.via = via /\ job'.tell = left
          /\ job'.kind = job.kind /\ job'.user = job.user /\ job'.trans = job.trans
      BY <1>1, <3>4 DEF Jobs
    <3> QED
      BY <3>3, <3>5, <3>6, <3>7
  <2> QED
    BY <2>1, <2>2
<1>5. JobIsWellFormed'
  BY <1>1, <1>2, <1>4 DEF JobIsWellFormed, RouteOf
<1>6. PairIsInside' /\ EndedSoFar'
  BY <1>2, <1>4 DEF PairIsInside, EndedSoFar
<1>7. MembersAreCovered'
  <2>1. Members(job.trans)' = Members(job.trans)
    BY <1>2, <1>4 DEF Members, roster
  <2>2. job'.at = "send" => (Connected(job'.peer) => job'.via # NoConn)
    BY <1>1, <1>2, <1>4, ConnectedAreUsers, MessagesAssumption
    DEF MessagesInv, ConnectedIsRouted, RouteOf, MessagesAssumption
  <2> QED
    BY <1>2, <1>3, <1>4, <2>1, <2>2 DEF MembersAreCovered, ToTell
<1> QED
  BY <1>1, <1>2, <1>4, <1>5, <1>6, <1>7, HandlerGoesOn DEF MessagesTypeOK

LEMMA IsHostPreserves ==
  ASSUME MessagesInv, IsHostOfTransmission
  PROVE  MessagesInv'
<1>1. job \in Jobs /\ MessagesTypeOK /\ IsFiniteSet(dbRows) /\ JobIsWellFormed
  BY JobType DEF MessagesInv, RowsAreFinite
<1>2. PICK step \in {"release", "releaseGuest"} : job.at = "isHost" /\ Goto(step)
  BY DEF IsHostOfTransmission
<1>3. /\ job.kind = "leave"
      /\ UNCHANGED <<roster, dbRows, failures, told, lost, affected, unended>>
  BY <1>1, <1>2 DEF IsHostOfTransmission, JobIsWellFormed, store, history
<1>4. /\ job' \in Jobs /\ job'.at = step /\ job'.kind = job.kind /\ job'.user = job.user
      /\ job'.trans = job.trans /\ job'.tell = job.tell /\ job'.peer = job.peer
      /\ job'.via = job.via
  BY <1>1, <1>2, Goes
<1>5. JobIsWellFormed'
  BY <1>1, <1>2, <1>3, <1>4 DEF JobIsWellFormed
<1>6. PairIsInside' /\ EndedSoFar'
  BY <1>3, <1>4 DEF PairIsInside, EndedSoFar
<1>7. MembersAreCovered'
  <2>1. Members(job.trans)' = Members(job.trans) /\ \A v : Connected(v)' = Connected(v)
    BY <1>3, <1>4 DEF Members, Connected, ConnsOf, roster
  <2>2. /\ job.tell = {}
        /\ \A v \in Members(job.trans) \ {job.user} : Connected(v) => v \in told \cup lost
    BY <1>2 DEF MessagesInv, MembersAreCovered, ToTell
  <2> QED
    BY <1>2, <1>3, <1>4, <2>1, <2>2 DEF MembersAreCovered, ToTell
<1> QED
  BY <1>1, <1>3, <1>4, <1>5, <1>6, <1>7, HandlerGoesOn DEF MessagesTypeOK

\* A guest is added while a join is handled: nobody has read the memberships to tell them.
LEMMA JoinBindGuestPreserves ==
  ASSUME MessagesInv, JoinBindGuest
  PROVE  MessagesInv'
<1>1. job \in Jobs /\ MessagesTypeOK /\ IsFiniteSet(dbRows) /\ JobIsWellFormed
  BY JobType DEF MessagesInv, RowsAreFinite
<1>2. /\ job.at = "bind" /\ Goto("send") /\ job.kind = "join"
      /\ job.user \in UserIds /\ job.trans \in Users
      /\ UNCHANGED <<bound, route, closing, hosted, told, lost, affected, unended>>
  BY <1>1 DEF JoinBindGuest, JobIsWellFormed, history, Jobs
<1>3. /\ job' \in Jobs /\ job'.at = "send" /\ job'.kind = job.kind /\ job'.user = job.user
      /\ job'.trans = job.trans /\ job'.peer = job.peer /\ job'.via = job.via
  BY <1>1, <1>2, Goes
<1>4. guests' \in [Users -> SUBSET UserIds]
  <2>1. guests \in [Users -> SUBSET UserIds]
    BY <1>1 DEF MessagesTypeOK
  <2>2. \/ guests' = [guests EXCEPT ![job.trans] = @ \cup {job.user}]
        \/ guests' = guests
    BY DEF JoinBindGuest
  <2>3. [guests EXCEPT ![job.trans] = @ \cup {job.user}] \in [Users -> SUBSET UserIds]
    <3> DEFINE t == job.trans
               u == job.user
    <3>1. t \in Users /\ u \in UserIds
      BY <1>2
    <3> HIDE DEF t, u
    <3>2. [guests EXCEPT ![t] = @ \cup {u}] \in [Users -> SUBSET UserIds]
      BY <2>1, <3>1
    <3> QED
      BY <3>2 DEF t, u
  <2> QED
    BY <2>1, <2>2, <2>3
<1>5. dbRows' = dbRows \/ (job.user # "" /\ dbRows' = dbRows \cup {<<job.trans, job.user>>})
  BY DEF JoinBindGuest, store
<1>6. failures' \in 0..MaxFailures
  <2>1. failures \in 0..MaxFailures
    BY <1>1 DEF MessagesTypeOK
  <2>2. MaxFailures \in Nat
    BY MessagesAssumption DEF MessagesAssumption
  <2>3. failures' = failures \/ (failures < MaxFailures /\ failures' = failures + 1)
    BY DEF JoinBindGuest, store
  <2> QED
    BY <2>1, <2>2, <2>3
<1>7. RowsAreFinite'
  <2>1. IsFiniteSet(dbRows \cup {<<job.trans, job.user>>})
    BY <1>1, FS_AddElement
  <2> QED
    BY <1>1, <1>5, <2>1 DEF RowsAreFinite
<1>8. MessagesTypeOK'
  <2>1. dbRows' \subseteq Users \X Users
    <3>1. dbRows \subseteq Users \X Users
      BY <1>1 DEF MessagesTypeOK
    <3>2. job.user # "" => job.user \in Users /\ job.trans \in Users
      BY <1>2
    <3>3. job.user # "" => <<job.trans, job.user>> \in Users \X Users
      BY <3>2
    <3> QED
      BY <1>5, <3>1, <3>3
  <2> QED
    BY <1>1, <1>2, <1>3, <1>4, <1>6, <2>1 DEF MessagesTypeOK, Jobs
<1>9. ConnectedIsRouted' /\ AffectedAreTold'
  BY <1>2 DEF MessagesInv, ConnectedIsRouted, Connected, ConnsOf, AffectedAreTold
<1>10. JobIsWellFormed'
  BY <1>1, <1>2, <1>3 DEF JobIsWellFormed
<1>11. PairIsInside'
  <2>1. job.peer = job.trans /\ Inside({job.trans}) /\ told \subseteq {job.peer}
    BY <1>2 DEF MessagesInv, PairIsInside
  <2>2. \A u : Connected(u)' = Connected(u)
    BY <1>2 DEF Connected, ConnsOf
  <2>3. CASE job.trans \in hosted
    <3>1. job.trans \in Members(job.trans)'
      BY <1>2, <1>3, <2>3 DEF Members
    <3>2. job.user \in Members(job.trans)'
      <4>1. job.trans = job.user \/ job.user \in guests'[job.trans]
        <5> DEFINE t == job.trans  u == job.user
        <5>1. \/ t = u \/ (u \in guests[t] /\ guests' = guests)
              \/ guests' = [guests EXCEPT ![t] = @ \cup {u}]
          BY <2>3 DEF JoinBindGuest
        <5>2. guests \in [Users -> SUBSET UserIds] /\ t \in Users
          BY <1>1, <1>2 DEF MessagesTypeOK
        <5> HIDE DEF t, u
        <5>3. t = u \/ u \in guests'[t]
          BY <5>1, <5>2
        <5> QED
          BY <5>3 DEF t, u
      <4> QED
        BY <1>2, <1>3, <2>3, <4>1 DEF Members
    <3> QED
      BY <1>2, <1>3, <2>1, <3>1, <3>2 DEF PairIsInside, Inside
  <2>4. CASE job.trans \notin hosted
    <3>1. ~Connected(job.trans) /\ job.trans # ""
      BY <1>2, <2>1, <2>4, MessagesAssumption DEF Inside, Members, MessagesAssumption
    <3> QED
      BY <1>2, <1>3, <2>1, <2>2, <3>1 DEF PairIsInside, Inside
  <2> QED
    BY <2>3, <2>4
<1>12. MembersAreCovered' /\ EndedSoFar'
  BY <1>2, <1>3 DEF MembersAreCovered, EndedSoFar
<1> QED
  BY <1>7, <1>8, <1>9, <1>10, <1>11, <1>12 DEF MessagesInv

\* The memberships are changed once everybody that they concern has been told.
LEMMA ReleasePreserves ==
  ASSUME MessagesInv, ReleaseAll \/ LeaveAsGuest
  PROVE  MessagesInv'
<1>1. job \in Jobs /\ MessagesTypeOK /\ RowsAreFinite /\ JobIsWellFormed
  BY JobType DEF MessagesInv
<1>2. PICK step \in {"list", "done"} :
        /\ job.at \in {"release", "releaseGuest"} /\ Goto(step)
        /\ step = "list" <=> job.kind = "admin"
  BY <1>1 DEF ReleaseAll, LeaveAsGuest, JobIsWellFormed
<1>3. /\ UNCHANGED <<bound, route, closing, told, lost>>
      /\ affected' = {v \in Members(job.trans) \ {job.user} : Connected(v)}
      /\ job.kind \in {"leave", "admin"}
  BY <1>1, <1>2 DEF ReleaseAll, LeaveAsGuest, Affect, JobIsWellFormed
<1>4. /\ job' \in Jobs /\ job'.at = step /\ job'.kind = job.kind /\ job'.user = job.user
      /\ job'.trans = job.trans /\ job'.peer = job.peer /\ job'.via = job.via
  BY <1>1, <1>2, Goes
<1>5. /\ RowsShrink /\ hosted' \subseteq hosted /\ guests' \in [Users -> SUBSET UserIds]
      /\ job.kind = "admin" => job.trans \notin hosted'
  <2>1. CASE ReleaseAll /\ job.trans \in hosted
    <3>1. /\ EndRows({job.trans} \X guests[job.trans])
          /\ hosted' = hosted \ {job.trans}
          /\ guests' = [guests EXCEPT ![job.trans] = {}]
      BY <2>1 DEF ReleaseAll, ReleaseTransmission
    <3>2. RowsShrink
      BY <1>1, <3>1, EndRowsEnds DEF RowsShrink
    <3> QED
      BY <1>1, <3>1, <3>2 DEF MessagesTypeOK
  <2>2. CASE ReleaseAll /\ job.trans \notin hosted
    BY <1>1, <2>2 DEF ReleaseAll, RowsShrink, MessagesTypeOK, RowsAreFinite, store
  <2>3. CASE LeaveAsGuest
    <3>1. /\ EndRows({<<t, job.user>> : t \in {t \in Users : job.user \in guests[t]}})
          /\ hosted' = hosted /\ job.kind = "leave"
          /\ guests' = [t \in Users |-> guests[t] \ {job.user}]
      BY <1>1, <2>3 DEF LeaveAsGuest, ReleaseGuestFromTransmission, JobIsWellFormed
    <3>2. RowsShrink
      BY <1>1, <3>1, EndRowsEnds DEF RowsShrink
    <3> QED
      BY <1>1, <3>1, <3>2 DEF MessagesTypeOK
  <2> QED
    BY <2>1, <2>2, <2>3
<1>6. affected' \subseteq told \cup lost
  BY <1>2, <1>3 DEF MessagesInv, MembersAreCovered, ToTell
<1>7. MessagesTypeOK'
  <2>1. affected' \subseteq Users
    BY <1>1, <1>6 DEF MessagesTypeOK
  <2> QED
    BY <1>1, <1>3, <1>4, <1>5, <2>1 DEF MessagesTypeOK, RowsShrink, Jobs
<1>8. ConnectedIsRouted' /\ RowsAreFinite' /\ AffectedAreTold'
  BY <1>3, <1>5, <1>6
  DEF MessagesInv, ConnectedIsRouted, Connected, ConnsOf, RowsShrink, RowsAreFinite,
      AffectedAreTold
<1>9. JobIsWellFormed'
  BY <1>1, <1>2, <1>4 DEF JobIsWellFormed
<1>10. PairIsInside'
  BY <1>3, <1>4 DEF PairIsInside
<1>11. MembersAreCovered' /\ EndedSoFar'
  BY <1>2, <1>4, <1>5 DEF MembersAreCovered, EndedSoFar
<1> QED
  BY <1>7, <1>8, <1>9, <1>10, <1>11 DEF MessagesInv

\* What the administrator's handler does about the rows that are left.
LEMMA EndingPreserves ==
  ASSUME MessagesInv, ListRemoteControlSessions \/ EndRemoteControlTransmission
  PROVE  MessagesInv'
<1>1. /\ job \in Jobs /\ MessagesTypeOK /\ RowsAreFinite /\ JobIsWellFormed
      /\ job.at \in {"list", "end"} /\ job.kind = "admin" /\ job.trans \notin hosted
  BY JobType
  DEF MessagesInv, ListRemoteControlSessions, EndRemoteControlTransmission, JobIsWellFormed,
      EndedSoFar
<1>2. PICK step \in {"end", "done"} : Goto(step)
  BY DEF ListRemoteControlSessions, EndRemoteControlTransmission
<1>3. UNCHANGED <<roster, told, lost, affected>>
  BY DEF ListRemoteControlSessions, EndRemoteControlTransmission
<1>4. /\ job' \in Jobs /\ job'.at = step /\ job'.kind = job.kind /\ job'.user = job.user
      /\ job'.trans = job.trans /\ job'.peer = job.peer /\ job'.via = job.via
  BY <1>1, <1>2, Goes
<1>5. /\ dbRows' \subseteq dbRows /\ IsFiniteSet(dbRows') /\ failures' \in 0..MaxFailures
      /\ unended' \in BOOLEAN
      /\ step = "done" => unended' \/ \A g \in Users : <<job.trans, g>> \notin dbRows'
  <2>1. CASE ListRemoteControlSessions
    <3>1. /\ UNCHANGED <<dbRows, failures>> /\ unended' = FALSE
          /\ Goto(IF \E g \in Users : <<job.trans, g>> \in dbRows THEN "end" ELSE "done")
      BY <2>1 DEF ListRemoteControlSessions, store
    <3>2. step = "done" => ~\E g \in Users : <<job.trans, g>> \in dbRows
      BY <1>1, <1>4, <3>1, Goes
    <3> QED
      BY <1>1, <3>1, <3>2 DEF MessagesTypeOK, RowsAreFinite
  <2>2. CASE EndRemoteControlTransmission
    <3>1. EndRows({job.trans} \X Users)
      BY <2>2 DEF EndRemoteControlTransmission
    <3> QED
      BY <1>1, <3>1, EndRowsEnds
  <2> QED
    BY <2>1, <2>2
<1>6. JobIsWellFormed'
  BY <1>1, <1>2, <1>4 DEF JobIsWellFormed
<1>7. PairIsInside' /\ MembersAreCovered'
  BY <1>1, <1>2, <1>4 DEF PairIsInside, MembersAreCovered
<1>8. EndedSoFar'
  BY <1>1, <1>3, <1>4, <1>5 DEF EndedSoFar, roster
<1>9. dbRows' \subseteq Users \X Users /\ told' \subseteq Users /\ lost' \subseteq Users
  BY <1>1, <1>3, <1>5 DEF MessagesTypeOK
<1> QED
  BY <1>3, <1>4, <1>5, <1>6, <1>7, <1>8, <1>9, HandlerGoesOn

\* No handler runs: there is nobody to tell and nothing to end.
LEMMA NothingRuns ==
  job = NoJob /\ affected = {} =>
    /\ JobIsWellFormed /\ PairIsInside
    /\ MembersAreCovered /\ AffectedAreTold /\ EndedSoFar
<1> SUFFICES ASSUME job = NoJob, affected = {}
             PROVE  /\ JobIsWellFormed /\ PairIsInside
                    /\ MembersAreCovered /\ AffectedAreTold /\ EndedSoFar
  OBVIOUS
<1>1. job.at = "idle" /\ job.kind = "relay" /\ job.via = NoConn
  BY NoJobType
<1> QED
  BY <1>1
  DEF JobIsWellFormed, PairIsInside, MembersAreCovered,
      AffectedAreTold, EndedSoFar

LEMMA ReturnPreserves ==
  ASSUME MessagesInv, Return
  PROVE  MessagesInv'
<1>1. /\ UNCHANGED <<bound, route, closing, hosted, guests, dbRows, failures>>
      /\ job' = NoJob
      /\ told' = {} /\ lost' = {} /\ affected' = {} /\ unended' = FALSE
  BY DEF Return, roster, store
<1>2. MessagesTypeOK'
  BY <1>1, NoJobType DEF MessagesInv, MessagesTypeOK, Jobs
<1>3. ConnectedIsRouted' /\ RowsAreFinite'
  BY <1>1 DEF MessagesInv, ConnectedIsRouted, Connected, ConnsOf, RowsAreFinite
<1>4. /\ JobIsWellFormed' /\ PairIsInside'
      /\ MembersAreCovered' /\ AffectedAreTold' /\ EndedSoFar'
  <2>1. (job = NoJob /\ affected = {})'
    BY <1>1 DEF NoJob
  <2> QED
    BY <2>1, NothingRuns, PTL
<1> QED
  BY <1>2, <1>3, <1>4 DEF MessagesInv

LEMMA RestartMessagesPreserves ==
  ASSUME MessagesInv, Restart
  PROVE  MessagesInv'
<1>1. /\ dbRows' \subseteq dbRows
      /\ hosted' = {r[1] : r \in dbRows'}
      /\ guests' = [t \in Users |-> {u \in Users : <<t, u>> \in dbRows'}]
      /\ bound' = {} /\ route' = [u \in Users |-> NoConn] /\ closing' = NoConn
      /\ job' = NoJob /\ failures' = failures
      /\ told' = {} /\ lost' = {} /\ affected' = {} /\ unended' = FALSE
  BY DEF Restart
<1>2. MessagesTypeOK'
  <2>1. hosted' \subseteq Users
    <3>1. dbRows \subseteq Users \X Users
      BY DEF MessagesInv, MessagesTypeOK
    <3> QED
      BY <1>1, <3>1
  <2>2. guests' \in [Users -> SUBSET UserIds] /\ route' \in [Users -> Conns \cup {NoConn}]
    BY <1>1
  <2>3. dbRows' \subseteq Users \X Users /\ failures' \in 0..MaxFailures
    BY <1>1 DEF MessagesInv, MessagesTypeOK
  <2>4. job' \in Jobs
    BY <1>1, NoJobType DEF NoJob
  <2> QED
    BY <1>1, <2>1, <2>2, <2>3, <2>4 DEF MessagesTypeOK, Jobs
<1>3. ConnectedIsRouted'
  BY <1>1 DEF ConnectedIsRouted, Connected, ConnsOf
<1>4. RowsAreFinite'
  BY <1>1, FS_Subset DEF MessagesInv, RowsAreFinite
<1>5. /\ JobIsWellFormed' /\ PairIsInside'
      /\ MembersAreCovered' /\ AffectedAreTold' /\ EndedSoFar'
  <2>1. (job = NoJob /\ affected = {})'
    BY <1>1 DEF NoJob
  <2> QED
    BY <2>1, NothingRuns, PTL
<1> QED
  BY <1>2, <1>3, <1>4, <1>5 DEF MessagesInv

LEMMA MessagesInvInit == MessagesInit => MessagesInv
<1> SUFFICES ASSUME MessagesInit PROVE MessagesInv
  OBVIOUS
<1>1. MessagesTypeOK
  <2>1. failures \in 0..MaxFailures
    <3>1. MaxFailures \in Nat
      BY MessagesAssumption DEF MessagesAssumption
    <3>2. failures = 0
      BY DEF MessagesInit
    <3> QED
      BY <3>1, <3>2
  <2>2. job \in Jobs
    BY NoJobType DEF MessagesInit
  <2> QED
    BY <2>1, <2>2 DEF MessagesInit, MessagesTypeOK, Jobs
<1>2. ConnectedIsRouted
  BY DEF MessagesInit, ConnectedIsRouted, Connected, ConnsOf
<1>3. RowsAreFinite
  BY FS_EmptySet DEF MessagesInit, RowsAreFinite
<1>4. /\ JobIsWellFormed /\ PairIsInside
      /\ MembersAreCovered /\ AffectedAreTold /\ EndedSoFar
  BY NothingRuns DEF MessagesInit
<1> QED
  BY <1>1, <1>2, <1>3, <1>4 DEF MessagesInv

LEMMA MessagesInvStep == MessagesInv /\ [MessagesNext]_messageVars => MessagesInv'
<1> SUFFICES ASSUME MessagesInv, [MessagesNext]_messageVars PROVE MessagesInv'
  OBVIOUS
<1>1. ASSUME NEW c \in Conns, SweepExpire(c) \/ OnClose(c) PROVE MessagesInv'
  BY <1>1, SessionEndPreserves
<1>2. CASE SweepClose \/ UNCHANGED messageVars
  BY <1>2, SweepClosePreserves
<1>3. ASSUME NEW c \in Conns, LoginUser(c) PROVE MessagesInv'
  BY <1>3, LoginPreserves
<1>4. CASE \/ \E c \in Conns, t \in Named : \E u \in {c[1], ""} : JoinRequest(c, u, t)
           \/ \E c \in Conns, t \in Named, v \in UserIds : \E u \in {c[1], ""} : Offer(c, u, t, v)
           \/ \E v \in UserIds : Relay(v)
           \/ \E u \in UserIds, t \in Named : LeaveTransmission(u, t)
           \/ \E t \in Named : HandleDisconnect(t)
  BY <1>4, RequestsPreserve
<1> QED
  BY <1>1, <1>2, <1>3, <1>4, SenderCheckPreserves, JoinBindGuestPreserves,
     LookUpRoutePreserves, SendMsgPreserves, TellNextPreserves, IsHostPreserves,
     ReleasePreserves, EndingPreserves, ReturnPreserves, CleanupPreserves,
     RestartMessagesPreserves
  DEF MessagesNext

-----------------------------------------------------------------------------
(* The theorems.                                                           *)

LEMMA MessagesInvariance == MessagesSpec => []MessagesInv
  BY MessagesInvInit, MessagesInvStep, PTL DEF MessagesSpec

\* Every variable keeps its type.
THEOREM MessagesTypeCorrect == MessagesSpec => []MessagesTypeOK
<1>1. MessagesInv => MessagesTypeOK
  BY DEF MessagesInv
<1> QED
  BY <1>1, MessagesInvariance, PTL

\* Whatever sessions end while somebody leaves a transmission, or an administrator ends it,
\* the members that are left when the memberships change have been sent the message, or
\* lost the connection that it was for.
THEOREM MembersHearOfIt == MessagesSpec => []MembersAreTold
<1>1. MessagesInv => MembersAreTold
  BY DEF MessagesInv, AffectedAreTold, MembersAreTold
<1> QED
  BY <1>1, MessagesInvariance, PTL

\* When credentials reach the receiver of an offer, or the host that a guest joins, both
\* are still members, although sessions end between the critical sections of the handler:
\* unless one of the two has no connection any more.
THEOREM CredentialsStayInside == MessagesSpec => []ReceiversAreInside
<1>1. MessagesInv => ReceiversAreInside
  <2> SUFFICES ASSUME PairIsInside, job.kind \in {"join", "offer"}, told # {}
               PROVE  \/ {job.user} \cup told \subseteq Members(job.trans)
                      \/ \E u \in ({job.user} \cup told) \ {""} : ~Connected(u)
    BY DEF MessagesInv, ReceiversAreInside
  <2>1. told = {job.peer} /\ Inside({job.user, job.peer})
    BY DEF PairIsInside
  <2> QED
    BY <2>1 DEF Inside
<1> QED
  BY <1>1, MessagesInvariance, PTL

\* When an administrator's disconnect is done, nothing is left of the transmission, in
\* memory or in the table, unless statements failed in that very handler.
THEOREM DisconnectLeavesNothing == MessagesSpec => []NothingIsLeft
<1>1. MessagesInv => NothingIsLeft
  BY DEF MessagesInv, EndedSoFar, NothingIsLeft, Members
<1> QED
  BY <1>1, MessagesInvariance, PTL
=============================================================================
