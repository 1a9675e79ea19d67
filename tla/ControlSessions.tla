--------------------------- MODULE ControlSessions ---------------------------
(***************************************************************************)
(* What the transmission manager promises, without its five maps: devices  *)
(* have sessions on connections, a device may hold its transmission open,  *)
(* and others may control it through that transmission.  A device with no  *)
(* session left takes no part in any transmission.  What is controlled     *)
(* survives a short outage of the server, the sessions never do.           *)
(***************************************************************************)

CONSTANTS Users, Handles, NoUser

VARIABLES
  session,   \* session[h]: the device that is authenticated on h, or NoUser
  open,      \* the devices whose own transmission can be joined
  controls   \* <<host, guest>>: guest controls host

vars == <<session, open, controls>>

Init ==
  /\ session = [h \in Handles |-> NoUser]
  /\ open = {}
  /\ controls = {}

Present(u) == \E h \in Handles : session[h] = u

\* The pairs that remain when `devices` no longer take part in anything.
Without(devices) == {p \in controls : p[1] \notin devices /\ p[2] \notin devices}

-----------------------------------------------------------------------------
Authenticate(u, h) ==
  /\ session[h] \in {NoUser, u}
  /\ session' = [session EXCEPT ![h] = u]
  /\ UNCHANGED <<open, controls>>

Open(u) ==
  /\ open' = open \cup {u}
  /\ UNCHANGED <<session, controls>>

Control(t, g) ==
  /\ t \in open /\ g # t
  /\ controls' = controls \cup {<<t, g>>}
  /\ UNCHANGED <<session, open>>

Withdraw(g) ==
  /\ controls' = {p \in controls : p[2] # g}
  /\ UNCHANGED <<session, open>>

Shut(t) ==
  /\ open' = open \ {t}
  /\ controls' = {p \in controls : p[1] # t}
  /\ UNCHANGED session

\* The session on h ends; with the last one the device withdraws and shuts.
EndSession(h) ==
  /\ session' = [session EXCEPT ![h] = NoUser]
  /\ LET gone == {u \in Users : Present(u) /\ ~Present(u)'}
     IN  open' = open \ gone /\ controls' = Without(gone)

\* After an outage: whoever has not come back no longer takes part.
DropAbsent ==
  LET gone == {u \in Users : ~Present(u)}
  IN  /\ open' = open \ gone
      /\ controls' = Without(gone)
      /\ UNCHANGED session

\* The server restarts.  A transmission that is still controlled is open again.
Outage(short) ==
  /\ session' = [h \in Handles |-> NoUser]
  /\ controls' = IF short THEN controls ELSE {}
  /\ open' = {p[1] : p \in controls'}

-----------------------------------------------------------------------------
Next ==
  \/ \E u \in Users, h \in Handles : Authenticate(u, h)
  \/ \E u \in Users : Open(u)
  \/ \E t, g \in Users : Control(t, g)
  \/ \E g \in Users : Withdraw(g)
  \/ \E t \in Users : Shut(t)
  \/ \E h \in Handles : EndSession(h)
  \/ DropAbsent
  \/ \E short \in BOOLEAN : Outage(short)

Spec == Init /\ [][Next]_vars
=============================================================================
