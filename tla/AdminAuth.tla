------------------------------ MODULE AdminAuth ------------------------------
(***************************************************************************)
(* src/src/admin/admin_auth.cpp: the sessions of the dashboard, and what   *)
(* AdminController::Handle asks of them.  Expiry times are those of the    *)
(* system clock, which an operator may set back.  All requests are handled *)
(* by the event loop, one at a time, so a request is one action.           *)
(***************************************************************************)
EXTENDS Naturals

CONSTANTS
  Tokens,      \* what GenerateToken may return; each value is returned once
  TTL,         \* session_ttl_
  MaxTime,     \* bound on the clock
  MaxSetBacks  \* bound on the times the clock is set back

ASSUME AuthAssumption ==
  TTL \in Nat \ {0} /\ MaxTime \in Nat \ {0} /\ MaxSetBacks \in Nat

VARIABLES
  enabled,   \* IsEnabled: both name and password are configured
  expiry,    \* sessions_: the expiry time by token, or 0
  now,       \* the system clock
  issued,    \* history: the tokens that were handed out
  lifetime,  \* history: the time that has passed since, at most TTL
  refused,   \* history: the tokens that a request was refused for
  setBacks   \* the times the clock was set back

authVars == <<enabled, expiry, now, issued, lifetime, refused, setBacks>>

AuthTypeOK ==
  /\ enabled \in BOOLEAN
  /\ expiry \in [Tokens -> 0..MaxTime + TTL]
  /\ now \in 1..MaxTime
  /\ issued \subseteq Tokens /\ refused \subseteq Tokens
  /\ lifetime \in [Tokens -> 0..TTL]
  /\ setBacks \in 0..MaxSetBacks

AuthInit ==
  /\ enabled \in BOOLEAN
  /\ expiry = [t \in Tokens |-> 0]
  /\ now = 1
  /\ issued = {} /\ refused = {}
  /\ lifetime = [t \in Tokens |-> 0]
  /\ setBacks = 0

Accepted(t) == enabled /\ expiry[t] > now

\* RemoveExpiredSessions, which every call but Logout begins with.
RemoveExpiredSessions(sessions) ==
  [t \in Tokens |-> IF sessions[t] <= now THEN 0 ELSE sessions[t]]

\* The credentials are right.  Without randomness the token is empty: its entry
\* is never accepted, as if there were none, so that case is not told apart.
LoginAdmin(t) ==
  /\ enabled /\ t \notin issued
  /\ expiry' = [RemoveExpiredSessions(expiry) EXCEPT ![t] = now + TTL]
  /\ issued' = issued \cup {t}
  /\ UNCHANGED <<enabled, now, lifetime, refused, setBacks>>

\* Mutant: a session that is used lives on.
ValidateSession_Renews(t) ==
  /\ t \in issued
  /\ expiry' = [RemoveExpiredSessions(expiry) EXCEPT ![t] = IF Accepted(t) THEN now + TTL ELSE 0]
  /\ refused' = IF Accepted(t) THEN refused ELSE refused \cup {t}
  /\ UNCHANGED <<enabled, now, issued, lifetime, setBacks>>

\* Mutant: an expired session is refused but kept.
ValidateSession_Keeps(t) ==
  /\ t \in issued
  /\ refused' = IF Accepted(t) THEN refused ELSE refused \cup {t}
  /\ UNCHANGED <<enabled, expiry, now, issued, lifetime, setBacks>>

\* Every request but the login comes with a token and is validated first.
ValidateSession(t) ==
  /\ t \in issued
  /\ expiry' = RemoveExpiredSessions(expiry)
  /\ refused' = IF Accepted(t) THEN refused ELSE refused \cup {t}
  /\ UNCHANGED <<enabled, now, issued, lifetime, setBacks>>

\* A logout is such a request; the token it ends counts as refused.
LogoutAdmin(t) ==
  /\ t \in issued /\ Accepted(t)
  /\ expiry' = [RemoveExpiredSessions(expiry) EXCEPT ![t] = 0]
  /\ refused' = refused \cup {t}
  /\ UNCHANGED <<enabled, now, issued, lifetime, setBacks>>

\* The process starts again, perhaps with another configuration.
AuthRestart ==
  /\ enabled' \in BOOLEAN
  /\ expiry' = [t \in Tokens |-> 0]
  /\ refused' = issued
  /\ UNCHANGED <<now, issued, lifetime, setBacks>>

ClockTick ==
  /\ now < MaxTime
  /\ now' = now + 1
  /\ lifetime' = [t \in Tokens |-> IF t \in issued /\ lifetime[t] < TTL
                                   THEN lifetime[t] + 1 ELSE lifetime[t]]
  /\ UNCHANGED <<enabled, expiry, issued, refused, setBacks>>

SetClockBack ==
  /\ now > 1 /\ setBacks < MaxSetBacks
  /\ now' \in 1..now - 1
  /\ setBacks' = setBacks + 1
  /\ UNCHANGED <<enabled, expiry, issued, lifetime, refused>>

AuthNext ==
  \/ \E t \in Tokens : LoginAdmin(t)
  \/ \E t \in Tokens : ValidateSession(t)
  \/ \E t \in Tokens : LogoutAdmin(t)
  \/ AuthRestart
  \/ ClockTick
  \/ SetClockBack

AuthSpec == AuthInit /\ [][AuthNext]_authVars

-----------------------------------------------------------------------------
(* Properties.                                                             *)

\* A token that was refused once, after its expiry, a logout or a restart, is
\* refused for ever, even if the clock is set back to before its expiry.
RefusedStaysRefused == \A t \in refused : ~Accepted(t)

\* As long as nobody sets the clock back, a session ends TTL after its login,
\* whatever requests it is used for.
SessionsExpire == \A t \in issued : setBacks = 0 /\ lifetime[t] = TTL => ~Accepted(t)
=============================================================================
