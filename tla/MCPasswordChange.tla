-------------------------- MODULE MCPasswordChange --------------------------
(* Model-checking instance of PasswordChange: device a is careful, b uses  *)
(* its one request id again and again.  Temporary identities are refused   *)
(* as ill-formed passwords are, so the instance has none.                  *)
EXTENDS PasswordChange

CONSTANTS a, b, p0, p1, short

Ask(u, id, new) == [user |-> u, id |-> id, new |-> new]
MCRequest == {Ask(a, 1, p1), Ask(a, 2, p0), Ask(a, 2, short),
              Ask(b, 1, p0), Ask(b, 1, p1)}
=============================================================================
