-------------------------- MODULE MCPresenceNotify --------------------------
(* Model-checking instance of PresenceNotify: w and v subscribe to d and w, *)
(* or name nobody.                                                          *)
EXTENDS PresenceNotify

CONSTANTS w, v, d

MCWishes == {{w, d}, {}}
=============================================================================
