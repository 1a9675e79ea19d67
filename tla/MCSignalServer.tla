--------------------------- MODULE MCSignalServer ---------------------------
(* Model-checking instances of SignalServer.                               *)
EXTENDS SignalServer, TLC

\* Connections are interchangeable (used for safety only).
Symmetry == Permutations(Handles)
=============================================================================
