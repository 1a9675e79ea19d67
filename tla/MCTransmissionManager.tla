----------------------- MODULE MCTransmissionManager -----------------------
(* Model-checking instance of TransmissionManager.                         *)
EXTENDS TransmissionManager, TLC

\* Devices and handles are interchangeable.
Symmetry == Permutations(Users) \cup Permutations(Handles)
=============================================================================
