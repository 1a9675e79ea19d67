------------------------- MODULE MCControlDurations -------------------------
(* Model-checking instance of ControlDurations: device b controls a itself *)
(* and through its clone cb.                                               *)
EXTENDS ControlDurations, TLC

CONSTANTS a, b, cb

MCBase == (a :> a) @@ (b :> b) @@ (cb :> b)
MCKeys == {<<a, b>>, <<a, cb>>}
MCOneKey == {<<a, b>>}
=============================================================================
