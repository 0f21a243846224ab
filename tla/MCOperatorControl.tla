------------------------- MODULE MCOperatorControl -------------------------
(* Model-checking instance of OperatorControl: an operator and two others,   *)
(* enough for a takeover during a takeover and for a start after a crash.    *)
EXTENDS OperatorControl

CONSTANTS p1, p2, p3

const_Procs == {p1, p2, p3}
=============================================================================
