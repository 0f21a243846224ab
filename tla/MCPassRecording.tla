--------------------------- MODULE MCPassRecording ---------------------------
(* Model-checking instance of PassRecording: one clock unit is 20 s, so the   *)
(* pre- and postroll of 60 s are three units; a pass whose preroll has begun  *)
(* when the program starts, and two short ones as close as they may be.       *)
EXTENDS PassRecording

const_Passes == {[aos |-> 1, los |-> 4], [aos |-> 13, los |-> 14],
                 [aos |-> 23, los |-> 24]}
const_Preroll == 3
const_Postroll == 3
const_MaxTime == 31
=============================================================================
