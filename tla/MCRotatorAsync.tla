--------------------------- MODULE MCRotatorAsync ---------------------------
(* Model-checking instance of RotatorAsync.                                  *)
EXTENDS RotatorAsync

CONSTANTS t1, t2

const_Targets == {t1, t2}
const_MaxSubmits == 3
=============================================================================
