------------------------------ MODULE MCTxBurst ------------------------------
(* Model-checking instance of TxBurst.                                       *)
EXTENDS TxBurst

CONSTANTS r1, r2

const_Requests == {r1, r2}
const_Tracked == {r1}
=============================================================================
