----------------------------- MODULE MCAutoTcmd -----------------------------
(* Model-checking instance of AutoTcmd.                                      *)
EXTENDS AutoTcmd

\* An ordinary pass; a rehearsal on the bench that also waves parse errors
\* through; a pass with the brick-risk override only.
const_Configs ==
    {[no_tx |-> FALSE, testing |-> FALSE, ignore_tc_errors |-> FALSE,
      ignore_dangerous |-> FALSE],
     [no_tx |-> TRUE, testing |-> TRUE, ignore_tc_errors |-> TRUE,
      ignore_dangerous |-> FALSE],
     [no_tx |-> FALSE, testing |-> FALSE, ignore_tc_errors |-> FALSE,
      ignore_dangerous |-> TRUE]}

const_MaxCommands == 2
const_MaxRepeats == 2
const_Interval == 1
=============================================================================
