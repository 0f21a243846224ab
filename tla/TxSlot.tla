------------------------------- MODULE TxSlot -------------------------------
(***************************************************************************)
(* What the transmit path of simple_sat_ops promises its operator, with no *)
(* threads in sight.  There is one slot (state->tx.tx_request).  A request *)
(* staged in it may go on the air, at most once and in at most two stages  *)
(* (some samples, then all of them).  A verdict on it is given at most     *)
(* once: "sent" exactly when the whole burst was emitted.  Giving it frees *)
(* the slot.  Leaving the main loop ends the verdicts but not a burst that *)
(* is already under way.                                                   *)
(***************************************************************************)
CONSTANTS Requests, None

VARIABLES
    held,      \* the request in the slot, or None
    air,       \* air[r]: how much of r was emitted, "none", "part" or "full"
    verdict,   \* verdict[r]: "none", "sent" or "not_sent"
    open       \* the main loop still services the slot

slotVars == <<held, air, verdict, open>>

Init ==
    /\ held = None
    /\ air = [r \in Requests |-> "none"]
    /\ verdict = [r \in Requests |-> "none"]
    /\ open = TRUE

Stage(r) ==
    /\ open
    /\ held = None
    /\ air[r] = "none"
    /\ verdict[r] = "none"
    /\ held' = r
    /\ UNCHANGED <<air, verdict, open>>

\* The first samples of the held request leave the radio.
Key ==
    /\ held # None
    /\ air[held] = "none"
    /\ air' = [air EXCEPT ![held] = "part"]
    /\ UNCHANGED <<held, verdict, open>>

\* The last sample of the held request leaves the radio.
Complete ==
    /\ held # None
    /\ air[held] = "part"
    /\ air' = [air EXCEPT ![held] = "full"]
    /\ UNCHANGED <<held, verdict, open>>

Report(v) ==
    /\ open
    /\ held # None
    /\ v = "sent" <=> air[held] = "full"
    /\ verdict' = [verdict EXCEPT ![held] = v]
    /\ held' = None
    /\ UNCHANGED <<air, open>>

Leave ==
    /\ open
    /\ open' = FALSE
    /\ UNCHANGED <<held, air, verdict>>

Next ==
    \/ \E r \in Requests : Stage(r)
    \/ Key
    \/ Complete
    \/ \E v \in {"sent", "not_sent"} : Report(v)
    \/ Leave

Spec == Init /\ [][Next]_slotVars
=============================================================================
