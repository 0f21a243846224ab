----------------------------- MODULE AuditTrail -----------------------------
(***************************************************************************)
(* What the audit log of simple_sat_ops promises, with no ring, lock or    *)
(* worker in sight.  Events are pending from the call until they are in    *)
(* the file, in the order of the calls.  Only when there is no room for a  *)
(* call is a pending event given up, the oldest of the last Capacity, and  *)
(* this is announced in the file sooner or later.  The disk may refuse a   *)
(* line, the log notices nothing.  The log is over only with nothing       *)
(* pending and nothing unannounced, and then stays as it is.               *)
(***************************************************************************)
EXTENDS Naturals, Sequences

CONSTANTS Events, Capacity

VARIABLES
    file,         \* the event lines
    pending,      \* events accepted and not yet written, oldest first
    unreported,   \* events given up and not yet announced
    reported,     \* ... and announced
    over

trailVars == <<file, pending, unreported, reported, over>>

Init ==
    /\ file = <<>> /\ pending = <<>>
    /\ unreported = 0 /\ reported = 0
    /\ over = FALSE

Accept(e) ==
    /\ ~over
    /\ pending' = Append(pending, e)
    /\ UNCHANGED <<file, unreported, reported, over>>

\* The oldest of the last Capacity pending events makes room for e.
Kept == Len(pending) - Capacity
Overflow(e) ==
    /\ ~over /\ Len(pending) >= Capacity
    /\ pending' = Append(SubSeq(pending, 1, Kept)
                         \o SubSeq(pending, Kept + 2, Len(pending)), e)
    /\ unreported' = unreported + 1
    /\ UNCHANGED <<file, reported, over>>

\* The disk takes the oldest pending event or refuses it.
Write ==
    /\ ~over /\ pending # <<>>
    /\ file' \in {file, Append(file, Head(pending))}
    /\ pending' = Tail(pending)
    /\ UNCHANGED <<unreported, reported, over>>

\* Without a worker a call writes at once.
WriteThrough(e) ==
    /\ ~over /\ pending = <<>>
    /\ file' \in {file, Append(file, e)}
    /\ UNCHANGED <<pending, unreported, reported, over>>

Announce(n) ==
    /\ ~over
    /\ reported' = reported + n
    /\ unreported' = unreported - n
    /\ UNCHANGED <<file, pending, over>>

Finish ==
    /\ ~over /\ pending = <<>> /\ unreported = 0
    /\ over' = TRUE
    /\ UNCHANGED <<file, pending, unreported, reported>>

Next ==
    \/ \E e \in Events : Accept(e) \/ Overflow(e) \/ WriteThrough(e)
    \/ Write \/ Finish
    \/ \E n \in 1 .. unreported : Announce(n)

Spec == Init /\ [][Next]_trailVars
=============================================================================
