---------------------------- MODULE RotatorOrders ----------------------------
(***************************************************************************)
(* What the rotator worker of simple_sat_ops promises the main loop, with  *)
(* no threads and no request flags in sight.  Orders go to the controller  *)
(* one by one in the order in which they were given, each at most once,    *)
(* with three exceptions: a pointing replaces the one before it as long as *)
(* that has not been sent, a STOP goes ahead of a pointing that has not    *)
(* been sent, and the line may lose an order.  Once the line is closed     *)
(* nothing is sent.                                                        *)
(***************************************************************************)
EXTENDS Naturals, Sequences

CONSTANT Targets

VARIABLES
    due,       \* orders not sent yet, targets and "stop"
    told,      \* the last order that reached the controller
    closed

ordersVars == <<due, told, closed>>

Init == due = <<>> /\ told = "stopped" /\ closed = FALSE

Front == SubSeq(due, 1, Len(due) - 1)
Newest == due[Len(due)]

\* A pointing is added to the orders, or takes the place of an unsent one.
Set(t) ==
    /\ ~closed
    /\ \/ due' = Append(due, t)
       \/ due # <<>> /\ Newest # "stop" /\ due' = Append(Front, t)
    /\ UNCHANGED <<told, closed>>

\* A STOP is added to the orders, at the end or ahead of an unsent pointing.
\* (One that joins an unsent STOP changes nothing.)
Stop ==
    /\ ~closed
    /\ \/ due' = Append(due, "stop")
       \/ /\ due # <<>> /\ Newest # "stop"
          /\ due' = Append(Append(Front, "stop"), Newest)
    /\ UNCHANGED <<told, closed>>

\* The oldest order reaches the controller, or the line loses it.
Send ==
    /\ ~closed /\ due # <<>>
    /\ told' = IF Head(due) = "stop" THEN "stopped" ELSE Head(due)
    /\ due' = Tail(due)
    /\ UNCHANGED closed

Lose ==
    /\ ~closed /\ due # <<>>
    /\ due' = Tail(due)
    /\ UNCHANGED <<told, closed>>

\* Orders that are not sent by then never are.
Close ==
    /\ ~closed
    /\ closed' = TRUE /\ due' = <<>>
    /\ UNCHANGED told

Next == \/ \E t \in Targets : Set(t)
        \/ Stop \/ Send \/ Lose \/ Close

Spec == Init /\ [][Next]_ordersVars
=============================================================================
