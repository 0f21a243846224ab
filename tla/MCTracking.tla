----------------------------- MODULE MCTracking -----------------------------
(* Pointing on small instances: units of 30 degrees.                       *)
EXTENDS Tracking

MCMinAz == -5

\* A scan grid that crosses the back of the circle.
BackGrid == <<0, 5, -5>>
=============================================================================
