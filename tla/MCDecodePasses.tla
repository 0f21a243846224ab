--------------------------- MODULE MCDecodePasses ---------------------------
EXTENDS DecodePasses, TLC

CONSTANTS j1, j2, night, byhand

\* Two overlapping invocations, a worker each: their workers meet on one file
\* and, as the workers of one pool do, on two.
MCInvOf == (j1 :> night) @@ (j2 :> byhand)

\* A recording that is still being written, and a SatNOGS one of the same
\* beacon: the same payload with two origins.
MCFiles == {"pass.wav", "satnogs.ogg"}
MCOrigin == [f \in MCFiles |-> IF f = "pass.wav" THEN "cts_ground" ELSE "satnogs"]
MCFirstPart == [f \in MCFiles |-> {"p1"}]
MCWhole == [f \in MCFiles |-> IF f = "pass.wav" THEN {"p1", "p2"} ELSE {"p1"}]

\* A database of the first version, with the duplicates it allowed.
MCOldRows == {Row("p1", Null, 1), Row("p0", Null, 1), Row("p1", Null, 2)}
NoRows == {}
=============================================================================
