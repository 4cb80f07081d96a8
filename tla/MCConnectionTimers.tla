------------------------- MODULE MCConnectionTimers -------------------------
EXTENDS ConnectionTimers, TLC
CONSTANTS w1, w2, k1, k2
MCWorkers == {w1, w2}
MCKeys == {k1, k2}
OneClient == [k \in MCKeys |-> "client"]
TwoBuckets == (k1 :> 0) @@ (k2 :> 1)
=============================================================================
