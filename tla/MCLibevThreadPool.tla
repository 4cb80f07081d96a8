------------------------- MODULE MCLibevThreadPool -------------------------
(* Instances of LibevThreadPool for TLC.                                    *)
EXTENDS LibevThreadPool, TLC

CONSTANTS d1, d2
TwoDispatchers == {d1, d2}

(* Dispatchers are interchangeable.                                         *)
DispatcherSymmetry == Permutations({d1, d2})
=============================================================================
