------------------------- MODULE MCDispatchThread -------------------------
(* Instances of DispatchThread for TLC.                                     *)
EXTENDS DispatchThread

CONSTANTS c1, c2, c3

ThreeConns == {c1, c2, c3}
=============================================================================
