------------------------ MODULE MCRpcCenterElection ------------------------
(* Instances of RpcCenterElection for TLC: the centers file of every center *)
(* names all centers, or center 1 was not told of center 3.                 *)
EXTENDS RpcCenterElection

FullList == [c \in Centers |-> Centers]
PartialList == [c \in Centers |-> IF c = 1 THEN Centers \ {3} ELSE Centers]
=============================================================================
