---------------------------- MODULE MCCenterService ----------------------------
(* Instances of CenterService for TLC. *)
EXTENDS CenterService
\* Two centers with two virtual nodes each.
TwoCenters == <<"a", "b", "a", "b">>
===============================================================================
