--------------------------- MODULE MCConnectivity ---------------------------
(* Connectivity with a toy that knows three networks. *)
EXTENDS Connectivity

ThreeSaved == {2, 3, 5}
LastOnly   == {5}
=============================================================================
