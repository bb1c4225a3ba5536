------------------------------ MODULE MCServer ------------------------------
(***************************************************************************)
(* A small instance of Server for TLC: four connections from three         *)
(* addresses, two at a time and one per address, so that each cap bites    *)
(* where the other does not.                                               *)
(***************************************************************************)
EXTENDS Server, TLC

CONSTANTS a1, a2, a3, k1, k2, k3, k4

MCIP == {a1, a2, a3}
MCConn == {k1, k2, k3, k4}
MCFrom == (k1 :> a1) @@ (k2 :> a1) @@ (k3 :> a2) @@ (k4 :> a3)
=============================================================================
