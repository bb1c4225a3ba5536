---------------------------- MODULE MCModelCache ----------------------------
(***************************************************************************)
(* Three sessions, two model files, TTLs that unload at once, after two    *)
(* seconds or never, up to four loads and three timer threads: enough for  *)
(* a timer to outlive the release it was started for, and the model it was *)
(* started for.                                                            *)
(***************************************************************************)
EXTENDS ModelCache

CONSTANTS c1, c2, c3, p1, p2, t1, t2, t3, noPath

MCTtls == {-1, 0, 2}
=============================================================================
