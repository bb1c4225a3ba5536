--------------------------- MODULE MCSessionPool ---------------------------
(***************************************************************************)
(* Three sessions, each configured twice at most, one decode slot or two,    *)
(* and a TTL of a second, none or forever.                                 *)
(***************************************************************************)
EXTENDS SessionPool

MCTtls == {-1, 0, 1}
MCLimits == {0, 2}
=============================================================================
