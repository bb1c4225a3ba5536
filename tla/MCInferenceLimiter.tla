------------------------ MODULE MCInferenceLimiter ------------------------
(***************************************************************************)
(* Four threads and limits from 1 to 3: more threads than slots, limits    *)
(* that are lowered under the slots in use and raised above them, and the  *)
(* arguments 0 and -1 that setMaxConcurrency() ignores.                    *)
(***************************************************************************)
EXTENDS InferenceLimiter

CONSTANTS t1, t2, t3, t4

MCThread == {t1, t2, t3, t4}
MCLimits == -1..3
=============================================================================
