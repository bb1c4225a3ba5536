----------------------------- MODULE SlotPool -----------------------------
(***************************************************************************)
(* What InferenceLimiter promises to its callers, with no mutex, condition *)
(* variable or counter in it: a set of threads that hold a decode slot,    *)
(* which grows only while it is below the limit in force.  Lowering the    *)
(* limit takes no slot away; it only stops new ones from being given.      *)
(***************************************************************************)
EXTENDS Integers, FiniteSets

CONSTANTS Thread, Limits, DefaultLimit

VARIABLES
  holders,   \* the threads that hold a slot
  limit      \* the limit in force

Init == holders = {} /\ limit = DefaultLimit

Take(t) ==
  /\ t \notin holders
  /\ Cardinality(holders) < limit
  /\ holders' = holders \cup {t}
  /\ UNCHANGED limit

Give(t) ==
  /\ t \in holders
  /\ holders' = holders \ {t}
  /\ UNCHANGED limit

SetLimit(n) ==
  /\ n > 0
  /\ limit' = n
  /\ UNCHANGED holders

Next ==
  \/ \E t \in Thread : Take(t) \/ Give(t)
  \/ \E n \in Limits : SetLimit(n)

Spec == Init /\ [][Next]_<<holders, limit>>
=============================================================================
