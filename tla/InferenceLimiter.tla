-------------------------- MODULE InferenceLimiter --------------------------
(***************************************************************************)
(* src/whisper/InferenceLimiter.h: the process-wide counting semaphore     *)
(* that caps simultaneous Whisper decodes.  Every method runs under        *)
(* mutex_, so a method is one step; acquire() may block inside it on the   *)
(* condition variable cv_, which releases mutex_, so a blocking acquire    *)
(* is a step that goes to sleep and a later step that wakes up.            *)
(*                                                                         *)
(* A thread that is asleep in cv_.wait is "waiting"; one that has been     *)
(* notified (or woken spuriously, which cv_.wait allows) but has not yet   *)
(* taken mutex_ again is "notified".                                       *)
(***************************************************************************)
EXTENDS Integers, FiniteSets

CONSTANTS
  Thread,         \* the threads that use the limiter
  Limits,         \* the arguments setMaxConcurrency() is called with
  DefaultLimit    \* the initial value of max_concurrent_ (4 in the source)

ASSUME LimiterAssumption ==
  /\ IsFiniteSet(Thread)
  /\ Limits \subseteq Int
  /\ DefaultLimit \in Nat \ {0}

VARIABLES
  active_count_,    \* slots in use, as the limiter counts them
  max_concurrent_,  \* the limit
  caller            \* what each thread is doing with respect to the limiter

vars == <<active_count_, max_concurrent_, caller>>

CallerStates == {"idle", "waiting", "notified", "holding"}

Where(c, state) == {t \in Thread : c[t] = state}

In(state) == Where(caller, state)

\* Mutated form of HasCapacity, for mutation testing: one slot too many.
HasCapacityOffByOne == active_count_ <= max_concurrent_

\* The wait predicate of acquire(), the test of try_acquire(), hasCapacity().
HasCapacity == active_count_ < max_concurrent_

Init ==
  /\ active_count_ = 0
  /\ max_concurrent_ = DefaultLimit
  /\ caller = [t \in Thread |-> "idle"]

-----------------------------------------------------------------------------

\* t holds mutex_ and evaluates the wait predicate: a slot, or back to sleep.
ClaimOrSleep(t) ==
  \/ /\ HasCapacity
     /\ active_count_' = active_count_ + 1
     /\ caller' = [caller EXCEPT ![t] = "holding"]
     /\ UNCHANGED max_concurrent_
  \/ /\ ~HasCapacity
     /\ caller' = [caller EXCEPT ![t] = "waiting"]
     /\ UNCHANGED <<active_count_, max_concurrent_>>

\* acquire(): the call, up to the slot or to the first sleep.
Acquire(t) == caller[t] = "idle" /\ ClaimOrSleep(t)

\* acquire(): cv_.wait has returned mutex_ to t and re-evaluates the predicate.
WakeUp(t) == caller[t] = "notified" /\ ClaimOrSleep(t)

\* The standard library may wake a waiter that nobody notified.
SpuriousWakeUp(t) ==
  /\ caller[t] = "waiting"
  /\ caller' = [caller EXCEPT ![t] = "notified"]
  /\ UNCHANGED <<active_count_, max_concurrent_>>

\* try_acquire() that returns true; one that returns false changes nothing.
TryAcquire(t) ==
  /\ caller[t] = "idle"
  /\ HasCapacity
  /\ active_count_' = active_count_ + 1
  /\ caller' = [caller EXCEPT ![t] = "holding"]
  /\ UNCHANGED max_concurrent_

\* Mutated form of NotifyOne, for mutation testing: the notification is lost.
NotifyNobody(c) == {c}

\* The caller maps cv_.notify_one() may leave: one waiter of c, if it has any.
NotifyOne(c) ==
  IF Where(c, "waiting") = {} THEN {c}
  ELSE {[c EXCEPT ![w] = "notified"] : w \in Where(c, "waiting")}

\* Mutated form of Release: the slot goes, the counter stays.
ReleaseWithoutDecrement(t) ==
  /\ caller[t] = "holding"
  /\ caller' \in NotifyOne([caller EXCEPT ![t] = "idle"])
  /\ UNCHANGED <<active_count_, max_concurrent_>>

\* release(), by a thread that holds a slot: so active_count_ > 0, which
\* SlotAccounting shows, and the source's test of it is always true.
Release(t) ==
  /\ caller[t] = "holding"
  /\ active_count_ > 0
  /\ active_count_' = active_count_ - 1
  /\ caller' \in NotifyOne([caller EXCEPT ![t] = "idle"])
  /\ UNCHANGED max_concurrent_

\* Mutated forms of SetMaxConcurrency: nobody notified; any limit taken.
SetMaxConcurrencySilently(n) ==
  /\ n > 0
  /\ max_concurrent_' = n
  /\ UNCHANGED <<active_count_, caller>>

SetMaxConcurrencyUnchecked(n) ==
  /\ max_concurrent_' = n
  /\ UNCHANGED <<active_count_, caller>>

\* setMaxConcurrency(n): a limit that is not positive is ignored; any other is
\* taken and every waiter notified (cv_.notify_all).
SetMaxConcurrency(n) ==
  /\ n > 0
  /\ max_concurrent_' = n
  /\ caller' = [t \in Thread |-> IF caller[t] = "waiting" THEN "notified"
                                 ELSE caller[t]]
  /\ UNCHANGED active_count_

Next ==
  \/ \E t \in Thread :
       Acquire(t) \/ WakeUp(t) \/ SpuriousWakeUp(t) \/ TryAcquire(t) \/ Release(t)
  \/ \E n \in Limits : SetMaxConcurrency(n)

\* A notified thread gets mutex_ back.  Nothing else is promised: a holder may
\* decode for as long as it likes, and nobody has to call the limiter.
Fairness == \A t \in Thread : WF_vars(WakeUp(t))

Spec == Init /\ [][Next]_vars /\ Fairness

-----------------------------------------------------------------------------

TypeOK ==
  /\ active_count_ \in Nat
  /\ max_concurrent_ \in Nat \ {0}
  /\ caller \in [Thread -> CallerStates]

\* The counter is exactly the number of threads that hold a slot, through any
\* interleaving of blocking and non-blocking claims, releases and changes of
\* the limit: the limiter never leaks a slot, and release() never finds zero.
SlotAccounting == active_count_ = Cardinality(In("holding"))

\* No lost wake-up.  A thread sleeps in acquire() while slots are free only if
\* at least as many threads as there are free slots have been notified and are
\* on their way to the predicate: release() may notify one and
\* setMaxConcurrency() has to notify all, and try_acquire() may steal a slot
\* from a notified thread without a waiter being forgotten.
NoLostWakeup ==
  In("waiting") # {} =>
    Cardinality(In("notified")) >= max_concurrent_ - active_count_

\* A free slot that somebody is blocked for is eventually claimed or the
\* blocked thread served: acquire() never sleeps on beside a free slot.
FreeSlotIsTaken ==
  (HasCapacity /\ In("waiting") \cup In("notified") # {})
    ~> (~HasCapacity \/ In("waiting") \cup In("notified") = {})

\* The limiter implements the slot pool: the holders are the threads between a
\* successful claim and their release, and none is let in at or over the limit.
Pool == INSTANCE SlotPool WITH holders <- In("holding"), limit <- max_concurrent_

ImplementsSlotPool == Pool!Spec
=============================================================================
