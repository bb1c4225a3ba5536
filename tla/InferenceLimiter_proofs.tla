---------------------- MODULE InferenceLimiter_proofs ----------------------
(***************************************************************************)
(* The limiter's invariants and its refinement of SlotPool, for every set  *)
(* of threads and every set of limits.                                     *)
(***************************************************************************)
EXTENDS InferenceLimiter, FiniteSetTheorems, TLAPS

-----------------------------------------------------------------------------
(* Counting threads by state. *)

\* The threads in a state form a finite set, so counting them makes sense.
LEMMA WhereFinite ==
  ASSUME NEW c, NEW x
  PROVE  /\ IsFiniteSet(Where(c, x))
         /\ Cardinality(Where(c, x)) \in Nat
<1>1. Where(c, x) \subseteq Thread  BY DEF Where
<1>2. IsFiniteSet(Where(c, x))
  BY <1>1, LimiterAssumption, FS_Subset DEF LimiterAssumption
<1> QED  BY <1>2, FS_CardinalityType

\* From the map c to the map d, exactly thread t changes state, to s.
Moves(c, d, t, s) ==
  /\ c \in [Thread -> CallerStates] /\ t \in Thread /\ s \in CallerStates
  /\ c[t] # s
  /\ d = [c EXCEPT ![t] = s]

\* When one thread moves from state c[t] to another state, the two counts
\* change by one and no other state gains or loses a thread.
LEMMA OneThreadMoves ==
  ASSUME NEW c, NEW d, NEW t, NEW s, Moves(c, d, t, s)
  PROVE  /\ d \in [Thread -> CallerStates]
         /\ Cardinality(Where(d, s)) = Cardinality(Where(c, s)) + 1
         /\ Cardinality(Where(d, c[t])) = Cardinality(Where(c, c[t])) - 1
         /\ \A x : x # s /\ x # c[t] => Where(d, x) = Where(c, x)
<1> USE DEF Moves
<1>1. d \in [Thread -> CallerStates]  OBVIOUS
<1>2. Where(d, s) = Where(c, s) \cup {t} /\ t \notin Where(c, s)  BY DEF Where
<1>3. Where(d, c[t]) = Where(c, c[t]) \ {t} /\ t \in Where(c, c[t])  BY DEF Where
<1>4. \A x : x # s /\ x # c[t] => Where(d, x) = Where(c, x)  BY DEF Where
<1> HIDE DEF Moves
<1>5. Cardinality(Where(d, s)) = Cardinality(Where(c, s)) + 1
  BY <1>2, WhereFinite, FS_AddElement
<1>6. Cardinality(Where(d, c[t])) = Cardinality(Where(c, c[t])) - 1
  BY <1>3, WhereFinite, FS_RemoveElement
<1> QED  BY <1>1, <1>4, <1>5, <1>6

-----------------------------------------------------------------------------
(* The inductive invariant. *)

IInv == TypeOK /\ SlotAccounting /\ NoLostWakeup

\* Nobody has called the limiter yet.
LEMMA InitIInv == Init => IInv
<1> SUFFICES ASSUME Init PROVE IInv  OBVIOUS
<1>1. TypeOK
  BY LimiterAssumption DEF LimiterAssumption, Init, TypeOK, CallerStates
<1>2. In("holding") = {} /\ In("waiting") = {}  BY DEF Init, In, Where
<1>3. Cardinality(In("holding")) = 0  BY <1>2, FS_EmptySet
<1> QED  BY <1>1, <1>2, <1>3 DEF Init, IInv, SlotAccounting, NoLostWakeup

\* The invariant, opened up, with the names of the four states.
LEMMA Opened ==
  IInv <=> /\ active_count_ \in Nat /\ max_concurrent_ \in Nat \ {0}
           /\ caller \in [Thread -> CallerStates]
           /\ active_count_ = Cardinality(Where(caller, "holding"))
           /\ Where(caller, "waiting") # {} =>
                Cardinality(Where(caller, "notified")) >= max_concurrent_ - active_count_
BY DEF IInv, TypeOK, SlotAccounting, NoLostWakeup, In

LEMMA StateNames ==
  /\ "idle" \in CallerStates
  /\ "waiting" \in CallerStates
  /\ "notified" \in CallerStates
  /\ "holding" \in CallerStates
BY DEF CallerStates

\* What the two blocking entries do to the calling thread.
LEMMA ClaimOrSleepMoves ==
  ASSUME IInv, NEW t \in Thread, Acquire(t) \/ WakeUp(t)
  PROVE  /\ caller[t] \in {"idle", "notified"} /\ UNCHANGED max_concurrent_
         /\ \/ /\ HasCapacity /\ active_count_' = active_count_ + 1
               /\ Moves(caller, caller', t, "holding")
            \/ /\ ~HasCapacity /\ UNCHANGED active_count_
               /\ Moves(caller, caller', t, "waiting")
BY Opened, StateNames DEF Acquire, WakeUp, ClaimOrSleep, Moves

\* What a successful try_acquire() does to it.
LEMMA TryAcquireMoves ==
  ASSUME IInv, NEW t \in Thread, TryAcquire(t)
  PROVE  /\ caller[t] \in {"idle", "notified"} /\ UNCHANGED max_concurrent_
         /\ HasCapacity /\ active_count_' = active_count_ + 1
         /\ Moves(caller, caller', t, "holding")
BY Opened, StateNames DEF TryAcquire, Moves

\* A claim moves one thread to "holding" and the counter with it.
LEMMA ClaimIInv ==
  ASSUME IInv, NEW t \in Thread, caller[t] \in {"idle", "notified"},
         Moves(caller, caller', t, "holding"), HasCapacity,
         active_count_' = active_count_ + 1, UNCHANGED max_concurrent_
  PROVE  IInv'
<1>2. /\ caller' \in [Thread -> CallerStates]
      /\ Cardinality(Where(caller', "holding")) = Cardinality(Where(caller, "holding")) + 1
      /\ Cardinality(Where(caller', caller[t])) = Cardinality(Where(caller, caller[t])) - 1
      /\ \A x : x # "holding" /\ x # caller[t] => Where(caller', x) = Where(caller, x)
  BY OneThreadMoves
<1>3. Where(caller', "waiting") = Where(caller, "waiting")  BY <1>2
<1>4. Cardinality(Where(caller', "notified")) >= Cardinality(Where(caller, "notified")) - 1
  <2>1. CASE caller[t] = "notified"  BY <1>2, <2>1, WhereFinite
  <2>2. CASE caller[t] = "idle"
    <3>1. Where(caller', "notified") = Where(caller, "notified")  BY <1>2, <2>2
    <3> QED  BY <3>1, WhereFinite
  <2> QED  BY <2>1, <2>2
<1>5. ASSUME Where(caller', "waiting") # {}
      PROVE  Cardinality(Where(caller', "notified")) >= max_concurrent_' - active_count_'
  <2>1. Cardinality(Where(caller, "notified")) >= max_concurrent_ - active_count_
    BY <1>3, <1>5, Opened
  <2> QED  BY <1>4, <2>1, WhereFinite, Opened
<1>6. TypeOK'  BY <1>2, Opened DEF TypeOK
<1>7. SlotAccounting'  BY <1>2, Opened DEF SlotAccounting, In
<1> QED  BY <1>5, <1>6, <1>7 DEF IInv, NoLostWakeup, In

\* A refusal puts a thread to sleep, and only when no slot is free.
LEMMA SleepIInv ==
  ASSUME IInv, NEW t \in Thread, caller[t] \in {"idle", "notified"},
         Moves(caller, caller', t, "waiting"), ~HasCapacity,
         UNCHANGED <<active_count_, max_concurrent_>>
  PROVE  IInv'
<1>2. /\ caller' \in [Thread -> CallerStates]
      /\ \A x : x # "waiting" /\ x # caller[t] => Where(caller', x) = Where(caller, x)
  BY OneThreadMoves
<1>3. Where(caller', "holding") = Where(caller, "holding")  BY <1>2
<1>4. max_concurrent_' - active_count_' <= 0  BY Opened DEF HasCapacity
<1>5. Cardinality(Where(caller', "notified")) \in Nat  BY WhereFinite
<1>6. Cardinality(Where(caller', "notified")) >= max_concurrent_' - active_count_'
  BY <1>4, <1>5, Opened
<1>7. TypeOK'  BY <1>2, Opened DEF TypeOK
<1>8. SlotAccounting'  BY <1>3, Opened DEF SlotAccounting, In
<1> QED  BY <1>6, <1>7, <1>8 DEF IInv, NoLostWakeup, In

\* A release frees one slot and notifies one waiter, if anybody waits.
LEMMA ReleaseIInv ==
  ASSUME IInv, NEW t \in Thread, Release(t)
  PROVE  IInv'
<1> DEFINE freed == [caller EXCEPT ![t] = "idle"]
<1>1. /\ caller[t] = "holding"
      /\ active_count_ > 0
      /\ active_count_' = active_count_ - 1
      /\ max_concurrent_' = max_concurrent_
      /\ caller' \in NotifyOne(freed)
  BY DEF Release
<1>2. Moves(caller, freed, t, "idle")  BY <1>1, Opened, StateNames DEF Moves
<1> HIDE DEF freed
<1>3. /\ freed \in [Thread -> CallerStates]
      /\ Cardinality(Where(freed, caller[t])) = Cardinality(Where(caller, caller[t])) - 1
      /\ \A x : x # "idle" /\ x # caller[t] => Where(freed, x) = Where(caller, x)
  BY <1>2, OneThreadMoves
<1>4. /\ Cardinality(Where(freed, "holding")) = active_count_'
      /\ Where(freed, "waiting") = Where(caller, "waiting")
      /\ Where(freed, "notified") = Where(caller, "notified")
  BY <1>1, <1>3, Opened
<1>5. active_count_' \in Nat /\ max_concurrent_' \in Nat \ {0}  BY <1>1, Opened
<1>6. CASE Where(freed, "waiting") = {}
  BY <1>1, <1>3, <1>4, <1>5, <1>6, Opened
  DEF NotifyOne, IInv, TypeOK, SlotAccounting, NoLostWakeup, In
<1>7. CASE Where(freed, "waiting") # {}
  <2>1. PICK w \in Where(freed, "waiting") : caller' = [freed EXCEPT ![w] = "notified"]
    BY <1>1, <1>7 DEF NotifyOne
  <2>2. freed[w] = "waiting" /\ Moves(freed, caller', w, "notified")
    BY <1>3, <2>1, StateNames DEF Moves, Where
  <2>3. /\ caller' \in [Thread -> CallerStates]
        /\ Cardinality(Where(caller', "notified")) = Cardinality(Where(freed, "notified")) + 1
        /\ \A x : x # "notified" /\ x # freed[w] => Where(caller', x) = Where(freed, x)
    BY <2>2, OneThreadMoves
  <2>4. Where(caller', "holding") = Where(freed, "holding")  BY <2>2, <2>3
  <2>5. Cardinality(Where(caller, "notified")) >= max_concurrent_ - active_count_
    BY <1>4, <1>7, Opened
  <2>6. Cardinality(Where(caller', "notified")) >= max_concurrent_' - active_count_'
    BY <1>1, <1>4, <2>3, <2>5, WhereFinite, Opened
  <2> QED  BY <1>4, <1>5, <2>3, <2>4, <2>6, Opened
      DEF IInv, TypeOK, SlotAccounting, NoLostWakeup, In
<1> QED  BY <1>6, <1>7

\* A spurious wake-up adds a notified thread and takes a sleeper away.
LEMMA SpuriousWakeUpIInv ==
  ASSUME IInv, NEW t \in Thread, SpuriousWakeUp(t)
  PROVE  IInv'
<1>1. /\ caller[t] = "waiting" /\ caller[t] # "notified"
      /\ caller' = [caller EXCEPT ![t] = "notified"]
      /\ UNCHANGED <<active_count_, max_concurrent_>>
  BY DEF SpuriousWakeUp
<1>2. /\ t \in Where(caller, "waiting")
      /\ Moves(caller, caller', t, "notified")
  BY <1>1, Opened, StateNames DEF Moves, Where
<1>3. /\ caller' \in [Thread -> CallerStates]
      /\ Cardinality(Where(caller', "notified")) = Cardinality(Where(caller, "notified")) + 1
      /\ \A x : x # "notified" /\ x # caller[t] => Where(caller', x) = Where(caller, x)
  BY <1>2, OneThreadMoves
<1>4. Where(caller', "holding") = Where(caller, "holding")  BY <1>1, <1>3
<1>5. Cardinality(Where(caller, "notified")) >= max_concurrent_ - active_count_
  BY <1>2, Opened
<1>6. Cardinality(Where(caller', "notified")) >= max_concurrent_' - active_count_'
  BY <1>1, <1>3, <1>5, WhereFinite, Opened
<1> QED  BY <1>1, <1>3, <1>4, <1>6, Opened
    DEF IInv, TypeOK, SlotAccounting, NoLostWakeup, In

\* A new limit leaves nobody asleep: everybody re-evaluates the predicate.
LEMMA SetMaxConcurrencyIInv ==
  ASSUME IInv, NEW n \in Limits, SetMaxConcurrency(n)
  PROVE  IInv'
<1>1. n \in Nat \ {0}
  BY LimiterAssumption DEF LimiterAssumption, SetMaxConcurrency
<1>2. caller \in [Thread -> CallerStates]  BY Opened
<1>3. /\ caller' \in [Thread -> CallerStates]
      /\ Where(caller', "waiting") = {}
      /\ Where(caller', "holding") = Where(caller, "holding")
  BY <1>2 DEF SetMaxConcurrency, Where, CallerStates
<1> QED  BY <1>1, <1>3, Opened
    DEF SetMaxConcurrency, IInv, TypeOK, SlotAccounting, NoLostWakeup, In

LEMMA NextIInv == IInv /\ [Next]_vars => IInv'
<1> SUFFICES ASSUME IInv, [Next]_vars PROVE IInv'  OBVIOUS
<1>1. ASSUME NEW t \in Thread, Acquire(t) \/ WakeUp(t) PROVE IInv'
  BY <1>1, ClaimOrSleepMoves, ClaimIInv, SleepIInv
<1>3. ASSUME NEW t \in Thread, TryAcquire(t) PROVE IInv'
  BY <1>3, TryAcquireMoves, ClaimIInv
<1>4. CASE UNCHANGED vars
  BY <1>4, Opened DEF vars, IInv, TypeOK, SlotAccounting, NoLostWakeup, In
<1> QED
  BY <1>1, <1>3, <1>4, SpuriousWakeUpIInv, ReleaseIInv, SetMaxConcurrencyIInv
  DEF Next

-----------------------------------------------------------------------------
(* The theorems. *)

\* The inductive invariant holds of every behaviour of the limiter.
THEOREM Invariance == Spec => []IInv
<1> QED  BY InitIInv, NextIInv, PTL DEF Spec

\* The limiter's variables keep their types: the count never goes negative and
\* the limit stays positive, whatever setMaxConcurrency() is called with.
THEOREM Typing == Spec => []TypeOK
<1>1. IInv => TypeOK  BY DEF IInv
<1> QED  BY <1>1, Invariance, PTL

\* active_count_ counts the slot holders exactly: no slot is leaked or freed
\* twice by acquire(), try_acquire() and release().
THEOREM SlotAccountingHolds == Spec => []SlotAccounting
<1>1. IInv => SlotAccounting  BY DEF IInv
<1> QED  BY <1>1, Invariance, PTL

\* notify_one() in release() and notify_all() in setMaxConcurrency() are
\* enough: no thread is forgotten in acquire() beside a free slot.
THEOREM NoLostWakeupHolds == Spec => []NoLostWakeup
<1>1. IInv => NoLostWakeup  BY DEF IInv
<1> QED  BY <1>1, Invariance, PTL

-----------------------------------------------------------------------------
(* Refinement. *)

\* A claim of the limiter takes a slot of the pool.
LEMMA ClaimIsTake ==
  ASSUME IInv, NEW t \in Thread, Moves(caller, caller', t, "holding"),
         HasCapacity, UNCHANGED max_concurrent_
  PROVE  Pool!Take(t)
<1>1. t \notin In("holding") /\ In("holding")' = In("holding") \cup {t}
  BY DEF In, Where, Moves
<1>2. Cardinality(In("holding")) < max_concurrent_  BY Opened DEF HasCapacity, In
<1>3. Pool!Cardinality(In("holding")) = Cardinality(In("holding"))
  BY DEF Pool!Cardinality, Cardinality
<1> QED  BY <1>1, <1>2, <1>3 DEF Pool!Take

\* Every other move of a thread between the states that hold no slot is
\* invisible to the pool.
LEMMA NonHoldersMoveUnseen ==
  ASSUME NEW t \in Thread, caller[t] # "holding",
         NEW s, s # "holding", Moves(caller, caller', t, s)
  PROVE  In("holding")' = In("holding")
BY DEF In, Where, Moves

\* A release gives the slot back, whoever it notifies.
LEMMA ReleaseIsGive ==
  ASSUME IInv, NEW t \in Thread, Release(t)
  PROVE  Pool!Give(t)
<1> DEFINE freed == [caller EXCEPT ![t] = "idle"]
<1>1. caller \in [Thread -> CallerStates] /\ caller[t] = "holding"
  BY Opened DEF Release
<1>2. Where(freed, "holding") = In("holding") \ {t} /\ t \in In("holding")
  BY <1>1 DEF In, Where
<1>3. Where(caller', "holding") = Where(freed, "holding")
  <2>1. freed \in [Thread -> CallerStates]  BY <1>1, StateNames
  <2>2. caller' = freed
        \/ \E w \in Where(freed, "waiting") : caller' = [freed EXCEPT ![w] = "notified"]
    BY DEF Release, NotifyOne
  <2> HIDE DEF freed
  <2> QED  BY <2>1, <2>2 DEF Where
<1> QED  BY <1>2, <1>3 DEF Pool!Give, Release, In

\* Every step of the limiter is a step of the pool or leaves it alone.
LEMMA StepSimulation == IInv /\ [Next]_vars => [Pool!Next]_<<In("holding"), max_concurrent_>>
<1> SUFFICES ASSUME IInv, [Next]_vars
             PROVE  Pool!Next \/ UNCHANGED <<In("holding"), max_concurrent_>>
  OBVIOUS
<1>1. ASSUME NEW t \in Thread, Acquire(t) \/ WakeUp(t) \/ TryAcquire(t)
      PROVE  Pool!Next \/ UNCHANGED <<In("holding"), max_concurrent_>>
  <2>1. CASE HasCapacity /\ Moves(caller, caller', t, "holding")
    <3>1. Pool!Take(t)  BY <1>1, <2>1, ClaimOrSleepMoves, TryAcquireMoves, ClaimIsTake
    <3> QED  BY <3>1 DEF Pool!Next
  <2>2. CASE Moves(caller, caller', t, "waiting")
    BY <1>1, <2>2, ClaimOrSleepMoves, TryAcquireMoves, NonHoldersMoveUnseen
  <2> QED  BY <1>1, <2>1, <2>2, ClaimOrSleepMoves, TryAcquireMoves
<1>2. ASSUME NEW t \in Thread, SpuriousWakeUp(t)
      PROVE  UNCHANGED <<In("holding"), max_concurrent_>>
  <2>1. caller[t] # "holding" /\ Moves(caller, caller', t, "notified")
    BY <1>2, Opened, StateNames DEF SpuriousWakeUp, Moves
  <2> QED  BY <1>2, <2>1, NonHoldersMoveUnseen DEF SpuriousWakeUp
<1>3. ASSUME NEW t \in Thread, Release(t) PROVE Pool!Next
  BY <1>3, ReleaseIsGive DEF Pool!Next
<1>4. ASSUME NEW n \in Limits, SetMaxConcurrency(n) PROVE Pool!Next
  <2>1. In("holding")' = In("holding")
    BY <1>4, Opened DEF SetMaxConcurrency, In, Where
  <2> QED  BY <1>4, <2>1 DEF SetMaxConcurrency, Pool!Next, Pool!SetLimit
<1>5. CASE UNCHANGED vars  BY <1>5 DEF vars, In
<1> QED  BY <1>1, <1>2, <1>3, <1>4, <1>5 DEF Next

\* The limiter implements SlotPool: through sleeping, notification, stealing
\* and changes of the limit, a slot is given only below the limit in force.
THEOREM Refinement == Spec => ImplementsSlotPool
<1>1. Init => Pool!Init
  <2>1. Init => In("holding") = {}  BY DEF Init, In, Where
  <2> QED  BY <2>1 DEF Init, Pool!Init
<1> QED
  BY <1>1, StepSimulation, Invariance, PTL DEF Spec, ImplementsSlotPool, Pool!Spec
=============================================================================
