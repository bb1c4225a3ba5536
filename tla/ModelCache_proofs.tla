------------------------- MODULE ModelCache_proofs -------------------------
(***************************************************************************)
(* The model cache never frees a context in use, counts its references     *)
(* exactly and leaves no idle model without a thread that will free it,    *)
(* for every number of sessions, timers, files and loads.                  *)
(***************************************************************************)
EXTENDS ModelCache, FiniteSetTheorems, TLAPS

\* A scheduled unload is one of an idle model, with a timer thread to do it.
\* It is what makes IdleModelHasTimer inductive: a pending flag without a
\* sleeping thread, or one left over from another TTL, would never be served.
PendingIsServed ==
  unload_pending_ => ctx_ # 0 /\ ref_count_ = 0 /\ ttl_seconds_ > 0 /\ Asleep # {}

IInv ==
  /\ TypeOK
  /\ HeldContextIsLive
  /\ RefCountExact
  /\ PendingIsServed
  /\ IdleModelHasTimer

\* The type invariant without its one Boolean.
ValuesOK ==
  /\ ctx_ \in 0..loads /\ loads \in Nat
  /\ loaded_path_ \in Path \cup {NoPath}
  /\ ref_count_ \in Nat
  /\ ttl_seconds_ \in Int
  /\ timer \in [Timer -> Nat \cup {Off}]
  /\ held \in [Client -> Nat]
  /\ idle \in 0..MaxIdle

LEMMA TypeOKParts == TypeOK <=> ValuesOK /\ unload_pending_ \in BOOLEAN
BY DEF TypeOK, ValuesOK

-----------------------------------------------------------------------------
(* The set of reference holders. *)

\* The references are counted over a finite set.
LEMMA HoldersFinite ==
  IsFiniteSet(Holders) /\ Cardinality(Holders) \in Nat
<1>1. Holders \subseteq Client  BY DEF Holders
<1>2. IsFiniteSet(Holders)  BY <1>1, CacheAssumption, FS_Subset DEF CacheAssumption
<1> QED  BY <1>2, FS_CardinalityType

\* With no reference counted, nobody holds one; with one, only its holder.
LEMMA NoReference ==
  ASSUME RefCountExact
  PROVE  /\ ref_count_ = 0 <=> Holders = {}
         /\ \A c \in Holders : ref_count_ = 1 => Holders = {c}
<1>1. ref_count_ = 0 <=> Holders = {}
  BY HoldersFinite, FS_EmptySet DEF RefCountExact
<1>2. ASSUME NEW c \in Holders, ref_count_ = 1 PROVE Holders = {c}
  <2>1. Cardinality(Holders \ {c}) = Cardinality(Holders) - 1
    BY HoldersFinite, FS_RemoveElement
  <2>2. IsFiniteSet(Holders \ {c})  BY HoldersFinite, FS_RemoveElement
  <2>3. Cardinality(Holders \ {c}) = 0  BY <1>2, <2>1 DEF RefCountExact
  <2>4. Holders \ {c} = {}  BY <2>2, <2>3, FS_EmptySet
  <2> QED  BY <2>4
<1> QED  BY <1>1, <1>2

\* Client c starts to hold context n, and nobody else's reference changes.
Joins(c, n) ==
  /\ held \in [Client -> Nat] /\ c \in Client /\ n \in Nat \ {0}
  /\ held[c] = 0
  /\ held' = [held EXCEPT ![c] = n]

\* Client c gives its reference up, and nobody else's changes.
Leaves(c) ==
  /\ held \in [Client -> Nat] /\ c \in Client
  /\ held[c] # 0
  /\ held' = [held EXCEPT ![c] = 0]

\* One reference more.
LEMMA OneJoins ==
  ASSUME NEW c, NEW n, Joins(c, n)
  PROVE  /\ held' \in [Client -> Nat]
         /\ Holders' = Holders \cup {c} /\ c \notin Holders
         /\ Cardinality(Holders') = Cardinality(Holders) + 1
         /\ held'[c] = n /\ \A d \in Holders : held'[d] = held[d]
<1>1. Holders' = Holders \cup {c} /\ c \notin Holders  BY DEF Joins, Holders
<1>2. /\ held' \in [Client -> Nat]
      /\ held'[c] = n /\ \A d \in Holders : held'[d] = held[d]
  BY DEF Joins, Holders
<1> HIDE DEF Joins
<1>3. Cardinality(Holders \cup {c}) = Cardinality(Holders) + 1
  BY <1>1, HoldersFinite, FS_AddElement
<1> QED  BY <1>1, <1>2, <1>3

\* One reference less.
LEMMA OneLeaves ==
  ASSUME NEW c, Leaves(c)
  PROVE  /\ held' \in [Client -> Nat]
         /\ Holders' = Holders \ {c} /\ c \in Holders
         /\ Cardinality(Holders') = Cardinality(Holders) - 1
         /\ \A d \in Holders' : held'[d] = held[d]
<1>1. Holders' = Holders \ {c} /\ c \in Holders  BY DEF Leaves, Holders
<1>2. held' \in [Client -> Nat] /\ \A d \in Holders' : held'[d] = held[d]
  BY DEF Leaves, Holders
<1> HIDE DEF Leaves
<1>3. Cardinality(Holders \ {c}) = Cardinality(Holders) - 1
  BY <1>1, HoldersFinite, FS_RemoveElement
<1> QED  BY <1>1, <1>2, <1>3

-----------------------------------------------------------------------------
(* The invariant holds initially and is preserved, action by action. *)

LEMMA InitIInv == Init => IInv
<1> SUFFICES ASSUME Init PROVE IInv  OBVIOUS
<1>1. TypeOK
  <2>1. unload_pending_ \in BOOLEAN  BY DEF Init
  <2>2. ValuesOK  BY CacheAssumption DEF CacheAssumption, Init, ValuesOK, Off
  <2> QED  BY <2>1, <2>2, TypeOKParts
<1>2. Holders = {}  BY DEF Init, Holders
<1>3. RefCountExact  BY <1>2, FS_EmptySet DEF Init, RefCountExact
<1> QED
  BY <1>1, <1>2, <1>3 DEF Init, IInv, HeldContextIsLive, PendingIsServed, IdleModelHasTimer

\* configure() changes the TTL only while there is no model to keep.
LEMMA ConfigureIInv ==
  ASSUME IInv, NEW ttl \in Ttls, Configure(ttl)
  PROVE  IInv'
<1>1. TypeOK'  BY CacheAssumption DEF CacheAssumption, IInv, TypeOK, Configure
<1>2. Holders' = Holders /\ Asleep' = Asleep  BY DEF Configure, Holders, Asleep
<1> QED
  BY <1>1, <1>2 DEF IInv, Configure, HeldContextIsLive, RefCountExact,
                    PendingIsServed, IdleModelHasTimer

\* A reference to the loaded context.
LEMMA AcquireCachedIInv ==
  ASSUME IInv, NEW c \in Client, NEW p \in Path, AcquireCached(c, p)
  PROVE  IInv'
<1>1. Joins(c, ctx_)
  BY DEF IInv, TypeOK, AcquireCached, Cached, Joins
<1>2. /\ held' \in [Client -> Nat]
      /\ Holders' = Holders \cup {c} /\ c \notin Holders
      /\ Cardinality(Holders') = Cardinality(Holders) + 1
      /\ held'[c] = ctx_ /\ \A d \in Holders : held'[d] = held[d]
  BY <1>1, OneJoins
<1>3. TypeOK'
  <2>1. unload_pending_' \in BOOLEAN  BY DEF AcquireCached
  <2>2. ValuesOK'  BY <1>2, TypeOKParts DEF IInv, ValuesOK, AcquireCached
  <2> QED  BY <2>1, <2>2 DEF TypeOK, ValuesOK
<1>4. HeldContextIsLive'  BY <1>2 DEF IInv, HeldContextIsLive, AcquireCached
<1>5. RefCountExact'  BY <1>2 DEF IInv, RefCountExact, AcquireCached
<1> QED
  BY <1>2, <1>3, <1>4, <1>5 DEF IInv, PendingIsServed, IdleModelHasTimer, AcquireCached

\* While anybody holds a context the model asked for is in the cache: a load
\* happens, or fails, only when nobody does.
LEMMA LoadsWhenIdle ==
  ASSUME IInv, NEW p \in Path, ~Cached(p), SameModel(p)
  PROVE  Holders = {} /\ ref_count_ = 0
<1>1. Holders # {} => ctx_ # 0  BY DEF IInv, HeldContextIsLive, Holders
<1>2. Holders = {}  BY <1>1 DEF Cached, SameModel
<1> QED  BY <1>2, NoReference DEF IInv

LEMMA AcquireLoadsIInv ==
  ASSUME IInv, NEW c \in Client, NEW p \in Path, AcquireLoads(c, p)
  PROVE  IInv'
<1>1. Holders = {} /\ ref_count_ = 0  BY LoadsWhenIdle DEF AcquireLoads
<1>2. /\ Joins(c, ctx_')
      /\ ctx_' \in Nat \ {0} /\ ctx_' = loads' /\ ref_count_' = 1
      /\ loads' \in Nat /\ ~unload_pending_'
  BY DEF IInv, TypeOK, AcquireLoads, Joins
<1>3. /\ held' \in [Client -> Nat]
      /\ Holders' = Holders \cup {c} /\ c \notin Holders
      /\ Cardinality(Holders') = Cardinality(Holders) + 1
      /\ held'[c] = ctx_'
  BY <1>2, OneJoins
<1>4. TypeOK'
  <2>1. unload_pending_' \in BOOLEAN  BY DEF AcquireLoads
  <2>2. ValuesOK'  BY <1>2, <1>3, TypeOKParts DEF IInv, ValuesOK, AcquireLoads
  <2> QED  BY <2>1, <2>2 DEF TypeOK, ValuesOK
<1>5. HeldContextIsLive'  BY <1>1, <1>3 DEF HeldContextIsLive
<1>6. RefCountExact'  BY <1>1, <1>2, <1>3 DEF IInv, RefCountExact
<1> QED  BY <1>2, <1>3, <1>4, <1>5, <1>6 DEF IInv, PendingIsServed, IdleModelHasTimer

LEMMA AcquireFailsIInv ==
  ASSUME IInv, NEW c \in Client, NEW p \in Path, AcquireFails(c, p)
  PROVE  IInv'
<1>1. Holders = {} /\ ref_count_ = 0  BY LoadsWhenIdle DEF AcquireFails
<1>2. Holders' = {}  BY <1>1 DEF AcquireFails, Holders
<1>3. TypeOK'
  <2>1. unload_pending_' \in BOOLEAN  BY DEF AcquireFails
  <2>2. ValuesOK'  BY TypeOKParts DEF IInv, ValuesOK, AcquireFails
  <2> QED  BY <2>1, <2>2 DEF TypeOK, ValuesOK
<1>4. RefCountExact'  BY <1>1, <1>2 DEF IInv, RefCountExact, AcquireFails
<1> QED
  BY <1>2, <1>3, <1>4 DEF IInv, HeldContextIsLive, PendingIsServed,
                          IdleModelHasTimer, AcquireFails

\* A reference goes and others are left: nothing is scheduled.
LEMMA ReleaseSharedIInv ==
  ASSUME IInv, NEW c \in Client, ReleaseShared(c)
  PROVE  IInv'
<1>1. Leaves(c)  BY DEF IInv, TypeOK, ReleaseShared, Leaves
<1>2. /\ held' \in [Client -> Nat]
      /\ Holders' = Holders \ {c} /\ c \in Holders
      /\ Cardinality(Holders') = Cardinality(Holders) - 1
      /\ \A d \in Holders' : held'[d] = held[d]
  BY <1>1, OneLeaves
<1>3. TypeOK'  BY <1>2, CacheAssumption DEF CacheAssumption, IInv, TypeOK, ReleaseShared
<1>4. HeldContextIsLive'  BY <1>2 DEF IInv, HeldContextIsLive, ReleaseShared
<1>5. RefCountExact'  BY <1>2 DEF IInv, RefCountExact, ReleaseShared
<1>6. ~unload_pending_' /\ ref_count_' > 0
  BY DEF IInv, TypeOK, PendingIsServed, ReleaseShared
<1>7. Holders' # {}
  <2>1. Cardinality(Holders') # 0  BY <1>5, <1>6 DEF RefCountExact
  <2> QED  BY <2>1, FS_EmptySet
<1> QED  BY <1>3, <1>4, <1>5, <1>6, <1>7 DEF IInv, PendingIsServed, IdleModelHasTimer

\* The last reference goes: unload, schedule or keep.
LEMMA ReleaseLastIInv ==
  ASSUME IInv, NEW c \in Client, ReleaseLast(c)
  PROVE  IInv'
<1>1. Leaves(c) /\ ref_count_ = 1  BY DEF IInv, TypeOK, ReleaseLast, Leaves
<1>2. /\ held' \in [Client -> Nat]
      /\ Holders' = Holders \ {c} /\ c \in Holders
      /\ Cardinality(Holders') = Cardinality(Holders) - 1
  BY <1>1, OneLeaves
<1>3. Holders' = {} /\ ref_count_' = 0
  BY <1>1, <1>2, NoReference DEF IInv, ReleaseLast
<1>4. HeldContextIsLive' /\ RefCountExact'
  BY <1>3, FS_EmptySet DEF HeldContextIsLive, RefCountExact
<1>5. ~unload_pending_ /\ ctx_ # 0
  BY <1>1, <1>2 DEF IInv, TypeOK, PendingIsServed, HeldContextIsLive, Holders
<1>6. CASE ttl_seconds_ > 0 /\ ScheduleUnloadLocked /\ UNCHANGED <<ctx_, loaded_path_>>
  <2>1. PICK t \in Timer \ Asleep : timer' = [timer EXCEPT ![t] = ttl_seconds_]
    BY <1>6 DEF ScheduleUnloadLocked
  <2>2. timer' \in [Timer -> Nat \cup {Off}] /\ timer'[t] # Off
    BY <1>6, <2>1 DEF IInv, TypeOK, Off
  <2>3. Asleep' # {}  BY <2>2 DEF Asleep
  <2>4. TypeOK'
    BY <1>2, <1>3, <1>6, <2>2, CacheAssumption
    DEF CacheAssumption, IInv, TypeOK, ReleaseLast, ScheduleUnloadLocked
  <2> QED
    BY <1>3, <1>4, <1>5, <1>6, <2>3, <2>4
    DEF IInv, PendingIsServed, IdleModelHasTimer, ReleaseLast, ScheduleUnloadLocked
<1>7. CASE \/ ttl_seconds_ = 0 /\ ctx_' = 0 /\ loaded_path_' = NoPath
              /\ UNCHANGED <<unload_pending_, timer>>
           \/ ttl_seconds_ < 0 /\ UNCHANGED <<ctx_, loaded_path_, unload_pending_, timer>>
  <2>1. TypeOK'
    BY <1>2, <1>3, <1>7, CacheAssumption DEF CacheAssumption, IInv, TypeOK, ReleaseLast
  <2> QED
    BY <1>3, <1>4, <1>5, <1>7, <2>1 DEF IInv, PendingIsServed, IdleModelHasTimer, ReleaseLast
<1> QED  BY <1>6, <1>7 DEF ReleaseLast

\* forceUnload(): no model, no reference, no pending unload.
LEMMA ForceUnloadIInv ==
  ASSUME IInv, ForceUnload
  PROVE  IInv'
<1>1. ctx_' = 0 /\ ~unload_pending_' /\ held' = [c \in Client |-> 0]
  BY DEF ForceUnload, UnloadLocked
<1>2. Holders' = {}  BY <1>1 DEF Holders
<1>3. ref_count_' = 0
  <2>1. CASE ctx_ # 0  BY <2>1 DEF ForceUnload, UnloadLocked
  <2>2. CASE ctx_ = 0
    <3>1. Holders = {}  BY <2>2 DEF IInv, HeldContextIsLive, Holders
    <3> QED  BY <2>2, <3>1, NoReference DEF IInv, ForceUnload, UnloadLocked
  <2> QED  BY <2>1, <2>2
<1>4. TypeOK'
  <2>1. unload_pending_' \in BOOLEAN  BY DEF ForceUnload
  <2>2. ValuesOK'  BY <1>1, <1>3, TypeOKParts DEF IInv, ValuesOK, ForceUnload, UnloadLocked
  <2> QED  BY <2>1, <2>2 DEF TypeOK, ValuesOK
<1> QED
  BY <1>1, <1>2, <1>3, <1>4, FS_EmptySet
  DEF IInv, HeldContextIsLive, RefCountExact, PendingIsServed, IdleModelHasTimer

\* A timer thread unloads an idle model, or ends without a trace: the thread
\* a pending unload counts on is never one that has just ended.
LEMMA TimerExpiresIInv ==
  ASSUME IInv, NEW t \in Timer, TimerExpires(t)
  PROVE  IInv'
<1>1. Holders' = Holders /\ held' = held  BY DEF TimerExpires, Holders
<1>2. timer' \in [Timer -> Nat \cup {Off}]  BY DEF IInv, TypeOK, TimerExpires
<1>3. CASE unload_pending_ /\ ref_count_ = 0
  <2>1. ctx_' = 0 /\ loaded_path_' = NoPath /\ ref_count_' = 0 /\ ~unload_pending_'
    BY <1>3 DEF IInv, PendingIsServed, TimerExpires, UnloadLocked
  <2>2. Holders' = {}  BY <1>1, <1>3, NoReference DEF IInv
  <2>3. TypeOK'
    <3>1. unload_pending_' \in BOOLEAN  BY <1>3 DEF TimerExpires
    <3>2. ValuesOK'  BY <1>2, <2>1, TypeOKParts DEF IInv, ValuesOK, TimerExpires
    <3> QED  BY <3>1, <3>2 DEF TypeOK, ValuesOK
  <2> QED
    BY <2>1, <2>2, <2>3, FS_EmptySet
    DEF IInv, HeldContextIsLive, RefCountExact, PendingIsServed, IdleModelHasTimer
<1>4. CASE ~unload_pending_ \/ ref_count_ # 0
  <2>1. ~unload_pending_  BY <1>4 DEF IInv, PendingIsServed
  <2>2. UNCHANGED <<ctx_, loaded_path_, ref_count_, unload_pending_, ttl_seconds_>>
    BY <1>4 DEF TimerExpires
  <2>3. TypeOK'
    <3>1. unload_pending_' \in BOOLEAN  BY <2>2, TypeOKParts DEF IInv
    <3>2. ValuesOK'  BY <1>2, <2>2, TypeOKParts DEF IInv, ValuesOK, TimerExpires
    <3> QED  BY <3>1, <3>2 DEF TypeOK, ValuesOK
  <2> QED
    BY <1>1, <2>1, <2>2, <2>3
    DEF IInv, HeldContextIsLive, RefCountExact, PendingIsServed, IdleModelHasTimer
<1> QED  BY <1>3, <1>4

\* Time puts no thread to an end.
LEMMA TickIInv ==
  ASSUME IInv, Tick
  PROVE  IInv'
<1>1. timer' \in [Timer -> Nat \cup {Off}] /\ Asleep' = Asleep
  BY DEF IInv, TypeOK, Tick, Asleep, Off
<1>2. idle' \in 0..MaxIdle
  BY CacheAssumption DEF CacheAssumption, IInv, TypeOK, Tick
<1>3. UNCHANGED cacheVars /\ UNCHANGED <<held, loads>> /\ Holders' = Holders
  BY DEF Tick, Holders
<1>4. TypeOK'
  <2>1. unload_pending_' \in BOOLEAN  BY <1>3, TypeOKParts DEF IInv, cacheVars
  <2>2. ValuesOK'  BY <1>1, <1>2, <1>3, TypeOKParts DEF IInv, ValuesOK, cacheVars
  <2> QED  BY <2>1, <2>2 DEF TypeOK, ValuesOK
<1> QED
  BY <1>1, <1>3, <1>4
  DEF IInv, HeldContextIsLive, RefCountExact, PendingIsServed, IdleModelHasTimer, cacheVars

LEMMA NextIInv == IInv /\ [Next]_vars => IInv'
<1> SUFFICES ASSUME IInv, [Next]_vars PROVE IInv'  OBVIOUS
<1>1. CASE UNCHANGED vars
  BY <1>1 DEF vars, IInv, TypeOK, HeldContextIsLive, RefCountExact, PendingIsServed,
              IdleModelHasTimer, Holders, Asleep
<1> QED
  BY <1>1, ConfigureIInv, AcquireCachedIInv, AcquireLoadsIInv, AcquireFailsIInv,
     ReleaseSharedIInv, ReleaseLastIInv, ForceUnloadIInv, TimerExpiresIInv, TickIInv
  DEF Next

-----------------------------------------------------------------------------
(* The theorems. *)

\* The inductive invariant holds of every behaviour of the cache.
THEOREM Invariance == Spec => []IInv
<1> QED  BY InitIInv, NextIInv, PTL DEF Spec

\* The cache's variables keep their types: the reference count never goes
\* negative, through failed loads and forced unloads.
THEOREM Typing == Spec => []TypeOK
<1>1. IInv => TypeOK  BY DEF IInv
<1> QED  BY <1>1, Invariance, PTL

\* No session ever works with a context the cache has freed.
THEOREM HeldContextIsLiveHolds == Spec => []HeldContextIsLive
<1>1. IInv => HeldContextIsLive  BY DEF IInv
<1> QED  BY <1>1, Invariance, PTL

\* acquire() and release() count the references exactly.
THEOREM RefCountExactHolds == Spec => []RefCountExact
<1>1. IInv => RefCountExact  BY DEF IInv
<1> QED  BY <1>1, Invariance, PTL

\* An idle model is always on its way out, or kept for good: the pending flag
\* and the timer threads never get out of step.
THEOREM IdleModelHasTimerHolds == Spec => []IdleModelHasTimer
<1>1. IInv => IdleModelHasTimer  BY DEF IInv
<1> QED  BY <1>1, Invariance, PTL

-----------------------------------------------------------------------------
(* Refinement. *)

\* When nobody holds a reference, nobody uses a context.
LEMMA IdleMeansUnused == Holders = {} => Shared!NobodyUses
BY DEF Holders, Shared!NobodyUses

\* The three outcomes of acquire().
LEMMA AcquireSimulation ==
  ASSUME IInv, NEW c \in Client, NEW p \in Path,
         AcquireCached(c, p) \/ AcquireLoads(c, p) \/ AcquireFails(c, p)
  PROVE  Shared!Next
<1>1. CASE AcquireCached(c, p)
  <2>1. Shared!Join(c)  BY <1>1 DEF AcquireCached, Cached, Shared!Join
  <2> QED  BY <2>1 DEF Shared!Next
<1>2. CASE AcquireLoads(c, p)
  <2>1. Holders = {}  BY <1>2, LoadsWhenIdle DEF AcquireLoads
  <2>2. ctx_' \in Nat \ {0, ctx_}  BY <1>2 DEF IInv, TypeOK, AcquireLoads
  <2>3. Shared!Load(c)
    BY <1>2, <2>1, <2>2, IdleMeansUnused DEF AcquireLoads, Shared!Load
  <2> QED  BY <2>3 DEF Shared!Next
<1>3. CASE AcquireFails(c, p)
  <2>1. Holders = {}  BY <1>3, LoadsWhenIdle DEF AcquireFails
  <2>2. Shared!Drop  BY <1>3, <2>1, IdleMeansUnused DEF AcquireFails, Shared!Drop
  <2> QED  BY <2>2 DEF Shared!Next
<1> QED  BY <1>1, <1>2, <1>3

\* release() is a client leaving; the context goes with the last one only.
LEMMA ReleaseSimulation ==
  ASSUME IInv, NEW c \in Client, ReleaseShared(c) \/ ReleaseLast(c)
  PROVE  Shared!Next
<1>1. CASE ReleaseShared(c)
  <2>1. Shared!Leave(c)  BY <1>1 DEF ReleaseShared, Shared!Leave
  <2> QED  BY <2>1 DEF Shared!Next
<1>2. CASE ReleaseLast(c)
  <2>1. Leaves(c)  BY <1>2 DEF IInv, TypeOK, ReleaseLast, Leaves
  <2>2. Holders' = Holders \ {c} /\ c \in Holders  BY <2>1, OneLeaves
  <2>3. Holders' = {}  BY <1>2, <2>2, NoReference DEF IInv, ReleaseLast
  <2>4. \A d \in Client : held'[d] = 0  BY <2>3 DEF Holders
  <2>5. ctx_' = ctx_ \/ ctx_' = 0  BY <1>2 DEF ReleaseLast
  <2>6. Shared!Leave(c)  BY <1>2, <2>4, <2>5 DEF ReleaseLast, Shared!Leave
  <2> QED  BY <2>6 DEF Shared!Next
<1> QED  BY <1>1, <1>2

\* Every other step drops the idle context, abandons it or is not seen.
LEMMA StepSimulation == IInv /\ [Next]_vars => [Shared!Next]_<<ctx_, held>>
<1> SUFFICES ASSUME IInv, [Next]_vars
             PROVE  Shared!Next \/ UNCHANGED <<ctx_, held>>
  OBVIOUS
<1>1. ASSUME NEW t \in Timer, TimerExpires(t)
      PROVE  Shared!Next \/ UNCHANGED <<ctx_, held>>
  <2>1. CASE unload_pending_ /\ ref_count_ = 0
    <3>1. Holders = {}  BY <2>1, NoReference DEF IInv
    <3>2. ctx_' = 0  BY <1>1, <2>1 DEF IInv, TypeOK, TimerExpires, UnloadLocked
    <3>3. Shared!Drop
      BY <1>1, <3>1, <3>2, IdleMeansUnused DEF TimerExpires, Shared!Drop
    <3> QED  BY <3>3 DEF Shared!Next
  <2>2. CASE ~(unload_pending_ /\ ref_count_ = 0)
    BY <1>1, <2>2 DEF TimerExpires
  <2> QED  BY <2>1, <2>2
<1>2. CASE ForceUnload
  <2>1. ctx_' = 0 /\ held' = [c \in Client |-> 0]
    BY <1>2 DEF ForceUnload, UnloadLocked
  <2> QED  BY <2>1 DEF Shared!Abandon, Shared!Next
<1>3. ASSUME NEW ttl \in Ttls, Configure(ttl) PROVE UNCHANGED <<ctx_, held>>
  BY <1>3 DEF Configure
<1>4. CASE Tick  BY <1>4 DEF Tick, cacheVars
<1>5. CASE UNCHANGED vars  BY <1>5 DEF vars
<1> QED  BY <1>1, <1>2, <1>3, <1>4, <1>5, AcquireSimulation, ReleaseSimulation DEF Next

\* The cache implements SharedContext: through the TTL timers, failed loads
\* and changes of model, a context in use stays loaded and is shared by all.
THEOREM Refinement == Spec => ImplementsSharedContext
<1>1. Init => Shared!Init  BY DEF Init, Shared!Init
<1> QED
  BY <1>1, StepSimulation, Invariance, PTL
  DEF Spec, ImplementsSharedContext, Shared!Spec
=============================================================================
