----------------------------- MODULE ModelCache -----------------------------
(***************************************************************************)
(* src/whisper/ModelCache.h: the process-wide cache of the whisper model.  *)
(* Sessions share one whisper_context; it is loaded by the first acquire() *)
(* and freed some time after the last release(), by a detached thread that *)
(* sleeps ttl_seconds_ and then looks at unload_pending_ and ref_count_.   *)
(*                                                                         *)
(* Every method runs under mutex_, so a method is one step, and so is what *)
(* a timer thread does once it has woken up.  A context is the number of   *)
(* the load that created it, so that a context that was freed is never     *)
(* mistaken for the one loaded after it; 0 is the null pointer.            *)
(***************************************************************************)
EXTENDS Integers, FiniteSets

CONSTANTS
  Client,       \* the references sessions hold, one each
  Path,         \* the model files
  NoPath,       \* loaded_path_ when it is empty
  Ttls,         \* the values configure() is called with
  DefaultTtl,   \* the initial ttl_seconds_ (300 in the source)
  Timer,        \* bound: the timer threads alive at once
  MaxLoads,     \* bound: the loads of a model
  MaxIdle       \* bound: the idle time counted

ASSUME CacheAssumption ==
  /\ IsFiniteSet(Client)
  /\ NoPath \notin Path
  /\ Ttls \subseteq Int
  /\ DefaultTtl \in Int
  /\ MaxLoads \in Nat
  /\ MaxIdle \in Nat

VARIABLES
  ctx_,             \* the loaded context, 0 for nullptr
  loaded_path_,     \* the file it was loaded from
  ref_count_,       \* references, as the cache counts them
  ttl_seconds_,     \* how long to keep an idle model; 0: not at all, < 0: forever
  unload_pending_,  \* an unload is scheduled
  timer,            \* seconds each timer thread has left to sleep, or Off
  held,             \* the context each client works with, 0 for none
  loads,            \* loads so far
  idle              \* history: seconds since the last release()

cacheVars == <<ctx_, loaded_path_, ref_count_, ttl_seconds_, unload_pending_>>
vars == <<ctx_, loaded_path_, ref_count_, ttl_seconds_, unload_pending_,
          timer, held, loads, idle>>

Off == -1     \* no such thread

Holders == {c \in Client : held[c] # 0}

Asleep == {t \in Timer : timer[t] # Off}

Init ==
  /\ ctx_ = 0 /\ loaded_path_ = NoPath /\ ref_count_ = 0
  /\ ttl_seconds_ = DefaultTtl
  /\ unload_pending_ = FALSE
  /\ timer = [t \in Timer |-> Off]
  /\ held = [c \in Client |-> 0]
  /\ loads = 0 /\ idle = 0

-----------------------------------------------------------------------------

\* configure(), before the first use of a model: main() calls it before it
\* accepts connections, the tests after forceUnload().
Configure(ttl) ==
  /\ ctx_ = 0
  /\ ttl_seconds_' = ttl
  /\ UNCHANGED <<ctx_, loaded_path_, ref_count_, unload_pending_, timer, held, loads, idle>>

Cached(p) == ctx_ # 0 /\ loaded_path_ = p

\* The server has one model_path for all its sessions: while anybody holds a
\* context, nobody asks for another file.
SameModel(p) == Holders # {} => loaded_path_ = p

\* acquire(p) of the model that is already loaded.
AcquireCached(c, p) ==
  /\ held[c] = 0 /\ Cached(p)
  /\ unload_pending_' = FALSE
  /\ ref_count_' = ref_count_ + 1
  /\ held' = [held EXCEPT ![c] = ctx_]
  /\ UNCHANGED <<ctx_, loaded_path_, ttl_seconds_, timer, loads, idle>>

\* acquire(p) that loads: the previous model, if any, is freed first.
AcquireLoads(c, p) ==
  /\ held[c] = 0 /\ ~Cached(p) /\ SameModel(p)
  /\ loads < MaxLoads
  /\ unload_pending_' = FALSE
  /\ loads' = loads + 1
  /\ ctx_' = loads'
  /\ loaded_path_' = p
  /\ ref_count_' = 1
  /\ held' = [held EXCEPT ![c] = ctx_']
  /\ UNCHANGED <<ttl_seconds_, timer, idle>>

\* Mutated form of AcquireFails, for mutation testing: a reference that was
\* never taken is given back.
AcquireFailsAndReleases(c, p) ==
  /\ held[c] = 0 /\ ~Cached(p) /\ SameModel(p)
  /\ unload_pending_' = FALSE
  /\ ctx_' = 0
  /\ loaded_path_' = NoPath
  /\ ref_count_' = ref_count_ - 1
  /\ UNCHANGED <<ttl_seconds_, timer, held, loads, idle>>

\* acquire(p) whose load fails: it throws, with the previous model freed and
\* the scheduled unload cancelled.
AcquireFails(c, p) ==
  /\ held[c] = 0 /\ ~Cached(p) /\ SameModel(p)
  /\ unload_pending_' = FALSE
  /\ ctx_' = 0
  /\ loaded_path_' = NoPath
  /\ UNCHANGED <<ref_count_, ttl_seconds_, timer, held, loads, idle>>

\* unloadLocked()
UnloadLocked ==
  IF ctx_ # 0 THEN ctx_' = 0 /\ loaded_path_' = NoPath /\ ref_count_' = 0
  ELSE UNCHANGED <<ctx_, loaded_path_, ref_count_>>

\* Mutated form of ScheduleUnloadLocked: unload_pending_ is not set.
ScheduleUnmarked ==
  /\ UNCHANGED unload_pending_
  /\ \E t \in Timer \ Asleep : timer' = [timer EXCEPT ![t] = ttl_seconds_]

\* scheduleUnloadLocked(): one more timer thread.
ScheduleUnloadLocked ==
  /\ unload_pending_' = TRUE
  /\ \E t \in Timer \ Asleep : timer' = [timer EXCEPT ![t] = ttl_seconds_]

\* Mutated form of ReleaseShared: the count is left alone.
ReleaseSharedUncounted(c) ==
  /\ held[c] # 0
  /\ ref_count_ > 1
  /\ held' = [held EXCEPT ![c] = 0]
  /\ idle' = 0
  /\ UNCHANGED <<ctx_, loaded_path_, ref_count_, ttl_seconds_, unload_pending_, timer, loads>>

\* release() by a client that holds a reference, and not the last one.
ReleaseShared(c) ==
  /\ held[c] # 0
  /\ ref_count_ > 1
  /\ ref_count_' = ref_count_ - 1
  /\ held' = [held EXCEPT ![c] = 0]
  /\ idle' = 0
  /\ UNCHANGED <<ctx_, loaded_path_, ttl_seconds_, unload_pending_, timer, loads>>

\* release() of the last reference: at once, later or never.
ReleaseLast(c) ==
  /\ held[c] # 0
  /\ ref_count_ = 1
  /\ held' = [held EXCEPT ![c] = 0]
  /\ idle' = 0
  /\ \/ /\ ttl_seconds_ = 0
        /\ ctx_' = 0 /\ loaded_path_' = NoPath /\ ref_count_' = 0
        /\ UNCHANGED <<unload_pending_, timer>>
     \/ /\ ttl_seconds_ > 0
        /\ ref_count_' = 0
        /\ ScheduleUnloadLocked
        /\ UNCHANGED <<ctx_, loaded_path_>>
     \/ /\ ttl_seconds_ < 0
        /\ ref_count_' = 0
        /\ UNCHANGED <<ctx_, loaded_path_, unload_pending_, timer>>
  /\ UNCHANGED <<ttl_seconds_, loads>>

\* forceUnload(), which the tests call between cases: the callers give up
\* whatever they hold.
ForceUnload ==
  /\ UnloadLocked
  /\ unload_pending_' = FALSE
  /\ held' = [c \in Client |-> 0]
  /\ UNCHANGED <<ttl_seconds_, timer, loads, idle>>

\* Mutated form of TimerExpires: unloads without looking at the flag and the
\* reference count.
TimerExpiresRegardless(t) ==
  /\ timer[t] = 0
  /\ timer' = [timer EXCEPT ![t] = Off]
  /\ UnloadLocked /\ unload_pending_' = FALSE
  /\ UNCHANGED <<ttl_seconds_, held, loads, idle>>

\* A timer thread whose sleep is over takes mutex_, unloads if an unload is
\* pending and nobody holds a reference, and ends.  It cannot tell whether the
\* pending unload is the one it was started for.
TimerExpires(t) ==
  /\ timer[t] = 0
  /\ timer' = [timer EXCEPT ![t] = Off]
  /\ IF unload_pending_ /\ ref_count_ = 0
     THEN UnloadLocked /\ unload_pending_' = FALSE
     ELSE UNCHANGED <<ctx_, loaded_path_, ref_count_, unload_pending_>>
  /\ UNCHANGED <<ttl_seconds_, held, loads, idle>>

\* A second passes.  sleep_for sleeps at least its argument: a thread whose
\* time is up may be scheduled any time later.
Tick ==
  /\ timer' = [t \in Timer |-> IF timer[t] > 0 THEN timer[t] - 1 ELSE timer[t]]
  /\ idle' = IF idle < MaxIdle THEN idle + 1 ELSE idle
  /\ UNCHANGED <<cacheVars, held, loads>>

Next ==
  \/ \E ttl \in Ttls : Configure(ttl)
  \/ \E c \in Client, p \in Path :
       AcquireCached(c, p) \/ AcquireLoads(c, p) \/ AcquireFails(c, p)
  \/ \E c \in Client : ReleaseShared(c) \/ ReleaseLast(c)
  \/ ForceUnload
  \/ \E t \in Timer : TimerExpires(t)
  \/ Tick

\* Time passes and threads that are awake run; nobody has to use the cache.
Fairness == WF_vars(Tick) /\ \A t \in Timer : WF_vars(TimerExpires(t))

Spec == Init /\ [][Next]_vars /\ Fairness

-----------------------------------------------------------------------------

TypeOK ==
  /\ ctx_ \in 0..loads /\ loads \in Nat
  /\ loaded_path_ \in Path \cup {NoPath}
  /\ ref_count_ \in Nat
  /\ ttl_seconds_ \in Int
  /\ unload_pending_ \in BOOLEAN
  /\ timer \in [Timer -> Nat \cup {Off}]
  /\ held \in [Client -> Nat]
  /\ idle \in 0..MaxIdle

\* A session never works with a freed context: what it holds is the context
\* the cache has loaded now, whatever the timers, a failed load or the other
\* sessions have done since it acquired it.
HeldContextIsLive == \A c \in Holders : held[c] = ctx_

\* The reference count is the number of references: it neither leaks (a model
\* that is never freed) nor runs short (a model freed under a session).
RefCountExact == ref_count_ = Cardinality(Holders)

\* What becomes of a loaded model that nobody holds: with a TTL of 0 there is
\* none, with a positive one an unload is pending and a thread is asleep that
\* will do it, and with a negative one no unload is ever pending.
IdleModelHasTimer ==
  ctx_ # 0 /\ Holders = {} =>
    \/ ttl_seconds_ > 0 /\ unload_pending_ /\ Asleep # {}
    \/ ttl_seconds_ < 0 /\ ~unload_pending_

\* An idle model is freed or picked up again, unless it is to be kept forever.
IdleModelGoes ==
  (ctx_ # 0 /\ Holders = {} /\ ttl_seconds_ >= 0) ~> (ctx_ = 0 \/ Holders # {})

\* ModelCache.h:90-91, "If no new acquire() happens within ttl_seconds_, the
\* model is freed" and :31 "Seconds to keep the model after the last
\* release()": a timer frees a model only when that time has passed since the
\* last release().
KeptForTtl ==
  [][\A t \in Timer : TimerExpires(t) /\ ctx_ # 0 /\ ctx_' = 0
       => idle >= ttl_seconds_]_vars

\* The cache implements the shared context.
Shared == INSTANCE SharedContext WITH context <- ctx_, using <- held

ImplementsSharedContext == Shared!Spec
=============================================================================
