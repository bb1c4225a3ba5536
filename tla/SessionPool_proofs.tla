------------------------- MODULE SessionPool_proofs -------------------------
(***************************************************************************)
(* The composition keeps what the sessions rely on: their decodes run over *)
(* the context that is loaded, and the decode slots count the decodes of   *)
(* the flush threads, for every number of sessions, slots and references.  *)
(*                                                                         *)
(* The invariants of the cache and of the limiter are taken from their own *)
(* proofs: every step of the composition is a step of each, or none.       *)
(***************************************************************************)
EXTENDS SessionPool, FiniteSetTheorems, TLAPS

CacheP == INSTANCE ModelCache_proofs WITH
  Client <- Reference, Path <- {Model}, MaxIdle <- 0

LimiterP == INSTANCE InferenceLimiter_proofs WITH Thread <- Session

\* A session that is not over holds every reference it took.
HoldsReferences(s) ==
  session[s].life # "over" =>
    /\ session[s].refs = configs[s]
    /\ \A i \in 1..MaxConfigs : i <= configs[s] => held[<<s, i>>] # 0

\* An engine is made from the loaded context, and over a reference to it.
EngineIsCurrent(s) ==
  session[s].life = "ready" => configs[s] > 0 /\ engineCtx[s] = ctx_

\* A decode needs an engine, and one of the flush thread a slot.
DecodeHasNeeds(s) ==
  /\ session[s].decoding # "none" => session[s].life = "ready"
  /\ session[s].decoding = "flush" <=> caller[s] = "holding"

Linked(s) == HoldsReferences(s) /\ EngineIsCurrent(s) /\ DecodeHasNeeds(s)

IInv ==
  /\ SessionsOK
  /\ CacheP!IInv
  /\ LimiterP!IInv
  /\ \A s \in Session : Linked(s)
  /\ active_count_ <= max_concurrent_

-----------------------------------------------------------------------------
(* The parts meet the assumptions of their modules. *)

LEMMA PartsAssumptions == CacheP!CacheAssumption /\ LimiterP!LimiterAssumption
<1>1. IsFiniteSet(1..MaxConfigs)
  BY PoolAssumption, FS_Interval DEF PoolAssumption
<1>2. IsFiniteSet(Reference)
  BY <1>1, PoolAssumption, FS_Product DEF PoolAssumption, Reference
<1>3. CacheP!CacheAssumption
  BY <1>2, PoolAssumption
     DEF PoolAssumption, CacheP!CacheAssumption, CacheP!IsFiniteSet, IsFiniteSet
<1>4. LimiterP!LimiterAssumption
  BY PoolAssumption
     DEF PoolAssumption, LimiterP!LimiterAssumption, LimiterP!IsFiniteSet, IsFiniteSet
<1> QED
  BY <1>3, <1>4

\* The reference of a config message within the bound.
LEMMA ReferenceExists ==
  ASSUME SessionsOK, NEW s \in Session
  PROVE  /\ configs[s] < MaxConfigs => NextReference(s) \in Reference
         /\ configs[s] > 0 => <<s, configs[s]>> \in Reference
BY PoolAssumption DEF PoolAssumption, SessionsOK, NextReference, Reference

-----------------------------------------------------------------------------
(* A step of the composition is one of the cache, and one of the limiter.  *)

\* What the sessions and the timers do to the cache.
LEMMA CacheActions ==
  /\ \A ttl \in Ttls : Cache!Configure(ttl) => CacheP!Next
  /\ \A r \in Reference : Cache!AcquireCached(r, Model) => CacheP!Next
  /\ \A r \in Reference : Cache!AcquireLoads(r, Model) => CacheP!Next
  /\ \A r \in Reference : Cache!AcquireFails(r, Model) => CacheP!Next
  /\ \A r \in Reference : Cache!ReleaseShared(r) => CacheP!Next
  /\ \A r \in Reference : Cache!ReleaseLast(r) => CacheP!Next
  /\ Cache!Tick => CacheP!Next
  /\ \A t \in Timer : Cache!TimerExpires(t) => CacheP!Next
<1> USE DEF CacheP!Next
<1>1. \A ttl \in Ttls : Cache!Configure(ttl) => CacheP!Next
  BY DEF Cache!Configure, CacheP!Configure
<1>2. \A r \in Reference : Cache!AcquireCached(r, Model) => CacheP!Next
  BY DEF Cache!AcquireCached, CacheP!AcquireCached, Cache!Cached, CacheP!Cached
<1>3. \A r \in Reference : Cache!AcquireLoads(r, Model) => CacheP!Next
  BY DEF Cache!AcquireLoads, CacheP!AcquireLoads, Cache!Cached, CacheP!Cached,
         Cache!SameModel, CacheP!SameModel, Cache!Holders, CacheP!Holders
<1>4. \A r \in Reference : Cache!AcquireFails(r, Model) => CacheP!Next
  BY DEF Cache!AcquireFails, CacheP!AcquireFails, Cache!Cached, CacheP!Cached,
         Cache!SameModel, CacheP!SameModel, Cache!Holders, CacheP!Holders
<1>5. \A r \in Reference : Cache!ReleaseShared(r) => CacheP!Next
  BY DEF Cache!ReleaseShared, CacheP!ReleaseShared
<1>6. \A r \in Reference : Cache!ReleaseLast(r) => CacheP!Next
  BY DEF Cache!ReleaseLast, CacheP!ReleaseLast, Cache!ScheduleUnloadLocked,
         CacheP!ScheduleUnloadLocked, Cache!Asleep, CacheP!Asleep, Cache!Off, CacheP!Off
<1>7. Cache!Tick => CacheP!Next
  BY DEF Cache!Tick, CacheP!Tick, Cache!cacheVars, CacheP!cacheVars
<1>8. \A t \in Timer : Cache!TimerExpires(t) => CacheP!Next
  BY DEF Cache!TimerExpires, CacheP!TimerExpires, Cache!UnloadLocked, CacheP!UnloadLocked,
         Cache!Off, CacheP!Off
<1> QED
  BY <1>1, <1>2, <1>3, <1>4, <1>5, <1>6, <1>7, <1>8

\* Every step of the composition is a step of the cache, or leaves it alone.
LEMMA CacheStep ==
  ASSUME SessionsOK, \A s \in Session : Linked(s), Next
  PROVE  [CacheP!Next]_cacheVars
<1>1. ASSUME NEW ttl \in Ttls, NEW n \in Limits, Configure(ttl, n)
      PROVE  [CacheP!Next]_cacheVars
  BY <1>1, CacheActions DEF Configure
<1>2. ASSUME NEW s \in Session, Acquire(s) \/ AcquireFails(s)
      PROVE  [CacheP!Next]_cacheVars
  BY <1>2, CacheActions, ReferenceExists DEF Acquire, AcquireFails
<1>3. ASSUME NEW s \in Session,
             Build(s) \/ StartFlush(s) \/ StopFlush(s) \/ StartEnd(s) \/ StopEnd(s)
      PROVE  [CacheP!Next]_cacheVars
  BY <1>3 DEF Build, StartFlush, StopFlush, StartEnd, StopEnd
<1>4. ASSUME NEW s \in Session, Release(s)
      PROVE  [CacheP!Next]_cacheVars
  <2>1. CASE session[s].refs = 0
    BY <1>4, <2>1 DEF Release, GivesBack
  <2>2. CASE session[s].refs # 0
    <3>1. <<s, configs[s]>> \in Reference
      <4>1. configs[s] # 0 /\ configs[s] \in Nat
        BY <1>4, <2>2 DEF Release, CanRelease, Linked, HoldsReferences, SessionsOK
      <4> QED
        BY <4>1, ReferenceExists
    <3> QED
      BY <1>4, <2>2, <3>1, CacheActions DEF Release, GivesBack
  <2> QED
    BY <2>1, <2>2
<1>5. CASE CacheAlone
  BY <1>5, CacheActions DEF CacheAlone
<1> QED
  BY <1>1, <1>2, <1>3, <1>4, <1>5 DEF Next, SessionStep

\* What the sessions do to the limiter.
LEMMA LimiterActions ==
  /\ \A n \in Limits : Limiter!SetMaxConcurrency(n) => LimiterP!Next
  /\ \A s \in Session : Limiter!TryAcquire(s) => LimiterP!Next
  /\ \A s \in Session : Limiter!Release(s) => LimiterP!Next
<1> USE DEF LimiterP!Next
<1>1. \A n \in Limits : Limiter!SetMaxConcurrency(n) => LimiterP!Next
  BY DEF Limiter!SetMaxConcurrency, LimiterP!SetMaxConcurrency
<1>2. \A s \in Session : Limiter!TryAcquire(s) => LimiterP!Next
  BY DEF Limiter!TryAcquire, LimiterP!TryAcquire, Limiter!HasCapacity, LimiterP!HasCapacity
<1>3. \A s \in Session : Limiter!Release(s) => LimiterP!Next
  BY DEF Limiter!Release, LimiterP!Release, Limiter!NotifyOne, LimiterP!NotifyOne,
         Limiter!Where, LimiterP!Where
<1> QED
  BY <1>1, <1>2, <1>3

\* Every step of the composition is a step of the limiter, or leaves it alone.
LEMMA LimiterStep ==
  ASSUME Next
  PROVE  [LimiterP!Next]_limiterVars
<1>1. ASSUME NEW ttl \in Ttls, NEW n \in Limits, Configure(ttl, n)
      PROVE  [LimiterP!Next]_limiterVars
  BY <1>1, LimiterActions DEF Configure, limiterVars
<1>2. ASSUME NEW s \in Session,
             \/ Acquire(s) \/ AcquireFails(s) \/ Build(s) \/ StartEnd(s) \/ StopEnd(s)
             \/ Release(s)
      PROVE  [LimiterP!Next]_limiterVars
  BY <1>2 DEF Acquire, AcquireFails, Build, StartEnd, StopEnd, Release
<1>3. ASSUME NEW s \in Session, StartFlush(s) \/ StopFlush(s)
      PROVE  [LimiterP!Next]_limiterVars
  BY <1>3, LimiterActions DEF StartFlush, StopFlush
<1>4. CASE CacheAlone
  BY <1>4 DEF CacheAlone
<1> QED
  BY <1>1, <1>2, <1>3, <1>4 DEF Next, SessionStep

\* So each part keeps the invariant it was proved to have by itself.
LEMMA PartsKept ==
  ASSUME IInv, Next
  PROVE  CacheP!IInv' /\ LimiterP!IInv'
<1>1. CacheP!IInv'
  BY CacheStep, CacheP!NextIInv, PartsAssumptions DEF IInv, CacheP!vars, cacheVars
<1>2. LimiterP!IInv'
  BY LimiterStep, LimiterP!NextIInv, PartsAssumptions DEF IInv, LimiterP!vars, limiterVars
<1> QED
  BY <1>1, <1>2

-----------------------------------------------------------------------------
(* The links between the sessions and what they share. *)

\* A step does not concern session s.
Unconcerned(s) ==
  /\ session'[s] = session[s] /\ configs'[s] = configs[s] /\ engineCtx'[s] = engineCtx[s]
  /\ caller'[s] = "holding" <=> caller[s] = "holding"
  /\ \A i \in 1..MaxConfigs : held'[<<s, i>>] = held[<<s, i>>]

\* A reference that is kept pins the context: what a holder has is what is
\* loaded, before the step and after it.
LEMMA HeldPinsContext ==
  ASSUME CacheP!IInv, CacheP!IInv', NEW r \in Reference, held[r] # 0, held'[r] = held[r]
  PROVE  ctx_' = ctx_ /\ held[r] = ctx_ /\ ctx_ # 0
BY DEF CacheP!IInv, CacheP!HeldContextIsLive, CacheP!Holders

\* A session that a step does not concern keeps its links: whatever happened
\* to the cache, the context it decodes with is still the loaded one.
LEMMA UnconcernedKept ==
  ASSUME SessionsOK, CacheP!IInv, CacheP!IInv', NEW s \in Session, Unconcerned(s), Linked(s)
  PROVE  Linked(s)'
<1>1. HoldsReferences(s)'
  BY DEF Unconcerned, Linked, HoldsReferences
<1>2. DecodeHasNeeds(s)'
  BY DEF Unconcerned, Linked, DecodeHasNeeds
<1>3. EngineIsCurrent(s)'
  <2> SUFFICES ASSUME session[s].life = "ready" PROVE EngineIsCurrent(s)'
    BY DEF Unconcerned, EngineIsCurrent
  <2>1. configs[s] > 0 /\ configs[s] \in 1..MaxConfigs /\ <<s, configs[s]>> \in Reference
    BY PoolAssumption, ReferenceExists
       DEF PoolAssumption, Linked, EngineIsCurrent, SessionsOK
  <2>2. held[<<s, configs[s]>>] # 0
    BY <2>1 DEF Linked, HoldsReferences
  <2>3. ctx_' = ctx_
    BY <2>1, <2>2, HeldPinsContext DEF Unconcerned
  <2> QED
    BY <2>3 DEF Unconcerned, Linked, EngineIsCurrent
<1> QED
  BY <1>1, <1>2, <1>3 DEF Linked

\* What acquire() and release() do to the references.
LEMMA AcquireTakesOne ==
  ASSUME CacheP!IInv, CacheP!IInv', NEW r \in Reference,
         Cache!AcquireCached(r, Model) \/ Cache!AcquireLoads(r, Model)
  PROVE  held'[r] # 0 /\ \A q \in Reference \ {r} : held'[q] = held[q]
<1>1. held \in [Reference -> Nat] /\ ctx_ \in 0..loads /\ loads \in Nat
  BY DEF CacheP!IInv, CacheP!TypeOK
<1>2. CASE Cache!AcquireCached(r, Model)
  BY <1>1, <1>2 DEF Cache!AcquireCached, Cache!Cached
<1>3. CASE Cache!AcquireLoads(r, Model)
  BY <1>1, <1>3 DEF Cache!AcquireLoads
<1> QED
  BY <1>2, <1>3

LEMMA ReleaseGivesOne ==
  ASSUME CacheP!IInv, NEW r \in Reference, Cache!ReleaseShared(r) \/ Cache!ReleaseLast(r)
  PROVE  \A q \in Reference \ {r} : held'[q] = held[q]
BY DEF CacheP!IInv, CacheP!TypeOK, Cache!ReleaseShared, Cache!ReleaseLast

\* The references of two sessions are different ones.
LEMMA ReferencesDiffer ==
  ASSUME NEW s \in Session, NEW u \in Session, u # s, NEW i \in 1..MaxConfigs, NEW j
  PROVE  <<u, i>> \in Reference /\ <<u, i>> # <<s, j>>
BY DEF Reference

\* What one session does to the sessions' own variables.
Moves(s, o, n, c) ==
  /\ session' = [session EXCEPT ![s] = o]
  /\ configs' = [configs EXCEPT ![s] = n]
  /\ engineCtx' = [engineCtx EXCEPT ![s] = c]

LEMMA MovesOne ==
  ASSUME SessionsOK, NEW s \in Session, NEW o \in Outlines, NEW n \in 0..MaxConfigs,
         NEW c \in Nat, Moves(s, o, n, c)
  PROVE  /\ SessionsOK'
         /\ session'[s] = o /\ configs'[s] = n /\ engineCtx'[s] = c
         /\ \A u \in Session \ {s} : /\ session'[u] = session[u] /\ configs'[u] = configs[u]
                                     /\ engineCtx'[u] = engineCtx[u]
BY DEF Moves, SessionsOK

\* The values that the steps of the outline give a session.
LEMMA OutlineValues ==
  ASSUME NEW s \in Outlines
  PROVE  /\ Acquired(s) \in Outlines /\ Acquired(s).refs = s.refs + 1
         /\ Acquired(s).life = s.life /\ Acquired(s).decoding = s.decoding
         /\ Built(s) \in Outlines /\ Built(s).refs = s.refs
         /\ Built(s).life = "ready" /\ Built(s).decoding = s.decoding
         /\ \A what \in Decodes :
              /\ Decoding(s, what) \in Outlines /\ Decoding(s, what).refs = s.refs
              /\ Decoding(s, what).life = s.life /\ Decoding(s, what).decoding = what
         /\ Released(s) \in Outlines
         /\ Released(s).life = "over" /\ Released(s).decoding = s.decoding
<1>1. /\ Acquired(s) \in Outlines /\ Acquired(s).refs = s.refs + 1
      /\ Acquired(s).life = s.life /\ Acquired(s).decoding = s.decoding
  BY DEF Acquired, Outlines
<1>2. /\ Built(s) \in Outlines /\ Built(s).refs = s.refs
      /\ Built(s).life = "ready" /\ Built(s).decoding = s.decoding
  BY DEF Built, Outlines, Lives
<1>3. ASSUME NEW what \in Decodes
      PROVE  /\ Decoding(s, what) \in Outlines /\ Decoding(s, what).refs = s.refs
             /\ Decoding(s, what).life = s.life /\ Decoding(s, what).decoding = what
  BY DEF Decoding, Outlines, Decodes
<1>4. /\ Released(s) \in Outlines
      /\ Released(s).life = "over" /\ Released(s).decoding = s.decoding
  BY DEF Released, Outlines, Lives
<1> QED
  BY <1>1, <1>2, <1>3, <1>4

\* acquire(): one more reference, and the engine of the session, if it has one
\* already, still over the one before.
LEMMA AcquireKeeps ==
  ASSUME IInv, CacheP!IInv', NEW s \in Session, Acquire(s)
  PROVE  SessionsOK' /\ \A u \in Session : Linked(u)'
<1>1. SessionsOK /\ CacheP!IInv /\ \A u \in Session : Linked(u)
  BY DEF IInv
<1> DEFINE r == NextReference(s)
<1>2. /\ session[s] \in Outlines /\ configs[s] \in Nat /\ configs[s] + 1 \in 0..MaxConfigs
      /\ engineCtx[s] \in Nat /\ r \in Reference
  <2>1. session[s] \in Outlines /\ engineCtx[s] \in Nat /\ configs[s] \in 0..MaxConfigs
    BY <1>1 DEF SessionsOK
  <2>2. configs[s] < MaxConfigs
    BY DEF Acquire
  <2>3. r \in Reference
    BY <1>1, <2>2, ReferenceExists
  <2>4. configs[s] \in Nat /\ configs[s] + 1 \in 0..MaxConfigs
    BY <2>1, <2>2, PoolAssumption DEF PoolAssumption
  <2> QED
    BY <2>1, <2>3, <2>4
<1>3. Moves(s, Acquired(session[s]), configs[s] + 1, engineCtx[s])
  BY <1>1 DEF Moves, Acquire, Becomes, SessionsOK
<1>4. /\ SessionsOK'
      /\ session'[s] = Acquired(session[s]) /\ configs'[s] = configs[s] + 1
      /\ engineCtx'[s] = engineCtx[s]
      /\ \A u \in Session \ {s} : /\ session'[u] = session[u] /\ configs'[u] = configs[u]
                                  /\ engineCtx'[u] = engineCtx[u]
  BY <1>1, <1>2, <1>3, MovesOne, OutlineValues
<1>5. held'[r] # 0 /\ (\A q \in Reference \ {r} : held'[q] = held[q]) /\ caller' = caller
  BY <1>1, <1>2, AcquireTakesOne DEF Acquire, limiterVars
<1>6. ASSUME NEW u \in Session, u # s PROVE Linked(u)'
  <2>1. Unconcerned(u)
    BY <1>4, <1>5, <1>6, ReferencesDiffer DEF Unconcerned, NextReference
  <2> QED
    BY <1>1, <2>1, UnconcernedKept
<1>7. Linked(s)'
  <2>1. session[s].life # "over"
    BY DEF Acquire, CanAcquire
  <2>2. \A i \in 1..MaxConfigs : i # configs[s] + 1 => held'[<<s, i>>] = held[<<s, i>>]
    BY <1>5 DEF NextReference, Reference
  <2>3. HoldsReferences(s)'
    <3>1. \A i \in 1..MaxConfigs : i <= configs[s] => held[<<s, i>>] # 0
      BY <1>1, <2>1 DEF Linked, HoldsReferences
    <3>2. \A i \in 1..MaxConfigs : i <= configs[s] + 1 => held'[<<s, i>>] # 0
      BY <1>2, <1>5, <2>2, <3>1 DEF NextReference
    <3>3. session'[s].refs = configs'[s]
      BY <1>1, <1>2, <1>4, <2>1, OutlineValues DEF Linked, HoldsReferences
    <3> QED
      BY <1>4, <3>2, <3>3 DEF HoldsReferences
  <2>4. EngineIsCurrent(s)'
    <3> SUFFICES ASSUME session[s].life = "ready" PROVE EngineIsCurrent(s)'
      BY <1>2, <1>4, OutlineValues DEF EngineIsCurrent
    <3>1. configs[s] > 0 /\ engineCtx[s] = ctx_ /\ <<s, configs[s]>> \in Reference
      BY <1>1, ReferenceExists DEF Linked, EngineIsCurrent
    <3>2. configs[s] \in 1..MaxConfigs /\ configs[s] # configs[s] + 1 /\ configs[s] <= configs[s]
      BY <1>1, <1>2, <3>1, PoolAssumption DEF PoolAssumption, SessionsOK
    <3>3. held[<<s, configs[s]>>] # 0
      BY <1>1, <2>1, <3>2 DEF Linked, HoldsReferences
    <3>4. held'[<<s, configs[s]>>] = held[<<s, configs[s]>>]
      BY <2>2, <3>2
    <3>5. ctx_' = ctx_
      BY <1>1, <3>1, <3>3, <3>4, HeldPinsContext
    <3> QED
      BY <1>2, <1>4, <3>1, <3>5 DEF EngineIsCurrent
  <2>5. DecodeHasNeeds(s)'
    BY <1>1, <1>2, <1>4, <1>5, OutlineValues DEF Linked, DecodeHasNeeds
  <2> QED
    BY <2>3, <2>4, <2>5 DEF Linked
<1> QED
  BY <1>4, <1>6, <1>7

\* The other steps of one session leave every reference where it is.
LEMMA OneMovesKeeps ==
  ASSUME SessionsOK, CacheP!IInv, CacheP!IInv', \A u \in Session : Linked(u),
         NEW s \in Session, NEW o \in Outlines, NEW c \in Nat,
         Moves(s, o, configs[s], c), UNCHANGED cacheVars,
         \A u \in Session \ {s} : caller'[u] = "holding" <=> caller[u] = "holding",
         o.life # "over" => session[s].life # "over" /\ o.refs = session[s].refs,
         o.life = "ready" => configs[s] > 0 /\ c = ctx_,
         o.decoding # "none" => o.life = "ready",
         o.decoding = "flush" <=> caller'[s] = "holding"
  PROVE  SessionsOK' /\ \A u \in Session : Linked(u)'
<1>1. configs[s] \in 0..MaxConfigs
  BY DEF SessionsOK
<1>2. /\ SessionsOK'
      /\ session'[s] = o /\ configs'[s] = configs[s] /\ engineCtx'[s] = c
      /\ \A u \in Session \ {s} : /\ session'[u] = session[u] /\ configs'[u] = configs[u]
                                  /\ engineCtx'[u] = engineCtx[u]
  BY <1>1, MovesOne
<1>3. held' = held /\ ctx_' = ctx_
  BY DEF cacheVars
<1>4. ASSUME NEW u \in Session, u # s PROVE Linked(u)'
  <2>1. Unconcerned(u)
    BY <1>2, <1>3, <1>4 DEF Unconcerned
  <2> QED
    BY <2>1, UnconcernedKept
<1>5. Linked(s)'
  <2>1. HoldsReferences(s)'
    BY <1>2, <1>3 DEF Linked, HoldsReferences
  <2>2. EngineIsCurrent(s)'
    BY <1>2, <1>3 DEF EngineIsCurrent
  <2>3. DecodeHasNeeds(s)'
    BY <1>2 DEF DecodeHasNeeds
  <2> QED
    BY <2>1, <2>2, <2>3 DEF Linked
<1> QED
  BY <1>2, <1>4, <1>5

\* A new engine is made from the context that the last acquire() returned, and
\* that is still the loaded one: the session has a reference to it.
LEMMA BuildKeeps ==
  ASSUME IInv, CacheP!IInv', NEW s \in Session, Build(s)
  PROVE  SessionsOK' /\ \A u \in Session : Linked(u)'
<1>1. /\ SessionsOK /\ CacheP!IInv /\ (\A u \in Session : Linked(u))
      /\ session[s] \in Outlines /\ session[s].life # "over" /\ session[s].decoding = "none"
      /\ session[s].refs > 0
  BY DEF IInv, SessionsOK, Build, CanBuild
<1>2. configs[s] > 0 /\ configs[s] \in 1..MaxConfigs /\ <<s, configs[s]>> \in Reference
  BY <1>1, PoolAssumption, ReferenceExists
     DEF PoolAssumption, Linked, HoldsReferences, SessionsOK
<1>3. held[<<s, configs[s]>>] # 0 /\ UNCHANGED cacheVars
  BY <1>1, <1>2 DEF Linked, HoldsReferences, Build
<1>4. held[<<s, configs[s]>>] = ctx_
  BY <1>1, <1>2, <1>3, HeldPinsContext DEF cacheVars
<1>5. ctx_ \in Nat
  BY <1>1 DEF CacheP!IInv, CacheP!TypeOK
<1>6. Moves(s, Built(session[s]), configs[s], ctx_)
  BY <1>1, <1>4 DEF Moves, Build, Becomes, SessionsOK
<1>7. caller' = caller /\ caller[s] # "holding"
  BY <1>1 DEF Build, limiterVars, Linked, DecodeHasNeeds
<1> QED
  BY <1>1, <1>2, <1>3, <1>5, <1>6, <1>7, OneMovesKeeps, OutlineValues

\* A decode starts or ends: with a slot that is taken or given back, or without.
LEMMA DecodeKeeps ==
  ASSUME IInv, CacheP!IInv', NEW s \in Session, NEW what \in Decodes,
         what # "none" => session[s].life = "ready",
         Becomes(s, Decoding(session[s], what)), UNCHANGED <<configs, engineCtx, cacheVars>>,
         \A u \in Session \ {s} : caller'[u] = "holding" <=> caller[u] = "holding",
         what = "flush" <=> caller'[s] = "holding"
  PROVE  SessionsOK' /\ \A u \in Session : Linked(u)'
<1>1. /\ SessionsOK /\ CacheP!IInv /\ (\A u \in Session : Linked(u))
      /\ session[s] \in Outlines /\ engineCtx[s] \in Nat
  BY DEF IInv, SessionsOK
<1>2. Moves(s, Decoding(session[s], what), configs[s], engineCtx[s])
  BY <1>1 DEF Moves, Becomes, SessionsOK
<1>3. session[s].life = "ready" => configs[s] > 0 /\ engineCtx[s] = ctx_
  BY <1>1 DEF Linked, EngineIsCurrent
<1> QED
  BY <1>1, <1>2, <1>3, OneMovesKeeps, OutlineValues

\* Who holds a slot after the limiter's steps.
LEMMA HoldersMove ==
  ASSUME LimiterP!IInv, NEW s \in Session
  PROVE  /\ Limiter!TryAcquire(s) =>
              /\ caller'[s] = "holding"
              /\ \A u \in Session \ {s} : caller'[u] = caller[u]
         /\ Limiter!Release(s) =>
              /\ caller'[s] # "holding"
              /\ \A u \in Session \ {s} : caller'[u] = "holding" <=> caller[u] = "holding"
<1>1. caller \in [Session -> LimiterP!CallerStates]
  BY DEF LimiterP!IInv, LimiterP!TypeOK
<1>2. ASSUME Limiter!TryAcquire(s)
      PROVE  caller'[s] = "holding" /\ \A u \in Session \ {s} : caller'[u] = caller[u]
  BY <1>1, <1>2 DEF Limiter!TryAcquire
<1>3. ASSUME Limiter!Release(s)
      PROVE  /\ caller'[s] # "holding"
             /\ \A u \in Session \ {s} : caller'[u] = "holding" <=> caller[u] = "holding"
  <2> DEFINE freed == [caller EXCEPT ![s] = "idle"]
  <2>1. /\ DOMAIN freed = Session /\ freed[s] = "idle"
        /\ \A u \in Session \ {s} : freed[u] = caller[u]
    BY <1>1
  <2>2. caller' \in Limiter!NotifyOne(freed)
    BY <1>3 DEF Limiter!Release
  <2> HIDE DEF freed
  <2>3. CASE caller' = freed
    BY <2>1, <2>3
  <2>4. ASSUME NEW w \in Session, freed[w] = "waiting", caller' = [freed EXCEPT ![w] = "notified"]
        PROVE  /\ caller'[s] # "holding"
               /\ \A u \in Session \ {s} : caller'[u] = "holding" <=> caller[u] = "holding"
    BY <2>1, <2>4
  <2> QED
    BY <2>2, <2>3, <2>4 DEF Limiter!NotifyOne, Limiter!Where
<1> QED
  BY <1>2, <1>3

LEMMA DecodesKeep ==
  ASSUME IInv, CacheP!IInv', NEW s \in Session,
         StartFlush(s) \/ StopFlush(s) \/ StartEnd(s) \/ StopEnd(s)
  PROVE  SessionsOK' /\ \A u \in Session : Linked(u)'
<1>1. LimiterP!IInv /\ Linked(s)
  BY DEF IInv
<1>2. CASE StartFlush(s)
  BY <1>1, <1>2, HoldersMove, DecodeKeeps DEF StartFlush, CanDecode, Decodes
<1>3. CASE StopFlush(s)
  BY <1>1, <1>3, HoldersMove, DecodeKeeps DEF StopFlush, Decodes
<1>4. CASE StartEnd(s)
  <2>1. caller' = caller /\ caller[s] # "holding"
    BY <1>1, <1>4 DEF StartEnd, CanDecode, limiterVars, Linked, DecodeHasNeeds
  <2> QED
    BY <1>4, <2>1, DecodeKeeps DEF StartEnd, CanDecode, Decodes
<1>5. CASE StopEnd(s)
  <2>1. caller' = caller /\ caller[s] # "holding"
    BY <1>1, <1>5 DEF StopEnd, limiterVars, Linked, DecodeHasNeeds
  <2> QED
    BY <1>5, <2>1, DecodeKeeps DEF StopEnd, Decodes
<1> QED
  BY <1>2, <1>3, <1>4, <1>5

\* releaseModel(): one reference fewer for this session, none for the others.
LEMMA ReleaseKeeps ==
  ASSUME IInv, CacheP!IInv', NEW s \in Session, Release(s)
  PROVE  SessionsOK' /\ \A u \in Session : Linked(u)'
<1>1. /\ SessionsOK /\ CacheP!IInv /\ (\A u \in Session : Linked(u))
      /\ session[s] \in Outlines /\ configs[s] \in 0..MaxConfigs
      /\ session[s].life # "over" /\ session[s].decoding = "none"
  BY DEF IInv, SessionsOK, Release, CanRelease
<1>2. Moves(s, Released(session[s]), configs[s], 0)
  BY <1>1 DEF Moves, Release, Becomes, SessionsOK
<1>3. /\ SessionsOK'
      /\ session'[s] = Released(session[s])
      /\ \A u \in Session \ {s} : /\ session'[u] = session[u] /\ configs'[u] = configs[u]
                                  /\ engineCtx'[u] = engineCtx[u]
  BY <1>1, <1>2, MovesOne, OutlineValues
<1>4. caller' = caller
  BY DEF Release, limiterVars
<1>5. ASSUME NEW u \in Session, u # s, NEW i \in 1..MaxConfigs
      PROVE  held'[<<u, i>>] = held[<<u, i>>]
  <2>1. CASE session[s].refs = 0
    BY <2>1 DEF Release, GivesBack, cacheVars
  <2>2. CASE session[s].refs # 0
    <3>1. configs[s] > 0
      BY <1>1, <2>2 DEF Linked, HoldsReferences
    <3>2. <<s, configs[s]>> \in Reference
      BY <1>1, <3>1, ReferenceExists
    <3>3. Cache!ReleaseShared(<<s, configs[s]>>) \/ Cache!ReleaseLast(<<s, configs[s]>>)
      BY <2>2 DEF Release, GivesBack
    <3>4. \A q \in Reference \ {<<s, configs[s]>>} : held'[q] = held[q]
      BY <1>1, <3>2, <3>3, ReleaseGivesOne
    <3> QED
      BY <1>5, <3>4, ReferencesDiffer
  <2> QED
    BY <2>1, <2>2
<1>6. ASSUME NEW u \in Session, u # s PROVE Linked(u)'
  <2>1. Unconcerned(u)
    BY <1>3, <1>4, <1>5, <1>6 DEF Unconcerned
  <2> QED
    BY <1>1, <2>1, UnconcernedKept
<1>7. Linked(s)'
  <2>1. session'[s].life = "over" /\ session'[s].decoding = "none"
    BY <1>1, <1>3, OutlineValues
  <2>2. caller'[s] # "holding"
    BY <1>1, <1>4 DEF Linked, DecodeHasNeeds
  <2> QED
    BY <2>1, <2>2 DEF Linked, HoldsReferences, EngineIsCurrent, DecodeHasNeeds
<1> QED
  BY <1>3, <1>6, <1>7

\* The steps that are no session's, and the acquire() that throws: whoever had
\* a reference still has it.
LEMMA OthersKeep ==
  ASSUME IInv, CacheP!IInv', UNCHANGED sessionVars, held' = held,
         \A u \in Session : caller'[u] = "holding" <=> caller[u] = "holding"
  PROVE  SessionsOK' /\ \A u \in Session : Linked(u)'
<1>1. SessionsOK'
  BY DEF IInv, SessionsOK, sessionVars
<1>2. ASSUME NEW u \in Session PROVE Linked(u)'
  <2>1. Unconcerned(u)
    BY DEF Unconcerned, sessionVars
  <2> QED
    BY <2>1, UnconcernedKept DEF IInv
<1> QED
  BY <1>1, <1>2

-----------------------------------------------------------------------------
(* The slots. *)

\* Before any session has begun, nobody has a slot.
LEMMA FreshHasNoSlot ==
  ASSUME IInv, \A s \in Session : session[s] = Fresh
  PROVE  active_count_ = 0 /\ \A s \in Session : caller[s] # "holding"
<1>1. \A s \in Session : caller[s] # "holding"
  BY DEF IInv, Linked, DecodeHasNeeds, Fresh
<1>2. LimiterP!In("holding") = {}
  BY <1>1 DEF LimiterP!In, LimiterP!Where
<1>3. active_count_ = Cardinality({})
  BY <1>2 DEF IInv, LimiterP!IInv, LimiterP!SlotAccounting, LimiterP!Cardinality, Cardinality
<1> QED
  BY <1>1, <1>3, FS_EmptySet

\* No slot is given out at the limit, and the limit is not changed while any is.
LEMMA SlotsStayBounded ==
  ASSUME IInv, Next
  PROVE  active_count_' <= max_concurrent_'
<1>1. active_count_ \in Nat /\ max_concurrent_ \in Nat \ {0} /\ active_count_ <= max_concurrent_
  BY DEF IInv, LimiterP!IInv, LimiterP!TypeOK
<1>2. CASE UNCHANGED limiterVars
  BY <1>1, <1>2 DEF limiterVars
<1>3. ASSUME NEW ttl \in Ttls, NEW n \in Limits, Configure(ttl, n)
      PROVE  active_count_' <= max_concurrent_'
  <2>1. n \in Int /\ active_count_ = 0
    BY <1>3, PoolAssumption, FreshHasNoSlot DEF PoolAssumption, Configure
  <2>2. CASE Limiter!SetMaxConcurrency(n)
    BY <2>1, <2>2 DEF Limiter!SetMaxConcurrency
  <2> QED
    BY <1>2, <1>3, <2>2 DEF Configure
<1>4. ASSUME NEW s \in Session, StartFlush(s)
      PROVE  active_count_' <= max_concurrent_'
  BY <1>1, <1>4 DEF StartFlush, Limiter!TryAcquire, Limiter!HasCapacity
<1>5. ASSUME NEW s \in Session, StopFlush(s)
      PROVE  active_count_' <= max_concurrent_'
  BY <1>1, <1>5 DEF StopFlush, Limiter!Release
<1> QED
  BY <1>2, <1>3, <1>4, <1>5
     DEF Next, SessionStep, Acquire, AcquireFails, Build, StartEnd, StopEnd, Release, CacheAlone

-----------------------------------------------------------------------------
(* Invariance. *)

LEMMA InitIInv == Init => IInv
<1> SUFFICES ASSUME Init PROVE IInv
  OBVIOUS
<1>1. SessionsOK
  BY PoolAssumption DEF PoolAssumption, Init, SessionsOK, Fresh, Outlines, Lives, Decodes
<1>2. CacheP!Init
  BY DEF Init, Cache!Init, CacheP!Init, Cache!Off, CacheP!Off
<1>3. LimiterP!Init
  BY DEF Init, Limiter!Init, LimiterP!Init
<1>4. CacheP!IInv /\ LimiterP!IInv
  BY <1>2, <1>3, CacheP!InitIInv, LimiterP!InitIInv, PartsAssumptions
<1>5. ASSUME NEW s \in Session PROVE Linked(s)
  <2>1. session[s] = Fresh /\ configs[s] = 0 /\ caller[s] = "idle"
    BY DEF Init, Limiter!Init
  <2> QED
    BY <2>1 DEF Linked, HoldsReferences, EngineIsCurrent, DecodeHasNeeds, Fresh
<1>6. active_count_ <= max_concurrent_
  BY PoolAssumption DEF PoolAssumption, Init, Limiter!Init
<1> QED
  BY <1>1, <1>4, <1>5, <1>6 DEF IInv

LEMMA LinksKept ==
  ASSUME IInv, Next
  PROVE  SessionsOK' /\ \A u \in Session : Linked(u)'
<1>1. CacheP!IInv'
  BY PartsKept
<1>2. ASSUME NEW ttl \in Ttls, NEW n \in Limits, Configure(ttl, n)
      PROVE  SessionsOK' /\ \A u \in Session : Linked(u)'
  <2>1. UNCHANGED sessionVars /\ held' = held
    BY <1>2 DEF Configure, Cache!Configure
  <2>2. \A u \in Session : caller[u] # "holding"
    BY <1>2, FreshHasNoSlot DEF Configure
  <2>3. \A u \in Session : caller'[u] # "holding"
    BY <1>2, <2>2 DEF Configure, Limiter!SetMaxConcurrency, limiterVars
  <2> QED
    BY <1>1, <2>1, <2>2, <2>3, OthersKeep
<1>3. ASSUME NEW s \in Session, AcquireFails(s)
      PROVE  SessionsOK' /\ \A u \in Session : Linked(u)'
  BY <1>1, <1>3, OthersKeep DEF AcquireFails, Cache!AcquireFails, limiterVars
<1>4. CASE CacheAlone
  <2>1. held' = held
    BY <1>4 DEF CacheAlone, Cache!Tick, Cache!TimerExpires
  <2> QED
    BY <1>1, <1>4, <2>1, OthersKeep DEF CacheAlone, limiterVars
<1> QED
  BY <1>1, <1>2, <1>3, <1>4, AcquireKeeps, BuildKeeps, DecodesKeep, ReleaseKeeps
     DEF Next, SessionStep

LEMMA NextIInv == IInv /\ [Next]_vars => IInv'
<1>1. ASSUME IInv, Next PROVE IInv'
  <2>1. /\ CacheP!IInv' /\ LimiterP!IInv'
        /\ SessionsOK' /\ (\A u \in Session : Linked(u)')
        /\ active_count_' <= max_concurrent_'
    BY <1>1, PartsKept, LinksKept, SlotsStayBounded
  <2> QED
    BY <2>1 DEF IInv
<1>2. ASSUME IInv, UNCHANGED vars PROVE IInv'
  <2>1. UNCHANGED sessionVars /\ UNCHANGED cacheVars /\ UNCHANGED limiterVars
    BY <1>2 DEF vars
  <2>2. CacheP!IInv'
    BY <1>2, <2>1, CacheP!NextIInv, PartsAssumptions DEF IInv, CacheP!vars, cacheVars
  <2>3. LimiterP!IInv'
    BY <1>2, <2>1, LimiterP!NextIInv, PartsAssumptions DEF IInv, LimiterP!vars, limiterVars
  <2>4. SessionsOK' /\ \A u \in Session : Linked(u)'
    BY <1>2, <2>1, <2>2, OthersKeep DEF cacheVars, limiterVars
  <2> QED
    BY <1>2, <2>1, <2>2, <2>3, <2>4 DEF IInv, limiterVars
<1> QED
  BY <1>1, <1>2

\* The parts' invariants and the links between them, always.
THEOREM Invariance == Spec => []IInv
<1> QED
  BY InitIInv, NextIInv, PTL DEF Spec

\* The outlines, the cache and the limiter keep their types together.
THEOREM Typing == Spec => []TypeOK
<1>1. IInv => TypeOK
  <2> SUFFICES ASSUME IInv PROVE TypeOK
    OBVIOUS
  <2>1. CacheP!TypeOK /\ LimiterP!TypeOK
    BY DEF IInv, CacheP!IInv, LimiterP!IInv
  <2>2. Cache!TypeOK
    BY <2>1 DEF Cache!TypeOK, CacheP!TypeOK, Cache!Off, CacheP!Off
  <2>3. Limiter!TypeOK
    BY <2>1 DEF Limiter!TypeOK, LimiterP!TypeOK, Limiter!CallerStates, LimiterP!CallerStates
  <2> QED
    BY <2>2, <2>3 DEF TypeOK, IInv
<1> QED
  BY <1>1, Invariance, PTL

\* No session decodes over a model that has been freed: acquire() of the others,
\* failed loads, timers and releaseModel() leave the context of an engine alone.
THEOREM DecodesUseLiveContextHolds == Spec => []DecodesUseLiveContext
<1>1. IInv => DecodesUseLiveContext
  <2> SUFFICES ASSUME IInv, NEW s \in Session, session[s].decoding # "none"
               PROVE  engineCtx[s] # 0 /\ engineCtx[s] = ctx_
    BY DEF DecodesUseLiveContext
  <2>1. SessionsOK /\ CacheP!IInv /\ Linked(s)
    BY DEF IInv
  <2>2. session[s].life = "ready" /\ configs[s] > 0 /\ engineCtx[s] = ctx_
    BY <2>1 DEF Linked, DecodeHasNeeds, EngineIsCurrent
  <2>3. configs[s] \in 1..MaxConfigs /\ configs[s] <= configs[s]
    BY <2>1, <2>2, PoolAssumption DEF PoolAssumption, SessionsOK
  <2>4. <<s, configs[s]>> \in Reference /\ held[<<s, configs[s]>>] # 0
    BY <2>1, <2>2, <2>3, ReferenceExists DEF Linked, HoldsReferences
  <2>5. ctx_ # 0
    BY <2>1, <2>4 DEF CacheP!IInv, CacheP!HeldContextIsLive, CacheP!Holders
  <2> QED
    BY <2>2, <2>5
<1> QED
  BY <1>1, Invariance, PTL

\* max_concurrent_inference bounds the decodes of the flush threads: each has
\* a slot, and only they have.  What is not bounded by it is handleEnd().
THEOREM SlotsBoundFlushDecodesHolds == Spec => []SlotsBoundFlushDecodes
<1>1. IInv => SlotsBoundFlushDecodes
  <2> SUFFICES ASSUME IInv PROVE SlotsBoundFlushDecodes
    OBVIOUS
  <2>1. In("flush") = LimiterP!In("holding")
    BY DEF IInv, Linked, DecodeHasNeeds, In, LimiterP!In, LimiterP!Where
  <2>2. active_count_ = Cardinality(In("flush"))
    BY <2>1 DEF IInv, LimiterP!IInv, LimiterP!SlotAccounting, LimiterP!Cardinality, Cardinality
  <2>3. IsFiniteSet(In("flush")) /\ IsFiniteSet(In("end"))
    BY PoolAssumption, FS_Subset DEF PoolAssumption, In
  <2>4. In("flush") \cap In("end") = {}
    BY DEF In
  <2>5. Cardinality(In("flush")) \in Nat /\ Cardinality(In("end")) \in Nat
    BY <2>3, FS_CardinalityType
  <2>6. Cardinality(In("flush") \cup In("end")) = Cardinality(In("flush")) + Cardinality(In("end"))
    <3>1. Cardinality(In("flush") \cup In("end"))
            = Cardinality(In("flush")) + Cardinality(In("end"))
              - Cardinality(In("flush") \cap In("end"))
      BY <2>3, FS_Union
    <3>2. Cardinality(In("flush") \cap In("end")) = 0
      BY <2>4, FS_EmptySet
    <3> QED
      BY <2>5, <3>1, <3>2
  <2>7. active_count_ <= max_concurrent_ /\ max_concurrent_ \in Nat
    BY DEF IInv, LimiterP!IInv, LimiterP!TypeOK
  <2> QED
    BY <2>2, <2>5, <2>6, <2>7 DEF SlotsBoundFlushDecodes
<1> QED
  BY <1>1, Invariance, PTL

-----------------------------------------------------------------------------
(* The composition does what its parts promise, and asks of each session   *)
(* no more than a session does.                                            *)

\* In the pool the cache is still one shared context: ModelCache.h keeps its
\* promise to any number of sessions that acquire, release and decode.
THEOREM PoolSharesTheContext == Spec => CacheP!ImplementsSharedContext
<1>1. Init => CacheP!Shared!Init
  BY DEF Init, Cache!Init, CacheP!Shared!Init
<1>2. IInv /\ [Next]_vars => [CacheP!Shared!Next]_<<ctx_, held>>
  <2>1. ASSUME IInv, Next PROVE [CacheP!Next]_cacheVars
    BY <2>1, CacheStep DEF IInv
  <2>2. ASSUME UNCHANGED vars PROVE UNCHANGED cacheVars
    BY <2>2 DEF vars
  <2>3. ASSUME IInv, [CacheP!Next]_cacheVars PROVE [CacheP!Shared!Next]_<<ctx_, held>>
    BY <2>3, CacheP!StepSimulation, PartsAssumptions DEF IInv, CacheP!vars, cacheVars
  <2> QED
    BY <2>1, <2>2, <2>3
<1> QED
  BY <1>1, <1>2, Invariance, PTL DEF Spec, CacheP!ImplementsSharedContext, CacheP!Shared!Spec

\* In the pool the limiter is still a pool of slots: InferenceLimiter.h never
\* gives more than max_concurrent_inference of them, whoever decodes.
THEOREM PoolSharesTheSlots == Spec => LimiterP!ImplementsSlotPool
<1> DEFINE Holders == LimiterP!In("holding")
<1>1. Init => LimiterP!Pool!Init
  <2>1. Init => Holders = {}
    BY DEF Init, Limiter!Init, LimiterP!In, LimiterP!Where
  <2> QED
    BY <2>1 DEF Init, Limiter!Init, LimiterP!Pool!Init
<1>2. IInv /\ [Next]_vars => [LimiterP!Pool!Next]_<<Holders, max_concurrent_>>
  <2>1. ASSUME Next PROVE [LimiterP!Next]_limiterVars
    BY <2>1, LimiterStep
  <2>2. ASSUME UNCHANGED vars PROVE UNCHANGED limiterVars
    BY <2>2 DEF vars
  <2>3. ASSUME IInv, [LimiterP!Next]_limiterVars
        PROVE  [LimiterP!Pool!Next]_<<LimiterP!In("holding"), max_concurrent_>>
    BY <2>3, LimiterP!StepSimulation, PartsAssumptions DEF IInv, LimiterP!vars, limiterVars
  <2> QED
    BY <2>1, <2>2, <2>3
<1> QED
  BY <1>1, <1>2, Invariance, PTL DEF Spec, LimiterP!ImplementsSlotPool, LimiterP!Pool!Spec

\* One session of the pool, as SessionOutline has it.
Outline(s) == INSTANCE SessionOutline WITH session <- session[s]

\* A step of one session leaves the others where they are.
LEMMA OnlyOneMoves ==
  ASSUME NEW s \in Session, NEW u \in Session, NEW value, Becomes(u, value), SessionsOK
  PROVE  session'[s] = IF s = u THEN value ELSE session[s]
BY DEF Becomes, SessionsOK

\* A step of the pool is one of a session, or leaves the session alone.
LEMMA OutlineStep ==
  ASSUME SessionsOK, NEW s \in Session, Next
  PROVE  Outline(s)!Next \/ session'[s] = session[s]
<1>1. ASSUME NEW u \in Session, SessionStep(u)
      PROVE  Outline(s)!Next \/ session'[s] = session[s]
  <2>1. CASE Acquire(u)
    BY <2>1, OnlyOneMoves DEF Acquire, CanAcquire, Acquired, Outline!Acquire,
       Outline!CanAcquire, Outline!Acquired, Outline!Next
  <2>2. CASE AcquireFails(u)
    BY <2>2 DEF AcquireFails, sessionVars
  <2>3. CASE Build(u)
    BY <2>3, OnlyOneMoves DEF Build, CanBuild, Built, Outline!Build,
       Outline!CanBuild, Outline!Built, Outline!Next
  <2>4. CASE StartFlush(u) \/ StartEnd(u)
    BY <2>4, OnlyOneMoves DEF StartFlush, StartEnd, CanDecode, Decoding,
       Outline!StartDecode, Outline!CanDecode, Outline!Decoding, Outline!Next
  <2>5. CASE StopFlush(u) \/ StopEnd(u)
    BY <2>5, OnlyOneMoves DEF StopFlush, StopEnd, Decoding,
       Outline!StopDecode, Outline!Decoding, Outline!Next
  <2>6. CASE Release(u)
    BY <2>6, OnlyOneMoves DEF Release, CanRelease, Released, Outline!Release,
       Outline!CanRelease, Outline!Released, Outline!Next
  <2> QED
    BY <1>1, <2>1, <2>2, <2>3, <2>4, <2>5, <2>6 DEF SessionStep
<1>2. CASE \E ttl \in Ttls, n \in Limits : Configure(ttl, n)
  BY <1>2 DEF Configure, sessionVars
<1>3. CASE CacheAlone
  BY <1>3 DEF CacheAlone, sessionVars
<1> QED
  BY <1>1, <1>2, <1>3 DEF Next

\* Every session of the pool is a SessionOutline: what StreamingSession was
\* shown to implement is what the pool is composed of.
THEOREM PoolIsOfOutlines ==
  ASSUME NEW s \in Session
  PROVE  Spec => Outline(s)!Spec
<1>1. Init => Outline(s)!Init
  BY DEF Init, Outline!Init, Fresh, Outline!Fresh
<1>2. IInv /\ [Next]_vars => [Outline(s)!Next]_(session[s])
  <2>1. ASSUME UNCHANGED vars PROVE session'[s] = session[s]
    BY <2>1 DEF vars, sessionVars
  <2> QED
    BY <2>1, OutlineStep DEF IInv
<1> QED
  BY <1>1, <1>2, Invariance, PTL DEF Spec, Outline!Spec
=============================================================================
