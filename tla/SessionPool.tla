---------------------------- MODULE SessionPool ----------------------------
(***************************************************************************)
(* The sessions of a server around the two things they share: the model    *)
(* (src/whisper/ModelCache.h, module ModelCache) and the decode slots      *)
(* (src/whisper/InferenceLimiter.h, module InferenceLimiter).  A session   *)
(* is its outline, which StreamingSession implements.                      *)
(*                                                                         *)
(* flushLoop() decodes with a slot and handleEnd() without one; both       *)
(* decode with a whisper_state made from the context that acquire()        *)
(* returned, which another session, a timer thread or a release may free.  *)
(***************************************************************************)
EXTENDS SessionSteps, Integers, FiniteSets

CONSTANTS
  Session,      \* the sessions
  Model, NoPath,
  Ttls, DefaultTtl, Limits, DefaultLimit,
                \* what main() may be configured with, and the defaults
  Timer,        \* bound: the timer threads alive at once
  MaxConfigs,   \* bound: config messages of a session
  MaxLoads      \* bound: the loads of the model

ASSUME PoolAssumption ==
  /\ IsFiniteSet(Session)
  /\ NoPath # Model
  /\ Ttls \subseteq Int /\ DefaultTtl \in Int
  /\ Limits \subseteq Int /\ DefaultLimit \in Nat \ {0}
  /\ MaxConfigs \in Nat /\ MaxLoads \in Nat

VARIABLES
  session,      \* the outline of each session
  configs,      \* how often each one has acquired the model
  engineCtx,    \* the context its engine was made with, 0 for none
  ctx_, loaded_path_, ref_count_, ttl_seconds_, unload_pending_,
  timer, held, loads, idle,                     \* ModelCache
  active_count_, max_concurrent_, caller        \* InferenceLimiter

\* References are told apart by the session and the config message.
Reference == Session \X (1..MaxConfigs)

Cache == INSTANCE ModelCache WITH
  Client <- Reference, Path <- {Model}, MaxIdle <- 0

Limiter == INSTANCE InferenceLimiter WITH Thread <- Session

sessionVars == <<session, configs, engineCtx>>
cacheVars == <<ctx_, loaded_path_, ref_count_, ttl_seconds_, unload_pending_, timer, held, loads,
               idle>>
limiterVars == <<active_count_, max_concurrent_, caller>>
vars == <<sessionVars, cacheVars, limiterVars>>

Init ==
  /\ session = [s \in Session |-> Fresh]
  /\ configs = [s \in Session |-> 0]
  /\ engineCtx = [s \in Session |-> 0]
  /\ Cache!Init
  /\ Limiter!Init

-----------------------------------------------------------------------------

\* main(), before it accepts connections.
Configure(ttl, n) ==
  /\ \A s \in Session : session[s] = Fresh
  /\ Cache!Configure(ttl)
  /\ \/ Limiter!SetMaxConcurrency(n)
     \/ n <= 0 /\ UNCHANGED limiterVars
  /\ UNCHANGED sessionVars

Becomes(s, value) == session' = [session EXCEPT ![s] = value]

NextReference(s) == <<s, configs[s] + 1>>

\* handleConfig(): ModelCache::acquire() returns a context.
Acquire(s) ==
  /\ CanAcquire(session[s]) /\ configs[s] < MaxConfigs
  /\ \/ Cache!AcquireCached(NextReference(s), Model)
     \/ Cache!AcquireLoads(NextReference(s), Model)
  /\ Becomes(s, Acquired(session[s]))
  /\ configs' = [configs EXCEPT ![s] = @ + 1]
  /\ UNCHANGED <<engineCtx, limiterVars>>

\* handleConfig(): acquire() cannot load the model.
AcquireFails(s) ==
  /\ CanAcquire(session[s]) /\ configs[s] < MaxConfigs
  /\ Cache!AcquireFails(NextReference(s), Model)
  /\ UNCHANGED <<sessionVars, limiterVars>>

\* handleConfig(): a new engine, from the context that acquire() has returned.
Build(s) ==
  /\ CanBuild(session[s])
  /\ Becomes(s, Built(session[s]))
  /\ engineCtx' = [engineCtx EXCEPT ![s] = held[<<s, configs[s]>>]]
  /\ UNCHANGED <<configs, cacheVars, limiterVars>>

\* Mutated form of StartFlush: the slot is not asked for.
StartFlushAnyway(s) ==
  /\ CanDecode(session[s])
  /\ Becomes(s, Decoding(session[s], "flush"))
  /\ UNCHANGED <<configs, engineCtx, cacheVars, limiterVars>>

\* flushLoop(): try_acquire() finds a slot and the decode starts.
StartFlush(s) ==
  /\ CanDecode(session[s])
  /\ Limiter!TryAcquire(s)
  /\ Becomes(s, Decoding(session[s], "flush"))
  /\ UNCHANGED <<configs, engineCtx, cacheVars>>

\* flushLoop(): the decode is done and the slot given back.  A decode that
\* throws ends the process.
StopFlush(s) ==
  /\ session[s].decoding = "flush"
  /\ Limiter!Release(s)
  /\ Becomes(s, Decoding(session[s], "none"))
  /\ UNCHANGED <<configs, engineCtx, cacheVars>>

\* handleEnd(): the forced decode, for which no slot is taken.
StartEnd(s) ==
  /\ CanDecode(session[s])
  /\ Becomes(s, Decoding(session[s], "end"))
  /\ UNCHANGED <<configs, engineCtx, cacheVars, limiterVars>>

\* handleEnd(): the forced decode is done, or has thrown.
StopEnd(s) ==
  /\ session[s].decoding = "end"
  /\ Becomes(s, Decoding(session[s], "none"))
  /\ UNCHANGED <<configs, engineCtx, cacheVars, limiterVars>>

\* Mutated form of GivesBack: the reference is kept.
GivesBackNothing(s) == UNCHANGED cacheVars

\* ModelCache::release(), once, if the session has acquired the model.
GivesBack(s) ==
  IF session[s].refs = 0 THEN UNCHANGED cacheVars
  ELSE \/ Cache!ReleaseShared(<<s, configs[s]>>)
       \/ Cache!ReleaseLast(<<s, configs[s]>>)

\* releaseModel()
Release(s) ==
  /\ CanRelease(session[s])
  /\ GivesBack(s)
  /\ Becomes(s, Released(session[s]))
  /\ engineCtx' = [engineCtx EXCEPT ![s] = 0]
  /\ UNCHANGED <<configs, limiterVars>>

\* A timer thread of the cache wakes up, or a second passes.
CacheAlone ==
  /\ Cache!Tick \/ \E t \in Timer : Cache!TimerExpires(t)
  /\ UNCHANGED <<sessionVars, limiterVars>>

SessionStep(s) ==
  \/ Acquire(s) \/ AcquireFails(s) \/ Build(s)
  \/ StartFlush(s) \/ StopFlush(s) \/ StartEnd(s) \/ StopEnd(s)
  \/ Release(s)

Next ==
  \/ \E ttl \in Ttls, n \in Limits : Configure(ttl, n)
  \/ \E s \in Session : SessionStep(s)
  \/ CacheAlone

\* Time passes and timer threads that are awake run.  No client has to do
\* anything, and no session gets a slot by right.
Fairness ==
  /\ WF_vars(Cache!Tick /\ CacheAlone)
  /\ \A t \in Timer : WF_vars(Cache!TimerExpires(t) /\ CacheAlone)

Spec == Init /\ [][Next]_vars /\ Fairness

-----------------------------------------------------------------------------

SessionsOK ==
  /\ session \in [Session -> Outlines]
  /\ configs \in [Session -> 0..MaxConfigs]
  /\ engineCtx \in [Session -> Nat]

TypeOK == SessionsOK /\ Cache!TypeOK /\ Limiter!TypeOK

In(what) == {s \in Session : session[s].decoding = what}

\* No decode reads a freed model: while a session decodes, the context its
\* engine was made with is the one the cache has loaded, whatever the other
\* sessions acquire, fail to load or release, and whichever timer wakes up.
DecodesUseLiveContext ==
  \A s \in Session :
    session[s].decoding # "none" => engineCtx[s] # 0 /\ engineCtx[s] = ctx_

\* What max_concurrent_inference bounds: the decodes of flushLoop(), each of
\* which has a slot of its own.  The final decodes of handleEnd() come on top.
SlotsBoundFlushDecodes ==
  /\ Cardinality(In("flush")) = active_count_
  /\ Cardinality(In("flush") \cup In("end")) <= max_concurrent_ + Cardinality(In("end"))

\* No session that is still on has a reference to the model.
NobodyActive == \A s \in Session : session[s].life # "over" => session[s].refs = 0

\* ModelCache.h:15-16, "unloads automatically after the TTL expires with no
\* active sessions": with sessions that are configured once, the model goes
\* when the last of them has, unless it is kept forever or used again.
ModelGoesAfterSessions ==
  ((\A s \in Session : configs[s] <= 1) /\ NobodyActive /\ ttl_seconds_ >= 0)
    ~> (ctx_ = 0 \/ ~NobodyActive \/ \E s \in Session : configs[s] > 1)
=============================================================================
