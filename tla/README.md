# A verification project for Transcription_API

The repository is a real-time transcription service in C++17: clients stream PCM audio over
WebSocket and get partial and final transcriptions made by whisper.cpp. This directory holds TLA+
modules that model its own logic, the TLC configurations that check them on small instances, and
TLAPS proofs of the main invariants for every value of the constants. `PROJECT.json` is the index:
components, runs, mutants, the source lines of every definition, findings, hazards, theorems.

    tlc -workers 2 -config StreamingSession.cfg MCStreamingSession.tla
    tlapm StreamingSession_proofs.tla

## The system and its parts

| Component | Source (below `src/src/`) | State | Operations |
|---|---|---|---|
| InferenceLimiter | `whisper/InferenceLimiter.h` | `active_count_`, `max_concurrent_`, waiters of `cv_` | `acquire`, `try_acquire`, `release`, `setMaxConcurrency`, `hasCapacity` |
| ModelCache | `whisper/ModelCache.h` | `ctx_`, `loaded_path_`, `ref_count_`, `ttl_seconds_`, `unload_pending_`, detached timer threads | `acquire`, `release`, `forceUnload`, `configure`, expiry of a timer |
| StreamingWhisperEngine | `whisper/StreamingWhisperEngine.cpp` | `audio_buffer_`, a `whisper_state`, decoder parameters | `processAudioChunk`, `transcribeSlidingWindow(force)`, `transcribe`, `reset`, setters |
| StreamingSession | `server/StreamingSession.h` | engine, transcriptions, flags, two mutexes, the socket, the flush thread | `run` and its handlers, `flushLoop`, the destructor |
| Server lifecycle | `server.cpp`, `server/ConnectionLimiter.cpp`, `ConnectionGuard.cpp`, `SessionTracker.h` | acceptor, session threads, io_context and its thread, caps, tracked sessions, watchdog | accept, admit, spawn, signal handler, join, exit |
| Authentication | `server/AuthManager.cpp`, `auth/` | static token, TTL cache of verdicts | `validate`, cache `get`/`put`, API request |
| HallucinationGuard | `utils/HallucinationGuard.h` | none | `isHallucination` |
| AudioPreprocessor | `utils/AudioPreprocessor.h` | two filter samples | `process` |
| Configuration | `server.cpp` 36-259, `ServerConfig.h` | environment, `ServerConfig` | `loadDotEnv`, `extractEnvFile`, `configFromEnv`, `parseArgs` |
| Log | `log/Log.h` | - | output |

How they interact. `main()` sets the cache's TTL and the limiter's bound, then accepts connections;
an admitted one gets a thread that runs `handleSession`, which answers an HTTP request or creates a
`StreamingSession` and calls `run()`. The session starts a second thread, `flushLoop`. A `config`
message takes a reference in ModelCache and creates an engine; audio goes into the engine's buffer;
`flushLoop` wakes every 200 ms, tries `state_mutex_`, asks the limiter for a slot, decodes and sends
a partial transcription; `end` decodes what is left, sends the final one and closes. A signal is
handled on the io_context's thread, which closes the acceptor and asks SessionTracker to shut every
session down. A second thread of the process, the watchdog, bounds the shutdown.

What is hard here, and what correctness means for each part:

- **Limiter**: a condition variable with barging (`try_acquire` may take what a woken waiter was woken
  for) and spurious wake-ups; no slot may leak and no free slot stay unclaimed with a waiter asleep.
- **Cache**: every last release starts a detached timer that cannot be cancelled, only disarmed by a
  flag all timers share; no session may hold a freed context, no idle model may stay for ever.
- **Engine**: two caps, an overlap, forced commits and whisper's segment ends, which may lie beyond
  the audio; no audio may be transcribed twice or dropped by a commit that does not cover it.
- **Session**: two threads, two mutexes, unlocked reads, a send outside the lock, exceptions, a peer
  that can vanish at any point; unsigned arithmetic on sizes that several paths change.
- **Authentication**: a cache that is filled after a query made without a lock, so that answers come in
  any order; a failure must neither let anybody in nor be remembered.
- **Sessions together**: one model and a few slots for all of them; a session's release, failed load or
  timer must not take the model from under another one's decode.
- **Configuration**: four sources of a setting, of which each hides the ones below it.
- **HallucinationGuard**: one pass over the words that must find what a reader of its header expects.
- **Server**: threads whose lifetimes cross in the shutdown, caps to be restored on every way a
  connection can end, a handler on another thread.

## Modules

| Module | What it is |
|---|---|
| `SlotPool` | abstract: a pool of slots, taken and given |
| `InferenceLimiter` | the limiter; refines `SlotPool` (`ImplementsSlotPool`) |
| `SharedContext` | abstract: a context that is loaded, shared and dropped only when nobody uses it |
| `ModelCache` | the cache with its timers; refines `SharedContext` (`ImplementsSharedContext`) |
| `SlidingWindow` | operators: the arithmetic of the buffer and of the commit choice |
| `StreamingWhisperEngine` | the engine over positions in the audio stream |
| `SessionSteps`, `SessionOutline` | abstract: a session as the rest of the server sees it, its steps and its specification |
| `StreamingSession` | one session, both threads; uses `SlidingWindow` for its engine; refines `SessionOutline` (`ImplementsOutline`) |
| `SessionPool` | sessions (outlines) that share a `ModelCache` and an `InferenceLimiter`, both instanced |
| `ConnectionLimiter` | the caps, as steps to be composed |
| `Server` | `main()`, connections, handler, watchdog; composes `ConnectionLimiter` and the tracker |
| `AuthManager` | authentication: callers, the cache with its clock, the API |
| `Configuration` | operators: what `main()` makes of environment, `.env` file and command line |
| `HallucinationGuard` | operators: the scan for loops, and what it is said to find |
| `MC...` | the instances TLC checks |
| `..._proofs` | the theorems; those about the guard are in `StreamingSession_proofs`, those about `Configuration` in `AuthManager_proofs` |
| `DataInduction` | induction over the naturals and functions defined by recursion: lemmas that know no component |

### How the models correspond to the code

*InferenceLimiter.* Each method holds `mutex_` from start to end, so it is one step; `acquire` sleeps in
`cv_.wait`, so it is `Acquire`, then `WakeUp` or `SpuriousWakeUp`, each of which evaluates the
predicate again. `caller[t]` is where thread `t` is: idle, waiting, notified, holding.

*ModelCache.* A method is one step. `held[c]` is the context a session got from `acquire` (0: none);
contexts are numbered as they are loaded, so a freed one is never mistaken for a new one. `timer[t]`
is the time a detached thread has left. Time moves by `Tick`. A session uses the one `model_path` of
the server (`SameModel`): a request for another path while the model is held does not occur in this
program. `release()` for a session without a reference does not occur either: `releaseModel()` asks
`model_acquired_` first.

*SlidingWindow, StreamingWhisperEngine.* Of the audio only positions count: `fed` samples were accepted,
the buffer holds the last `size` of them. Whisper is external: a decode returns any list of segment
ends from `Ends`, in order, not at tick 0, perhaps beyond the audio. The segments committed are
1..k, with k determined by `CommitsUpTo`. A window whose decode fails changes nothing.

*StreamingSession.* `rpc` is where the receive thread is, `fpc` where the flush thread is. A step runs
from one point where a thread can be held up (a mutex, a decode, the socket, a sleep) to the next. The
transcriptions are sequences of commits, numbered, each with the verdict of the hallucination filter.
Frames that are ignored (too small, not aligned) change nothing and are stutters; all messages that
only get an error back are `ReadInvalid`. The authentication's verdict (see `AuthManager`), the hallucination filter's (see
`HallucinationGuard`), the rate limit, whether the
model loads and whether a slot is free are nondeterministic. `handleEnd()` builds its frame after it
has released the mutex: `Compose` may read a text that is being changed (`Torn`). A frame carries whether
its text is valid UTF-8: `msg.dump()` throws if it is not, which `sendMessage()` only logs, so the frame is lost
though the connection is up (`ReceiverDrops`, `FlushDrops`). That may befall what whisper says and the bytes of an
invalid message an error quotes, not the fixed texts. `quiet` stands for
"more than 400 ms since `last_audio_time_`". `episode`, `since` and `client` are history variables: the drops and
warnings of the current saturation, the commits made before the last config, and the last transcription the
client has.

*SessionSteps, SessionOutline, SessionPool.* Of a session the others see the model references it has, whether
it has an engine or is over, and what it decodes. `SessionSteps` has one operator per step on such a
value, so that `SessionOutline` (one session) and `SessionPool` (a function of them) share it, and
`StreamingSession` is shown to keep to it (`Seen` is the refinement mapping). In `SessionPool` a step of a
session is at once a step of the cache (`acquire`, `release`) or of the limiter (`try_acquire`,
`release`): each of those methods runs under one lock. `acquire()` is a step apart from the one that
builds the engine, since `handleConfig()` takes `state_mutex_` only afterwards. References are told apart by
session and config message. `engineCtx` is the context the engine was made with.

*AuthManager.* `caller[s]` is where the receive thread of session `s` is: before the cache, waiting for the
API, with its answer. `entries_` holds the verdict and the seconds it has left; a TTL of 0 or less is stored as it
is, an entry that has expired at once. The API has an `opinion` of
each token, which it may change at any time; what it answers is that opinion or one of the failures
`ApiAuthClient` tells apart. Two history variables: `vouched`, the tokens the API has said yes to, and `calm`,
the time since it changed its mind or an outdated answer arrived. With both an API and a static token the
static one decides, as in the code. The configuration comes from
`Configuration`, which knows a setting by one name for variable, option and field.

*HallucinationGuard.* A text is the sequence of its words, and a length the words do not determine. The loop over
the words is the recursive function `Scanned`, as the loops over lines and tokens in `Configuration` are `Loaded`
and `Parsed`: the proofs go by induction over their arguments.

*Server.* `conn[c]` follows a connection from the backlog to the end of its thread; a session is two
states of it: it runs, or is being destroyed. `SessionTracker::shutdownAll()` holds the tracker's mutex while it calls
one session after the other (`calls`), so that a session that wants to add or remove itself waits (`TrackerFree`).
Nothing forces a client to finish: reads are synchronous, `shutdown()` cancels only
asynchronous operations. Two facts about the platform are assumed: `close()` on the listening
socket does not wake an `accept()` that already waits in the kernel, and a signal taken by that thread
does (the comment at `server.cpp:465` relies on it).

## Runs

Passing runs. The seven of them check every invariant, action property, refinement and liveness
property; each property has a mutant of the code's model that breaks it (`mutants`).

| Run | Instance | Properties beyond types |
|---|---|---|
| `limiter` | 4 threads, limits -1..3, 445 states | slots are exactly accounted for; no wake-up is lost; a waiter gets a free slot; refinement |
| `cache` | 3 sessions, 2 paths, 3 timers, TTL -1, 0 or 2, up to 4 loads, 16 245 states | a held context is live; the count is exact; an idle model has a timer and goes; refinement |
| `engine` | the code's own constants, chunks of 2, 10, 16.4 and 31 s, up to 620 000 samples, two segments, about 230 000 states | the buffer is capped; nothing is committed twice or skipped; a full window moves on |
| `session` | sizes scaled to 1..4, 3 chunks, 2 commits, 1 config, 142 122 states | decodes are safe; no unsigned wrap; one warning per saturation; the model is given back; final and partial texts; clean-up, answer to `end`, all audio decoded; refinement to the outline |
| `pool` | 3 sessions of up to 2 configs, limit 1 or 2, TTL -1, 0 or 1, 2 timers, 3 loads, 15 340 states | no decode over a freed context; slots bound the flush decodes; the model goes after the sessions |
| `auth` | 2 sessions, 2 tokens, 11 configurations, TTL -1, 1 or 2, 1 314 098 states | nobody is accepted without the server's token or a yes of the API; a cached verdict is the API's opinion, a TTL of change aside |
| `server` | 4 connections, 3 addresses, caps 2 and 1, 70 560 states | caps and counts; `shutdownAll()` calls no destroyed session; clean exit; bounded shutdown |

Why the bounds are enough. `limiter`: a lost wake-up needs one releaser, two waiters and one thread that
barges. `cache`: an early unload needs a timer that outlives its release and one more release;
three timers and four loads give each of them a stale twin. `engine`: the chunks make every branch of
both caps happen (below, at and above 20 s, above 30 s with and without a chunk larger than the
buffer), the segment ends 100, 799, 800 and 3000 lie before, just before, at and far beyond the
stability bound of a ten-second window. `session`: `MinBuffer`, `MaxWindow`, `HighWater` and `MaxBuffer`
keep their order and their distances matter only by comparison with `MinNew`, 2; chunks of 1 and 3
fall short of and exceed it. Three chunks saturate the buffer with room for a commit in between;
`MaxCommits = 2` gives a commit before and after the final one. One config is the only bound that the proofs of most
properties do without: with two, TLC takes 416 291 states and finds `ModelIsGivenBack` and `PartialsAccumulate`
violated, the others not. `server`: one cap bites for the
second connection of an address, the other for the third address. `pool`: one session decodes while
a second one comes or goes and a third holds a slot; two timers let one of an earlier release wake up
under a later one. `auth`: two threads are enough for two queries about one token whose answers
overtake each other; a TTL of two seconds has a moment before, at and after its end.
`MaxConfigs`, `MaxChunks`, `MaxCommits`, `MaxFed`, `MaxLoads`, `MaxIdle` and `MaxCalm` are the bounds; each stands
in a guard and is commented where it is declared. Chunks that are dropped at the high-water mark are not
counted, so saturation can last for ever.

Two functions without state of their own are compared with what is documented by an assumption that TLC
evaluates before the run (and by a theorem, see below): `PrecedenceIsAsDocumented` (run `auth`) on every `.env` file of up to two lines and every
command line of up to two options over three texts, with all environments of two variables; the last argument
overrides the variable and the variable the file, and a text that is no number ends `main()`.
`GuardIsAsDocumented` (run `session`) on all texts of up to eight words out of two, at and above 500
characters: eight words have room for every pattern of four that the header names.

Violation runs, one property each, for disagreements between the code and what is said of it:

| Run | The code | What is said |
|---|---|---|
| `cache_ttl` | a timer of an earlier release unloads soon after a later one, as `unload_pending_` is shared | `ModelCache.h:90`, 31: the model stays for the TTL after the last release |
| `session_final` | a partial transcription can follow the final one | `API_GUIDE.md:159` |
| `session_crash` | a decode that throws in `flushLoop` ends the process | `API_GUIDE.md:199`: `AUDIO_ERROR` |
| `session_reconfig` | two configs take two references, one is given back | `ModelCache.h:15` |
| `server_signal` | `ioc.run()` can return before `async_wait()` is called; the handler then never runs | `server.cpp:447` |

Seen on the way, without a run of their own:

- `transcribeSlidingWindow(true)` leaves the buffer alone when there is no segment
  (`StreamingWhisperEngine.h:50` says it is emptied); a window of one unstable segment is not shortened at
  ten seconds (`StreamingWhisperEngine.cpp:156`).
- The receive loop waits for `state_mutex_` during a decode (`StreamingSession.h:207`). A dropped chunk still
  sets `last_audio_time_` (`StreamingSession.h:192`), so a saturated buffer with under 250 ms of new audio is
  not drained while the client sends (`API_GUIDE.md:177`): `AudioIsDecoded` excepts it.
- `msg.dump()` throws on a text that is not valid UTF-8, such as a character that whisper cut in two, and
  `sendMessage()` only logs it (`StreamingSession.h:155`): `end` is then answered by a normal close without the final
  transcription that `API_GUIDE.md:111` promises. `EndIsAnswered` excepts that text (`FinalIsUnsendable`).
- With two configs the second may overtake the flush thread between its decode and its send: a partial
  transcription of the old configuration follows `ready` and is taken back by the next (`API_GUIDE.md:158`).
- An interrupted `accept()` ends the loop before `shutdownAll()` has run (`server.cpp:467` against the comment at 506).
- `handleEnd()` decodes without a slot, so that "Max simultaneous Whisper decodes" (`README.md:119`) counts the
  flush threads' only: `SlotsBoundFlushDecodes` says by how much it is exceeded.
- A static token disables the API that `README.md:109` and `ServerConfig.h:16` say takes precedence. The model does
  as the code does; `AcceptedIsAuthorised` says that the one or the other decides, not which.
- `remote_endpoint()` at `server.cpp:472` may throw out of `main()` with threads unjoined (502).
- `main()` logs "Auth: disabled" when there is a static token (`server.cpp:380-390`).
- `--auth-api-timeout` (`README.md:112`) has no effect: `expires_after()` does not apply to synchronous operations.
- A URL with a port, as in `README.md:70` and `ApiAuthConfig.h:5`, is resolved with the port in the host name,
  which fails: every token is rejected. Late answers of the API may overwrite newer ones in the cache.
- A positional model path is only taken while the model is `ggml-base.bin` (`server.cpp:249`), and the default is
  `ggml-small.bin`. `--port 65537` is port 1. A variable that is set but empty hides its `.env` line.

`StreamingSession`, `Server` and the other modules have explicit stuttering at their ends (`Finished`,
`Exited`), so that deadlock is checked; the engine is a passive object that stops at `MaxFed`, and its
configuration switches the deadlock check off.

## Fairness

- Limiter: a notified thread runs (`WF` on `WakeUp`). Nothing makes a holder release.
- Cache: time passes and expired timers run (`WF` on `Tick`, `TimerExpires`). No session need come or go.
- Session: both threads run; decodes and writes end. `SF` for the receive thread's steps after a message
  is read and for the flush thread: the mutex they contend for is free again and again, during
  the flush thread's 200 ms sleeps, and the flush thread gets it only by `try_lock`, so weak fairness
  would not be enough; that a decode slot is obtained in the end is an assumption about the other
  sessions. `WF` for leaving the read loop on a connection that is down, and for 400 ms going by unless
  audio comes. The client need not send, read or close.
- Pool: as for the cache; no session gets a slot by right, and none has to come or go.
- Authentication: none. Sessions, the API and the clock may stop at any point.
- Server: main, the io_context's thread with its handler, sessions that are being destroyed, connection threads
  that are done and the watchdog's clock proceed.
  Clients are not fair, and no signal need come.

## Proofs

`Invariance` in each proof module is the inductive invariant; the others follow from it.

- `InferenceLimiter_proofs`: `IInv` is the types, `SlotAccounting` and `NoLostWakeup`. The last is the point:
  it counts notified threads against free slots, so that each release that wakes one waiter keeps it.
  `Refinement`: every step is a step of `SlotPool` or a stutter.
- `ModelCache_proofs`: exactness of the count and liveness of the held context are inductive together;
  a timer only unloads at count 0, hence for nobody. `Refinement` to `SharedContext`.
- `StreamingWhisperEngine_proofs`: the text's reach is at most the buffer's base; lemmas on the operators of
  `SlidingWindow` say that what a chunk or a commit leaves is within the buffer.
  `WindowFitsEncoderHolds` assumes `MaxBuffer <= 3000 * Rate` (30 s), as the code has it; as it follows from the types,
  which the run checks, no run checks it.
- `StreamingSession_proofs`: besides the types, `Locks` (who decodes holds the mutex, and conversely), `Models`
  (engine, noted reference, reference held), `Sizes` and `Episodes`. `Sizes` needs `Ended`: after the
  forced commit `last_transcribed_size_` exceeds the empty buffer, which is harmless only as no
  audio is added any more. `ModelIsGivenBackHolds` assumes `MaxConfigs = 1`; `session_reconfig` shows
  that it has to.
  `FinalTextIsCompleteHolds` is about the text `handleEnd()` computes under the mutex. It rests on `HeardText`: until
  the last decode that text is the text heard, commit for commit without those the guard rejects
  (`HeardAppend`, by induction over the text). `FinalFrameIsCompleteHolds` is about the message built after the mutex
  has been let go, when a flush decode may have committed once more. It rests on `Complete`: the transcription has the
  commits of the configuration in force, in order, except those the guard rejected, and the raw text (`RawInOrder`)
  is in order too; every commit keeps this (`CommitCompletes`). Only a text read during that decode is excepted,
  which is a data race.
  `PartialsAccumulateHolds` rests on `Shown`, what the client has is a prefix of the transcription and of the text
  the flush thread is about to write, and on `Unconfigured`, nothing is shown before there is an engine. It assumes
  `MaxConfigs = 1`, and has to: see what two configs do, above. Only these two theorems need it.
  `Refinement` to `SessionOutline` needs one fact more, `Noted`: a session that is not over remembers whether it
  has a reference.
- `SessionPool_proofs` composes: it instances `ModelCache_proofs` and `InferenceLimiter_proofs`, shows that every step
  of the pool is a step of each or leaves it alone (`CacheStep`, `LimiterStep`), and takes their invariants
  as proved. What is added is `Linked`: a session that is not over holds each reference it took, its engine was
  made from the loaded context, and it decodes in a flush exactly while it has a slot. A held reference pins
  the context (`HeldPinsContext`), hence `DecodesUseLiveContextHolds` for any number of sessions.
  What the parts promise by themselves they promise in the pool: `PoolSharesTheContext` and `PoolSharesTheSlots` are
  their refinements, lifted along those steps, and `PoolIsOfOutlines` says that each session of the pool is
  a `SessionOutline`. With `StreamingSession`'s refinement this closes the chain: the code's session implements the
  outline, and the pool is made of outlines.
- `AuthManager_proofs`: `EntryOK` is the point: while an entry is neither expired nor the API's opinion, the seconds it
  has left and those of `calm` make at most a TTL. `CallerOK` carries a yes of the API from the
  answer on its way to the verdict.
- `Server_proofs`: the counts as cardinalities of sets of connections; `OneAdmitted` makes the connection between
  `tryAcquire` and its thread unique, `Ending` keeps threads from appearing after the join. `Tracking` says that a
  session in the tracker is there and that what `shutdownAll()` has yet to call is in the tracker, which the
  mutex keeps true: hence `CallsReachLiveSessionsHolds`.
- `DataInduction`: a set of naturals has a least element, since strict inclusion between the intervals `0..x` is
  well-founded; from that, induction up to `n` (`Induction`) and the existence of functions defined by recursion
  (`Recursion`), both stated for a set or a function at hand, never for an operator. `HeardUpToRecurs`,
  `ScannedRecurs`, `LoadedRecurs` and `ParsedRecurs` say that the model's recursive functions obey their definitions.
- The hallucination guard: `Knows` is what the loop has found after `i` words (the last word, the streak it ends,
  the bigrams, whether there was a loop), kept word by word (`KnowsStep`). `GuardIsAsDocumented`: it finds the loops
  the header describes and no others, in texts of every length.
- Configuration: `LoadedUpTo` is what a variable has after `i` lines, `ParsedUpTo` what a setting has after `k` options.
  `PrecedenceHolds` covers every environment, file and list of options with values. It excludes values that are
  `--env-file` itself: `extractEnvFile()` looks at all tokens, so such a value names another file (`server.cpp:179`).
  Options without a value and a model given by itself are evaluated in the run's configurations only.

Assumptions are those named in the modules (`WindowAssumption`, `SessionAssumption`, ...), which TLC evaluates.
Only model-checked: the liveness properties (`FreeSlotIsTaken`, `IdleModelGoes`, `ModelGoesAfterSessions`,
`SessionEnds`, `EndIsAnswered`, `AudioIsDecoded`, `ShutdownIsBounded`): they need fairness, hence `ENABLED`, which
the prover does not reason about. Every other property of the passing runs is a theorem.

## Not modelled

- The arithmetic of the rate window (`StreamingSession.h:278`): a rejection may come with any frame.
- AudioPreprocessor (floating point, keeps the number of samples), log output, the text of the HTTP
  answers, JSON, TLS and the syntax of a `.env` line: no state that a property would be about.
- whisper.cpp, Boost, the authentication API and the clients: external; modelled only by what they may
  return or do.
- Static destruction (the destructors of the singletons), and writes that block for ever: a write is assumed to end,
  be it with an error.
- `getMetrics()` of the limiter and the cache, which change nothing.
- `StreamingWhisperEngine`'s setters, language lock and sample conversions: parameters of an external decode.
- The Python client and the tests were read as documentation of the protocol.

## Plan

Done: limiter, cache, engine, session and server; the session's outline and the pool of sessions over
cache and limiter; authentication, configuration and the hallucination guard. All their safety and action
properties and their refinements are proved, and what the two pure functions compute.

Left: the rate window with its clock, if a promise about it is ever stated; the server's sessions as outlines,
so that the shutdown and the model's release meet in one model; options without a value in `PrecedenceHolds`.
