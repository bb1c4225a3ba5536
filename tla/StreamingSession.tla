-------------------------- MODULE StreamingSession --------------------------
(***************************************************************************)
(* src/server/StreamingSession.h: one WebSocket session.  The receive      *)
(* thread runs run() and then the destructor; the flush thread runs        *)
(* flushLoop().  They share the engine, the transcriptions and the flags   *)
(* under state_mutex_, and the socket's sending side under write_mutex_.   *)
(*                                                                         *)
(* A step runs from one point where a thread can be held up (a mutex, a    *)
(* decode, a read or a write of the socket, a sleep) to the next.  What    *)
(* a thread does under state_mutex_ without decoding is one step.          *)
(*                                                                         *)
(* The transcriptions are sequences of commits: a commit has a number and  *)
(* tells whether isHallucination() lets it through.  Whisper, the client,  *)
(* the clock, the authentication verdict, the rate limit and the state of  *)
(* the other sessions (model loads, decode slots) are nondeterministic.    *)
(***************************************************************************)
EXTENDS SlidingWindow

CONSTANTS
  MinNew,      \* MIN_NEW_SAMPLES: 250 ms
  MinBuffer,   \* MIN_BUFFER_SAMPLES: 2 s
  Chunks,      \* sizes of the audio chunks
  Ends,        \* lists of segment ends that whisper returns
  MaxConfigs,  \* bound: config messages that reach the model cache
  MaxChunks,   \* bound: chunks that enter the buffer
  MaxCommits   \* bound: commits

ASSUME SessionAssumption ==
  /\ MinNew \in Nat \ {0} /\ MinBuffer \in Nat \ {0}
  /\ Chunks \subseteq Nat \ {0}
  /\ Ends \subseteq Seq(Nat \ {0}) /\ <<>> \in Ends
  /\ MaxConfigs \in Nat /\ MaxChunks \in Nat /\ MaxCommits \in Nat

VARIABLES
  rpc,                     \* where the receive thread is
  rmsg,                    \* the frame it is sending, and where it goes then
  chunk,                   \* the audio it has read
  fpc,                     \* where the flush thread is
  ftext,                   \* the text it is sending
  state_mutex_,            \* who holds the mutex, or Nobody
  write_mutex_,
  configured_, engine_,    \* engine_: there is one
  buffer,                  \* the engine's audio_buffer_.size()
  last_transcribed_size_,
  buffer_overflowed_,
  quiet,                   \* more than 400 ms since last_audio_time_
  model_acquired_,
  refs,                    \* references the session has in ModelCache
  full_transcription_, raw_transcription_,
  flush_running_,
  wsOpen,                  \* the WebSocket connection is up
  crashed,                 \* std::terminate() has been called
  client,                  \* the last transcription the client has received
  configs, chunks, commits,   \* counts, for the bounds
  since,                   \* history: commits before the configuration in force
  episode                  \* history: drops and warnings since the buffer was
                           \* last below the high-water mark

receiver == <<rpc, rmsg, chunk>>
flusher == <<fpc, ftext>>
audio == <<configured_, engine_, buffer, last_transcribed_size_, buffer_overflowed_, quiet,
           episode>>
model == <<model_acquired_, refs>>
text == <<full_transcription_, raw_transcription_>>
locks == <<state_mutex_, write_mutex_>>
world == <<flush_running_, wsOpen, crashed, client>>
counts == <<configs, chunks, commits, since>>
vars == <<receiver, flusher, locks, audio, model, text, world, counts>>

Nobody == "nobody"

\* A frame, and whether its text is valid UTF-8: msg.dump() throws if it is not.
Frame(kind, words, utf8, next) == [kind |-> kind, text |-> words, utf8 |-> utf8, next |-> next]
NoFrame == Frame("none", <<>>, TRUE, "read")
NoEpisode == [drops |-> FALSE, warnings |-> 0]
Commit(ok) == [n |-> commits + 1, ok |-> ok]

Init ==
  /\ rpc = "accept" /\ rmsg = NoFrame /\ chunk = 0
  /\ fpc = "off" /\ ftext = <<>>
  /\ state_mutex_ = Nobody /\ write_mutex_ = Nobody
  /\ configured_ = FALSE /\ engine_ = FALSE /\ buffer = 0
  /\ last_transcribed_size_ = 0 /\ buffer_overflowed_ = FALSE /\ quiet = FALSE
  /\ model_acquired_ = FALSE /\ refs = 0
  /\ full_transcription_ = <<>> /\ raw_transcription_ = <<>>
  /\ flush_running_ = FALSE
  /\ wsOpen = TRUE /\ crashed = FALSE
  /\ client = [text |-> <<>>, final |-> FALSE]
  /\ configs = 0 /\ chunks = 0 /\ commits = 0 /\ since = 0
  /\ episode = NoEpisode

-----------------------------------------------------------------------------
(* The receive thread: run(), its handlers, and the destructor. *)

\* ws_.accept() succeeds and the flush thread is started.
Accept ==
  /\ rpc = "accept"
  /\ rpc' = "read"
  /\ flush_running_' = TRUE /\ fpc' = "sleep"
  /\ UNCHANGED <<rmsg, chunk, ftext, locks, audio, model, text, wsOpen, crashed, client, counts>>

\* The handshake or a read fails (closed, timed out), or a handler lets an
\* exception through: run() leaves its loop.
LeaveLoop ==
  /\ rpc \in {"accept", "read"}
  /\ rpc' = "release"
  /\ UNCHANGED <<rmsg, chunk, flusher, locks, audio, model, text, world, counts>>

\* The receive thread goes to sendMessage() and from there to next.
Sends(kind, words, utf8, next) == rpc' = "send" /\ rmsg' = Frame(kind, words, utf8, next)

\* A message that only gets an error back: invalid or of unknown type, or
\* audio or an end before the configuration.  The error may quote bytes of it.
ReadInvalid ==
  /\ rpc = "read" /\ wsOpen
  /\ \E utf8 \in BOOLEAN : Sends("error", <<>>, utf8, "read")
  /\ UNCHANGED <<chunk, flusher, locks, audio, model, text, world, counts>>

\* A binary frame that is too large, or over the rate limit: ws_.close().
ReadRejected ==
  /\ rpc = "read" /\ wsOpen
  /\ wsOpen' = FALSE
  /\ UNCHANGED <<receiver, flusher, locks, audio, model, text, flush_running_, crashed, client,
                 counts>>

\* Audio that passes the guards of handleBinaryMessage().
ReadAudio(n) ==
  /\ rpc = "read" /\ wsOpen
  /\ configured_
  /\ chunks < MaxChunks \/ AtHighWater(buffer)
  /\ rpc' = "audio" /\ chunk' = n
  /\ UNCHANGED <<rmsg, flusher, locks, audio, model, text, world, counts>>

\* processAudioChunk() with room in the buffer.  A configured session has an
\* engine as long as it reads: the return without one is never taken.
AudioAppended ==
  /\ rpc = "audio" /\ state_mutex_ = Nobody
  /\ configured_ /\ engine_
  /\ ~AtHighWater(buffer)
  /\ buffer' = AfterChunk(buffer, chunk)
  /\ buffer_overflowed_' = FALSE /\ quiet' = FALSE
  /\ rpc' = "read" /\ chunk' = 0 /\ chunks' = chunks + 1
  /\ UNCHANGED <<rmsg, flusher, locks, configured_, engine_, last_transcribed_size_, episode, model,
                 text, world, configs, commits, since>>

\* Mutated form of ShouldWarn: each chunk that is dropped is warned of.
ShouldWarnAlways == TRUE

\* should_warn, for a chunk that is dropped.
ShouldWarn == ~buffer_overflowed_

\* processAudioChunk() at the high-water mark: the chunk is dropped, and the
\* client warned the first time.
AudioDropped ==
  /\ rpc = "audio" /\ state_mutex_ = Nobody
  /\ configured_ /\ engine_
  /\ AtHighWater(buffer)
  /\ buffer_overflowed_' = TRUE /\ quiet' = FALSE
  /\ chunk' = 0
  /\ IF ShouldWarn THEN Sends("warning", <<>>, TRUE, "read") ELSE rpc' = "read" /\ UNCHANGED rmsg
  /\ episode' = [drops |-> TRUE,
                 warnings |-> IF ShouldWarn THEN episode.warnings + 1 ELSE episode.warnings]
  /\ UNCHANGED <<flusher, locks, configured_, engine_, buffer, last_transcribed_size_, model, text,
                 world, counts>>

\* handleConfig() that the authentication rejects: an error, then ws_.close().
ConfigRejected ==
  /\ rpc = "read" /\ wsOpen
  /\ Sends("error", <<>>, TRUE, "close")
  /\ UNCHANGED <<chunk, flusher, locks, audio, model, text, world, counts>>

\* handleConfig() up to the model: ModelCache::acquire() returns a context.  If
\* it throws, or a field has a wrong type, the client gets an error: ReadInvalid.
ConfigAcquires ==
  /\ rpc = "read" /\ wsOpen
  /\ configs < MaxConfigs
  /\ configs' = configs + 1
  /\ refs' = refs + 1
  /\ rpc' = "engine"
  /\ UNCHANGED <<rmsg, chunk, flusher, locks, audio, model_acquired_, text, world, chunks, commits,
                 since>>

\* The session starts over: nothing is transcribed.
ConfigResets ==
  /\ configured_' = TRUE
  /\ last_transcribed_size_' = 0
  /\ full_transcription_' = <<>> /\ raw_transcription_' = <<>>
  /\ quiet' = FALSE

\* handleConfig() under state_mutex_, with a new engine.
ConfigSucceeds ==
  /\ rpc = "engine" /\ state_mutex_ = Nobody
  /\ model_acquired_' = TRUE
  /\ engine_' = TRUE /\ buffer' = 0
  /\ ConfigResets
  /\ episode' = NoEpisode /\ since' = commits
  /\ Sends("ready", <<>>, TRUE, "read")
  /\ UNCHANGED <<chunk, flusher, locks, buffer_overflowed_, refs, world, configs, chunks, commits>>

\* The engine's constructor throws (no whisper_state): the reference is noted,
\* the old engine, if any, stays.
ConfigFails ==
  /\ rpc = "engine" /\ state_mutex_ = Nobody
  /\ model_acquired_' = TRUE
  /\ Sends("error", <<>>, TRUE, "read")
  /\ UNCHANGED <<chunk, flusher, locks, audio, refs, text, world, counts>>

\* An end message for a configured session.
ReadEnd ==
  /\ rpc = "read" /\ wsOpen
  /\ configured_
  /\ rpc' = "end"
  /\ UNCHANGED <<rmsg, chunk, flusher, locks, audio, model, text, world, counts>>

\* handleEnd() gets state_mutex_ and starts the forced decode.
EndStarts ==
  /\ rpc = "end" /\ state_mutex_ = Nobody
  /\ rpc' = "decode" /\ state_mutex_' = "receiver"
  /\ UNCHANGED <<rmsg, chunk, flusher, write_mutex_, audio, model, text, world, counts>>

\* Mutated form of OrRaw: the raw text always.
OrRawAlways(words) == raw_transcription_

\* The raw text is the fallback for a transcription that was all filtered.
OrRaw(words) == IF words = <<>> THEN raw_transcription_ ELSE words

\* handleEnd(): the forced decode of what is in the buffer ends.  With an empty
\* buffer there is nothing to decode.
EndDecodes(ends) ==
  /\ rpc = "decode"
  /\ buffer = 0 => ends = <<>>
  /\ IF ends # <<>>
     THEN /\ full_transcription_' = Append(full_transcription_, Commit(TRUE))
          /\ commits' = commits + 1
     ELSE /\ full_transcription_' = OrRaw(full_transcription_)
          /\ UNCHANGED commits
  /\ buffer' = AfterForce(buffer, ends)
  /\ episode' = IF AtHighWater(buffer') THEN episode ELSE NoEpisode
  /\ state_mutex_' = Nobody
  /\ rpc' = "compose"
  /\ UNCHANGED <<rmsg, chunk, flusher, write_mutex_, configured_, engine_, last_transcribed_size_,
                 buffer_overflowed_, quiet, model, raw_transcription_, world, configs, chunks,
                 since>>

\* The forced decode throws, through handleEnd() to run(), which only logs it.
EndFails ==
  /\ rpc = "decode" /\ buffer > 0
  /\ state_mutex_' = Nobody
  /\ rpc' = "release"
  /\ UNCHANGED <<rmsg, chunk, flusher, write_mutex_, audio, model, text, world, counts>>

\* A text that a thread read while another one was changing it.
Torn == <<[n |-> 0, ok |-> TRUE]>>

\* What handleEnd() may read as full_transcription_ after it has let state_mutex_
\* go: a flush decode that is under way may be changing it meanwhile.
ReadUnlocked == {full_transcription_} \cup (IF fpc = "infer" THEN {Torn} ELSE {})

\* Mutated form of Compose: no final frame for an empty transcription.
ComposeUnlessEmpty ==
  /\ rpc = "compose"
  /\ IF full_transcription_ = <<>>
     THEN rpc' = "close" /\ UNCHANGED rmsg
     ELSE Sends("final", full_transcription_, TRUE, "close")
  /\ UNCHANGED <<chunk, flusher, locks, audio, model, text, world, counts>>

\* handleEnd() builds the final frame.  What whisper says need not be valid UTF-8.
Compose ==
  /\ rpc = "compose"
  /\ \E words \in ReadUnlocked, utf8 \in BOOLEAN :
       /\ words = <<>> => utf8
       /\ Sends("final", words, utf8, "close")
  /\ UNCHANGED <<chunk, flusher, locks, audio, model, text, world, counts>>

\* sendMessage(): write_mutex_, and ws_.write() begins.
ReceiverWrites ==
  /\ rpc = "send" /\ rmsg.utf8 /\ write_mutex_ = Nobody
  /\ rpc' = "write" /\ write_mutex_' = "receiver"
  /\ UNCHANGED <<rmsg, chunk, flusher, state_mutex_, audio, model, text, world, counts>>

\* sendMessage(): msg.dump() throws, which is only logged.
ReceiverDrops ==
  /\ rpc = "send" /\ ~rmsg.utf8
  /\ rpc' = rmsg.next /\ rmsg' = NoFrame
  /\ UNCHANGED <<chunk, flusher, locks, audio, model, text, world, counts>>

\* What the client makes of a frame: a transcription replaces the one before,
\* a ready starts over.  On a closed connection nothing arrives.
Receives(frame) ==
  client' = IF ~wsOpen THEN client
            ELSE CASE frame.kind = "partial" -> [text |-> frame.text, final |-> FALSE]
                   [] frame.kind = "final" -> [text |-> frame.text, final |-> TRUE]
                   [] frame.kind = "ready" -> [text |-> <<>>, final |-> FALSE]
                   [] OTHER -> client

\* ws_.write() is done, or has failed, which sendMessage() only logs.
ReceiverWritten ==
  /\ rpc = "write"
  /\ Receives(rmsg)
  /\ write_mutex_' = Nobody
  /\ rpc' = rmsg.next /\ rmsg' = NoFrame
  /\ UNCHANGED <<chunk, flusher, state_mutex_, audio, model, text, flush_running_, wsOpen, crashed,
                 counts>>

\* ws_.close(), with no regard to write_mutex_; the next read fails.
Close ==
  /\ rpc = "close"
  /\ wsOpen' = FALSE
  /\ rpc' = "read"
  /\ UNCHANGED <<rmsg, chunk, flusher, locks, audio, model, text, flush_running_, crashed, client,
                 counts>>

\* Mutated form of ReleaseModel: the reference is not given back.
ReleaseEngineOnly ==
  /\ engine_' = FALSE /\ buffer' = 0 /\ model_acquired_' = FALSE
  /\ UNCHANGED <<refs, configured_, last_transcribed_size_, buffer_overflowed_, quiet, episode>>

\* releaseModel()
ReleaseModel ==
  IF model_acquired_
  THEN /\ engine_' = FALSE /\ buffer' = 0
       /\ refs' = refs - 1
       /\ model_acquired_' = FALSE
       /\ UNCHANGED <<configured_, last_transcribed_size_, buffer_overflowed_, quiet, episode>>
  ELSE UNCHANGED <<model, audio>>

\* The end of run().
Release ==
  /\ rpc = "release" /\ state_mutex_ = Nobody
  /\ ReleaseModel
  /\ rpc' = "dtor"
  /\ UNCHANGED <<rmsg, chunk, flusher, locks, text, world, counts>>

\* The destructor tells the flush thread to stop.
Destroy ==
  /\ rpc = "dtor"
  /\ flush_running_' = FALSE
  /\ rpc' = "join"
  /\ UNCHANGED <<rmsg, chunk, flusher, locks, audio, model, text, wsOpen, crashed, client, counts>>

\* It joins it, if it was ever started, and releases the model once more.
Join ==
  /\ rpc = "join" /\ fpc \in {"off", "done"}
  /\ state_mutex_ = Nobody
  /\ ReleaseModel
  /\ rpc' = "gone"
  /\ wsOpen' = FALSE
  /\ UNCHANGED <<rmsg, chunk, flusher, locks, text, flush_running_, crashed, client, counts>>

-----------------------------------------------------------------------------
(* The flush thread: flushLoop(). *)

\* The loop finds flush_running_ cleared.
FlushExits ==
  /\ fpc = "sleep" /\ ~flush_running_
  /\ fpc' = "done"
  /\ UNCHANGED <<receiver, ftext, locks, audio, model, text, world, counts>>

\* current_size - last_transcribed_size_ is unsigned: it wraps below zero.
EnoughNewAudio ==
  \/ buffer < last_transcribed_size_
  \/ buffer - last_transcribed_size_ >= MinNew

\* Mutated form of WorthDecoding: silence alone does not start a decode.
WorthDecodingEnoughOnly == buffer >= MinBuffer /\ EnoughNewAudio

\* The guards of flushLoop(): two seconds of audio, and enough of it new, or
\* some of it new and the client silent for 400 ms.
WorthDecoding ==
  /\ buffer >= MinBuffer
  /\ \/ EnoughNewAudio
     \/ quiet /\ buffer > last_transcribed_size_

\* Mutated form of FlushStarts: the mutex is not asked for.
FlushStartsUnlocked ==
  /\ fpc = "sleep" /\ flush_running_
  /\ configured_ /\ engine_
  /\ WorthDecoding
  /\ fpc' = "infer"
  /\ UNCHANGED <<receiver, ftext, locks, audio, model, text, world, counts>>

\* The loop wakes up, gets state_mutex_ by try_lock(), passes the guards, gets
\* a decode slot and starts to decode.  A round in which one of these fails
\* changes nothing.
FlushStarts ==
  /\ fpc = "sleep" /\ flush_running_
  /\ state_mutex_ = Nobody
  /\ configured_ /\ engine_
  /\ WorthDecoding
  /\ state_mutex_' = "flusher"
  /\ fpc' = "infer"
  /\ UNCHANGED <<receiver, ftext, write_mutex_, audio, model, text, world, counts>>

\* Mutated form of NewlyTranscribed: always the size that was decoded.
DecodedSize(k, left) == buffer

\* last_transcribed_size_ after a decode: what is left when text was committed,
\* what was decoded when none was.
NewlyTranscribed(k, left) == IF k > 0 THEN left ELSE buffer

\* Mutated form of Accumulated: the latest commit alone.
AccumulatedLast(k, okC) == IF k > 0 /\ okC THEN <<Commit(okC)>> ELSE full_transcription_

\* Mutated form of Accumulated: filtered commits stay in the transcription.
AccumulatedAnyway(k, okC) ==
  IF k > 0 THEN Append(full_transcription_, Commit(okC)) ELSE full_transcription_

\* full_transcription_ after a decode.
Accumulated(k, okC) ==
  IF k > 0 /\ okC THEN Append(full_transcription_, Commit(okC)) ELSE full_transcription_

\* The decode commits segments 1..k of ends; isHallucination() lets the
\* committed text through if okC and the rest if okP.
FlushDecodes(ends, k, okC, okP) ==
  /\ fpc = "infer"
  /\ WindowCommit(k, buffer, ends)
  /\ k > 0 => commits < MaxCommits
  /\ buffer' = AfterCommit(k, buffer, ends)
  /\ buffer_overflowed_' = (buffer_overflowed_ /\ AtHighWater(buffer'))
  /\ episode' = IF AtHighWater(buffer') THEN episode ELSE NoEpisode
  /\ last_transcribed_size_' = NewlyTranscribed(k, buffer')
  /\ full_transcription_' = Accumulated(k, okC)
  /\ IF k > 0
     THEN /\ raw_transcription_' = Append(raw_transcription_, Commit(okC))
          /\ commits' = commits + 1
     ELSE UNCHANGED <<raw_transcription_, commits>>
  /\ IF (k > 0 /\ okC) \/ (k < Len(ends) /\ okP)
     THEN fpc' = "send" /\ ftext' = full_transcription_'
     ELSE fpc' = "sleep" /\ UNCHANGED ftext
  /\ state_mutex_' = Nobody
  /\ UNCHANGED <<receiver, write_mutex_, configured_, engine_, quiet, model, world, configs, chunks,
                 since>>

\* The decode throws.  Nothing catches the exception in this thread.
FlushFails ==
  /\ fpc = "infer"
  /\ crashed' = TRUE
  /\ UNCHANGED <<receiver, flusher, locks, audio, model, text, flush_running_, wsOpen, client,
                 counts>>

\* sendMessage() of a partial transcription.
FlushWrites ==
  /\ fpc = "send" /\ write_mutex_ = Nobody
  /\ fpc' = "write" /\ write_mutex_' = "flusher"
  /\ UNCHANGED <<receiver, ftext, state_mutex_, audio, model, text, world, counts>>

\* msg.dump() throws, as a text of whisper's need not be valid UTF-8.
FlushDrops ==
  /\ fpc = "send"
  /\ fpc' = "relock" /\ ftext' = <<>>
  /\ UNCHANGED <<receiver, locks, audio, model, text, world, counts>>

\* Mutated form of FlushWritten: a write that fails is tried again.
FlushWrittenRetried ==
  /\ fpc = "write"
  /\ Receives(Frame("partial", ftext, TRUE, "read"))
  /\ write_mutex_' = Nobody
  /\ IF wsOpen THEN fpc' = "relock" /\ ftext' = <<>> ELSE fpc' = "send" /\ UNCHANGED ftext
  /\ UNCHANGED <<receiver, state_mutex_, audio, model, text, flush_running_, wsOpen, crashed,
                 counts>>

\* ws_.write() is done, or has failed, which is only logged.
FlushWritten ==
  /\ fpc = "write"
  /\ Receives(Frame("partial", ftext, TRUE, "read"))
  /\ write_mutex_' = Nobody
  /\ fpc' = "relock" /\ ftext' = <<>>
  /\ UNCHANGED <<receiver, state_mutex_, audio, model, text, flush_running_, wsOpen, crashed,
                 counts>>

\* lock.lock() at the end of the loop's body, which ends by unlocking again.
FlushRelocks ==
  /\ fpc = "relock" /\ state_mutex_ = Nobody
  /\ fpc' = "sleep"
  /\ UNCHANGED <<receiver, ftext, locks, audio, model, text, world, counts>>

-----------------------------------------------------------------------------

\* The peer closes, or the network fails.
PeerCloses ==
  /\ wsOpen
  /\ wsOpen' = FALSE
  /\ UNCHANGED <<receiver, flusher, locks, audio, model, text, flush_running_, crashed, client,
                 counts>>

\* 400 ms go by without audio.
TimePasses ==
  /\ engine_ /\ ~quiet
  /\ quiet' = TRUE
  /\ UNCHANGED <<receiver, flusher, locks, configured_, engine_, buffer, last_transcribed_size_,
                 buffer_overflowed_, episode, model, text, world, counts>>

\* The session is gone, or the process is.
Finished == (rpc = "gone" \/ crashed) /\ UNCHANGED vars

ReceiverAlone ==
  \/ Accept \/ LeaveLoop \/ ReadInvalid \/ ReadRejected \/ ConfigRejected
  \/ ConfigAcquires \/ ReadEnd
  \/ \E n \in Chunks : ReadAudio(n)

ReceiverContinues ==
  \/ AudioAppended \/ AudioDropped
  \/ ConfigSucceeds \/ ConfigFails
  \/ EndStarts \/ EndFails \/ \E ends \in Ends : EndDecodes(ends)
  \/ Compose \/ ReceiverWrites \/ ReceiverDrops \/ ReceiverWritten \/ Close
  \/ Release \/ Destroy \/ Join

FlusherStep ==
  \/ FlushExits \/ FlushStarts
  \/ \E ends \in Ends : \E k \in 0..Len(ends) : \E okC, okP \in BOOLEAN :
       FlushDecodes(ends, k, okC, okP)
  \/ FlushFails \/ FlushWrites \/ FlushDrops \/ FlushWritten \/ FlushRelocks

Next ==
  \/ ~crashed /\ (ReceiverAlone \/ ReceiverContinues \/ FlusherStep \/ PeerCloses \/ TimePasses)
  \/ Finished

\* Both threads run, decodes and writes end, and a thread that waits for a
\* mutex gets it if it is free again and again: the flush thread leaves
\* state_mutex_ free for the 200 ms of its sleep, and its inference starts only
\* by try_lock().  A read ends by itself only on a closed connection, and the
\* client need not send anything: if it sends no more audio, 400 ms go by.
Fairness ==
  /\ SF_vars(~crashed /\ ReceiverContinues)
  /\ WF_vars(~crashed /\ ~wsOpen /\ LeaveLoop)
  /\ WF_vars(~crashed /\ Accept)
  /\ SF_vars(~crashed /\ FlusherStep)
  /\ WF_vars(~crashed /\ ~quiet /\ (TimePasses \/ \E n \in Chunks : ReadAudio(n)))

Spec == Init /\ [][Next]_vars /\ Fairness

-----------------------------------------------------------------------------
(* What the session promises. *)

Words == Seq([n : Nat, ok : BOOLEAN])

ControlOK ==
  /\ rpc \in {"accept", "read", "audio", "engine", "end", "decode", "compose", "send",
              "write", "close", "release", "dtor", "join", "gone"}
  /\ fpc \in {"off", "sleep", "infer", "send", "write", "relock", "done"}
  /\ state_mutex_ \in {Nobody, "receiver", "flusher"}
  /\ write_mutex_ \in {Nobody, "receiver", "flusher"}

FlagsOK ==
  /\ configured_ \in BOOLEAN /\ engine_ \in BOOLEAN /\ model_acquired_ \in BOOLEAN
  /\ buffer_overflowed_ \in BOOLEAN /\ quiet \in BOOLEAN
  /\ flush_running_ \in BOOLEAN /\ wsOpen \in BOOLEAN /\ crashed \in BOOLEAN

SizesOK ==
  /\ chunk \in {0} \cup Chunks
  /\ buffer \in 0..MaxBuffer /\ last_transcribed_size_ \in 0..MaxBuffer
  /\ refs \in Nat /\ configs \in Nat /\ chunks \in Nat /\ commits \in Nat /\ since \in Nat
  /\ episode \in [drops : BOOLEAN, warnings : Nat]

WordsOK ==
  /\ full_transcription_ \in Words /\ raw_transcription_ \in Words /\ ftext \in Words
  /\ client \in [text : Words, final : BOOLEAN]
  /\ rmsg \in [kind : {"none", "error", "warning", "ready", "final"}, text : Words,
               utf8 : BOOLEAN, next : {"read", "close"}]

TypeOK == ControlOK /\ FlagsOK /\ SizesOK /\ WordsOK

\* A decode runs on an engine that exists, over a model the session holds a
\* reference to, by the thread that holds state_mutex_: so never two at once on
\* one whisper_state, and no reconfiguration or release frees the engine, or
\* lets the model be unloaded, under a decode.
DecodeIsSafe ==
  /\ fpc = "infer" => state_mutex_ = "flusher" /\ engine_ /\ refs > 0
  /\ rpc = "decode" =>
       state_mutex_ = "receiver" /\ engine_ /\ refs > 0

\* The unsigned difference current_size - last_transcribed_size_ of flushLoop()
\* never wraps where it counts: audio that has been decoded is never taken for
\* new, after commits, overflows, a forced commit or a new configuration.
NewAudioDoesNotWrap ==
  state_mutex_ = Nobody /\ engine_ /\ buffer >= MinBuffer
    => last_transcribed_size_ <= buffer

\* One warning per episode of saturation, API_GUIDE.md:177 "Se envia una sola
\* vez por episodio de saturacion": a client whose audio is dropped has been
\* warned, and once, since the buffer was last below the high-water mark.
OneWarningPerEpisode == episode.warnings = IF episode.drops THEN 1 ELSE 0

\* The session gives back every model reference it took when it is gone: to
\* ModelCache.h:15-16, the model "unloads automatically after the TTL expires
\* with no active sessions".
ModelIsGivenBack == rpc = "gone" => refs = 0 /\ ~engine_

\* The commits of a text, up to each of them, that isHallucination() let through.
HeardUpTo(words) ==
  LET upTo[i \in 0..Len(words)] ==
        IF i = 0 THEN <<>>
        ELSE IF words[i].ok THEN Append(upTo[i - 1], words[i]) ELSE upTo[i - 1]
  IN upTo

Heard(words) == HeardUpTo(words)[Len(words)]

\* The final transcription misses no commit that isHallucination() let through,
\* keeps their order, and falls back on the raw text rather than be empty.
FinalTextIsComplete ==
  [][rpc = "decode" /\ rpc' = "compose" =>
       LET heard == Heard(raw_transcription_) IN
       \/ full_transcription_' = Append(heard, Commit(TRUE))
       \/ full_transcription_' = IF heard = <<>> THEN raw_transcription_ ELSE heard]_vars

Numbers(words) == {words[i].n : i \in DOMAIN words}

\* The commits that isHallucination() has rejected under the configuration in force.
Filtered == {raw_transcription_[i].n : i \in {j \in DOMAIN raw_transcription_ :
                                               ~raw_transcription_[j].ok}}

\* A text has each commit of the configuration in force but those that were
\* rejected, once, in order, and of these only some that came before all others.
IsComplete(words) ==
  /\ Numbers(words) \subseteq since + 1 .. commits
  /\ since + 1 .. commits \subseteq Numbers(words) \cup Filtered
  /\ \A i, j \in DOMAIN words :
       i < j => words[i].n < words[j].n /\ (words[i].ok => words[j].ok)

\* API_GUIDE.md:111, "El servidor devuelve la transcripcion final de todo el
\* buffer": the final message that handleEnd() builds after it has let
\* state_mutex_ go is complete, with what a flush decode committed since, or it
\* is what was read while such a decode was changing it.
FinalFrameIsComplete ==
  [][rpc = "compose" /\ rpc' = "send" =>
       \/ fpc = "infer" /\ rmsg'.text = Torn
       \/ IsComplete(rmsg'.text)]_vars

IsPrefixOf(s, t) == Len(s) <= Len(t) /\ SubSeq(t, 1, Len(s)) = s

\* API_GUIDE.md:158, "Texto transcrito hasta el momento (acumulativo)": what
\* the client has been shown of the transcription is never taken back by a
\* later partial one.
PartialsAccumulate ==
  [][fpc = "write" /\ fpc' = "relock" /\ wsOpen /\ ~client.final
       => IsPrefixOf(client.text, client'.text)]_vars

\* API_GUIDE.md:159, is_final "true = resultado definitivo tras recibir end":
\* after the final transcription no partial one arrives.
FinalIsLast == [][client.final => client'.final]_vars

\* API_GUIDE.md:199, AUDIO_ERROR "Error al procesar el buffer de audio": when
\* a decode fails the client is told, and the server goes on.
DecodeFailureIsAnError == ~crashed

\* A connection that is down is cleaned up: the flush thread is joined, the
\* model given back, the session gone, whatever either thread was doing.
SessionEnds == ~wsOpen ~> (rpc = "gone" \/ crashed)

\* The connection goes down before the final message is written, or the decode
\* for it fails.
EndIsCutShort ==
  \/ crashed
  \/ ~wsOpen /\ rpc \in {"end", "decode", "compose", "send", "write"}
  \/ wsOpen /\ rpc = "release"

\* The text of the final message cannot be put into JSON.
FinalIsUnsendable == rpc = "send" /\ rmsg.kind = "final" /\ ~rmsg.utf8

\* An end message is answered by the final transcription before the server
\* closes, unless it is cut short or the text is not valid UTF-8, whatever the
\* flush thread, its decodes and its own messages do meanwhile.
EndIsAnswered ==
  (rpc = "end" /\ wsOpen) ~> (client.final \/ EndIsCutShort \/ FinalIsUnsendable)

UndecodedAudio == engine_ /\ buffer >= MinBuffer /\ buffer > last_transcribed_size_

\* Audio beyond two seconds that has not been decoded is decoded, however
\* little it is and though nothing more may arrive, as long as the session
\* goes on and the buffer is below the high-water mark.
AudioIsDecoded ==
  (flush_running_ /\ UndecodedAudio)
    ~> (~UndecodedAudio \/ AtHighWater(buffer) \/ ~flush_running_ \/ crashed)

\* The decode that is under way.
NowDecoding == IF rpc = "decode" THEN "end" ELSE IF fpc = "infer" THEN "flush" ELSE "none"

\* The model and the engine have been given up.
IsOver == rpc \in {"dtor", "join", "gone"}

Life == IF IsOver THEN "over" ELSE IF engine_ THEN "ready" ELSE "new"

\* What the rest of the server sees of the session.
Seen == [refs |-> refs, life |-> Life, decoding |-> NowDecoding]

\* To the rest of the server the session is its outline: it builds its engine
\* and decodes only over a model it has a reference to, never two decodes at
\* once, and gives the model up only between decodes and for good.
Outline == INSTANCE SessionOutline WITH session <- Seen

ImplementsOutline == Outline!Spec
=============================================================================
