--------------------------- MODULE SlidingWindow ---------------------------
(***************************************************************************)
(* The arithmetic of StreamingWhisperEngine.cpp on its audio buffer: what  *)
(* an incoming chunk does to its size, which segments of a decode are      *)
(* committed and how much audio leaves with them.  Sizes are samples,      *)
(* segment ends are whisper's 10 ms ticks from the start of the buffer.    *)
(***************************************************************************)
EXTENDS Integers, Sequences

CONSTANTS
  HighWater,   \* HIGH_WATER_MARK: 20 s
  MaxBuffer,   \* max_buffer_samples_: 30 s
  MaxWindow,   \* max_window_samples: 10 s
  Overlap,     \* the final 2 s, whose segments are not stable yet
  Rate         \* samples per tick: 160

ASSUME WindowAssumption ==
  /\ Rate \in Nat \ {0}
  /\ Overlap \in Nat /\ MaxWindow \in Nat /\ HighWater \in Nat /\ MaxBuffer \in Nat
  /\ 0 < Overlap /\ Overlap <= MaxWindow
  /\ MaxWindow <= HighWater /\ HighWater <= MaxBuffer

\* processAudioChunk() drops the chunk when the buffer is at the mark.
AtHighWater(size) == size >= HighWater

\* Mutated form of AfterChunk, for mutation testing: no hard cap.
AfterChunkUncapped(size, n) == size + n

\* The buffer after a chunk of n samples that is not dropped: at the hard cap
\* the oldest samples make room, be they in the buffer or in the chunk.
AfterChunk(size, n) == IF size + n > MaxBuffer THEN MaxBuffer ELSE size + n

\* What whisper may report: nothing, or segments that end in order, none of
\* them at the very start.  The last may end after the audio does.
SegmentLists(ticks, n) ==
  {ends \in UNION {[1..m -> ticks] : m \in 0..n} :
     \A i, j \in DOMAIN ends : i < j => ends[i] <= ends[j]}

\* A segment that ends before the final two seconds of audio.
Stable(end, size) == end < (size - Overlap) \div Rate

\* A decode of a full window commits segments 1..k: up to the last stable one,
\* or all but the last when none is stable.
CommitsUpTo(k, size, ends) ==
  IF \E i \in DOMAIN ends : Stable(ends[i], size)
  THEN /\ k \in DOMAIN ends /\ Stable(ends[k], size)
       /\ \A i \in k+1..Len(ends) : ~Stable(ends[i], size)
  ELSE k = IF Len(ends) > 1 THEN Len(ends) - 1 ELSE 0

\* Mutated form of WindowCommit: the window is never full.
WindowCommitNever(k, size, ends) == k = 0

\* transcribeSlidingWindow(false) commits segments 1..k, none below the window.
WindowCommit(k, size, ends) ==
  IF size >= MaxWindow THEN CommitsUpTo(k, size, ends) ELSE k = 0

\* Mutated form of AfterCommit: the committed audio stays in the buffer.
AfterCommitKept(k, size, ends) == size

\* Mutated form of AfterCommit: the whole buffer is cleared.
AfterCommitCleared(k, size, ends) == IF k = 0 THEN size ELSE 0

\* Mutated form of AfterCommit: a segment may end after the audio does.
AfterCommitUnchecked(k, size, ends) == IF k = 0 THEN size ELSE size - ends[k] * Rate

\* The buffer once the audio of segments 1..k has been erased.
AfterCommit(k, size, ends) ==
  IF k = 0 THEN size
  ELSE IF ends[k] * Rate < size THEN size - ends[k] * Rate ELSE 0

\* transcribeSlidingWindow(true) commits every segment and clears the buffer,
\* which it leaves alone when whisper found no segment.
AfterForce(size, ends) == IF Len(ends) > 0 THEN 0 ELSE size

\* params.audio_ctx: 50 encoder positions a second, at least 64.
AudioCtx(size) ==
  LET ctx == (size + 2 * Rate - 1) \div (2 * Rate) IN IF ctx < 64 THEN 64 ELSE ctx
=============================================================================
