----------------------- MODULE StreamingWhisperEngine -----------------------
(***************************************************************************)
(* src/whisper/StreamingWhisperEngine.cpp: one session's audio buffer and  *)
(* the sliding-window transcription that drains it.  Every method runs     *)
(* under buffer_mutex_, so a method is one step.                           *)
(*                                                                         *)
(* Of the audio only positions in the stream matter: the buffer holds the  *)
(* samples Base+1 .. fed of what was accepted.  Of the text only how far   *)
(* into the stream it reaches matters: the committed text has been given   *)
(* for the audio up to textTo.  A decode is whisper's (external): it fails *)
(* or returns the ends of its segments.                                    *)
(***************************************************************************)
EXTENDS SlidingWindow

CONSTANTS
  Chunks,     \* sizes of the audio chunks
  Ends,       \* lists of segment ends that whisper returns
  Keeps,      \* arguments of reset()
  MaxFed      \* bound: samples accepted

ASSUME EngineAssumption ==
  /\ Chunks \subseteq Nat /\ Keeps \subseteq Nat
  /\ Ends \subseteq Seq(Nat \ {0})
  /\ MaxFed \in Nat

VARIABLES
  fed,      \* samples accepted so far
  size,     \* audio_buffer_.size()
  textTo,   \* history: the committed text covers the stream up to here
  last      \* history: the decode just done: whether it was forced, the buffer
            \* it saw and left, the segments found, how many were committed

vars == <<fed, size, textTo, last>>

NoDecode == [forced |-> FALSE, window |-> 0, left |-> 0, ends |-> <<>>, commit |-> 0]

Base == fed - size

Init == fed = 0 /\ size = 0 /\ textTo = 0 /\ last = NoDecode

-----------------------------------------------------------------------------

\* processAudioChunk() below the high-water mark; at it the chunk is dropped.
ProcessAudioChunk(n) ==
  /\ ~AtHighWater(size)
  /\ fed + n <= MaxFed
  /\ fed' = fed + n
  /\ size' = AfterChunk(size, n)
  /\ last' = NoDecode
  /\ UNCHANGED textTo

\* transcribeSlidingWindow(false): the text of segments 1..k covers the audio
\* up to the end of the k-th, or all there is of it.
TranscribeWindow(ends, k) ==
  /\ size > 0
  /\ WindowCommit(k, size, ends)
  /\ size' = AfterCommit(k, size, ends)
  /\ last' = [forced |-> FALSE, window |-> size, left |-> size', ends |-> ends, commit |-> k]
  /\ textTo' = IF k = 0 THEN textTo
               ELSE IF ends[k] * Rate < size THEN Base + ends[k] * Rate ELSE fed
  /\ UNCHANGED fed

\* transcribeSlidingWindow(true), and transcribe().
ForceCommit(ends) ==
  /\ size > 0
  /\ size' = AfterForce(size, ends)
  /\ last' = [forced |-> TRUE, window |-> size, left |-> size',
               ends |-> ends, commit |-> Len(ends)]
  /\ textTo' = IF ends = <<>> THEN textTo ELSE fed
  /\ UNCHANGED fed

\* reset(keep): the last keep samples stay, unless there are no more than that.
Reset(keep) ==
  /\ size' = IF keep = 0 \/ keep >= size THEN 0 ELSE keep
  /\ last' = NoDecode
  /\ UNCHANGED <<fed, textTo>>

Next ==
  \/ \E n \in Chunks : ProcessAudioChunk(n)
  \/ \E ends \in Ends : \E k \in 0..Len(ends) : TranscribeWindow(ends, k)
  \/ \E ends \in Ends : ForceCommit(ends)
  \/ \E keep \in Keeps : Reset(keep)

Spec == Init /\ [][Next]_vars

-----------------------------------------------------------------------------

TypeOK ==
  /\ fed \in Nat /\ size \in 0..fed /\ textTo \in 0..fed
  /\ last.window \in Nat /\ last.left \in 0..last.window
  /\ last.ends \in Ends \cup {<<>>} /\ last.commit \in 0..Len(last.ends)

\* What is decoded fits whisper: the hard cap of processAudioChunk() keeps the
\* window within 30 s whatever the chunks, so that the encoder context asked
\* for stays between the floor and the model's 1500 positions.
WindowFitsEncoder == size <= MaxBuffer /\ 64 <= AudioCtx(size) /\ AudioCtx(size) <= 1500

\* No audio is transcribed twice: nothing the committed text covers is in the
\* buffer any more ("dropping the committed audio to prevent duplicate
\* transcriptions"), through commits, forced commits, the hard cap and reset().
NoAudioCommittedTwice == textTo <= Base

\* No audio is skipped by a decode: it leaves the buffer as it was, or takes
\* from it exactly the audio that the committed text covers.
OnlyCommittedAudioLeaves ==
  [][last' # NoDecode => Base' = Base \/ Base' = textTo']_vars

\* Two segments are enough for a full window to move on: the decode commits
\* something and leaves less audio than it found.
FullWindowMovesOn ==
  ~last.forced /\ last.window >= MaxWindow /\ Len(last.ends) > 1
    => last.commit > 0 /\ last.left < last.window
=============================================================================
