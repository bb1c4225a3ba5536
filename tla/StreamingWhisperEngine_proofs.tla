-------------------- MODULE StreamingWhisperEngine_proofs --------------------
(***************************************************************************)
(* Proofs about StreamingWhisperEngine, for every value of the constants.  *)
(* The inductive invariant is that the buffer is the tail of the stream,   *)
(* within the hard cap, and that the committed text ends before it.        *)
(***************************************************************************)
EXTENDS StreamingWhisperEngine, TLAPS

IInv == TypeOK /\ size <= MaxBuffer /\ NoAudioCommittedTwice

-----------------------------------------------------------------------------
(* What the operators on the window leave. *)

\* A chunk adds to the buffer, within the hard cap.
LEMMA ChunkFits ==
  ASSUME NEW n \in Nat, NEW held \in 0..MaxBuffer
  PROVE  AfterChunk(held, n) \in held..MaxBuffer
BY WindowAssumption DEF AfterChunk

\* A commit takes audio away.
LEMMA CommitFits ==
  ASSUME NEW held \in 0..MaxBuffer, NEW ends \in Seq(Nat \ {0}), NEW k \in 0..Len(ends)
  PROVE  AfterCommit(k, held, ends) \in 0..held /\ (k = 0 => AfterCommit(k, held, ends) = held)
<1>1. CASE k = 0
  BY <1>1, WindowAssumption DEF AfterCommit
<1>2. CASE k > 0
  <2>1. ends[k] \in Nat
    BY <1>2
  <2>2. ends[k] * Rate \in Nat
    BY <2>1, WindowAssumption
  <2>3. AfterCommit(k, held, ends) = IF ends[k] * Rate < held THEN held - ends[k] * Rate ELSE 0
    BY <1>2 DEF AfterCommit
  <2> QED
    BY <1>2, <2>2, <2>3, WindowAssumption
<1> QED
  BY <1>1, <1>2

\* The hard cap is within the 30 s that whisper's encoder has positions for.
AtMostThirtySeconds == MaxBuffer <= 3000 * Rate

\* As large as it may be, the buffer asks for no more encoder positions than
\* the model has, given that cap.
LEMMA CtxFits ==
  ASSUME AtMostThirtySeconds, NEW held \in 0..MaxBuffer
  PROVE  64 <= AudioCtx(held) /\ AudioCtx(held) <= 1500
<1> DEFINE d == 2 * Rate
           ctx == (held + d - 1) \div d
<1>1. d \in Nat \ {0} /\ held + d - 1 \in 0..1500 * d + d - 1
  BY WindowAssumption DEF AtMostThirtySeconds
<1>2. ctx \in 0..1500
  <2> HIDE DEF d
  <2> QED
    BY <1>1
<1> QED
  BY <1>2 DEF AudioCtx

-----------------------------------------------------------------------------
(* What the decodes keep. *)

\* A segment that ends in the audio ends at a number of samples.
LEMMA EndIsNat ==
  ASSUME NEW ends \in Ends, NEW k \in 1..Len(ends)
  PROVE  ends[k] * Rate \in Nat
<1>1. ends[k] \in Nat
  BY EngineAssumption
<1> QED
  BY <1>1, WindowAssumption

\* A decode of a window takes away as much audio as the text it commits covers.
LEMMA WindowKeeps ==
  ASSUME IInv, NEW ends \in Ends, NEW k \in 0..Len(ends), TranscribeWindow(ends, k)
  PROVE  IInv' /\ (Base' = Base \/ Base' = textTo')
<1>1. /\ fed \in Nat /\ size \in 0..fed /\ textTo \in 0..fed
      /\ size \in 0..MaxBuffer /\ textTo <= fed - size
  BY WindowAssumption DEF IInv, TypeOK, NoAudioCommittedTwice, Base
<1>2. size' \in 0..size
  BY <1>1, CommitFits, EngineAssumption DEF TranscribeWindow
<1>3. /\ fed' = fed /\ size' = AfterCommit(k, size, ends)
      /\ textTo' = IF k = 0 THEN textTo
                   ELSE IF ends[k] * Rate < size THEN Base + ends[k] * Rate ELSE fed
  BY DEF TranscribeWindow
<1>4. textTo' \in 0..fed /\ textTo' <= fed - size' /\ (size' = size \/ fed - size' = textTo')
  <2>1. CASE k = 0
    BY <1>1, <1>3, <2>1 DEF AfterCommit
  <2>2. CASE k > 0
    <3>1. ends[k] * Rate \in Nat
      BY <2>2, EndIsNat
    <3> QED
      BY <1>1, <1>3, <2>2, <3>1 DEF AfterCommit, Base
  <2> QED
    BY <2>1, <2>2
<1>5. /\ last'.window \in Nat /\ last'.left \in 0..last'.window
      /\ last'.ends \in Ends \cup {<<>>} /\ last'.commit \in 0..Len(last'.ends)
  BY <1>1, <1>2 DEF TranscribeWindow
<1>6. TypeOK'
  BY <1>1, <1>2, <1>3, <1>4, <1>5 DEF TypeOK
<1>7. size' <= MaxBuffer /\ NoAudioCommittedTwice'
  BY <1>1, <1>2, <1>3, <1>4, WindowAssumption DEF NoAudioCommittedTwice, Base
<1> QED
  BY <1>1, <1>2, <1>3, <1>4, <1>6, <1>7 DEF IInv, Base

\* A forced decode commits all the audio there is, or takes nothing away.
LEMMA ForceKeeps ==
  ASSUME IInv, NEW ends \in Ends, ForceCommit(ends)
  PROVE  IInv' /\ (Base' = Base \/ Base' = textTo')
<1>1. /\ fed \in Nat /\ size \in 0..fed /\ textTo \in 0..fed
      /\ size \in 0..MaxBuffer /\ textTo <= fed - size
  BY WindowAssumption DEF IInv, TypeOK, NoAudioCommittedTwice, Base
<1>2. Len(ends) \in Nat /\ (Len(ends) = 0 => ends = <<>>)
  BY EngineAssumption
<1>3. /\ fed' = fed /\ size' = (IF Len(ends) > 0 THEN 0 ELSE size)
      /\ textTo' = IF ends = <<>> THEN textTo ELSE fed
  BY DEF ForceCommit, AfterForce
<1>4. ends = <<>> => Len(ends) = 0
  OBVIOUS
<1>5. /\ last'.window \in Nat /\ last'.left \in 0..last'.window
      /\ last'.ends \in Ends \cup {<<>>} /\ last'.commit \in 0..Len(last'.ends)
  BY <1>1, <1>2, <1>3 DEF ForceCommit
<1>6. TypeOK'
  BY <1>1, <1>2, <1>3, <1>4, <1>5 DEF TypeOK
<1>7. size' <= MaxBuffer /\ NoAudioCommittedTwice'
  BY <1>1, <1>2, <1>3, <1>4, WindowAssumption DEF NoAudioCommittedTwice, Base
<1> QED
  BY <1>1, <1>2, <1>3, <1>4, <1>6, <1>7 DEF IInv, Base

\* IInv holds initially, and every step keeps it: a chunk moves both ends of
\* the buffer forward, and so does no harm to the text committed before.
THEOREM Invariance == Spec => []IInv
<1>1. Init => IInv
  BY WindowAssumption DEF Init, IInv, TypeOK, NoAudioCommittedTwice, Base, NoDecode
<1>2. IInv /\ [Next]_vars => IInv'
  <2> SUFFICES ASSUME IInv, [Next]_vars PROVE IInv'
    OBVIOUS
  <2>1. /\ fed \in Nat /\ size \in 0..fed /\ textTo \in 0..fed
        /\ size \in 0..MaxBuffer /\ textTo <= fed - size
    BY WindowAssumption DEF IInv, TypeOK, NoAudioCommittedTwice, Base
  <2>2. ASSUME NEW n \in Chunks, ProcessAudioChunk(n) PROVE IInv'
    <3>1. n \in Nat
      BY EngineAssumption
    <3>2. size' \in size..MaxBuffer /\ size' <= size + n
      BY <2>1, <2>2, <3>1, ChunkFits DEF ProcessAudioChunk, AfterChunk
    <3> QED
      BY <2>1, <2>2, <3>1, <3>2
         DEF ProcessAudioChunk, NoDecode, IInv, TypeOK, NoAudioCommittedTwice, Base
  <2>3. ASSUME NEW ends \in Ends, NEW k \in 0..Len(ends), TranscribeWindow(ends, k) PROVE IInv'
    BY <2>3, WindowKeeps
  <2>4. ASSUME NEW ends \in Ends, ForceCommit(ends) PROVE IInv'
    BY <2>4, ForceKeeps
  <2>5. ASSUME NEW keep \in Keeps, Reset(keep) PROVE IInv'
    <3>1. fed' = fed /\ textTo' = textTo /\ size' \in 0..size
      BY <2>1, <2>5, EngineAssumption DEF Reset
    <3>2. last' = NoDecode
      BY <2>5 DEF Reset
    <3>3. TypeOK'
      BY <2>1, <3>1, <3>2 DEF TypeOK, NoDecode
    <3>4. size' <= MaxBuffer
      BY <2>1, <3>1, WindowAssumption
    <3>5. NoAudioCommittedTwice'
      BY <2>1, <2>5, EngineAssumption DEF Reset, NoAudioCommittedTwice, Base
    <3> QED
      BY <3>3, <3>4, <3>5 DEF IInv
  <2>6. CASE UNCHANGED vars
    BY <2>6 DEF vars, IInv, TypeOK, NoAudioCommittedTwice, Base
  <2> QED
    BY <2>2, <2>3, <2>4, <2>5, <2>6 DEF Next
<1> QED
  BY <1>1, <1>2, PTL DEF Spec

\* The engine keeps to its types: the buffer is never longer than the stream.
THEOREM Typing == Spec => []TypeOK
<1>1. IInv => TypeOK
  BY DEF IInv
<1> QED
  BY <1>1, Invariance, PTL

\* The audio of committed text has left the buffer for good: transcribing
\* again cannot return it a second time.
THEOREM NoAudioCommittedTwiceHolds == Spec => []NoAudioCommittedTwice
<1>1. IInv => NoAudioCommittedTwice
  BY DEF IInv
<1> QED
  BY <1>1, Invariance, PTL

\* With the hard cap at 30 s or less, as max_buffer_samples_ is, no chunk of any
\* length makes a window that whisper's encoder has no positions for.
THEOREM WindowFitsEncoderHolds ==
  ASSUME AtMostThirtySeconds
  PROVE  Spec => []WindowFitsEncoder
<1>1. IInv => WindowFitsEncoder
  <2> SUFFICES ASSUME IInv PROVE WindowFitsEncoder
    OBVIOUS
  <2>1. size \in 0..MaxBuffer
    BY WindowAssumption DEF IInv, TypeOK
  <2>2. 64 <= AudioCtx(size) /\ AudioCtx(size) <= 1500
    BY <2>1, CtxFits
  <2> QED
    BY <2>1, <2>2 DEF WindowFitsEncoder
<1> QED
  BY <1>1, Invariance, PTL

\* A decode that takes audio out of the buffer takes exactly what the committed
\* text covers.
THEOREM OnlyCommittedAudioLeavesHolds == Spec => OnlyCommittedAudioLeaves
<1>1. IInv /\ [Next]_vars => [last' # NoDecode => Base' = Base \/ Base' = textTo']_vars
  <2> SUFFICES ASSUME IInv, Next, last' # NoDecode PROVE Base' = Base \/ Base' = textTo'
    BY DEF vars, Base
  <2>1. ASSUME NEW n \in Chunks, ProcessAudioChunk(n) PROVE FALSE
    BY <2>1 DEF ProcessAudioChunk
  <2>2. ASSUME NEW ends \in Ends, NEW k \in 0..Len(ends), TranscribeWindow(ends, k)
        PROVE  Base' = Base \/ Base' = textTo'
    BY <2>2, WindowKeeps
  <2>3. ASSUME NEW ends \in Ends, ForceCommit(ends)
        PROVE  Base' = Base \/ Base' = textTo'
    BY <2>3, ForceKeeps
  <2>4. ASSUME NEW keep \in Keeps, Reset(keep) PROVE FALSE
    BY <2>4 DEF Reset
  <2> QED
    BY <2>1, <2>2, <2>3, <2>4 DEF Next
<1> QED
  BY <1>1, Invariance, PTL DEF Spec, OnlyCommittedAudioLeaves

\* Two segments or more, in a full window: one of them is committed, and as a
\* segment ends after it begins, its audio is more than none.
LEMMA FullWindowCommits ==
  ASSUME IInv, NEW ends \in Ends, NEW k \in 0..Len(ends), TranscribeWindow(ends, k),
         size >= MaxWindow, Len(ends) > 1
  PROVE  k > 0 /\ size' < size
<1>1. size \in Nat /\ size > 0 /\ CommitsUpTo(k, size, ends) /\ ends \in Seq(Nat \ {0})
  BY WindowAssumption, EngineAssumption
     DEF IInv, TypeOK, TranscribeWindow, WindowCommit
<1>2. Len(ends) \in Nat /\ DOMAIN ends = 1..Len(ends)
  BY <1>1
<1>3. k > 0
  <2>1. CASE \E i \in DOMAIN ends : Stable(ends[i], size)
    <3>1. k \in DOMAIN ends
      BY <1>1, <2>1 DEF CommitsUpTo
    <3> QED
      BY <1>2, <3>1
  <2>2. CASE ~\E i \in DOMAIN ends : Stable(ends[i], size)
    <3>1. k = IF Len(ends) > 1 THEN Len(ends) - 1 ELSE 0
      BY <1>1, <2>2 DEF CommitsUpTo
    <3> QED
      BY <1>2, <3>1
  <2> QED
    BY <2>1, <2>2
<1>4. ends[k] \in Nat \ {0}
  BY <1>1, <1>2, <1>3
<1>5. ends[k] * Rate \in Nat \ {0}
  BY <1>4, WindowAssumption
<1>6. size' = IF ends[k] * Rate < size THEN size - ends[k] * Rate ELSE 0
  BY <1>2, <1>3 DEF TranscribeWindow, AfterCommit
<1> QED
  BY <1>1, <1>3, <1>5, <1>6

\* A session whose speaker never pauses does not fill its buffer: a full window
\* moves on with every decode that finds two segments, wherever they end.
THEOREM FullWindowMovesOnHolds == Spec => []FullWindowMovesOn
<1>1. Init => FullWindowMovesOn
  BY DEF Init, FullWindowMovesOn, NoDecode
<1>2. IInv /\ FullWindowMovesOn /\ [Next]_vars => FullWindowMovesOn'
  <2> SUFFICES ASSUME IInv, FullWindowMovesOn, [Next]_vars PROVE FullWindowMovesOn'
    OBVIOUS
  <2>1. ASSUME last' = NoDecode PROVE FullWindowMovesOn'
    BY <2>1 DEF FullWindowMovesOn, NoDecode
  <2>2. ASSUME NEW ends \in Ends, NEW k \in 0..Len(ends), TranscribeWindow(ends, k)
        PROVE  FullWindowMovesOn'
    <3>1. /\ last'.window = size /\ last'.left = size' /\ last'.ends = ends
          /\ last'.commit = k
      BY <2>2 DEF TranscribeWindow
    <3> QED
      BY <2>2, <3>1, FullWindowCommits DEF FullWindowMovesOn
  <2>3. ASSUME NEW ends \in Ends, ForceCommit(ends) PROVE FullWindowMovesOn'
    BY <2>3 DEF ForceCommit, FullWindowMovesOn
  <2>4. CASE UNCHANGED vars
    BY <2>4 DEF vars, FullWindowMovesOn
  <2> QED
    BY <2>1, <2>2, <2>3, <2>4 DEF Next, ProcessAudioChunk, Reset
<1> QED
  BY <1>1, <1>2, Invariance, PTL DEF Spec
=============================================================================
