----------------------- MODULE StreamingSession_proofs -----------------------
(***************************************************************************)
(* Proofs about StreamingSession, for every value of the constants.        *)
(*                                                                         *)
(* IInv, the inductive invariant, adds three things to the types.  Locks:  *)
(* each thread decodes exactly while it holds state_mutex_.  Models: an    *)
(* engine implies a noted reference, a noted one implies one held, and a   *)
(* configured session has an engine until it is released.  Sizes: what     *)
(* has been transcribed is no more than the buffer holds, but for a buffer *)
(* that the final decode has emptied, to which nothing is added any more.  *)
(* Episodes: buffer_overflowed_ tells whether chunks were dropped.         *)
(* OneReference is kept apart: it needs a session that is configured once. *)
(* HeardText relates the text of the forced decode to what whisper gave,   *)
(* Complete the text of the final message to the commits.  Unconfigured    *)
(* and Shown, again for a session configured once, are about the partial   *)
(* texts.  At the end, the guard against hallucinations, with no state.    *)
(***************************************************************************)
EXTENDS StreamingSession, HallucinationGuard, DataInduction, SequenceTheorems

Locks ==
  /\ rpc = "accept" => fpc = "off"
  /\ fpc = "infer" <=> state_mutex_ = "flusher"
  /\ rpc = "decode" <=> state_mutex_ = "receiver"

Models ==
  /\ engine_ => model_acquired_
  /\ model_acquired_ => refs > 0
  /\ rpc = "engine" => refs > 0
  /\ rpc \in {"audio", "end", "decode"} => configured_
  /\ configured_ /\ rpc \notin {"dtor", "join", "gone"} => engine_
  /\ fpc = "infer" => engine_

\* No audio is added any more.
Ended ==
  \/ rpc \in {"compose", "close", "release", "dtor", "join", "gone"}
  \/ rpc \in {"send", "write"} /\ rmsg.next = "close"
  \/ rpc = "read" /\ ~wsOpen

Sizes ==
  engine_ => \/ last_transcribed_size_ <= buffer
             \/ buffer = 0 /\ Ended

Episodes ==
  /\ episode.warnings = IF episode.drops THEN 1 ELSE 0
  /\ engine_ => IF AtHighWater(buffer) THEN buffer_overflowed_ = episode.drops
                ELSE ~episode.drops

IInv == TypeOK /\ Locks /\ Models /\ Sizes /\ Episodes

USE DEF receiver, flusher, locks, audio, model, text, world, counts

-----------------------------------------------------------------------------
(* What the operators on the window leave. *)

\* A chunk adds to the buffer, within the hard cap.
LEMMA ChunkFits ==
  ASSUME NEW n \in Nat, NEW size \in 0..MaxBuffer
  PROVE  AfterChunk(size, n) \in size..MaxBuffer
BY WindowAssumption DEF AfterChunk

\* A commit takes audio away.
LEMMA CommitFits ==
  ASSUME NEW size \in 0..MaxBuffer, NEW ends \in Seq(Nat \ {0}), NEW k \in 0..Len(ends)
  PROVE  AfterCommit(k, size, ends) \in 0..size /\ (k = 0 => AfterCommit(k, size, ends) = size)
<1>1. CASE k = 0
  BY <1>1, WindowAssumption DEF AfterCommit
<1>2. CASE k > 0
  <2>1. ends[k] \in Nat
    BY <1>2
  <2>2. ends[k] * Rate \in Nat
    BY <2>1, WindowAssumption
  <2>3. AfterCommit(k, size, ends) = IF ends[k] * Rate < size THEN size - ends[k] * Rate ELSE 0
    BY <1>2 DEF AfterCommit
  <2> QED
    BY <1>2, <2>2, <2>3, WindowAssumption
<1> QED
  BY <1>1, <1>2

\* The forced commit empties the buffer or leaves it as it was.
LEMMA ForceFits ==
  ASSUME NEW size, NEW ends
  PROVE  AfterForce(size, ends) \in {0, size}
BY DEF AfterForce

\* A commit is an element of a text.
LEMMA CommitIsWord ==
  ASSUME SizesOK, NEW ok \in BOOLEAN
  PROVE  Commit(ok) \in [n : Nat, ok : BOOLEAN]
BY DEF Commit, SizesOK

-----------------------------------------------------------------------------
(* Each part of IInv is kept by every step. *)

\* Both threads and both mutexes keep to their control points.
LEMMA ControlKept ==
  ASSUME ControlOK, WordsOK, Next
  PROVE  ControlOK'
<1>1. CASE Accept
  BY <1>1 DEF Accept, ControlOK, WordsOK, Nobody
<1>2. CASE LeaveLoop
  BY <1>2 DEF LeaveLoop, ControlOK, WordsOK, Nobody
<1>3. CASE ReadInvalid
  BY <1>3 DEF ReadInvalid, Sends, Frame, ControlOK, WordsOK, Nobody
<1>4. CASE ReadRejected
  BY <1>4 DEF ReadRejected, ControlOK, WordsOK, Nobody
<1>5. CASE ConfigRejected
  BY <1>5 DEF ConfigRejected, Sends, Frame, ControlOK, WordsOK, Nobody
<1>6. CASE ConfigAcquires
  BY <1>6 DEF ConfigAcquires, ControlOK, WordsOK, Nobody
<1>7. CASE ReadEnd
  BY <1>7 DEF ReadEnd, ControlOK, WordsOK, Nobody
<1>8. CASE \E n \in Chunks : ReadAudio(n)
  BY <1>8 DEF ReadAudio, ControlOK, WordsOK, Nobody
<1>9. CASE AudioAppended
  BY <1>9 DEF AudioAppended, ControlOK, WordsOK, Nobody
<1>10. CASE AudioDropped
  BY <1>10 DEF AudioDropped, Sends, Frame, ControlOK, WordsOK, Nobody
<1>11. CASE ConfigSucceeds
  BY <1>11 DEF ConfigSucceeds, ConfigResets, Sends, Frame, ControlOK, WordsOK, Nobody
<1>12. CASE ConfigFails
  BY <1>12 DEF ConfigFails, Sends, Frame, ControlOK, WordsOK, Nobody
<1>13. CASE EndStarts
  BY <1>13 DEF EndStarts, ControlOK, WordsOK, Nobody
<1>14. CASE EndFails
  BY <1>14 DEF EndFails, ControlOK, WordsOK, Nobody
<1>15. CASE \E ends \in Ends : EndDecodes(ends)
  BY <1>15 DEF EndDecodes, ControlOK, WordsOK, Nobody
<1>16. CASE Compose
  BY <1>16 DEF Compose, Sends, Frame, ControlOK, WordsOK, Nobody
<1>17. CASE ReceiverWrites \/ ReceiverDrops
  BY <1>17 DEF ReceiverWrites, ReceiverDrops, ControlOK, WordsOK, Nobody
<1>18. CASE ReceiverWritten
  BY <1>18 DEF ReceiverWritten, ControlOK, WordsOK, Nobody
<1>19. CASE Close
  BY <1>19 DEF Close, ControlOK, WordsOK, Nobody
<1>20. CASE Release
  BY <1>20 DEF Release, ReleaseModel, ControlOK, WordsOK, Nobody
<1>21. CASE Destroy
  BY <1>21 DEF Destroy, ControlOK, WordsOK, Nobody
<1>22. CASE Join
  BY <1>22 DEF Join, ReleaseModel, ControlOK, WordsOK, Nobody
<1>23. CASE FlushExits
  BY <1>23 DEF FlushExits, ControlOK, WordsOK, Nobody
<1>24. CASE FlushStarts
  BY <1>24 DEF FlushStarts, ControlOK, WordsOK, Nobody
<1>25. CASE \E ends \in Ends : \E k \in 0..Len(ends) : \E okC, okP \in BOOLEAN :
             FlushDecodes(ends, k, okC, okP)
  BY <1>25 DEF FlushDecodes, ControlOK, WordsOK, Nobody
<1>26. CASE FlushFails
  BY <1>26 DEF FlushFails, ControlOK, WordsOK, Nobody
<1>27. CASE FlushWrites \/ FlushDrops
  BY <1>27 DEF FlushWrites, FlushDrops, ControlOK, WordsOK, Nobody
<1>28. CASE FlushWritten
  BY <1>28 DEF FlushWritten, ControlOK, WordsOK, Nobody
<1>29. CASE FlushRelocks
  BY <1>29 DEF FlushRelocks, ControlOK, WordsOK, Nobody
<1>30. CASE PeerCloses
  BY <1>30 DEF PeerCloses, ControlOK, WordsOK, Nobody
<1>31. CASE TimePasses
  BY <1>31 DEF TimePasses, ControlOK, WordsOK, Nobody
<1>32. CASE Finished
  BY <1>32 DEF Finished, vars, ControlOK, WordsOK, Nobody
<1> QED
  BY <1>1, <1>2, <1>3, <1>4, <1>5, <1>6, <1>7, <1>8, <1>9, <1>10, <1>11, <1>12,
     <1>13, <1>14, <1>15, <1>16, <1>17, <1>18, <1>19, <1>20, <1>21, <1>22,
     <1>23, <1>24, <1>25, <1>26, <1>27, <1>28, <1>29, <1>30, <1>31, <1>32
     DEF Next, ReceiverAlone, ReceiverContinues, FlusherStep

\* state_mutex_ is asked for before a decode and let go after it.
LEMMA LocksKept ==
  ASSUME ControlOK, WordsOK, Locks, Next
  PROVE  Locks'
<1>1. CASE Accept
  BY <1>1 DEF Accept, Locks, ControlOK, WordsOK, Nobody
<1>2. CASE LeaveLoop
  BY <1>2 DEF LeaveLoop, Locks, ControlOK, WordsOK, Nobody
<1>3. CASE ReadInvalid
  BY <1>3 DEF ReadInvalid, Sends, Frame, Locks, ControlOK, WordsOK, Nobody
<1>4. CASE ReadRejected
  BY <1>4 DEF ReadRejected, Locks, ControlOK, WordsOK, Nobody
<1>5. CASE ConfigRejected
  BY <1>5 DEF ConfigRejected, Sends, Frame, Locks, ControlOK, WordsOK, Nobody
<1>6. CASE ConfigAcquires
  BY <1>6 DEF ConfigAcquires, Locks, ControlOK, WordsOK, Nobody
<1>7. CASE ReadEnd
  BY <1>7 DEF ReadEnd, Locks, ControlOK, WordsOK, Nobody
<1>8. CASE \E n \in Chunks : ReadAudio(n)
  BY <1>8 DEF ReadAudio, Locks, ControlOK, WordsOK, Nobody
<1>9. CASE AudioAppended
  BY <1>9 DEF AudioAppended, Locks, ControlOK, WordsOK, Nobody
<1>10. CASE AudioDropped
  BY <1>10 DEF AudioDropped, Sends, Frame, Locks, ControlOK, WordsOK, Nobody
<1>11. CASE ConfigSucceeds
  BY <1>11 DEF ConfigSucceeds, ConfigResets, Sends, Frame, Locks, ControlOK, WordsOK, Nobody
<1>12. CASE ConfigFails
  BY <1>12 DEF ConfigFails, Sends, Frame, Locks, ControlOK, WordsOK, Nobody
<1>13. CASE EndStarts
  BY <1>13 DEF EndStarts, Locks, ControlOK, WordsOK, Nobody
<1>14. CASE EndFails
  BY <1>14 DEF EndFails, Locks, ControlOK, WordsOK, Nobody
<1>15. CASE \E ends \in Ends : EndDecodes(ends)
  BY <1>15 DEF EndDecodes, Locks, ControlOK, WordsOK, Nobody
<1>16. CASE Compose
  BY <1>16 DEF Compose, Sends, Frame, Locks, ControlOK, WordsOK, Nobody
<1>17. CASE ReceiverWrites \/ ReceiverDrops
  BY <1>17 DEF ReceiverWrites, ReceiverDrops, Locks, ControlOK, WordsOK, Nobody
<1>18. CASE ReceiverWritten
  BY <1>18 DEF ReceiverWritten, Locks, ControlOK, WordsOK, Nobody
<1>19. CASE Close
  BY <1>19 DEF Close, Locks, ControlOK, WordsOK, Nobody
<1>20. CASE Release
  BY <1>20 DEF Release, ReleaseModel, Locks, ControlOK, WordsOK, Nobody
<1>21. CASE Destroy
  BY <1>21 DEF Destroy, Locks, ControlOK, WordsOK, Nobody
<1>22. CASE Join
  BY <1>22 DEF Join, ReleaseModel, Locks, ControlOK, WordsOK, Nobody
<1>23. CASE FlushExits
  BY <1>23 DEF FlushExits, Locks, ControlOK, WordsOK, Nobody
<1>24. CASE FlushStarts
  BY <1>24 DEF FlushStarts, Locks, ControlOK, WordsOK, Nobody
<1>25. CASE \E ends \in Ends : \E k \in 0..Len(ends) : \E okC, okP \in BOOLEAN :
             FlushDecodes(ends, k, okC, okP)
  BY <1>25 DEF FlushDecodes, Locks, ControlOK, WordsOK, Nobody
<1>26. CASE FlushFails
  BY <1>26 DEF FlushFails, Locks, ControlOK, WordsOK, Nobody
<1>27. CASE FlushWrites \/ FlushDrops
  BY <1>27 DEF FlushWrites, FlushDrops, Locks, ControlOK, WordsOK, Nobody
<1>28. CASE FlushWritten
  BY <1>28 DEF FlushWritten, Locks, ControlOK, WordsOK, Nobody
<1>29. CASE FlushRelocks
  BY <1>29 DEF FlushRelocks, Locks, ControlOK, WordsOK, Nobody
<1>30. CASE PeerCloses
  BY <1>30 DEF PeerCloses, Locks, ControlOK, WordsOK, Nobody
<1>31. CASE TimePasses
  BY <1>31 DEF TimePasses, Locks, ControlOK, WordsOK, Nobody
<1>32. CASE Finished
  BY <1>32 DEF Finished, vars, Locks, ControlOK, WordsOK, Nobody
<1> QED
  BY <1>1, <1>2, <1>3, <1>4, <1>5, <1>6, <1>7, <1>8, <1>9, <1>10, <1>11, <1>12,
     <1>13, <1>14, <1>15, <1>16, <1>17, <1>18, <1>19, <1>20, <1>21, <1>22,
     <1>23, <1>24, <1>25, <1>26, <1>27, <1>28, <1>29, <1>30, <1>31, <1>32
     DEF Next, ReceiverAlone, ReceiverContinues, FlusherStep

\* Engine and references go together: a step that frees the engine, or gives
\* the reference back, has state_mutex_ and so interrupts no decode.
LEMMA ModelsKept ==
  ASSUME ControlOK, WordsOK, refs \in Nat, Locks, Models, Next
  PROVE  Models'
<1>1. CASE Accept
  BY <1>1 DEF Accept, Models, Locks, ControlOK, WordsOK, Nobody
<1>2. CASE LeaveLoop
  BY <1>2 DEF LeaveLoop, Models, Locks, ControlOK, WordsOK, Nobody
<1>3. CASE ReadInvalid
  BY <1>3 DEF ReadInvalid, Sends, Frame, Models, Locks, ControlOK, WordsOK,
         Nobody
<1>4. CASE ReadRejected
  BY <1>4 DEF ReadRejected, Models, Locks, ControlOK, WordsOK, Nobody
<1>5. CASE ConfigRejected
  BY <1>5 DEF ConfigRejected, Sends, Frame, Models, Locks, ControlOK, WordsOK,
         Nobody
<1>6. CASE ConfigAcquires
  BY <1>6 DEF ConfigAcquires, Models, Locks, ControlOK, WordsOK, Nobody
<1>7. CASE ReadEnd
  BY <1>7 DEF ReadEnd, Models, Locks, ControlOK, WordsOK, Nobody
<1>8. CASE \E n \in Chunks : ReadAudio(n)
  BY <1>8 DEF ReadAudio, Models, Locks, ControlOK, WordsOK, Nobody
<1>9. CASE AudioAppended
  BY <1>9 DEF AudioAppended, Models, Locks, ControlOK, WordsOK, Nobody
<1>10. CASE AudioDropped
  BY <1>10 DEF AudioDropped, Sends, Frame, Models, Locks, ControlOK, WordsOK,
         Nobody
<1>11. CASE ConfigSucceeds
  BY <1>11 DEF ConfigSucceeds, ConfigResets, Sends, Frame, Models, Locks, ControlOK, WordsOK,
         Nobody
<1>12. CASE ConfigFails
  BY <1>12 DEF ConfigFails, Sends, Frame, Models, Locks, ControlOK, WordsOK,
         Nobody
<1>13. CASE EndStarts
  BY <1>13 DEF EndStarts, Models, Locks, ControlOK, WordsOK, Nobody
<1>14. CASE EndFails
  BY <1>14 DEF EndFails, Models, Locks, ControlOK, WordsOK, Nobody
<1>15. CASE \E ends \in Ends : EndDecodes(ends)
  BY <1>15 DEF EndDecodes, Models, Locks, ControlOK, WordsOK, Nobody
<1>16. CASE Compose
  BY <1>16 DEF Compose, Sends, Frame, Models, Locks, ControlOK, WordsOK, Nobody
<1>17. CASE ReceiverWrites \/ ReceiverDrops
  BY <1>17 DEF ReceiverWrites, ReceiverDrops, Models, Locks, ControlOK, WordsOK, Nobody
<1>18. CASE ReceiverWritten
  BY <1>18 DEF ReceiverWritten, Models, Locks, ControlOK, WordsOK, Nobody
<1>19. CASE Close
  BY <1>19 DEF Close, Models, Locks, ControlOK, WordsOK, Nobody
<1>20. CASE Release
  BY <1>20 DEF Release, ReleaseModel, Models, Locks, ControlOK, WordsOK, Nobody
<1>21. CASE Destroy
  BY <1>21 DEF Destroy, Models, Locks, ControlOK, WordsOK, Nobody
<1>22. CASE Join
  BY <1>22 DEF Join, ReleaseModel, Models, Locks, ControlOK, WordsOK, Nobody
<1>23. CASE FlushExits
  BY <1>23 DEF FlushExits, Models, Locks, ControlOK, WordsOK, Nobody
<1>24. CASE FlushStarts
  BY <1>24 DEF FlushStarts, Models, Locks, ControlOK, WordsOK, Nobody
<1>25. CASE \E ends \in Ends : \E k \in 0..Len(ends) : \E okC, okP \in BOOLEAN :
             FlushDecodes(ends, k, okC, okP)
  BY <1>25 DEF FlushDecodes, Models, Locks, ControlOK, WordsOK, Nobody
<1>26. CASE FlushFails
  BY <1>26 DEF FlushFails, Models, Locks, ControlOK, WordsOK, Nobody
<1>27. CASE FlushWrites \/ FlushDrops
  BY <1>27 DEF FlushWrites, FlushDrops, Models, Locks, ControlOK, WordsOK, Nobody
<1>28. CASE FlushWritten
  BY <1>28 DEF FlushWritten, Models, Locks, ControlOK, WordsOK, Nobody
<1>29. CASE FlushRelocks
  BY <1>29 DEF FlushRelocks, Models, Locks, ControlOK, WordsOK, Nobody
<1>30. CASE PeerCloses
  BY <1>30 DEF PeerCloses, Models, Locks, ControlOK, WordsOK, Nobody
<1>31. CASE TimePasses
  BY <1>31 DEF TimePasses, Models, Locks, ControlOK, WordsOK, Nobody
<1>32. CASE Finished
  BY <1>32 DEF Finished, vars, Models, Locks, ControlOK, WordsOK, Nobody
<1> QED
  BY <1>1, <1>2, <1>3, <1>4, <1>5, <1>6, <1>7, <1>8, <1>9, <1>10, <1>11, <1>12,
     <1>13, <1>14, <1>15, <1>16, <1>17, <1>18, <1>19, <1>20, <1>21, <1>22,
     <1>23, <1>24, <1>25, <1>26, <1>27, <1>28, <1>29, <1>30, <1>31, <1>32
     DEF Next, ReceiverAlone, ReceiverContinues, FlusherStep

\* The flags stay Boolean.
LEMMA FlagsKept ==
  ASSUME FlagsOK, SizesOK, Next
  PROVE  FlagsOK'
<1>1. CASE \/ Accept \/ LeaveLoop \/ ReadInvalid \/ ReadRejected
          \/ ConfigRejected \/ ConfigAcquires \/ ReadEnd
          \/ (\E n \in Chunks : ReadAudio(n)) \/ ConfigFails
  BY <1>1 DEF Accept, LeaveLoop, ReadInvalid, ReadRejected, ConfigRejected,
         ConfigAcquires, ReadEnd, ReadAudio, ConfigFails, FlagsOK, SizesOK,
         Sends, Frame
<1>2. CASE \/ EndStarts \/ EndFails \/ Compose \/ ReceiverWrites
  BY <1>2 DEF EndStarts, EndFails, Compose, ReceiverWrites, FlagsOK
<1>13. CASE \/ ReceiverDrops \/ ReceiverWritten \/ Close \/ Destroy \/ FlushExits \/ FlushStarts
  BY <1>13 DEF ReceiverDrops, ReceiverWritten, Close, Destroy, FlushExits, FlushStarts, FlagsOK
<1>3. CASE \/ FlushFails \/ FlushWrites \/ FlushDrops \/ FlushWritten \/ FlushRelocks
          \/ PeerCloses
  BY <1>3 DEF FlushFails, FlushWrites, FlushDrops, FlushWritten, FlushRelocks, PeerCloses,
         FlagsOK, SizesOK, Sends, Frame
<1>4. CASE AudioAppended
  BY <1>4 DEF AudioAppended, FlagsOK, SizesOK, Sends, Frame
<1>5. CASE AudioDropped
  BY <1>5 DEF AudioDropped, Sends, Frame, FlagsOK, SizesOK, Sends, Frame
<1>6. CASE ConfigSucceeds
  BY <1>6 DEF ConfigSucceeds, ConfigResets, Sends, Frame, FlagsOK, SizesOK, Sends, Frame
<1>7. CASE \E ends \in Ends : EndDecodes(ends)
  BY <1>7 DEF EndDecodes, FlagsOK, SizesOK, Sends, Frame
<1>8. CASE \E ends \in Ends : \E k \in 0..Len(ends) : \E okC, okP \in BOOLEAN :
             FlushDecodes(ends, k, okC, okP)
  BY <1>8 DEF FlushDecodes, FlagsOK, SizesOK, Sends, Frame
<1>9. CASE Release
  BY <1>9 DEF Release, ReleaseModel, FlagsOK, SizesOK, Sends, Frame
<1>10. CASE Join
  BY <1>10 DEF Join, ReleaseModel, FlagsOK, SizesOK, Sends, Frame
<1>11. CASE TimePasses
  BY <1>11 DEF TimePasses, FlagsOK, SizesOK, Sends, Frame
<1>12. CASE Finished
  BY <1>12 DEF Finished, vars, FlagsOK, SizesOK, Sends, Frame
<1> QED
  BY <1>1, <1>2, <1>3, <1>4, <1>5, <1>6, <1>7, <1>8, <1>9, <1>10, <1>11, <1>12,
     <1>13
     DEF Next, ReceiverAlone, ReceiverContinues, FlusherStep

\* The buffer keeps within its cap, and the counters to the naturals.
LEMMA SizesOKKept ==
  ASSUME FlagsOK, SizesOK, Models, Next
  PROVE  SizesOK'
<1>1. CASE \/ Accept \/ LeaveLoop \/ ReadInvalid \/ ReadRejected
          \/ ConfigRejected \/ ReadEnd \/ ConfigFails \/ EndStarts \/ EndFails
  BY <1>1 DEF Accept, LeaveLoop, ReadInvalid, ReadRejected, ConfigRejected,
         ReadEnd, ConfigFails, EndStarts, EndFails, SizesOK, FlagsOK, Models,
         Sends, Frame
<1>2. CASE \/ Compose \/ ReceiverWrites \/ ReceiverDrops \/ ReceiverWritten \/ Close \/ Destroy
          \/ FlushExits \/ FlushStarts \/ FlushFails \/ FlushWrites \/ FlushDrops
  BY <1>2 DEF Compose, ReceiverWrites, ReceiverDrops, ReceiverWritten, Close, Destroy,
         FlushExits, FlushStarts, FlushFails, FlushWrites, FlushDrops, SizesOK, FlagsOK,
         Models, Sends, Frame
<1>3. CASE \/ FlushWritten \/ FlushRelocks \/ PeerCloses \/ TimePasses
  BY <1>3 DEF FlushWritten, FlushRelocks, PeerCloses, TimePasses, SizesOK,
         FlagsOK, Models, Sends, Frame
<1>4. CASE AudioAppended
  <2>1. chunk \in Nat
    BY SessionAssumption DEF SizesOK
  <2>2. buffer' \in buffer..MaxBuffer
    BY <1>4, <2>1, ChunkFits DEF AudioAppended, SizesOK
  <2> QED
    BY <1>4, <2>2, WindowAssumption DEF AudioAppended, SizesOK
<1>5. CASE AudioDropped
  BY <1>5 DEF AudioDropped, Sends, Frame, AtHighWater, SizesOK, FlagsOK,
         Models, Sends, Frame
<1>6. CASE ConfigAcquires
  BY <1>6 DEF ConfigAcquires, SizesOK, FlagsOK, Models, Sends, Frame
<1>7. CASE ConfigSucceeds
  BY <1>7, WindowAssumption DEF ConfigSucceeds, ConfigResets, Sends, Frame, NoEpisode,
         SizesOK, FlagsOK, Models, Sends, Frame
<1>8. CASE \E n \in Chunks : ReadAudio(n)
  BY <1>8 DEF ReadAudio, SizesOK, FlagsOK, Models, Sends, Frame
<1>9. CASE \E ends \in Ends : EndDecodes(ends)
  <2>1. buffer' \in {0, buffer}
    BY <1>9, ForceFits DEF EndDecodes
  <2>2. episode' \in {episode, NoEpisode} /\ commits' \in {commits, commits + 1}
    BY <1>9 DEF EndDecodes
  <2> QED
    BY <1>9, <2>1, <2>2, WindowAssumption DEF EndDecodes, NoEpisode, SizesOK
<1>10. CASE \E ends \in Ends : \E k \in 0..Len(ends) : \E okC, okP \in BOOLEAN :
             FlushDecodes(ends, k, okC, okP)
  <2> PICK ends \in Ends : \E k \in 0..Len(ends) : \E okC, okP \in BOOLEAN :
             FlushDecodes(ends, k, okC, okP)
    BY <1>10
  <2> PICK k \in 0..Len(ends), okC \in BOOLEAN, okP \in BOOLEAN :
             FlushDecodes(ends, k, okC, okP)
    OBVIOUS
  <2>1. buffer' \in 0..buffer
    BY CommitFits, SessionAssumption DEF FlushDecodes, SizesOK
  <2>2. last_transcribed_size_' \in {buffer, buffer'}
    BY DEF FlushDecodes, NewlyTranscribed
  <2>3. episode' \in {episode, NoEpisode} /\ commits' \in {commits, commits + 1}
    BY DEF FlushDecodes
  <2> QED
    BY <2>1, <2>2, <2>3, WindowAssumption DEF FlushDecodes, NoEpisode, SizesOK
<1>11. CASE Release
  BY <1>11, WindowAssumption DEF Release, ReleaseModel, SizesOK, FlagsOK,
         Models, Sends, Frame
<1>12. CASE Join
  BY <1>12, WindowAssumption DEF Join, ReleaseModel, SizesOK, FlagsOK, Models,
         Sends, Frame
<1>13. CASE Finished
  BY <1>13 DEF Finished, vars, SizesOK, FlagsOK, Models, Sends, Frame
<1> QED
  BY <1>1, <1>2, <1>3, <1>4, <1>5, <1>6, <1>7, <1>8, <1>9, <1>10, <1>11, <1>12,
     <1>13
     DEF Next, ReceiverAlone, ReceiverContinues, FlusherStep

\* What sendMessage() is given.
Frames == [kind : {"none", "error", "warning", "ready", "final"}, text : Words,
           utf8 : BOOLEAN, next : {"read", "close"}]

\* Texts stay lists of commits.
LEMMA WordsKept ==
  ASSUME SizesOK, WordsOK, Next
  PROVE  WordsOK'
<1>1. CASE \/ Accept \/ LeaveLoop \/ ReadRejected \/ ConfigAcquires \/ ReadEnd
          \/ (\E n \in Chunks : ReadAudio(n)) \/ AudioAppended \/ EndStarts
          \/ EndFails
  BY <1>1 DEF Accept, LeaveLoop, ReadRejected, ConfigAcquires, ReadEnd,
         ReadAudio, AudioAppended, EndStarts, EndFails, WordsOK, Words, SizesOK
<1>2. CASE \/ ReceiverWrites \/ Close \/ Release \/ Destroy \/ Join
          \/ FlushExits \/ FlushStarts \/ FlushFails \/ FlushWrites
  BY <1>2 DEF ReceiverWrites, Close, Release, Destroy, Join, FlushExits,
         FlushStarts, FlushFails, FlushWrites, WordsOK, Words, SizesOK
<1>15. CASE ReceiverDrops \/ FlushDrops
  <2>1. <<>> \in Words
    BY DEF Words
  <2>2. rmsg' \in {rmsg, NoFrame} /\ ftext' \in {ftext, <<>>} /\ UNCHANGED <<text, client>>
    BY <1>15 DEF ReceiverDrops, FlushDrops
  <2>3. NoFrame \in Frames
    BY <2>1 DEF NoFrame, Frame, Frames
  <2> QED
    BY <2>1, <2>2, <2>3 DEF WordsOK, Frames
<1>3. CASE \/ FlushRelocks \/ PeerCloses \/ TimePasses
  BY <1>3 DEF FlushRelocks, PeerCloses, TimePasses, WordsOK, Words, SizesOK
<1>4. CASE ReadInvalid
  BY <1>4 DEF ReadInvalid, Sends, Frame, WordsOK, Words, SizesOK
<1>5. CASE AudioDropped
  <2>1. <<>> \in Words
    BY DEF Words
  <2>2. rmsg' \in {rmsg, Frame("warning", <<>>, TRUE, "read")}
    BY <1>5 DEF AudioDropped, Sends
  <2>3. UNCHANGED <<text, ftext, client>>
    BY <1>5 DEF AudioDropped
  <2>4. Frame("warning", <<>>, TRUE, "read") \in Frames
    BY <2>1 DEF Frame, Frames
  <2> QED
    BY <2>2, <2>3, <2>4 DEF WordsOK, Frames
<1>6. CASE ConfigRejected
  BY <1>6 DEF ConfigRejected, Sends, Frame, WordsOK, Words, SizesOK
<1>7. CASE ConfigSucceeds
  BY <1>7 DEF ConfigSucceeds, ConfigResets, Sends, Frame, WordsOK, Words, SizesOK
<1>8. CASE ConfigFails
  BY <1>8 DEF ConfigFails, Sends, Frame, WordsOK, Words, SizesOK
<1>9. CASE \E ends \in Ends : EndDecodes(ends)
  <2>1. Append(full_transcription_, Commit(TRUE)) \in Words
    <3>1. [n |-> commits + 1, ok |-> TRUE] \in [n : Nat, ok : BOOLEAN]
      BY DEF SizesOK
    <3>2. full_transcription_ \in Words
      BY DEF WordsOK
    <3> QED
      BY <3>1, <3>2 DEF Words, Commit
  <2>2. full_transcription_' \in Words
    BY <1>9, <2>1 DEF EndDecodes, OrRaw, WordsOK
  <2> QED
    BY <1>9, <2>2 DEF EndDecodes, WordsOK
<1>10. CASE Compose
  <2>1. Torn \in Words /\ full_transcription_ \in Words
    BY DEF Torn, Words, WordsOK
  <2>2. PICK words \in ReadUnlocked, utf8 \in BOOLEAN : rmsg' = Frame("final", words, utf8, "close")
    BY <1>10 DEF Compose, Sends
  <2>3. words \in Words
    BY <2>1 DEF ReadUnlocked
  <2> QED
    BY <1>10, <2>2, <2>3 DEF Compose, Frame, WordsOK
<1>11. CASE ReceiverWritten
  <2>1. client' \in [text : Words, final : BOOLEAN]
    <3>1. <<>> \in Words
      BY DEF Words
    <3> QED
      BY <1>11, <3>1 DEF ReceiverWritten, Receives, WordsOK
  <2>2. rmsg' = [kind |-> "none", text |-> <<>>, utf8 |-> TRUE, next |-> "read"]
    BY <1>11 DEF ReceiverWritten, NoFrame, Frame
  <2> QED
    BY <1>11, <2>1, <2>2 DEF ReceiverWritten, WordsOK, Words
<1>12. CASE \E ends \in Ends : \E k \in 0..Len(ends) : \E okC, okP \in BOOLEAN :
             FlushDecodes(ends, k, okC, okP)
  <2> PICK ends \in Ends : \E k \in 0..Len(ends) : \E okC, okP \in BOOLEAN :
             FlushDecodes(ends, k, okC, okP)
    BY <1>12
  <2> PICK k \in 0..Len(ends), okC \in BOOLEAN, okP \in BOOLEAN :
             FlushDecodes(ends, k, okC, okP)
    OBVIOUS
  <2>1. /\ Append(full_transcription_, Commit(okC)) \in Words
        /\ Append(raw_transcription_, Commit(okC)) \in Words
    BY CommitIsWord DEF WordsOK, Words
  <2>2. full_transcription_' \in Words /\ raw_transcription_' \in Words
    BY <2>1 DEF FlushDecodes, Accumulated, WordsOK
  <2> QED
    BY <2>2 DEF FlushDecodes, WordsOK
<1>13. CASE FlushWritten
  BY <1>13 DEF FlushWritten, Receives, Frame, WordsOK, Words, SizesOK
<1>14. CASE Finished
  BY <1>14 DEF Finished, vars, WordsOK, Words, SizesOK
<1> QED
  BY <1>1, <1>2, <1>3, <1>4, <1>5, <1>6, <1>7, <1>8, <1>9, <1>10, <1>11, <1>12,
     <1>13, <1>14, <1>15
     DEF Next, ReceiverAlone, ReceiverContinues, FlusherStep

\* What has been transcribed is no more than the buffer holds: a chunk adds to
\* the buffer, a decode notes what it leaves, and after the final decode, which
\* does not, no chunk comes.
LEMMA SizesKept ==
  ASSUME ControlOK, WordsOK, SizesOK, Locks, Models, Sizes, Next
  PROVE  Sizes'
<1>1. CASE Accept
  BY <1>1 DEF Accept, Sizes, Ended, Locks, Models, ControlOK, WordsOK, SizesOK,
         Nobody
<1>2. CASE LeaveLoop
  BY <1>2 DEF LeaveLoop, Sizes, Ended, Locks, Models, ControlOK, WordsOK,
         SizesOK, Nobody
<1>3. CASE ReadInvalid
  BY <1>3 DEF ReadInvalid, Sends, Frame, Sizes, Ended, Locks, Models,
         ControlOK, WordsOK, SizesOK, Nobody
<1>4. CASE ReadRejected
  BY <1>4 DEF ReadRejected, Sizes, Ended, Locks, Models, ControlOK, WordsOK,
         SizesOK, Nobody
<1>5. CASE ConfigRejected
  BY <1>5 DEF ConfigRejected, Sends, Frame, Sizes, Ended, Locks, Models,
         ControlOK, WordsOK, SizesOK, Nobody
<1>6. CASE ConfigAcquires
  BY <1>6 DEF ConfigAcquires, Sizes, Ended, Locks, Models, ControlOK, WordsOK,
         SizesOK, Nobody
<1>7. CASE ReadEnd
  BY <1>7 DEF ReadEnd, Sizes, Ended, Locks, Models, ControlOK, WordsOK,
         SizesOK, Nobody
<1>8. CASE \E n \in Chunks : ReadAudio(n)
  BY <1>8 DEF ReadAudio, Sizes, Ended, Locks, Models, ControlOK, WordsOK,
         SizesOK, Nobody
<1>9. CASE AudioAppended
  <2>1. chunk \in Nat
    BY SessionAssumption DEF SizesOK
  <2>2. buffer' \in buffer..MaxBuffer
    BY <1>9, <2>1, ChunkFits DEF AudioAppended, SizesOK
  <2> QED
    BY <1>9, <2>2, WindowAssumption DEF AudioAppended, Sizes, Ended,
       Models, Locks, SizesOK, ControlOK, Nobody
<1>10. CASE AudioDropped
  BY <1>10 DEF AudioDropped, Sends, Frame, Sizes, Ended, Locks, Models,
         ControlOK, WordsOK, SizesOK, Nobody
<1>11. CASE ConfigSucceeds
  BY <1>11 DEF ConfigSucceeds, ConfigResets, Sends, Frame, Sizes, Ended, Locks, Models,
         ControlOK, WordsOK, SizesOK, Nobody
<1>12. CASE ConfigFails
  BY <1>12 DEF ConfigFails, Sends, Frame, Sizes, Ended, Locks, Models,
         ControlOK, WordsOK, SizesOK, Nobody
<1>13. CASE EndStarts
  BY <1>13 DEF EndStarts, Sizes, Ended, Locks, Models, ControlOK, WordsOK,
         SizesOK, Nobody
<1>14. CASE EndFails
  BY <1>14 DEF EndFails, Sizes, Ended, Locks, Models, ControlOK, WordsOK,
         SizesOK, Nobody
<1>15. CASE \E ends \in Ends : EndDecodes(ends)
  BY <1>15, ForceFits DEF EndDecodes, Sizes, Ended, Locks, Models, ControlOK,
         WordsOK, SizesOK, Nobody
<1>16. CASE Compose
  BY <1>16 DEF Compose, Sends, Frame, Sizes, Ended, Locks, Models, ControlOK,
         WordsOK, SizesOK, Nobody
<1>17. CASE ReceiverWrites \/ ReceiverDrops
  BY <1>17 DEF ReceiverWrites, ReceiverDrops, Sizes, Ended, Locks, Models, ControlOK, WordsOK,
         SizesOK, Nobody
<1>18. CASE ReceiverWritten
  BY <1>18 DEF ReceiverWritten, Sizes, Ended, Locks, Models, ControlOK,
         WordsOK, SizesOK, Nobody
<1>19. CASE Close
  BY <1>19 DEF Close, Sizes, Ended, Locks, Models, ControlOK, WordsOK, SizesOK,
         Nobody
<1>20. CASE Release
  BY <1>20 DEF Release, ReleaseModel, Sizes, Ended, Locks, Models, ControlOK,
         WordsOK, SizesOK, Nobody
<1>21. CASE Destroy
  BY <1>21 DEF Destroy, Sizes, Ended, Locks, Models, ControlOK, WordsOK,
         SizesOK, Nobody
<1>22. CASE Join
  BY <1>22 DEF Join, ReleaseModel, Sizes, Ended, Locks, Models, ControlOK,
         WordsOK, SizesOK, Nobody
<1>23. CASE FlushExits
  BY <1>23 DEF FlushExits, Sizes, Ended, Locks, Models, ControlOK, WordsOK,
         SizesOK, Nobody
<1>24. CASE FlushStarts
  BY <1>24 DEF FlushStarts, Sizes, Ended, Locks, Models, ControlOK, WordsOK,
         SizesOK, Nobody
<1>25. CASE \E ends \in Ends : \E k \in 0..Len(ends) : \E okC, okP \in BOOLEAN :
             FlushDecodes(ends, k, okC, okP)
  BY <1>25, CommitFits, SessionAssumption DEF FlushDecodes, NewlyTranscribed,
         Sizes, Ended, Locks, Models, ControlOK, WordsOK, SizesOK, Nobody
<1>26. CASE FlushFails
  BY <1>26 DEF FlushFails, Sizes, Ended, Locks, Models, ControlOK, WordsOK,
         SizesOK, Nobody
<1>27. CASE FlushWrites \/ FlushDrops
  BY <1>27 DEF FlushWrites, FlushDrops, Sizes, Ended, Locks, Models, ControlOK, WordsOK,
         SizesOK, Nobody
<1>28. CASE FlushWritten
  BY <1>28 DEF FlushWritten, Sizes, Ended, Locks, Models, ControlOK, WordsOK,
         SizesOK, Nobody
<1>29. CASE FlushRelocks
  BY <1>29 DEF FlushRelocks, Sizes, Ended, Locks, Models, ControlOK, WordsOK,
         SizesOK, Nobody
<1>30. CASE PeerCloses
  BY <1>30 DEF PeerCloses, Sizes, Ended, Locks, Models, ControlOK, WordsOK,
         SizesOK, Nobody
<1>31. CASE TimePasses
  BY <1>31 DEF TimePasses, Sizes, Ended, Locks, Models, ControlOK, WordsOK,
         SizesOK, Nobody
<1>32. CASE Finished
  BY <1>32 DEF Finished, vars, Sizes, Ended, Locks, Models, ControlOK, WordsOK,
         SizesOK, Nobody
<1> QED
  BY <1>1, <1>2, <1>3, <1>4, <1>5, <1>6, <1>7, <1>8, <1>9, <1>10, <1>11, <1>12,
     <1>13, <1>14, <1>15, <1>16, <1>17, <1>18, <1>19, <1>20, <1>21, <1>22,
     <1>23, <1>24, <1>25, <1>26, <1>27, <1>28, <1>29, <1>30, <1>31, <1>32
     DEF Next, ReceiverAlone, ReceiverContinues, FlusherStep

\* A chunk is dropped only at the high-water mark, where the buffer got by a
\* chunk that was not, which cleared buffer_overflowed_.
LEMMA EpisodesKept ==
  ASSUME FlagsOK, SizesOK, Models, Episodes, Next
  PROVE  Episodes'
<1>1. CASE UNCHANGED <<engine_, buffer, buffer_overflowed_, episode>>
  BY <1>1 DEF Episodes, AtHighWater
<1>2. CASE \/ Accept \/ LeaveLoop \/ ReadInvalid \/ ReadRejected
          \/ ConfigRejected \/ ConfigAcquires \/ ReadEnd
          \/ (\E n \in Chunks : ReadAudio(n)) \/ ConfigFails
          \/ EndStarts \/ EndFails \/ Compose \/ ReceiverWrites \/ ReceiverDrops
          \/ ReceiverWritten \/ Close \/ Destroy
  BY <1>1, <1>2 DEF Accept, LeaveLoop, ReadInvalid, ReadRejected, ConfigRejected,
         ConfigAcquires, ReadEnd, ReadAudio, ConfigFails, EndStarts, EndFails, Compose,
         ReceiverWrites, ReceiverDrops, ReceiverWritten, Close, Destroy
<1>3. CASE \/ FlushExits \/ FlushStarts \/ FlushFails \/ FlushWrites \/ FlushDrops
          \/ FlushWritten \/ FlushRelocks \/ PeerCloses \/ TimePasses
  BY <1>1, <1>3 DEF FlushExits, FlushStarts, FlushFails, FlushWrites, FlushDrops,
         FlushWritten, FlushRelocks, PeerCloses, TimePasses
<1>4. CASE AudioAppended
  BY <1>4, ChunkFits, SessionAssumption DEF AudioAppended, Episodes, Models,
         FlagsOK, SizesOK, NoEpisode, AtHighWater
<1>5. CASE AudioDropped
  BY <1>5 DEF AudioDropped, Sends, Frame, ShouldWarn, Episodes, Models,
         FlagsOK, SizesOK, NoEpisode, AtHighWater
<1>6. CASE ConfigSucceeds
  <2>1. ~AtHighWater(buffer')
    BY <1>6, WindowAssumption DEF ConfigSucceeds, ConfigResets, AtHighWater
  <2> QED
    BY <1>6, <2>1 DEF ConfigSucceeds, ConfigResets, NoEpisode, Episodes, AtHighWater
<1>7. CASE \E ends \in Ends : EndDecodes(ends)
  BY <1>7, ForceFits, WindowAssumption DEF EndDecodes, Episodes, Models,
         FlagsOK, SizesOK, NoEpisode, AtHighWater
<1>8. CASE \E ends \in Ends : \E k \in 0..Len(ends) : \E okC, okP \in BOOLEAN :
             FlushDecodes(ends, k, okC, okP)
  <2>1. /\ engine_ /\ engine_' = engine_
        /\ buffer_overflowed_' = (buffer_overflowed_ /\ AtHighWater(buffer'))
        /\ episode' = IF AtHighWater(buffer') THEN episode ELSE NoEpisode
    BY <1>8 DEF FlushDecodes, Models
  <2>2. AtHighWater(buffer') => AtHighWater(buffer)
    <3> PICK ends \in Ends : \E k \in 0..Len(ends) : \E okC, okP \in BOOLEAN :
             FlushDecodes(ends, k, okC, okP)
      BY <1>8
    <3> PICK k \in 0..Len(ends), okC \in BOOLEAN, okP \in BOOLEAN : FlushDecodes(ends, k, okC, okP)
      OBVIOUS
    <3>1. buffer' = AfterCommit(k, buffer, ends) /\ WindowCommit(k, buffer, ends)
      BY DEF FlushDecodes
    <3>2. buffer \in 0..MaxBuffer /\ buffer' \in 0..buffer
      BY <3>1, CommitFits, WindowAssumption, SessionAssumption DEF SizesOK
    <3> QED
      BY <3>2, WindowAssumption, SessionAssumption DEF AtHighWater
  <2> QED
    BY <2>1, <2>2 DEF Episodes, NoEpisode, FlagsOK
<1>9. CASE Release
  BY <1>9 DEF Release, ReleaseModel, Episodes, Models, FlagsOK, SizesOK,
         NoEpisode, AtHighWater
<1>10. CASE Join
  BY <1>10 DEF Join, ReleaseModel, Episodes, Models, FlagsOK, SizesOK,
         NoEpisode, AtHighWater
<1>11. CASE Finished
  BY <1>11 DEF Finished, vars, Episodes, Models, FlagsOK, SizesOK, NoEpisode,
         AtHighWater
<1> QED
  BY <1>1, <1>2, <1>3, <1>4, <1>5, <1>6, <1>7, <1>8, <1>9, <1>10, <1>11
     DEF Next, ReceiverAlone, ReceiverContinues, FlusherStep

-----------------------------------------------------------------------------
(* The references of a session that is configured at most once. *)

\* It has one from ConfigAcquires to Release, and otherwise none.
OneReference ==
  /\ refs = IF rpc = "engine" \/ model_acquired_ THEN 1 ELSE 0
  /\ configs = 0 => ~model_acquired_ /\ rpc # "engine"
  /\ rpc = "gone" => ~model_acquired_ /\ ~engine_

\* ConfigAcquires happens once, and Release undoes it.
LEMMA ReferenceKept ==
  ASSUME MaxConfigs = 1, ControlOK, WordsOK, SizesOK, Models, OneReference, Next
  PROVE  OneReference'
<1>1. CASE \/ Accept \/ LeaveLoop \/ ReadInvalid \/ ReadRejected
          \/ ConfigRejected \/ ReadEnd \/ (\E n \in Chunks : ReadAudio(n))
          \/ AudioAppended \/ AudioDropped
  BY <1>1 DEF Accept, LeaveLoop, ReadInvalid, ReadRejected, ConfigRejected,
         ReadEnd, ReadAudio, AudioAppended, AudioDropped, OneReference, Models,
         ControlOK, WordsOK, SizesOK, Sends, Frame
<1>2. CASE \/ EndStarts \/ EndFails \/ Compose \/ ReceiverWrites \/ ReceiverDrops \/ Close
          \/ Destroy \/ FlushExits \/ FlushStarts
          \/ (\E ends \in Ends : \E k \in 0..Len(ends) : \E okC, okP \in BOOLEAN :
             FlushDecodes(ends, k, okC, okP))
  BY <1>2 DEF EndStarts, EndFails, Compose, ReceiverWrites, ReceiverDrops, Close, Destroy,
         FlushExits, FlushStarts, FlushDecodes, OneReference, Models,
         ControlOK, WordsOK, SizesOK, Sends, Frame
<1>3. CASE \/ FlushFails \/ FlushWrites \/ FlushDrops \/ FlushWritten \/ FlushRelocks
          \/ PeerCloses \/ TimePasses
  BY <1>3 DEF FlushFails, FlushWrites, FlushDrops, FlushWritten, FlushRelocks, PeerCloses,
         TimePasses, OneReference, Models, ControlOK, WordsOK, SizesOK, Sends,
         Frame
<1>4. CASE ConfigAcquires
  BY <1>4 DEF ConfigAcquires, OneReference, Models, ControlOK, WordsOK,
         SizesOK, Sends, Frame
<1>5. CASE ConfigSucceeds
  BY <1>5 DEF ConfigSucceeds, ConfigResets, OneReference, Models, ControlOK, WordsOK,
         SizesOK, Sends, Frame
<1>6. CASE ConfigFails
  BY <1>6 DEF ConfigFails, OneReference, Models, ControlOK, WordsOK, SizesOK,
         Sends, Frame
<1>7. CASE \E ends \in Ends : EndDecodes(ends)
  BY <1>7 DEF EndDecodes, OneReference, Models, ControlOK, WordsOK, SizesOK,
         Sends, Frame
<1>8. CASE ReceiverWritten
  BY <1>8 DEF ReceiverWritten, OneReference, Models, ControlOK, WordsOK,
         SizesOK, Sends, Frame
<1>9. CASE Release
  BY <1>9 DEF Release, ReleaseModel, OneReference, Models, ControlOK, WordsOK,
         SizesOK, Sends, Frame
<1>10. CASE Join
  BY <1>10 DEF Join, ReleaseModel, OneReference, Models, ControlOK, WordsOK,
         SizesOK, Sends, Frame
<1>11. CASE Finished
  BY <1>11 DEF Finished, vars, OneReference, Models, ControlOK, WordsOK,
         SizesOK, Sends, Frame
<1> QED
  BY <1>1, <1>2, <1>3, <1>4, <1>5, <1>6, <1>7, <1>8, <1>9, <1>10, <1>11
     DEF Next, ReceiverAlone, ReceiverContinues, FlusherStep

-----------------------------------------------------------------------------
(* The operators on texts. *)

\* HeardUpTo obeys its definition: there is such a function.
LEMMA HeardUpToRecurs ==
  ASSUME NEW words \in Words
  PROVE  /\ HeardUpTo(words)[0] = <<>>
         /\ \A i \in 1..Len(words) :
              HeardUpTo(words)[i] = IF words[i].ok THEN Append(HeardUpTo(words)[i - 1], words[i])
                                    ELSE HeardUpTo(words)[i - 1]
<1> DEFINE n == Len(words)
           step == [p \in (1..n) \X Words |->
                      IF words[p[1]].ok THEN Append(p[2], words[p[1]]) ELSE p[2]]
<1>1. n \in Nat /\ <<>> \in Words
  BY DEF Words
<1>2. step \in [(1..n) \X Words -> Words]
  BY DEF Words
<1>3. PICK h \in [0..n -> Words] : Iterates(h, n, <<>>, step)
  <2> HIDE DEF n, step
  <2> QED
    BY <1>1, <1>2, Recursion
<1>4. ASSUME NEW i \in 1..n
      PROVE  h[i] = IF words[i].ok THEN Append(h[i - 1], words[i]) ELSE h[i - 1]
  <2>1. i - 1 \in 0..n
    BY <1>1
  <2>2. <<i, h[i - 1]>> \in (1..n) \X Words
    BY <2>1
  <2> QED
    BY <1>3, <2>2 DEF Iterates
<1>5. h = [i \in 0..n |->
             IF i = 0 THEN <<>>
             ELSE IF words[i].ok THEN Append(h[i - 1], words[i]) ELSE h[i - 1]]
  <2>1. \A i \in 0..n : i = 0 \/ i \in 1..n
    BY <1>1
  <2> HIDE DEF step, n
  <2> QED
    BY <1>3, <1>4, <2>1, Zenon DEF Iterates
<1>6. HeardUpTo(words) =
        [i \in 0..n |->
           IF i = 0 THEN <<>>
           ELSE IF words[i].ok THEN Append(HeardUpTo(words)[i - 1], words[i])
           ELSE HeardUpTo(words)[i - 1]]
  BY <1>5, Zenon DEF HeardUpTo
<1>7. 0 \in 0..n /\ \A i \in 1..n : i \in 0..n /\ i # 0
  BY <1>1
<1> HIDE DEF step
<1> QED
  BY <1>6, <1>7, Zenon

\* Nothing is heard in an empty text.
LEMMA HeardEmpty == Heard(<<>>) = <<>>
<1>1. <<>> \in Words /\ Len(<<>>) = 0
  BY DEF Words
<1> QED
  BY <1>1, HeardUpToRecurs DEF Heard

\* A commit is heard after what was, or not at all.
LEMMA HeardAppend ==
  ASSUME NEW words \in Words, NEW c \in [n : Nat, ok : BOOLEAN]
  PROVE  Heard(Append(words, c)) = IF c.ok THEN Append(Heard(words), c) ELSE Heard(words)
<1> DEFINE n == Len(words)
           longer == Append(words, c)
           S == {i \in 0..n : HeardUpTo(longer)[i] = HeardUpTo(words)[i]}
<1>1. /\ n \in Nat /\ longer \in Words /\ Len(longer) = n + 1
      /\ longer[n + 1] = c /\ \A i \in 1..n : longer[i] = words[i]
  BY DEF Words
<1>2. 0 \in S
  <2>1. HeardUpTo(longer)[0] = HeardUpTo(words)[0]
    BY <1>1, HeardUpToRecurs
  <2> QED
    BY <1>1, <2>1
<1>3. ASSUME NEW i \in 0..n - 1, i \in S PROVE i + 1 \in S
  <2>1. i + 1 \in 1..n /\ i + 1 \in 1..Len(longer) /\ i + 1 - 1 = i
    BY <1>1
  <2>2. longer[i + 1] = words[i + 1] /\ HeardUpTo(longer)[i] = HeardUpTo(words)[i]
    BY <1>1, <1>3, <2>1
  <2>3. HeardUpTo(longer)[i + 1] = HeardUpTo(words)[i + 1]
    <3> HIDE DEF longer
    <3>1. HeardUpTo(longer)[i + 1] =
            IF longer[i + 1].ok THEN Append(HeardUpTo(longer)[i], longer[i + 1])
            ELSE HeardUpTo(longer)[i]
      BY <1>1, <2>1, HeardUpToRecurs
    <3>2. HeardUpTo(words)[i + 1] =
            IF words[i + 1].ok THEN Append(HeardUpTo(words)[i], words[i + 1])
            ELSE HeardUpTo(words)[i]
      BY <1>1, <2>1, HeardUpToRecurs
    <3> QED
      BY <2>2, <3>1, <3>2
  <2> QED
    BY <2>1, <2>3
<1>4. 0..n \subseteq S
  <2>1. n \in Nat
    BY <1>1
  <2> HIDE DEF S, n
  <2> QED
    BY <1>2, <1>3, <2>1, Induction
<1> HIDE DEF longer
<1>5. HeardUpTo(longer)[n + 1] =
        IF c.ok THEN Append(HeardUpTo(longer)[n], c) ELSE HeardUpTo(longer)[n]
  <2>1. n + 1 \in 1..Len(longer) /\ n + 1 - 1 = n
    BY <1>1
  <2> QED
    BY <1>1, <2>1, HeardUpToRecurs
<1>6. HeardUpTo(longer)[n] = HeardUpTo(words)[n]
  BY <1>1, <1>4
<1>7. Heard(longer) = HeardUpTo(longer)[n + 1] /\ Heard(words) = HeardUpTo(words)[n]
  BY <1>1 DEF Heard
<1> QED
  BY <1>5, <1>6, <1>7 DEF longer

\* What a prefix is, place by place.
LEMMA PrefixByPlaces ==
  ASSUME NEW s \in Words, NEW t \in Words
  PROVE  IsPrefixOf(s, t) <=> Len(s) <= Len(t) /\ \A i \in 1..Len(s) : s[i] = t[i]
<1>1. CASE Len(s) <= Len(t)
  <2>1. /\ SubSeq(t, 1, Len(s)) \in Words
        /\ Len(SubSeq(t, 1, Len(s))) = Len(s)
        /\ \A i \in 1..Len(s) : SubSeq(t, 1, Len(s))[i] = t[i]
    <3>1. Len(s) \in Nat /\ Len(t) \in Nat
      BY DEF Words
    <3>2. Len(s) - 1 + 1 = Len(s) /\ \A i \in 1..Len(s) : i \in 1..Len(t) /\ 1 + i - 1 = i
      BY <1>1, <3>1
    <3>3. \A i \in 1..Len(t) : t[i] \in [n : Nat, ok : BOOLEAN]
      BY ElementOfSeq, Zenon DEF Words
    <3> QED
      BY <3>1, <3>2, <3>3, SubSeqProperties DEF Words
  <2>2. SubSeq(t, 1, Len(s)) = s <=> \A i \in 1..Len(s) : s[i] = t[i]
    BY <2>1 DEF Words
  <2> QED
    BY <1>1, <2>2 DEF IsPrefixOf
<1>2. CASE ~(Len(s) <= Len(t))
  BY <1>2 DEF IsPrefixOf
<1> QED
  BY <1>1, <1>2

\* A text is a prefix of itself, and the empty one of every other.
LEMMA PrefixSelf ==
  ASSUME NEW s \in Words
  PROVE  IsPrefixOf(s, s) /\ IsPrefixOf(<<>>, s)
<1>1. <<>> \in Words /\ Len(<<>>) = 0 /\ Len(s) \in Nat
  BY DEF Words
<1> QED
  BY <1>1, PrefixByPlaces

\* A prefix of a prefix is one.
LEMMA PrefixOfPrefix ==
  ASSUME NEW s \in Words, NEW t \in Words, NEW u \in Words, IsPrefixOf(s, t), IsPrefixOf(t, u)
  PROVE  IsPrefixOf(s, u)
<1>1. Len(s) \in Nat /\ Len(t) \in Nat /\ Len(u) \in Nat
  BY DEF Words
<1>2. Len(s) <= Len(t) /\ \A i \in 1..Len(s) : s[i] = t[i]
  BY PrefixByPlaces
<1>3. Len(t) <= Len(u) /\ \A i \in 1..Len(t) : t[i] = u[i]
  BY PrefixByPlaces
<1>4. Len(s) <= Len(u) /\ \A i \in 1..Len(s) : s[i] = u[i]
  BY <1>1, <1>2, <1>3
<1> QED
  BY <1>4, PrefixByPlaces

\* A commit more is no other beginning.
LEMMA PrefixOfLonger ==
  ASSUME NEW t \in Words, NEW c \in [n : Nat, ok : BOOLEAN]
  PROVE  Append(t, c) \in Words /\ IsPrefixOf(t, Append(t, c))
<1> DEFINE longer == Append(t, c)
<1>1. /\ longer \in Words /\ Len(t) \in Nat /\ Len(longer) = Len(t) + 1
      /\ \A i \in 1..Len(t) : longer[i] = t[i]
  BY DEF Words
<1> HIDE DEF longer
<1>2. longer \in Words /\ IsPrefixOf(t, longer)
  BY <1>1, PrefixByPlaces
<1> USE DEF longer
<1> QED
  BY <1>2

-----------------------------------------------------------------------------
(* The final text. *)

\* Until the final decode the transcription is what was heard of the raw text.
HeardText == Ended \/ full_transcription_ = Heard(raw_transcription_)

\* Once no audio is added any more, none ever is: the session closes.
LEMMA EndedStays ==
  ASSUME ControlOK, WordsOK, Locks, Ended, Next
  PROVE  Ended'
<1>1. CASE \/ Accept \/ LeaveLoop \/ ReadInvalid \/ ReadRejected
          \/ ConfigRejected \/ ConfigAcquires \/ ReadEnd
          \/ (\E n \in Chunks : ReadAudio(n)) \/ AudioAppended \/ AudioDropped
  BY <1>1 DEF Accept, LeaveLoop, ReadInvalid, ReadRejected, ConfigRejected,
         ConfigAcquires, ReadEnd, ReadAudio, AudioAppended, AudioDropped, Sends, Frame, Ended
<1>2. CASE \/ ConfigSucceeds \/ ConfigFails \/ EndStarts \/ EndFails
          \/ (\E ends \in Ends : EndDecodes(ends)) \/ Release \/ Destroy \/ Join
  BY <1>2 DEF ConfigSucceeds, ConfigResets, ConfigFails, EndStarts, EndFails, EndDecodes, Release,
     Destroy,
         Join, Sends, Frame, Ended
<1>3. CASE Compose
  BY <1>3 DEF Compose, Sends, Frame, Ended
<1>4. CASE ReceiverWrites \/ ReceiverDrops
  BY <1>4 DEF ReceiverWrites, ReceiverDrops, Ended
<1>5. CASE ReceiverWritten
  BY <1>5 DEF ReceiverWritten, Ended
<1>6. CASE Close
  BY <1>6 DEF Close, Ended
<1>7. CASE \/ FlushExits \/ FlushStarts \/ FlushFails \/ FlushWrites \/ FlushDrops \/ FlushWritten
          \/ FlushRelocks \/ TimePasses \/ PeerCloses
  BY <1>7 DEF FlushExits, FlushStarts, FlushFails, FlushWrites, FlushDrops, FlushWritten,
     FlushRelocks,
         TimePasses, PeerCloses, Ended
<1>8. CASE \E ends \in Ends : \E k \in 0..Len(ends) : \E okC, okP \in BOOLEAN :
             FlushDecodes(ends, k, okC, okP)
  BY <1>8 DEF FlushDecodes, Ended
<1>9. CASE Finished
  BY <1>9 DEF Finished, vars, Ended
<1> QED
  BY <1>1, <1>2, <1>3, <1>4, <1>5, <1>6, <1>7, <1>8, <1>9
     DEF Next, ReceiverAlone, ReceiverContinues, FlusherStep

\* Only a new configuration and the decodes touch the transcriptions, and count.
LEMMA TextKept ==
  ASSUME Next
  PROVE  \/ UNCHANGED <<text, commits, since>>
         \/ ConfigSucceeds
         \/ \E ends \in Ends : EndDecodes(ends)
         \/ \E ends \in Ends : \E k \in 0..Len(ends) : \E okC, okP \in BOOLEAN :
               FlushDecodes(ends, k, okC, okP)
<1>1. CASE \/ Accept \/ LeaveLoop \/ ReadInvalid \/ ReadRejected
          \/ ConfigRejected \/ ConfigAcquires \/ ReadEnd
          \/ (\E n \in Chunks : ReadAudio(n)) \/ AudioAppended \/ AudioDropped
  BY <1>1 DEF Accept, LeaveLoop, ReadInvalid, ReadRejected, ConfigRejected,
         ConfigAcquires, ReadEnd, ReadAudio, AudioAppended, AudioDropped
<1>2. CASE \/ ConfigFails \/ EndStarts \/ EndFails \/ Compose \/ ReceiverWrites \/ ReceiverDrops
          \/ ReceiverWritten \/ Close \/ Release \/ Destroy \/ Join
  BY <1>2 DEF ConfigFails, EndStarts, EndFails, Compose, ReceiverWrites, ReceiverDrops,
     ReceiverWritten,
         Close, Release, Destroy, Join
<1>3. CASE \/ FlushExits \/ FlushStarts \/ FlushFails \/ FlushWrites \/ FlushDrops \/ FlushWritten
          \/ FlushRelocks \/ TimePasses \/ PeerCloses
  BY <1>3 DEF FlushExits, FlushStarts, FlushFails, FlushWrites, FlushDrops, FlushWritten,
     FlushRelocks,
         TimePasses, PeerCloses
<1>4. CASE Finished
  BY <1>4 DEF Finished, vars
<1> QED
  BY <1>1, <1>2, <1>3, <1>4 DEF Next, ReceiverAlone, ReceiverContinues, FlusherStep

\* A flush decode that commits adds the commit to both texts or, when it is
\* filtered, to the raw one.
LEMMA HeardTextKept ==
  ASSUME ControlOK, SizesOK, WordsOK, Locks, HeardText, Next
  PROVE  HeardText'
<1>1. CASE Ended
  BY <1>1, EndedStays DEF HeardText
<1>2. CASE ~Ended /\ UNCHANGED text
  BY <1>2 DEF HeardText
<1>3. CASE ConfigSucceeds
  BY <1>3, HeardEmpty DEF ConfigSucceeds, ConfigResets, HeardText
<1>4. CASE \E ends \in Ends : EndDecodes(ends)
  BY <1>4 DEF EndDecodes, HeardText, Ended
<1>5. CASE ~Ended /\ \E ends \in Ends : \E k \in 0..Len(ends) : \E okC, okP \in BOOLEAN :
             FlushDecodes(ends, k, okC, okP)
  <2> PICK ends \in Ends : \E k \in 0..Len(ends) : \E okC, okP \in BOOLEAN :
             FlushDecodes(ends, k, okC, okP)
    BY <1>5
  <2> PICK k \in 0..Len(ends), okC \in BOOLEAN, okP \in BOOLEAN :
             FlushDecodes(ends, k, okC, okP)
    OBVIOUS
  <2>1. full_transcription_ = Heard(raw_transcription_) /\ raw_transcription_ \in Words
    BY <1>5 DEF HeardText, WordsOK
  <2>2. Commit(okC) \in [n : Nat, ok : BOOLEAN] /\ Commit(okC).ok = okC
    BY CommitIsWord DEF Commit
  <2>3. CASE k > 0
    <3>1. /\ raw_transcription_' = Append(raw_transcription_, Commit(okC))
          /\ full_transcription_' = IF okC THEN Append(full_transcription_, Commit(okC))
                                    ELSE full_transcription_
      BY <2>3 DEF FlushDecodes, Accumulated
    <3> QED
      BY <2>1, <2>2, <3>1, HeardAppend DEF HeardText
  <2>4. CASE ~(k > 0)
    BY <2>1, <2>4 DEF FlushDecodes, Accumulated, HeardText
  <2> QED
    BY <2>3, <2>4
<1> QED
  BY <1>1, <1>2, <1>3, <1>4, <1>5, TextKept

-----------------------------------------------------------------------------
(* What the client is shown by a session that is configured at most once. *)

\* Before the engine is there, nothing is transcribed or shown.
Unconfigured ==
  /\ rpc = "engine" => configs # 0
  /\ configs = 0 \/ rpc = "engine" =>
       /\ ~configured_ /\ ~engine_
       /\ rpc \notin {"audio", "end", "decode", "compose"}
       /\ rmsg.kind \notin {"final", "ready"}
       /\ fpc \notin {"infer", "send", "write"}
       /\ client = [text |-> <<>>, final |-> FALSE]

\* The client has been shown a beginning of the transcription, and the flush
\* thread has a longer one under way to it.
Shown ==
  /\ ~client.final => IsPrefixOf(client.text, full_transcription_)
  /\ fpc \in {"send", "write"} =>
       /\ IsPrefixOf(ftext, full_transcription_)
       /\ ~client.final => IsPrefixOf(client.text, ftext)

\* The one configuration comes before everything else.
LEMMA UnconfiguredKept ==
  ASSUME MaxConfigs = 1, ControlOK, WordsOK, SizesOK, Locks, Models, Unconfigured, Next
  PROVE  Unconfigured'
<1>1. CASE \/ Accept \/ LeaveLoop \/ ReadInvalid \/ ReadRejected
          \/ ConfigRejected \/ ReadEnd \/ (\E n \in Chunks : ReadAudio(n))
          \/ AudioAppended
  BY <1>1 DEF Accept, LeaveLoop, ReadInvalid, ReadRejected, ConfigRejected,
         ReadEnd, ReadAudio, AudioAppended, Sends, Frame, Unconfigured, WordsOK
<1>2. CASE AudioDropped
  <2>1. configs # 0 /\ configs' = configs /\ rpc' # "engine"
    BY <1>2 DEF AudioDropped, Sends, Unconfigured
  <2> QED
    BY <2>1 DEF Unconfigured
<1>3. CASE ConfigAcquires
  BY <1>3 DEF ConfigAcquires, Unconfigured, SizesOK
<1>4. CASE ConfigSucceeds \/ ConfigFails
  <2>1. configs # 0
    BY <1>4 DEF ConfigSucceeds, ConfigResets, ConfigFails, Unconfigured
  <2> QED
    BY <1>4, <2>1 DEF ConfigSucceeds, ConfigResets, ConfigFails, Sends, Frame, Unconfigured
<1>5. CASE \/ EndStarts \/ EndFails \/ (\E ends \in Ends : EndDecodes(ends)) \/ Compose
  BY <1>5 DEF EndStarts, EndFails, EndDecodes, Compose, Sends, Frame, Unconfigured
<1>6. CASE ReceiverWrites \/ ReceiverDrops \/ Close \/ Destroy
  BY <1>6 DEF ReceiverWrites, ReceiverDrops, NoFrame, Frame, Close, Destroy, Unconfigured, WordsOK
<1>7. CASE ReceiverWritten
  BY <1>7 DEF ReceiverWritten, Receives, NoFrame, Frame, Unconfigured, WordsOK
<1>8. CASE Release \/ Join
  BY <1>8 DEF Release, Join, ReleaseModel, Unconfigured
<1>9. CASE \/ FlushExits \/ FlushStarts \/ FlushFails \/ FlushRelocks \/ TimePasses
          \/ PeerCloses
  BY <1>9 DEF FlushExits, FlushStarts, FlushFails, FlushRelocks, TimePasses, PeerCloses,
         Unconfigured
<1>12. CASE FlushWrites \/ FlushDrops \/ FlushWritten
  <2>1. UNCHANGED <<rpc, configs>> /\ fpc \in {"send", "write"}
    BY <1>12 DEF FlushWrites, FlushDrops, FlushWritten
  <2> QED
    BY <2>1 DEF Unconfigured
<1>10. CASE \E ends \in Ends : \E k \in 0..Len(ends) : \E okC, okP \in BOOLEAN :
             FlushDecodes(ends, k, okC, okP)
  BY <1>10 DEF FlushDecodes, Unconfigured
<1>11. CASE Finished
  BY <1>11 DEF Finished, vars, Unconfigured
<1> QED
  BY <1>1, <1>2, <1>3, <1>4, <1>5, <1>6, <1>7, <1>8, <1>9, <1>10, <1>11, <1>12
     DEF Next, ReceiverAlone, ReceiverContinues, FlusherStep

\* But for a new configuration, the transcription only grows at its end.
LEMMA TranscriptionGrows ==
  ASSUME SizesOK, WordsOK, Next, ~ConfigSucceeds
  PROVE  IsPrefixOf(full_transcription_, full_transcription_')
<1>1. full_transcription_ \in Words /\ raw_transcription_ \in Words
  BY DEF WordsOK
<1>2. ASSUME NEW ok \in BOOLEAN
      PROVE  IsPrefixOf(full_transcription_, Append(full_transcription_, Commit(ok)))
  BY <1>1, CommitIsWord, PrefixOfLonger
<1>3. CASE UNCHANGED text
  BY <1>1, <1>3, PrefixSelf
<1>4. CASE \E ends \in Ends : EndDecodes(ends)
  <2>1. \/ full_transcription_' = Append(full_transcription_, Commit(TRUE))
        \/ full_transcription_' = full_transcription_
        \/ full_transcription_ = <<>> /\ full_transcription_' = raw_transcription_
    BY <1>4 DEF EndDecodes, OrRaw
  <2> QED
    BY <1>1, <1>2, <2>1, PrefixSelf
<1>5. CASE \E ends \in Ends : \E k \in 0..Len(ends) : \E okC, okP \in BOOLEAN :
             FlushDecodes(ends, k, okC, okP)
  <2>1. \/ \E ok \in BOOLEAN :
             full_transcription_' = Append(full_transcription_, Commit(ok))
        \/ full_transcription_' = full_transcription_
    BY <1>5 DEF FlushDecodes, Accumulated
  <2> QED
    BY <1>1, <1>2, <2>1, PrefixSelf
<1> QED
  BY <1>3, <1>4, <1>5, TextKept

\* A partial transcription is the whole one at the end of its decode; the client
\* gets it later, when the transcription may have grown, but before another.
LEMMA ShownKept ==
  ASSUME ControlOK, SizesOK, WordsOK, WordsOK', Unconfigured, Shown, Next
  PROVE  Shown'
<1>1. /\ full_transcription_ \in Words /\ full_transcription_' \in Words
      /\ client.text \in Words /\ ftext \in Words
  BY DEF WordsOK
<1>2. ASSUME ~ConfigSucceeds, NEW s \in Words, IsPrefixOf(s, full_transcription_)
      PROVE  IsPrefixOf(s, full_transcription_')
  BY <1>1, <1>2, TranscriptionGrows, PrefixOfPrefix
<1>3. CASE ConfigSucceeds
  BY <1>1, <1>3, PrefixSelf DEF ConfigSucceeds, ConfigResets, Unconfigured, Shown
<1>4. CASE ReceiverWritten
  <2>1. ~ConfigSucceeds /\ fpc' = fpc /\ ftext' = ftext
    BY <1>4 DEF ReceiverWritten, ConfigSucceeds, ConfigResets
  <2>2. \/ client' = client
        \/ client'.final
        \/ client'.text = <<>>
    BY <1>4 DEF ReceiverWritten, Receives, WordsOK
  <2> QED
    BY <1>1, <1>2, <2>1, <2>2, PrefixSelf DEF Shown
<1>5. CASE \E ends \in Ends : \E k \in 0..Len(ends) : \E okC, okP \in BOOLEAN :
             FlushDecodes(ends, k, okC, okP)
  <2>1. /\ ~ConfigSucceeds /\ client' = client
        /\ fpc' \in {"send", "write"} => ftext' = full_transcription_'
    BY <1>5 DEF FlushDecodes, ConfigSucceeds, ConfigResets
  <2> QED
    BY <1>1, <1>2, <2>1, PrefixSelf DEF Shown
<1>6. CASE FlushWritten
  <2>1. /\ ~ConfigSucceeds /\ fpc' = "relock" /\ fpc = "write"
        /\ client' = client \/ client'.text = ftext
    BY <1>6 DEF FlushWritten, Receives, Frame, ConfigSucceeds, ConfigResets
  <2> QED
    BY <1>1, <1>2, <2>1 DEF Shown
<1>7. CASE UNCHANGED <<client, ftext>> /\ ~ConfigSucceeds
          /\ (fpc' \in {"send", "write"} => fpc \in {"send", "write"})
  BY <1>1, <1>2, <1>7 DEF Shown
<1>8. CASE \/ Accept \/ LeaveLoop \/ ReadInvalid \/ ReadRejected
          \/ ConfigRejected \/ ConfigAcquires \/ ReadEnd
          \/ (\E n \in Chunks : ReadAudio(n)) \/ AudioAppended \/ AudioDropped
  BY <1>7, <1>8 DEF Accept, LeaveLoop, ReadInvalid, ReadRejected, ConfigRejected,
         ConfigAcquires, ReadEnd, ReadAudio, AudioAppended, AudioDropped, ConfigSucceeds,
         ConfigResets
<1>9. CASE \/ (ConfigFails /\ ~ConfigSucceeds) \/ EndStarts \/ EndFails
          \/ (\E ends \in Ends : EndDecodes(ends))
          \/ Compose \/ ReceiverWrites \/ ReceiverDrops \/ Close \/ Release \/ Destroy \/ Join
  BY <1>7, <1>9 DEF ConfigFails, EndStarts, EndFails, EndDecodes, Compose, ReceiverWrites,
     ReceiverDrops,
         Close, Release, Destroy, Join, ConfigSucceeds, ConfigResets
<1>10. CASE \/ FlushExits \/ FlushStarts \/ FlushFails \/ FlushWrites \/ FlushRelocks
          \/ TimePasses \/ PeerCloses
  BY <1>7, <1>10 DEF FlushExits, FlushStarts, FlushFails, FlushWrites, FlushRelocks,
         TimePasses, PeerCloses, ConfigSucceeds, Sends
<1>12. CASE FlushDrops
  <2>1. fpc' = "relock" /\ client' = client /\ ~ConfigSucceeds
    BY <1>12 DEF FlushDrops, ConfigSucceeds, Sends
  <2> QED
    BY <1>1, <1>2, <2>1 DEF Shown
<1>11. CASE Finished
  BY <1>1, <1>11 DEF Finished, vars, Shown
<1> QED
  BY <1>3, <1>4, <1>5, <1>6, <1>8, <1>9, <1>10, <1>11, <1>12
     DEF Next, ReceiverAlone, ReceiverContinues, FlusherStep

\* The raw text has commits of the configuration in force, in order.
RawInOrder ==
  /\ Numbers(raw_transcription_) \subseteq since + 1..commits
  /\ \A i, j \in DOMAIN raw_transcription_ :
       i < j => raw_transcription_[i].n < raw_transcription_[j].n

\* The transcription is complete all the time, not only when it is sent.
Complete == since <= commits /\ RawInOrder /\ IsComplete(full_transcription_)

\* The places and the numbers of a text with one more commit.
LEMMA OneMore ==
  ASSUME NEW words \in Words, NEW c \in [n : Nat, ok : BOOLEAN]
  PROVE  /\ Len(words) \in Nat /\ DOMAIN words = 1..Len(words)
         /\ DOMAIN Append(words, c) = 1..Len(words) + 1
         /\ Append(words, c)[Len(words) + 1] = c
         /\ \A i \in DOMAIN words : Append(words, c)[i] = words[i]
         /\ Numbers(Append(words, c)) = Numbers(words) \cup {c.n}
<1> DEFINE longer == Append(words, c)
<1>1. /\ Len(words) \in Nat /\ DOMAIN words = 1..Len(words)
      /\ DOMAIN longer = 1..Len(words) + 1
      /\ longer[Len(words) + 1] = c
      /\ \A i \in DOMAIN words : longer[i] = words[i]
  BY DEF Words
<1>2. Numbers(longer) = Numbers(words) \cup {c.n}
  <2> HIDE DEF longer
  <2>1. ASSUME NEW m \in Numbers(longer) PROVE m \in Numbers(words) \cup {c.n}
    <3>1. PICK i \in 1..Len(words) + 1 : m = longer[i].n
      BY <1>1 DEF Numbers
    <3>2. i = Len(words) + 1 \/ i \in DOMAIN words
      BY <1>1
    <3> QED
      BY <1>1, <3>1, <3>2 DEF Numbers
  <2>2. ASSUME NEW m \in Numbers(words) \cup {c.n} PROVE m \in Numbers(longer)
    <3>1. Len(words) + 1 \in DOMAIN longer /\ \A i \in DOMAIN words : i \in DOMAIN longer
      BY <1>1
    <3> QED
      BY <1>1, <3>1 DEF Numbers
  <2> QED
    BY <2>1, <2>2
<1> QED
  BY <1>1, <1>2

\* The next commit comes after all that a text has.
LEMMA NextIsLast ==
  ASSUME NEW words \in Words, NEW ok \in BOOLEAN, SizesOK, since <= commits,
         Numbers(words) \subseteq since + 1..commits,
         NEW i \in DOMAIN Append(words, Commit(ok)), NEW j \in DOMAIN Append(words, Commit(ok)),
         i < j
  PROVE  \/ /\ i \in DOMAIN words /\ j \in DOMAIN words
            /\ Append(words, Commit(ok))[i] = words[i] /\ Append(words, Commit(ok))[j] = words[j]
         \/ /\ Append(words, Commit(ok))[i].n < Append(words, Commit(ok))[j].n
            /\ Append(words, Commit(ok))[j].ok = ok
<1> DEFINE longer == Append(words, Commit(ok))
<1>1. Commit(ok) \in [n : Nat, ok : BOOLEAN] /\ Commit(ok).n = commits + 1 /\ Commit(ok).ok = ok
  BY CommitIsWord DEF Commit
<1>2. /\ Len(words) \in Nat /\ DOMAIN words = 1..Len(words)
      /\ DOMAIN longer = 1..Len(words) + 1
      /\ longer[Len(words) + 1] = Commit(ok)
      /\ \A m \in DOMAIN words : longer[m] = words[m]
  BY <1>1, OneMore
<1> HIDE DEF longer
<1>3. i \in 1..Len(words) + 1 /\ j \in 1..Len(words) + 1
  BY <1>2 DEF longer
<1>4. CASE j = Len(words) + 1
  <2>1. i \in DOMAIN words
    BY <1>2, <1>3, <1>4
  <2>2. words[i].n \in since + 1..commits
    BY <2>1 DEF Numbers
  <2>3. words[i].n < commits + 1
    BY <2>2 DEF SizesOK
  <2>4. longer[i].n < longer[j].n /\ longer[j].ok = ok
    BY <1>1, <1>2, <1>4, <2>1, <2>3
  <2> QED
    BY <2>4 DEF longer
<1>5. CASE j # Len(words) + 1
  <2>1. i \in DOMAIN words /\ j \in DOMAIN words
    BY <1>2, <1>3, <1>5
  <2> QED
    BY <1>2, <2>1 DEF longer
<1> QED
  BY <1>4, <1>5

\* A commit that enters the transcription leaves it complete.
LEMMA CommitCompletes ==
  ASSUME SizesOK, WordsOK, Complete, since' = since, commits' = commits + 1,
         full_transcription_' = Append(full_transcription_, Commit(TRUE)),
         Filtered \subseteq Filtered'
  PROVE  IsComplete(full_transcription_)'
<1>1. /\ full_transcription_ \in Words /\ since \in Nat /\ commits \in Nat /\ since <= commits
      /\ Numbers(full_transcription_) \subseteq since + 1..commits
      /\ since + 1..commits \subseteq Numbers(full_transcription_) \cup Filtered
  BY DEF WordsOK, SizesOK, Complete, IsComplete
<1>2. Numbers(full_transcription_') = Numbers(full_transcription_) \cup {commits + 1}
  <2>1. Commit(TRUE) \in [n : Nat, ok : BOOLEAN] /\ Commit(TRUE).n = commits + 1
    BY CommitIsWord DEF Commit
  <2>2. Numbers(Append(full_transcription_, Commit(TRUE))) =
          Numbers(full_transcription_) \cup {Commit(TRUE).n}
    BY <1>1, <2>1, OneMore, Zenon
  <2> QED
    BY <2>1, <2>2, Zenon
<1>3. since + 1..commits + 1 = (since + 1..commits) \cup {commits + 1}
  BY <1>1
<1>4. \A i, j \in DOMAIN full_transcription_' :
        i < j => /\ full_transcription_'[i].n < full_transcription_'[j].n
                 /\ full_transcription_'[i].ok => full_transcription_'[j].ok
  BY <1>1, NextIsLast, Zenon DEF Complete, IsComplete
<1>5. Numbers(full_transcription_)' = Numbers(full_transcription_')
  BY DEF Numbers
<1> QED
  BY <1>1, <1>2, <1>3, <1>4, <1>5 DEF IsComplete

\* A commit that enters the raw text leaves it in order, and is filtered if it is
\* not let through.
LEMMA RawGrows ==
  ASSUME SizesOK, WordsOK, Complete, NEW ok \in BOOLEAN, since' = since, commits' = commits + 1,
         raw_transcription_' = Append(raw_transcription_, Commit(ok))
  PROVE  RawInOrder' /\ Filtered \subseteq Filtered' /\ (~ok => commits + 1 \in Filtered')
<1>1. /\ raw_transcription_ \in Words /\ since \in Nat /\ commits \in Nat /\ since <= commits
      /\ Numbers(raw_transcription_) \subseteq since + 1..commits
  BY DEF WordsOK, SizesOK, Complete, RawInOrder
<1>2. Commit(ok) \in [n : Nat, ok : BOOLEAN] /\ Commit(ok).n = commits + 1 /\ Commit(ok).ok = ok
  BY CommitIsWord DEF Commit
<1>3. Numbers(raw_transcription_') = Numbers(raw_transcription_) \cup {commits + 1}
  BY <1>1, <1>2, OneMore
<1>4. \A i, j \in DOMAIN raw_transcription_' :
        i < j => raw_transcription_'[i].n < raw_transcription_'[j].n
  <2>1. \A i, j \in DOMAIN Append(raw_transcription_, Commit(ok)) :
          i < j => \/ /\ i \in DOMAIN raw_transcription_ /\ j \in DOMAIN raw_transcription_
                      /\ Append(raw_transcription_, Commit(ok))[i] = raw_transcription_[i]
                      /\ Append(raw_transcription_, Commit(ok))[j] = raw_transcription_[j]
                   \/ Append(raw_transcription_, Commit(ok))[i].n
                        < Append(raw_transcription_, Commit(ok))[j].n
    BY <1>1, NextIsLast, Zenon
  <2>2. \A i, j \in DOMAIN raw_transcription_ :
          i < j => raw_transcription_[i].n < raw_transcription_[j].n
    BY DEF Complete, RawInOrder
  <2> QED
    BY <2>1, <2>2, Zenon
<1>5. RawInOrder'
  <2>1. Numbers(raw_transcription_)' \subseteq since + 1..commits + 1
    BY <1>1, <1>3 DEF Numbers
  <2> QED
    BY <1>4, <2>1 DEF RawInOrder
<1>6. /\ \A i \in DOMAIN raw_transcription_ : /\ i \in DOMAIN raw_transcription_'
                                              /\ raw_transcription_'[i] = raw_transcription_[i]
      /\ Len(raw_transcription_) + 1 \in DOMAIN raw_transcription_'
      /\ raw_transcription_'[Len(raw_transcription_) + 1] = Commit(ok)
  <2>1. /\ Len(raw_transcription_) \in Nat
        /\ DOMAIN raw_transcription_ = 1..Len(raw_transcription_)
        /\ DOMAIN raw_transcription_' = 1..Len(raw_transcription_) + 1
        /\ raw_transcription_'[Len(raw_transcription_) + 1] = Commit(ok)
        /\ \A i \in DOMAIN raw_transcription_ : raw_transcription_'[i] = raw_transcription_[i]
    BY <1>1, <1>2, OneMore
  <2> QED
    BY <2>1
<1>7. Filtered \subseteq Filtered' /\ (~ok => commits + 1 \in Filtered')
  BY <1>2, <1>6 DEF Filtered
<1> QED
  BY <1>5, <1>7

\* When all was filtered, the raw text is all of it.
LEMMA RawIsComplete ==
  ASSUME WordsOK, Complete, full_transcription_ = <<>>
  PROVE  IsComplete(raw_transcription_)
<1>1. since + 1..commits \subseteq Filtered
  <2>1. Numbers(<<>>) = {}
    BY DEF Numbers
  <2> QED
    BY <2>1 DEF Complete, IsComplete
<1>2. Filtered \subseteq Numbers(raw_transcription_)
  BY DEF Filtered, Numbers
<1>3. ASSUME NEW i \in DOMAIN raw_transcription_ PROVE ~raw_transcription_[i].ok
  <2>1. raw_transcription_[i].n \in Filtered
    BY <1>1 DEF Complete, RawInOrder, Numbers
  <2>2. PICK j \in DOMAIN raw_transcription_ :
          ~raw_transcription_[j].ok /\ raw_transcription_[j].n = raw_transcription_[i].n
    BY <2>1 DEF Filtered
  <2>3. /\ i \in Nat /\ raw_transcription_[i].n \in Nat
        /\ j \in Nat /\ raw_transcription_[j].n \in Nat
    <3>1. /\ Len(raw_transcription_) \in Nat
          /\ DOMAIN raw_transcription_ = 1..Len(raw_transcription_)
          /\ \A m \in 1..Len(raw_transcription_) : raw_transcription_[m] \in [n : Nat, ok : BOOLEAN]
      <4>1. raw_transcription_ \in Seq([n : Nat, ok : BOOLEAN])
        BY DEF WordsOK, Words
      <4> DEFINE Commits == [n : Nat, ok : BOOLEAN]
      <4>2. raw_transcription_ \in Seq(Commits)
        BY <4>1
      <4> HIDE DEF Commits
      <4>3. \A m \in 1..Len(raw_transcription_) : raw_transcription_[m] \in Commits
        BY <4>2
      <4>4. /\ Len(raw_transcription_) \in Nat
            /\ DOMAIN raw_transcription_ = 1..Len(raw_transcription_)
        BY <4>2
      <4> QED
        BY <4>3, <4>4 DEF Commits
    <3>2. /\ i \in 1..Len(raw_transcription_) /\ raw_transcription_[i].n \in Nat
          /\ j \in 1..Len(raw_transcription_) /\ raw_transcription_[j].n \in Nat
      BY <3>1
    <3> QED
      BY <3>1, <3>2
  <2>4. ~(i < j) /\ ~(j < i)
    BY <2>2, <2>3 DEF Complete, RawInOrder
  <2> QED
    BY <2>2, <2>3, <2>4
<1> QED
  BY <1>1, <1>2, <1>3 DEF Complete, RawInOrder, IsComplete

\* The texts stay complete: a commit enters one or both, the fallback replaces
\* what is empty, and a new configuration starts over.
LEMMA CompleteKept ==
  ASSUME SizesOK, WordsOK, Complete, Next
  PROVE  Complete'
<1>1. since \in Nat /\ commits \in Nat /\ since <= commits
  BY DEF SizesOK, Complete
<1>2. CASE UNCHANGED <<text, commits, since>>
  BY <1>2 DEF Complete, RawInOrder, IsComplete, Numbers, Filtered
<1>3. CASE ConfigSucceeds
  <2>1. /\ since' = commits /\ commits' = commits
        /\ full_transcription_' = <<>> /\ raw_transcription_' = <<>>
    BY <1>3 DEF ConfigSucceeds, ConfigResets
  <2>2. since' + 1..commits' = {}
    BY <1>1, <2>1
  <2>3. DOMAIN <<>> = {}
    OBVIOUS
  <2> QED
    BY <1>1, <2>1, <2>2, <2>3 DEF Complete, RawInOrder, IsComplete, Numbers
<1>4. ASSUME NEW ends \in Ends, EndDecodes(ends) PROVE Complete'
  <2>1. UNCHANGED <<raw_transcription_, since>>
    BY <1>4 DEF EndDecodes
  <2>2. CASE ends # <<>>
    <3>1. commits' = commits + 1
          /\ full_transcription_' = Append(full_transcription_, Commit(TRUE))
      BY <1>4, <2>2 DEF EndDecodes
    <3>2. Filtered \subseteq Filtered'
      BY <2>1 DEF Filtered
    <3>3. IsComplete(full_transcription_)'
      BY <2>1, <3>1, <3>2, CommitCompletes
    <3>4. RawInOrder'
      <4>1. since + 1..commits \subseteq since + 1..commits + 1
        BY <1>1
      <4> QED
        BY <2>1, <3>1, <4>1 DEF Complete, RawInOrder, Numbers
    <3>5. since' <= commits'
      BY <1>1, <2>1, <3>1
    <3> QED
      BY <3>3, <3>4, <3>5, Zenon DEF Complete
  <2>3. CASE ends = <<>>
    <3>1. commits' = commits
          /\ full_transcription_' = OrRaw(full_transcription_)
      BY <1>4, <2>3 DEF EndDecodes
    <3>2. IsComplete(OrRaw(full_transcription_))
      BY RawIsComplete DEF OrRaw, Complete
    <3>3. IsComplete(full_transcription_)'
      BY <2>1, <3>1, <3>2 DEF IsComplete, Numbers, Filtered
    <3>4. RawInOrder'
      BY <2>1, <3>1 DEF Complete, RawInOrder, Numbers
    <3>5. since' <= commits'
      BY <1>1, <2>1, <3>1
    <3> QED
      BY <3>3, <3>4, <3>5, Zenon DEF Complete
  <2> QED
    BY <2>2, <2>3
<1>5. ASSUME NEW ends \in Ends, NEW k \in 0..Len(ends), NEW okC \in BOOLEAN, NEW okP \in BOOLEAN,
             FlushDecodes(ends, k, okC, okP)
      PROVE  Complete'
  <2>1. since' = since
    BY <1>5 DEF FlushDecodes
  <2>2. CASE k > 0
    <3>1. commits' = commits + 1
          /\ raw_transcription_' = Append(raw_transcription_, Commit(okC))
      BY <1>5, <2>2 DEF FlushDecodes
    <3>2. RawInOrder' /\ Filtered \subseteq Filtered' /\ (~okC => commits + 1 \in Filtered')
      BY <2>1, <3>1, RawGrows
    <3>3. CASE okC
      <4>1. full_transcription_' = Append(full_transcription_, Commit(TRUE))
        BY <1>5, <2>2, <3>3 DEF FlushDecodes, Accumulated
      <4>2. IsComplete(full_transcription_)'
        BY <2>1, <3>1, <3>2, <4>1, CommitCompletes
      <4>3. since' <= commits'
        BY <1>1, <2>1, <3>1
      <4> QED
        BY <3>2, <4>2, <4>3, Zenon DEF Complete
    <3>4. CASE ~okC
      <4>1. full_transcription_' = full_transcription_
        BY <1>5, <3>4 DEF FlushDecodes, Accumulated
      <4>2. since + 1..commits + 1 = (since + 1..commits) \cup {commits + 1}
        BY <1>1
      <4>3. Numbers(full_transcription_)' = Numbers(full_transcription_)
        BY <4>1 DEF Numbers
      <4>4. /\ Numbers(full_transcription_)' \subseteq since' + 1..commits'
            /\ since' + 1..commits' \subseteq Numbers(full_transcription_)' \cup Filtered'
        BY <2>1, <3>1, <3>2, <3>4, <4>2, <4>3 DEF Complete, IsComplete
      <4>5. IsComplete(full_transcription_)'
        BY <4>1, <4>4 DEF Complete, IsComplete
      <4>6. since' <= commits'
        BY <1>1, <2>1, <3>1
      <4> QED
        BY <3>2, <4>5, <4>6, Zenon DEF Complete
    <3> QED
      BY <3>3, <3>4
  <2>3. CASE ~(k > 0)
    <3>1. UNCHANGED <<text, commits, since>>
      BY <1>5, <2>1, <2>3 DEF FlushDecodes, Accumulated
    <3> QED
      BY <1>2, <3>1
  <2> QED
    BY <2>2, <2>3
<1> QED
  BY <1>2, <1>3, <1>4, <1>5, TextKept, Zenon

\* Only the final decode leads to the composing of the final frame.
LEMMA OnlyEndDecodes ==
  ASSUME Next, rpc = "decode", rpc' = "compose"
  PROVE  \E ends \in Ends : EndDecodes(ends)
<1>1. ~(\/ Accept \/ LeaveLoop \/ ReadInvalid \/ ReadRejected \/ ConfigRejected
        \/ ConfigAcquires \/ ReadEnd \/ (\E n \in Chunks : ReadAudio(n))
        \/ AudioAppended \/ AudioDropped \/ ConfigSucceeds \/ ConfigFails)
  BY DEF Accept, LeaveLoop, ReadInvalid, ReadRejected, ConfigRejected, ConfigAcquires,
     ReadEnd, ReadAudio, AudioAppended, AudioDropped, ConfigSucceeds, ConfigResets, ConfigFails
<1>2. ~(\/ EndStarts \/ EndFails \/ Compose \/ ReceiverWrites \/ ReceiverDrops
        \/ ReceiverWritten \/ Close
        \/ Release \/ Destroy \/ Join)
  BY DEF EndStarts, EndFails, Compose, ReceiverWrites, ReceiverDrops, ReceiverWritten, Close,
     Release,
     Destroy, Join
<1>3. ~(\/ FlushExits \/ FlushStarts \/ FlushFails \/ FlushWrites \/ FlushDrops \/ FlushWritten
        \/ FlushRelocks \/ TimePasses \/ PeerCloses \/ Finished)
  BY DEF FlushExits, FlushStarts, FlushFails, FlushWrites, FlushDrops, FlushWritten, FlushRelocks,
     TimePasses, PeerCloses, Finished, vars
<1>4. ~\E ends \in Ends : \E k \in 0..Len(ends) : \E okC, okP \in BOOLEAN :
         FlushDecodes(ends, k, okC, okP)
  BY DEF FlushDecodes
<1> QED
  BY <1>1, <1>2, <1>3, <1>4 DEF Next, ReceiverAlone, ReceiverContinues, FlusherStep

\* Only handleEnd() has composed when it goes on to send.
LEMMA OnlyCompose ==
  ASSUME Next, rpc = "compose", rpc' = "send"
  PROVE  Compose
<1>1. ~(\/ Accept \/ LeaveLoop \/ ReadInvalid \/ ReadRejected \/ ConfigRejected
        \/ ConfigAcquires \/ ReadEnd \/ (\E n \in Chunks : ReadAudio(n))
        \/ AudioAppended \/ AudioDropped \/ ConfigSucceeds \/ ConfigFails)
  BY DEF Accept, LeaveLoop, ReadInvalid, ReadRejected, ConfigRejected, ConfigAcquires,
     ReadEnd, ReadAudio, AudioAppended, AudioDropped, ConfigSucceeds, ConfigFails
<1>2. ~(\/ EndStarts \/ EndFails \/ (\E ends \in Ends : EndDecodes(ends)) \/ ReceiverWrites
        \/ ReceiverDrops \/ ReceiverWritten \/ Close \/ Release \/ Destroy \/ Join)
  BY DEF EndStarts, EndFails, EndDecodes, ReceiverWrites, ReceiverDrops, ReceiverWritten,
     Close, Release, Destroy, Join
<1>3. ~(\/ FlushExits \/ FlushStarts \/ FlushFails \/ FlushWrites \/ FlushDrops
        \/ FlushWritten \/ FlushRelocks \/ TimePasses \/ PeerCloses \/ Finished)
  BY DEF FlushExits, FlushStarts, FlushFails, FlushWrites, FlushDrops, FlushWritten,
     FlushRelocks, TimePasses, PeerCloses, Finished, vars
<1>4. ~\E ends \in Ends : \E k \in 0..Len(ends) : \E okC, okP \in BOOLEAN :
         FlushDecodes(ends, k, okC, okP)
  BY DEF FlushDecodes
<1> QED
  BY <1>1, <1>2, <1>3, <1>4 DEF Next, ReceiverAlone, ReceiverContinues, FlusherStep

\* Only the end of a write lets the flush thread go on to its last lock().
LEMMA OnlyFlushWritten ==
  ASSUME Next, fpc = "write", fpc' = "relock"
  PROVE  FlushWritten
<1>1. ~(\/ Accept \/ LeaveLoop \/ ReadInvalid \/ ReadRejected \/ ConfigRejected
        \/ ConfigAcquires \/ ReadEnd \/ (\E n \in Chunks : ReadAudio(n))
        \/ AudioAppended \/ AudioDropped \/ ConfigSucceeds \/ ConfigFails)
  BY DEF Accept, LeaveLoop, ReadInvalid, ReadRejected, ConfigRejected, ConfigAcquires,
     ReadEnd, ReadAudio, AudioAppended, AudioDropped, ConfigSucceeds, ConfigResets, ConfigFails
<1>2. ~(\/ EndStarts \/ EndFails \/ Compose \/ ReceiverWrites \/ ReceiverDrops
        \/ ReceiverWritten \/ Close
        \/ Release \/ Destroy \/ Join \/ \E ends \in Ends : EndDecodes(ends))
  BY DEF EndStarts, EndFails, EndDecodes, Compose, ReceiverWrites, ReceiverDrops, ReceiverWritten,
     Close,
     Release, Destroy, Join
<1>3. ~(\/ FlushExits \/ FlushStarts \/ FlushFails \/ FlushWrites \/ FlushDrops
        \/ FlushRelocks \/ TimePasses \/ PeerCloses \/ Finished)
  BY DEF FlushExits, FlushStarts, FlushFails, FlushWrites, FlushDrops, FlushRelocks,
     TimePasses, PeerCloses, Finished, vars
<1>4. ~\E ends \in Ends : \E k \in 0..Len(ends) : \E okC, okP \in BOOLEAN :
         FlushDecodes(ends, k, okC, okP)
  BY DEF FlushDecodes
<1> QED
  BY <1>1, <1>2, <1>3, <1>4 DEF Next, ReceiverAlone, ReceiverContinues, FlusherStep

-----------------------------------------------------------------------------
(* The theorems. *)

\* IInv holds initially, and a step of the session keeps it.
THEOREM Invariance == Spec => []IInv
<1>1. Init => IInv
  <2> SUFFICES ASSUME Init PROVE IInv
    OBVIOUS
  <2>1. ControlOK /\ FlagsOK /\ WordsOK
    <3>1. <<>> \in Words
      BY DEF Words
    <3> QED
      BY <3>1 DEF Init, ControlOK, FlagsOK, WordsOK, Nobody, NoFrame, Frame
  <2>2. SizesOK
    BY WindowAssumption DEF Init, SizesOK, NoEpisode
  <2>3. Locks /\ Models /\ Sizes
    BY DEF Init, Locks, Models, Sizes, Nobody
  <2>4. Episodes
    BY DEF Init, Episodes, NoEpisode
  <2> QED
    BY <2>1, <2>2, <2>3, <2>4 DEF IInv, TypeOK
<1>2. IInv /\ [Next]_vars => IInv'
  <2> SUFFICES ASSUME IInv, [Next]_vars PROVE IInv'
    OBVIOUS
  <2>1. CASE Next
    <3>1. ControlOK /\ FlagsOK /\ SizesOK /\ WordsOK /\ Locks /\ Models /\ Sizes /\ Episodes
      BY DEF IInv, TypeOK
    <3>2. refs \in Nat
      BY <3>1 DEF SizesOK
    <3>3. ControlOK' /\ FlagsOK' /\ SizesOK' /\ WordsOK'
      BY <2>1, <3>1, ControlKept, FlagsKept, SizesOKKept, WordsKept
    <3>4. Locks' /\ Models' /\ Sizes' /\ Episodes'
      BY <2>1, <3>1, <3>2, LocksKept, ModelsKept, SizesKept, EpisodesKept
    <3> QED
      BY <3>3, <3>4 DEF IInv, TypeOK
  <2>2. CASE UNCHANGED vars
    BY <2>2 DEF vars, IInv, TypeOK, ControlOK, FlagsOK, SizesOK, WordsOK, Locks, Models,
       Sizes, Ended, Episodes
  <2> QED
    BY <2>1, <2>2
<1> QED
  BY <1>1, <1>2, PTL DEF Spec

\* The session keeps to its types: threads and mutexes to their control points,
\* the buffer and last_transcribed_size_ to the hard cap of processAudioChunk().
THEOREM Typing == Spec => []TypeOK
<1>1. IInv => TypeOK
  BY DEF IInv
<1> QED
  BY <1>1, Invariance, PTL

\* No decode of either thread runs without state_mutex_, without an engine, or
\* on a model that the session has no reference to: handleConfig() and
\* releaseModel() cannot free the engine under flushLoop() or handleEnd().
THEOREM DecodeIsSafeHolds == Spec => []DecodeIsSafe
<1>1. IInv => DecodeIsSafe
  BY DEF IInv, Locks, Models, DecodeIsSafe
<1> QED
  BY <1>1, Invariance, PTL

\* current_size - last_transcribed_size_ in flushLoop() does not wrap.
THEOREM NewAudioDoesNotWrapHolds == Spec => []NewAudioDoesNotWrap
<1>1. IInv => NewAudioDoesNotWrap
  BY SessionAssumption DEF IInv, TypeOK, SizesOK, Sizes, NewAudioDoesNotWrap
<1> QED
  BY <1>1, Invariance, PTL

\* processAudioChunk() warns once in an episode of saturation, and no chunk is
\* dropped without a warning.
THEOREM OneWarningPerEpisodeHolds == Spec => []OneWarningPerEpisode
<1>1. IInv => OneWarningPerEpisode
  BY DEF IInv, Episodes, OneWarningPerEpisode
<1> QED
  BY <1>1, Invariance, PTL

\* A session that is configured at most once (MaxConfigs = 1) gives back the
\* one reference it took, however it ends.  Without that bound the claim fails:
\* handleConfig() takes a reference each time, releaseModel() gives back one.
THEOREM ModelIsGivenBackHolds ==
  ASSUME MaxConfigs = 1
  PROVE  Spec => []ModelIsGivenBack
<1>1. Init => OneReference
  BY DEF Init, OneReference
<1>2. IInv /\ OneReference /\ [Next]_vars => OneReference'
  <2> SUFFICES ASSUME IInv, OneReference, [Next]_vars PROVE OneReference'
    OBVIOUS
  <2>1. ControlOK /\ WordsOK /\ SizesOK /\ Models
    BY DEF IInv, TypeOK
  <2>2. CASE Next
    BY <2>1, <2>2, ReferenceKept
  <2>3. CASE UNCHANGED vars
    BY <2>3 DEF vars, OneReference
  <2> QED
    BY <2>2, <2>3
<1>3. OneReference => ModelIsGivenBack
  BY DEF OneReference, ModelIsGivenBack
<1> QED
  BY <1>1, <1>2, <1>3, Invariance, PTL DEF Spec

\* The final text of handleEnd() is complete, whatever was committed, filtered,
\* or cleared by a new configuration before.  The strengthening, HeardText, says
\* that up to then full_transcription_ is what of raw_transcription_ was heard.
THEOREM FinalTextIsCompleteHolds == Spec => FinalTextIsComplete
<1>1. Init => HeardText
  BY HeardEmpty DEF Init, HeardText
<1>2. IInv /\ HeardText /\ [Next]_vars => HeardText'
  <2> SUFFICES ASSUME IInv, HeardText, [Next]_vars PROVE HeardText'
    OBVIOUS
  <2>1. ControlOK /\ SizesOK /\ WordsOK /\ Locks
    BY DEF IInv, TypeOK
  <2>2. CASE Next
    BY <2>1, <2>2, HeardTextKept
  <2>3. CASE UNCHANGED vars
    BY <2>3 DEF vars, HeardText, Ended
  <2> QED
    BY <2>2, <2>3
<1> DEFINE MissesNothing ==
      rpc = "decode" /\ rpc' = "compose" =>
        LET heard == Heard(raw_transcription_) IN
        \/ full_transcription_' = Append(heard, Commit(TRUE))
        \/ full_transcription_' = IF heard = <<>> THEN raw_transcription_ ELSE heard
<1>3. HeardText /\ [Next]_vars => [MissesNothing]_vars
  <2> SUFFICES ASSUME HeardText, Next, rpc = "decode", rpc' = "compose" PROVE MissesNothing
    OBVIOUS
  <2>1. full_transcription_ = Heard(raw_transcription_)
    BY DEF HeardText, Ended
  <2>2. \E ends \in Ends : EndDecodes(ends)
    BY OnlyEndDecodes
  <2> QED
    BY <2>1, <2>2 DEF EndDecodes, OrRaw
<1> QED
  BY <1>1, <1>2, <1>3, Invariance, PTL DEF Spec, FinalTextIsComplete

\* The final message of handleEnd(), composed after state_mutex_ has been let go,
\* has each commit of the configuration in force that was not rejected, once and
\* in order, unless a flush decode is under way just then.  The strengthening,
\* Complete, says that of full_transcription_ at all times, and that the raw text,
\* the fallback, is in order too: so a flush decode that ends between the forced
\* one and the composing, or after the fallback was taken, takes nothing away.
THEOREM FinalFrameIsCompleteHolds == Spec => FinalFrameIsComplete
<1>1. Init => Complete
  <2>1. 0 + 1..0 = {} /\ DOMAIN <<>> = {}
    OBVIOUS
  <2> QED
    BY <2>1 DEF Init, Complete, RawInOrder, IsComplete, Numbers
<1>2. IInv /\ Complete /\ [Next]_vars => Complete'
  <2> SUFFICES ASSUME IInv, Complete, [Next]_vars PROVE Complete'
    OBVIOUS
  <2>1. CASE Next
    BY <2>1, CompleteKept DEF IInv, TypeOK
  <2>2. CASE UNCHANGED vars
    BY <2>2 DEF vars, Complete, RawInOrder, IsComplete, Numbers, Filtered
  <2> QED
    BY <2>1, <2>2
<1> DEFINE Composed ==
      rpc = "compose" /\ rpc' = "send" =>
        \/ fpc = "infer" /\ rmsg'.text = Torn
        \/ IsComplete(rmsg'.text)
<1>3. Complete /\ [Next]_vars => [Composed]_vars
  <2> SUFFICES ASSUME Complete, Next, rpc = "compose", rpc' = "send" PROVE Composed
    OBVIOUS
  <2>1. PICK words \in ReadUnlocked : rmsg'.text = words
    BY OnlyCompose DEF Compose, Sends, Frame
  <2>2. words = full_transcription_ \/ (fpc = "infer" /\ words = Torn)
    BY DEF ReadUnlocked
  <2> QED
    BY <2>1, <2>2 DEF Complete
<1> QED
  BY <1>1, <1>2, <1>3, Invariance, PTL DEF Spec, FinalFrameIsComplete

\* What flushLoop() has shown of the transcription is never taken back by a
\* later partial one, in a session that is configured at most once.  Without
\* that bound the claim fails: a partial text of the old configuration may be
\* under way while handleConfig() clears the transcription, and the client gets
\* it after the ready, and then the shorter one of the new configuration.
THEOREM PartialsAccumulateHolds ==
  ASSUME MaxConfigs = 1
  PROVE  Spec => PartialsAccumulate
<1>1. Init => Unconfigured /\ Shown
  <2>1. <<>> \in Words
    BY DEF Words
  <2> QED
    BY <2>1, PrefixSelf DEF Init, NoFrame, Frame, Unconfigured, Shown
<1>2. IInv /\ Unconfigured /\ Shown /\ [Next]_vars => Unconfigured' /\ Shown'
  <2> SUFFICES ASSUME IInv, Unconfigured, Shown, [Next]_vars PROVE Unconfigured' /\ Shown'
    OBVIOUS
  <2>1. ControlOK /\ SizesOK /\ WordsOK /\ Locks /\ Models
    BY DEF IInv, TypeOK
  <2>2. CASE Next
    BY <2>1, <2>2, WordsKept, UnconfiguredKept, ShownKept
  <2>3. CASE UNCHANGED vars
    BY <2>3 DEF vars, Unconfigured, Shown
  <2> QED
    BY <2>2, <2>3
<1> DEFINE Accumulates ==
      fpc = "write" /\ fpc' = "relock" /\ wsOpen /\ ~client.final
        => IsPrefixOf(client.text, client'.text)
<1>3. IInv /\ Shown /\ [Next]_vars => [Accumulates]_vars
  <2> SUFFICES ASSUME Shown, Next, fpc = "write", fpc' = "relock", wsOpen, ~client.final
               PROVE  IsPrefixOf(client.text, client'.text)
    OBVIOUS
  <2>1. FlushWritten
    BY OnlyFlushWritten
  <2>2. client'.text = ftext
    BY <2>1 DEF FlushWritten, Receives, Frame
  <2> QED
    BY <2>2 DEF Shown
<1> QED
  BY <1>1, <1>2, <1>3, Invariance, PTL DEF Spec, PartialsAccumulate

-----------------------------------------------------------------------------
(* The session implements its outline. *)

\* model_acquired_ is set while the session has a reference to give back: from
\* the moment handleConfig() has it noted to the first releaseModel().
Noted == IF IsOver THEN ~model_acquired_
         ELSE rpc # "engine" /\ refs > 0 => model_acquired_

\* ConfigAcquires is followed by ConfigSucceeds or ConfigFails, and releaseModel()
\* ends the session.
LEMMA NotedKept ==
  ASSUME ControlOK, WordsOK, refs \in Nat, Noted, Next
  PROVE  Noted'
<1>1. CASE \/ Accept \/ LeaveLoop \/ ReadInvalid \/ ReadRejected
          \/ ConfigRejected \/ ReadEnd \/ (\E n \in Chunks : ReadAudio(n))
          \/ AudioAppended \/ AudioDropped \/ ConfigAcquires
  BY <1>1 DEF Accept, LeaveLoop, ReadInvalid, ReadRejected, ConfigRejected,
         ReadEnd, ReadAudio, AudioAppended, AudioDropped, ConfigAcquires, Noted, IsOver,
         ControlOK, WordsOK, Sends, Frame
<1>2. CASE \/ EndStarts \/ EndFails \/ Compose \/ ReceiverWrites \/ ReceiverDrops \/ Close
          \/ Destroy \/ FlushExits \/ FlushStarts \/ ConfigSucceeds \/ ConfigFails
  BY <1>2 DEF EndStarts, EndFails, Compose, ReceiverWrites, ReceiverDrops, Close, Destroy,
         FlushExits, FlushStarts, ConfigSucceeds, ConfigResets, ConfigFails, Noted, IsOver,
         ControlOK, WordsOK, Sends, Frame
<1>3. CASE \/ FlushFails \/ FlushWrites \/ FlushDrops \/ FlushWritten \/ FlushRelocks
          \/ PeerCloses \/ TimePasses
  <2>1. UNCHANGED <<rpc, refs, model_acquired_>>
    BY <1>3 DEF FlushFails, FlushWrites, FlushDrops, FlushWritten, FlushRelocks, PeerCloses,
       TimePasses
  <2> QED
    BY <2>1 DEF Noted, IsOver
<1>7. CASE ReceiverWritten
  BY <1>7 DEF ReceiverWritten, Noted, IsOver, WordsOK
<1>4. CASE \/ \E ends \in Ends : EndDecodes(ends)
          \/ \E ends \in Ends : \E k \in 0..Len(ends) : \E okC, okP \in BOOLEAN :
               FlushDecodes(ends, k, okC, okP)
  <2>1. UNCHANGED <<model_acquired_, refs>> /\ \/ rpc = "decode" /\ rpc' = "compose"
                                               \/ rpc' = rpc
    BY <1>4 DEF EndDecodes, FlushDecodes
  <2> QED
    BY <2>1 DEF Noted, IsOver
<1>5. CASE Release \/ Join
  BY <1>5 DEF Release, Join, ReleaseModel, Noted, IsOver
<1>6. CASE Finished
  BY <1>6 DEF Finished, vars, Noted, IsOver
<1> QED
  BY <1>1, <1>2, <1>3, <1>4, <1>5, <1>6, <1>7 DEF Next, ReceiverAlone, ReceiverContinues,
     FlusherStep

\* Nothing that the rest of the server sees changes.
Unseen == /\ refs' = refs /\ engine_' = engine_
          /\ NowDecoding' = NowDecoding /\ IsOver' = IsOver

\* Reading, writing, sleeping and the flags are the session's own affair.
LEMMA StepsUnseen ==
  ASSUME ControlOK, WordsOK, Locks, Models, Noted,
         \/ Accept \/ LeaveLoop \/ ReadInvalid \/ ReadRejected
         \/ ConfigRejected \/ ReadEnd \/ (\E n \in Chunks : ReadAudio(n))
         \/ AudioAppended \/ AudioDropped \/ ConfigFails
         \/ Compose \/ ReceiverWrites \/ ReceiverDrops \/ ReceiverWritten \/ Close
         \/ Destroy \/ Join \/ FlushExits \/ FlushFails \/ FlushWrites \/ FlushDrops
         \/ FlushWritten \/ FlushRelocks \/ PeerCloses \/ TimePasses
         \/ Finished \/ UNCHANGED vars
  PROVE  Unseen
<1>1. CASE \/ Accept \/ LeaveLoop \/ ReadInvalid \/ ReadRejected
          \/ ConfigRejected \/ ReadEnd \/ (\E n \in Chunks : ReadAudio(n))
          \/ AudioAppended \/ AudioDropped \/ ConfigFails
  BY <1>1 DEF Accept, LeaveLoop, ReadInvalid, ReadRejected, ConfigRejected,
         ReadEnd, ReadAudio, AudioAppended, AudioDropped, ConfigFails, Unseen, IsOver,
         NowDecoding, Sends, Frame, Locks, Nobody
<1>2. CASE \/ Compose \/ ReceiverWrites \/ ReceiverDrops \/ ReceiverWritten \/ Close \/ Destroy
          \/ FlushExits \/ FlushFails \/ FlushWrites \/ FlushDrops \/ FlushWritten \/ FlushRelocks
          \/ PeerCloses \/ TimePasses
  BY <1>2 DEF Compose, ReceiverWrites, ReceiverDrops, ReceiverWritten, Close, Destroy, FlushExits,
         FlushFails, FlushWrites, FlushDrops, FlushWritten, FlushRelocks, PeerCloses, TimePasses,
         Unseen, IsOver, NowDecoding, Sends, Frame, ControlOK, WordsOK
<1>3. CASE Join
  BY <1>3 DEF Join, ReleaseModel, Noted, Unseen, IsOver, NowDecoding
<1>4. CASE Finished \/ UNCHANGED vars
  BY <1>4 DEF Finished, vars, Unseen, IsOver, NowDecoding
<1> QED
  BY <1>1, <1>2, <1>3, <1>4

\* Every step of the session is a step of its outline, or is not seen.
LEMMA StepSimulation ==
  ASSUME IInv, Noted, [Next]_vars
  PROVE  [Outline!Next]_Seen
<1>1. /\ ControlOK /\ FlagsOK /\ WordsOK /\ Locks /\ Models
      /\ refs \in Nat /\ engine_ \in BOOLEAN
  BY DEF IInv, TypeOK, SizesOK, FlagsOK
<1>2. ASSUME Unseen PROVE [Outline!Next]_Seen
  BY <1>2 DEF Unseen, Seen, Life
<1> USE DEF Outline!Next, Seen
<1>3. CASE ConfigAcquires
  <2>1. /\ NowDecoding' = NowDecoding /\ NowDecoding # "end"
        /\ Life' = Life /\ Life # "over" /\ refs' = refs + 1
    BY <1>1, <1>3 DEF ConfigAcquires, NowDecoding, Life, IsOver
  <2> QED
    BY <1>1, <2>1 DEF Outline!Acquire, Outline!CanAcquire, Outline!Acquired
<1>4. CASE ConfigSucceeds
  <2>1. /\ NowDecoding' = "none" /\ NowDecoding = "none"
        /\ Life # "over" /\ Life' = "ready" /\ refs' = refs /\ refs > 0
    BY <1>1, <1>4 DEF ConfigSucceeds, ConfigResets, Sends, NowDecoding, Life, IsOver, Locks,
       Models, Nobody
  <2> QED
    BY <1>1, <2>1 DEF Outline!Build, Outline!CanBuild, Outline!Built
<1>5. CASE EndStarts \/ FlushStarts
  <2>1. /\ NowDecoding' \in {"flush", "end"} /\ NowDecoding = "none"
        /\ Life' = Life /\ Life = "ready" /\ refs' = refs
    BY <1>1, <1>5 DEF EndStarts, FlushStarts, NowDecoding, Life, IsOver, Locks, Models, Nobody,
         Noted
  <2> QED
    BY <1>1, <2>1 DEF Outline!StartDecode, Outline!CanDecode, Outline!Decoding
<1>6. CASE \/ EndFails \/ \E ends \in Ends : EndDecodes(ends)
          \/ \E ends \in Ends : \E k \in 0..Len(ends) : \E okC, okP \in BOOLEAN :
               FlushDecodes(ends, k, okC, okP)
  <2>1. NowDecoding' = "none" /\ NowDecoding # "none"
    BY <1>1, <1>6 DEF EndFails, EndDecodes, FlushDecodes, NowDecoding, Locks, Nobody
  <2>2. Life' = Life /\ refs' = refs
    <3>1. UNCHANGED <<engine_, refs>> /\ \/ rpc = "decode" /\ rpc' \in {"compose", "release"}
                                         \/ rpc' = rpc
      BY <1>6 DEF EndFails, EndDecodes, FlushDecodes
    <3> QED
      BY <3>1 DEF Life, IsOver
  <2> QED
    BY <2>1, <2>2 DEF Outline!StopDecode, Outline!Decoding
<1>7. CASE Release
  <2>1. /\ NowDecoding' = "none" /\ NowDecoding = "none" /\ Life # "over" /\ Life' = "over"
    BY <1>1, <1>7 DEF Release, NowDecoding, Life, IsOver, Locks, Models, Nobody
  <2>2. refs' = IF refs > 0 THEN refs - 1 ELSE 0
    BY <1>1, <1>7 DEF Release, ReleaseModel, Models, Noted, IsOver
  <2> QED
    <3>1. Seen' = Outline!Released(Seen)
      BY <2>1, <2>2 DEF Outline!Released
    <3> QED
      BY <2>1, <3>1 DEF Outline!Release, Outline!CanRelease
<1> QED
  BY <1>1, <1>2, <1>3, <1>4, <1>5, <1>6, <1>7, StepsUnseen
     DEF Next, ReceiverAlone, ReceiverContinues, FlusherStep

\* StreamingSession implements SessionOutline: whatever its two threads, its
\* client and its connection do, and however often it is configured.
THEOREM Refinement == Spec => ImplementsOutline
<1>1. Init => Outline!Init /\ Noted
  BY DEF Init, Outline!Init, Outline!Fresh, Seen, Life, NowDecoding, IsOver, Noted
<1>2. IInv /\ Noted /\ [Next]_vars => Noted'
  <2>1. ASSUME Noted, UNCHANGED vars PROVE Noted'
    BY <2>1 DEF vars, Noted, IsOver
  <2> QED
    BY <2>1, NotedKept DEF IInv, TypeOK, SizesOK
<1>3. IInv /\ Noted /\ [Next]_vars => [Outline!Next]_Seen
  BY StepSimulation
<1> QED
  BY <1>1, <1>2, <1>3, Invariance, PTL DEF Spec, ImplementsOutline, Outline!Spec

-----------------------------------------------------------------------------
(* The hallucination guard, for every text: induction over its words. *)

\* The places below i - 1 where the bigram of place m is.
SameBigram(words, m, i) ==
  {j \in 1..i - 1 : words[j] = words[m] /\ words[j + 1] = words[m + 1]}

\* Four identical words in a row among the first i.
HasRun(words, i) == \E m \in 1..i - 3 : \A j \in m..m + 3 : words[j] = words[m]

\* A bigram four times among the first i words.
HasBigrams(words, i) == \E m \in 1..i - 1 : Cardinality(SameBigram(words, m, i)) >= 4

\* The last c of the first i words are the same, and no more of them are.
Streak(words, i, c) ==
  /\ c \in 0..i /\ (i > 0 => c > 0)
  /\ \A j \in i - c + 1..i : words[j] = words[i]
  /\ i > c => words[i - c] # words[i]

\* A streak goes on with the same word, and another word begins a new one.
LEMMA StreakStep ==
  ASSUME NEW words, NEW i \in Nat, NEW c, Streak(words, i, c)
  PROVE  Streak(words, i + 1, IF i > 0 /\ words[i] = words[i + 1] THEN c + 1 ELSE 1)
<1>1. CASE i > 0 /\ words[i] = words[i + 1]
  <2>1. c \in 0..i /\ c + 1 \in 0..i + 1 /\ c + 1 > 0
    BY DEF Streak
  <2>2. ASSUME NEW j \in (i + 1) - (c + 1) + 1..i + 1 PROVE words[j] = words[i + 1]
    <3>1. j \in i - c + 1..i \/ j = i + 1
      BY <2>1
    <3> QED
      BY <1>1, <3>1 DEF Streak
  <2>3. i + 1 > c + 1 => words[(i + 1) - (c + 1)] # words[i + 1]
    <3>1. (i + 1) - (c + 1) = i - c /\ (i + 1 > c + 1 => i > c)
      BY <2>1
    <3> QED
      BY <1>1, <3>1 DEF Streak
  <2> QED
    BY <1>1, <2>1, <2>2, <2>3 DEF Streak
<1>2. CASE ~(i > 0 /\ words[i] = words[i + 1])
  <2>1. 1 \in 0..i + 1 /\ (i + 1) - 1 = i
    OBVIOUS
  <2>2. ASSUME NEW j \in (i + 1) - 1 + 1..i + 1 PROVE words[j] = words[i + 1]
    <3>1. j = i + 1
      OBVIOUS
    <3> QED
      BY <3>1
  <2>3. i + 1 > 1 => words[i] # words[i + 1]
    BY <1>2
  <2> QED
    BY <1>2, <2>1, <2>2, <2>3 DEF Streak
<1> QED
  BY <1>1, <1>2

\* There is a run of four once a streak is that long.
LEMMA RunStep ==
  ASSUME NEW words, NEW i \in Nat, NEW c, Streak(words, i + 1, c)
  PROVE  HasRun(words, i + 1) <=> HasRun(words, i) \/ c >= 4
<1>1. c \in 1..i + 1
  BY DEF Streak
<1>2. ASSUME HasRun(words, i) PROVE HasRun(words, i + 1)
  BY <1>2 DEF HasRun
<1>3. ASSUME c >= 4 PROVE HasRun(words, i + 1)
  <2>1. i - 2 \in 1..(i + 1) - 3
    BY <1>1, <1>3
  <2>2. ASSUME NEW j \in i - 2..i - 2 + 3 PROVE words[j] = words[i + 1]
    <3>1. j \in (i + 1) - c + 1..i + 1
      BY <1>1, <1>3
    <3> QED
      BY <3>1 DEF Streak
  <2>3. i - 2 \in i - 2..i - 2 + 3
    BY <2>1
  <2>4. \A j \in i - 2..i - 2 + 3 : words[j] = words[i - 2]
    BY <2>2, <2>3
  <2> QED
    BY <2>1, <2>4 DEF HasRun
<1>4. ASSUME HasRun(words, i + 1), c < 4 PROVE HasRun(words, i)
  <2>1. PICK m \in 1..(i + 1) - 3 : \A j \in m..m + 3 : words[j] = words[m]
    BY <1>4 DEF HasRun
  <2>2. CASE m = i - 2
    <3>1. (i + 1) - c \in m..m + 3 /\ i + 1 \in m..m + 3 /\ i + 1 > c
      BY <1>1, <1>4, <2>2
    <3>2. words[(i + 1) - c] = words[i + 1]
      BY <2>1, <3>1
    <3> QED
      BY <3>1, <3>2 DEF Streak
  <2>3. CASE m # i - 2
    <3>1. m \in 1..i - 3
      BY <2>3
    <3> QED
      BY <2>1, <3>1 DEF HasRun
  <2> QED
    BY <2>2, <2>3
<1> QED
  BY <1>1, <1>2, <1>3, <1>4

\* The occurrences of a bigram are finitely many.
LEMMA SameBigramFinite ==
  ASSUME NEW words, NEW m, NEW i \in Nat
  PROVE  IsFiniteSet(SameBigram(words, m, i)) /\ Cardinality(SameBigram(words, m, i)) \in Nat
<1>1. IsFiniteSet(1..i - 1)
  BY FS_Interval
<1>2. SameBigram(words, m, i) \subseteq 1..i - 1
  BY DEF SameBigram
<1>3. IsFiniteSet(SameBigram(words, m, i))
  BY <1>1, <1>2, FS_Subset
<1> QED
  BY <1>3, FS_CardinalityType

\* A bigram is there four times once the last one is.
LEMMA BigramStep ==
  ASSUME NEW words, NEW i \in Nat \ {0}
  PROVE  HasBigrams(words, i + 1) <=>
           HasBigrams(words, i) \/ Cardinality(SameBigram(words, i, i + 1)) >= 4
<1>1. ASSUME HasBigrams(words, i) PROVE HasBigrams(words, i + 1)
  <2>1. PICK m \in 1..i - 1 : Cardinality(SameBigram(words, m, i)) >= 4
    BY <1>1 DEF HasBigrams
  <2>2. SameBigram(words, m, i) \subseteq SameBigram(words, m, i + 1)
    BY DEF SameBigram
  <2>3. Cardinality(SameBigram(words, m, i)) <= Cardinality(SameBigram(words, m, i + 1))
    BY <2>2, SameBigramFinite, FS_Subset
  <2>4. m \in 1..(i + 1) - 1
    OBVIOUS
  <2>5. Cardinality(SameBigram(words, m, i + 1)) >= 4
    BY <2>1, <2>3, SameBigramFinite
  <2> QED
    BY <2>4, <2>5 DEF HasBigrams
<1>2. ASSUME Cardinality(SameBigram(words, i, i + 1)) >= 4 PROVE HasBigrams(words, i + 1)
  <2>1. i \in 1..(i + 1) - 1
    OBVIOUS
  <2> QED
    BY <1>2, <2>1 DEF HasBigrams
<1>3. ASSUME HasBigrams(words, i + 1), ~(Cardinality(SameBigram(words, i, i + 1)) >= 4)
      PROVE  HasBigrams(words, i)
  <2>1. PICK m \in 1..(i + 1) - 1 : Cardinality(SameBigram(words, m, i + 1)) >= 4
    BY <1>3 DEF HasBigrams
  <2>2. ~(words[i] = words[m] /\ words[i + 1] = words[m + 1])
    <3>1. SUFFICES ASSUME words[i] = words[m] /\ words[i + 1] = words[m + 1] PROVE FALSE
      OBVIOUS
    <3>2. SameBigram(words, i, i + 1) = SameBigram(words, m, i + 1)
      BY <3>1 DEF SameBigram
    <3> QED
      BY <1>3, <2>1, <3>2
  <2>3. \A j \in 1..(i + 1) - 1 : j \in 1..i - 1 \/ j = i
    OBVIOUS
  <2>4. \A j \in 1..i - 1 : j \in 1..(i + 1) - 1
    OBVIOUS
  <2>5. SameBigram(words, m, i + 1) = SameBigram(words, m, i)
    BY <2>2, <2>3, <2>4 DEF SameBigram
  <2>6. m \in 1..i - 1
    <3>1. m # i
      BY <2>2
    <3> QED
      BY <3>1
  <2> QED
    BY <2>1, <2>5, <2>6 DEF HasBigrams
<1> QED
  BY <1>1, <1>2, <1>3

\* What the loop knows after i words: the last of them, how often in a row it
\* was there, the bigrams, and whether there was a loop.
Knows(seen, words, i) ==
  /\ seen.prev = IF i = 0 THEN <<>> ELSE <<words[i]>>
  /\ Streak(words, i, seen.consec)
  /\ seen.bigrams = [j \in 1..i - 1 |-> <<words[j], words[j + 1]>>]
  /\ seen.loop = (HasRun(words, i) \/ HasBigrams(words, i))

\* One word more: the loop knows that one too.
LEMMA KnowsStep ==
  ASSUME NEW words, NEW i \in Nat, NEW seen, Knows(seen, words, i)
  PROVE  Knows(NextWord(seen, words[i + 1]), words, i + 1)
<1> DEFINE cur == words[i + 1]
           then == NextWord(seen, cur)
           consec == IF i > 0 /\ words[i] = words[i + 1] THEN seen.consec + 1 ELSE 1
           bigrams == [j \in 1..(i + 1) - 1 |-> <<words[j], words[j + 1]>>]
<1>1. i + 1 # 0 /\ (i > 0 <=> i # 0)
  OBVIOUS
<1>2. then.prev = <<cur>>
  BY DEF NextWord
<1>3. seen.prev = <<cur>> <=> i > 0 /\ words[i] = words[i + 1]
  BY <1>1 DEF Knows
<1>4. then.consec = consec
  BY <1>3 DEF NextWord
<1>5. Streak(words, i + 1, consec)
  BY StreakStep DEF Knows
<1>6. then.bigrams = bigrams
  <2>1. CASE i = 0
    <3>1. then.bigrams = <<>>
      BY <2>1 DEF Knows, NextWord
    <3> QED
      BY <2>1, <3>1
  <2>2. CASE i > 0
    <3>1. seen.prev # <<>> /\ seen.prev[1] = words[i]
      BY <2>2 DEF Knows
    <3>2. then.bigrams = Append(seen.bigrams, <<words[i], cur>>)
      BY <3>1 DEF NextWord
    <3> DEFINE S == {<<words[j], words[j + 1]>> : j \in 1..(i + 1) - 1}
    <3> DEFINE b == [j \in 1..i - 1 |-> <<words[j], words[j + 1]>>]
    <3>3. seen.bigrams = b /\ b \in Seq(S) /\ Len(b) = i - 1
      <4>1. i - 1 \in Nat /\ \A j \in 1..i - 1 : j \in 1..(i + 1) - 1
        BY <2>2
      <4>2. b \in [1..i - 1 -> S]
        BY <4>1, Zenon
      <4>3. b \in Seq(S) /\ Len(b) = i - 1
        <5> HIDE DEF b, S
        <5> QED
          BY <4>1, <4>2
      <4> QED
        BY <4>3 DEF Knows
    <3>4. <<words[i], cur>> \in S
      BY <2>2
    <3> QED
      BY <2>2, <3>2, <3>3, <3>4 DEF Knows
  <2> QED
    BY <2>1, <2>2
<1>7. then.loop = (HasRun(words, i + 1) \/ HasBigrams(words, i + 1))
  <2>1. HasRun(words, i + 1) <=> HasRun(words, i) \/ consec >= 4
    BY <1>5, RunStep
  <2>2. HasBigrams(words, i + 1) <=>
          \/ HasBigrams(words, i)
          \/ seen.prev # <<>> /\ Occurrences(<<seen.prev[1], cur>>, then.bigrams) >= 4
    <3>1. CASE i = 0
      <4>1. ~HasBigrams(words, i + 1) /\ ~HasBigrams(words, i)
        BY <3>1 DEF HasBigrams
      <4>2. seen.prev = <<>>
        BY <3>1 DEF Knows
      <4> QED
        BY <4>1, <4>2
    <3>2. CASE i > 0
      <4>1. seen.prev # <<>> /\ seen.prev[1] = words[i]
        BY <3>2 DEF Knows
      <4>2. Occurrences(<<words[i], cur>>, bigrams) =
              Cardinality(SameBigram(words, i, i + 1))
        <5>1. {j \in DOMAIN bigrams : bigrams[j] = <<words[i], cur>>} =
                SameBigram(words, i, i + 1)
          BY DEF SameBigram
        <5> QED
          BY <5>1 DEF Occurrences
      <4> QED
        BY <1>6, <3>2, <4>1, <4>2, BigramStep
    <3> QED
      BY <3>1, <3>2
  <2>3. then.loop = (\/ seen.loop
                     \/ consec >= 4
                     \/ seen.prev # <<>> /\ Occurrences(<<seen.prev[1], cur>>, then.bigrams) >= 4)
    <3>1. then.loop = (\/ seen.loop
                       \/ then.consec >= Repeats
                       \/ /\ seen.prev # <<>>
                          /\ Occurrences(<<seen.prev[1], cur>>,
                               IF seen.prev = <<>> THEN <<>>
                               ELSE Append(seen.bigrams, <<seen.prev[1], cur>>)) >= Repeats)
      BY DEF NextWord
    <3>2. seen.prev # <<>> => then.bigrams = Append(seen.bigrams, <<seen.prev[1], cur>>)
      BY DEF NextWord
    <3> HIDE DEF then, consec
    <3> QED
      BY <1>4, <3>1, <3>2, Zenon DEF Repeats
  <2>4. seen.loop = (HasRun(words, i) \/ HasBigrams(words, i))
    BY DEF Knows
  <2> HIDE DEF then, consec
  <2> QED
    BY <2>1, <2>2, <2>3, <2>4, Zenon
<1>8. then.prev = IF i + 1 = 0 THEN <<>> ELSE <<words[i + 1]>>
  BY <1>1, <1>2
<1>9. Knows(then, words, i + 1)
  <2> HIDE DEF then, consec
  <2> QED
    BY <1>4, <1>5, <1>6, <1>7, <1>8 DEF Knows
<1> QED
  BY <1>9

\* Scanned obeys its definition.
LEMMA ScannedRecurs ==
  ASSUME NEW Word, NEW words \in Seq(Word)
  PROVE  /\ Scanned(words)[0] = NoWord
         /\ \A i \in 1..Len(words) :
              Scanned(words)[i] = NextWord(Scanned(words)[i - 1], words[i])
<1> DEFINE n == Len(words)
           Texts == Seq(Word)
           Pairs == Seq(Texts)
           V == [prev : {t \in Texts : Len(t) <= 1}, consec : Nat,
                 bigrams : Pairs, loop : BOOLEAN]
           step == [p \in (1..n) \X V |-> NextWord(p[2], words[p[1]])]
<1>1. n \in Nat /\ NoWord \in V
  BY DEF NoWord
<1>2. ASSUME NEW seen \in V, NEW cur \in Word PROVE NextWord(seen, cur) \in V
  <2>1. <<cur>> \in Texts /\ Len(<<cur>>) <= 1
    OBVIOUS
  <2>2. seen.prev # <<>> => <<seen.prev[1], cur>> \in Texts
    OBVIOUS
  <2> DEFINE bigrams == IF seen.prev = <<>> THEN <<>>
                        ELSE Append(seen.bigrams, <<seen.prev[1], cur>>)
             consec == IF seen.prev = <<cur>> THEN seen.consec + 1 ELSE 1
  <2>3. bigrams \in Pairs
    <3> HIDE DEF Texts
    <3>1. <<>> \in Pairs /\ seen.bigrams \in Pairs
      OBVIOUS
    <3> QED
      BY <2>2, <3>1
  <2>4. consec \in Nat
    OBVIOUS
  <2> HIDE DEF Texts, Pairs
  <2> QED
    BY <2>1, <2>3, <2>4 DEF NextWord
<1>3. step \in [(1..n) \X V -> V]
  <2>1. \A i \in 1..n : words[i] \in Word
    OBVIOUS
  <2> HIDE DEF n, V
  <2> QED
    BY <1>2, <2>1
<1>4. PICK h \in [0..n -> V] : Iterates(h, n, NoWord, step)
  <2> HIDE DEF n, V, step
  <2> QED
    BY <1>1, <1>3, Recursion
<1>5. ASSUME NEW i \in 1..n PROVE h[i] = NextWord(h[i - 1], words[i])
  <2>1. i - 1 \in 0..n
    BY <1>1
  <2>2. <<i, h[i - 1]>> \in (1..n) \X V
    <3> HIDE DEF V
    <3> QED
      BY <1>4, <2>1
  <2>3. h[i] = step[<<i, h[i - 1]>>]
    BY <1>4 DEF Iterates
  <2> HIDE DEF V, n
  <2> QED
    BY <2>2, <2>3
<1>6. h = [i \in 0..n |-> IF i = 0 THEN NoWord ELSE NextWord(h[i - 1], words[i])]
  <2>1. \A i \in 0..n : i = 0 \/ i \in 1..n
    BY <1>1
  <2> HIDE DEF step, n, V
  <2> QED
    BY <1>4, <1>5, <2>1, Zenon DEF Iterates
<1>7. Scanned(words) =
        [i \in 0..n |-> IF i = 0 THEN NoWord ELSE NextWord(Scanned(words)[i - 1], words[i])]
  BY <1>6, Zenon DEF Scanned
<1>8. 0 \in 0..n /\ \A i \in 1..n : i \in 0..n /\ i # 0
  BY <1>1
<1> HIDE DEF step, V
<1> QED
  BY <1>7, <1>8, Zenon

\* After each word the loop knows what it should.
LEMMA ScannedKnows ==
  ASSUME NEW Word, NEW words \in Seq(Word)
  PROVE  \A i \in 0..Len(words) : Knows(Scanned(words)[i], words, i)
<1> DEFINE S == {i \in 0..Len(words) : Knows(Scanned(words)[i], words, i)}
<1>1. Len(words) \in Nat
  OBVIOUS
<1>2. 0 \in S
  <2>1. Scanned(words)[0] = NoWord
    BY ScannedRecurs
  <2>2. Streak(words, 0, 0) /\ ~HasRun(words, 0) /\ ~HasBigrams(words, 0)
    BY DEF Streak, HasRun, HasBigrams
  <2>3. <<>> = [j \in 1..0 - 1 |-> <<words[j], words[j + 1]>>]
    OBVIOUS
  <2>4. Knows(NoWord, words, 0)
    BY <2>2, <2>3 DEF Knows, NoWord
  <2> QED
    BY <1>1, <2>1, <2>4
<1>3. ASSUME NEW i \in 0..Len(words) - 1, i \in S PROVE i + 1 \in S
  <2>1. i + 1 \in 1..Len(words) /\ i + 1 - 1 = i /\ i \in Nat /\ i + 1 \in 0..Len(words)
    BY <1>1
  <2>2. Scanned(words)[i + 1] = NextWord(Scanned(words)[i], words[i + 1])
    <3>1. Scanned(words)[i + 1] = NextWord(Scanned(words)[i + 1 - 1], words[i + 1])
      BY <2>1, ScannedRecurs
    <3> QED
      BY <2>1, <3>1
  <2>3. Knows(Scanned(words)[i + 1], words, i + 1)
    BY <1>3, <2>1, <2>2, KnowsStep
  <2> QED
    BY <2>1, <2>3
<1>4. 0..Len(words) \subseteq S
  <2> HIDE DEF S
  <2> QED
    BY <1>1, <1>2, <1>3, Induction
<1> QED
  BY <1>4

\* The guard takes a text for a loop exactly when HallucinationGuard.h says so,
\* whatever the words and however many they are.
THEOREM GuardIsAsDocumented ==
  ASSUME NEW Word, NEW words \in Seq(Word), NEW length \in Nat
  PROVE  isHallucination(words, length) <=> LooksLikeALoop(words, length)
<1> DEFINE n == Len(words)
<1>1. n \in Nat
  OBVIOUS
<1>2. Scanned(words)[n].loop = (HasRun(words, n) \/ HasBigrams(words, n))
  <2>1. Knows(Scanned(words)[n], words, n)
    BY <1>1, ScannedKnows
  <2> QED
    BY <2>1 DEF Knows
<1> QED
  BY <1>2 DEF isHallucination, LooksLikeALoop, HasRun, HasBigrams, SameBigram, MaxLength
=============================================================================
