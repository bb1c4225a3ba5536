---------------------- MODULE MCStreamingWhisperEngine ----------------------
(***************************************************************************)
(* The source's own sizes.  Chunks of 2 s, of 10 s and of the largest      *)
(* frame the server accepts (1 MB of float32), and one longer than the     *)
(* whole buffer, which only a direct caller can pass; segment ends around  *)
(* each of the source's comparisons, up to the 30 s whisper pads to.       *)
(***************************************************************************)
EXTENDS StreamingWhisperEngine

MCChunks == {32000, 160000, 262144, 500000}
MCEnds == SegmentLists({100, 799, 800, 3000}, 2)
MCKeeps == {0, 32000}
=============================================================================
