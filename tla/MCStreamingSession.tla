------------------------ MODULE MCStreamingSession ------------------------
(***************************************************************************)
(* Sizes in units of a second or so: a window of 2 with the last 1 not     *)
(* stable, a high-water mark of 3, a hard cap of 4, chunks of 1 and 3.     *)
(* Chunks of 1 fill the buffer to the mark; one of 3 on a buffer of 2      *)
(* passes the cap; at the mark a chunk is dropped.  A decode of 3 finds a  *)
(* stable segment, none, or one that is not.                               *)
(*                                                                         *)
(* A commit of StreamingSession tells whether isHallucination() lets it    *)
(* through; what that function computes is checked here against what its   *)
(* header says of it, on every text of up to eight words out of two.       *)
(***************************************************************************)
EXTENDS StreamingSession, HallucinationGuard

MCChunks == {1, 3}
MCEnds == {<<>>, <<1>>, <<4>>, <<1, 4>>}

\* The one pass over the words finds the runs of identical words and the
\* repeated bigrams that HallucinationGuard.h:6-12 names, and nothing else.
ASSUME GuardIsAsDocumented ==
  \A n \in 0..8, length \in {500, 501} :
    \A words \in [1..n -> {"a", "b"}] :
      isHallucination(words, length) <=> LooksLikeALoop(words, length)
=============================================================================
