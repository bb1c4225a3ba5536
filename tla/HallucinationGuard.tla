------------------------- MODULE HallucinationGuard -------------------------
(***************************************************************************)
(* src/utils/HallucinationGuard.h: which texts of whisper are taken for a  *)
(* decoder loop.  A text is the sequence of its words and its length in    *)
(* characters, which the words do not determine.                           *)
(***************************************************************************)
EXTENDS Naturals, Sequences, FiniteSets

Repeats == 4      \* identical words in a row, or identical bigrams
MaxLength == 500

\* What the loop knows before the first word.
NoWord == [prev |-> <<>>, consec |-> 0, bigrams |-> <<>>, loop |-> FALSE]

Occurrences(x, list) == Cardinality({i \in DOMAIN list : list[i] = x})

\* The loop over the words, once round.
NextWord(seen, cur) ==
  LET prev == seen.prev
      consec == IF prev = <<cur>> THEN seen.consec + 1 ELSE 1
      bigrams == IF prev = <<>> THEN <<>> ELSE Append(seen.bigrams, <<prev[1], cur>>)
  IN [prev |-> <<cur>>, consec |-> consec, bigrams |-> bigrams,
      loop |-> \/ seen.loop
               \/ consec >= Repeats
               \/ prev # <<>> /\ Occurrences(<<prev[1], cur>>, bigrams) >= Repeats]

\* What the loop knows after each of the words.
Scanned(words) ==
  LET seen[i \in 0..Len(words)] ==
        IF i = 0 THEN NoWord ELSE NextWord(seen[i - 1], words[i])
  IN seen

isHallucination(words, length) ==
  length > MaxLength \/ Scanned(words)[Len(words)].loop

-----------------------------------------------------------------------------

\* What HallucinationGuard.h:6-12 says of it.
LooksLikeALoop(words, length) ==
  \/ length > 500
  \/ \E i \in 1..Len(words) - 3 : \A j \in i..i + 3 : words[j] = words[i]
  \/ \E i \in 1..Len(words) - 1 :
       Cardinality({j \in 1..Len(words) - 1 :
                      words[j] = words[i] /\ words[j + 1] = words[i + 1]}) >= 4
=============================================================================
