--------------------------------- MODULE Text ---------------------------------
(***************************************************************************)
(* C strings and the shell's tokenizer.  A character is a string of one    *)
(* letter, or the name of a control character; an array is a sequence.     *)
(***************************************************************************)
EXTENDS Integers, Sequences, SequencesExt

NUL == "nul"

isspace(c) == c \in {" ", "\t", "\n", "\r", "\f", "vt"}

\* An array without a NUL: strlen runs on past it.
Overruns(array) == \A k \in DOMAIN array : array[k] # NUL

strlen(array) == (CHOOSE k \in DOMAIN array :
                    /\ array[k] = NUL
                    /\ \A j \in 1 .. k - 1 : array[j] # NUL) - 1

\* Broken variant: the line is left as it is.
memset_Forgotten(array, n) == array

\* memset(array, 0, n), and array[k] = '\0'.
memset(array, n)     == [k \in DOMAIN array |-> IF k <= n THEN NUL ELSE array[k]]
Terminated(array, k) == [j \in DOMAIN array |-> IF j = k THEN NUL ELSE array[j]]

\* The next character from p on that is in a word, and the next that is in
\* none, or the end of the line.
NextWord(line, p) ==
  CHOOSE q \in p .. Len(line) + 1 : /\ q = Len(line) + 1 \/ ~ isspace(line[q])
                                    /\ \A r \in p .. q - 1 : isspace(line[r])

NextBlank(line, p) ==
  CHOOSE q \in p .. Len(line) + 1 : /\ q = Len(line) + 1 \/ isspace(line[q])
                                    /\ \A r \in p .. q - 1 : ~ isspace(line[r])

\* The words, and the count tokenize_line adds to: it counts before it skips
\* blanks, so blanks at the end count as a word that is not there.  The array
\* it returns is made for capacity words and one more, and each word is stored
\* in the next slot whether there is one or not.
tokenize_line(line, capacity) ==
  LET end == Len(line) + 1
      from[p \in 1 .. end] ==
        LET start == NextWord(line, p)
            stop  == NextBlank(line, start)
        IN  IF p = end THEN [words |-> <<>>, count |-> 0]
            ELSE IF start = end THEN [words |-> <<>>, count |-> 1]
            ELSE [words |-> <<SubSeq(line, start, stop - 1)>> \o from[stop].words,
                  count |-> from[stop].count + 1]
  IN  [words |-> from[1].words, count |-> from[1].count,
       spilled |-> Len(from[1].words) > capacity + 1]

\* The longest spans of a line without a blank, by their first and last place.
Spans(line) ==
  LET blank(k) == k \notin DOMAIN line \/ isspace(line[k])
  IN  {r \in (DOMAIN line) \X (DOMAIN line) :
         /\ blank(r[1] - 1) /\ blank(r[2] + 1)
         /\ r[1] <= r[2] /\ \A k \in r[1] .. r[2] : ~ blank(k)}

\* What the words of a line are: all its spans, in order.
AreWords(words, line) ==
  \E span \in [DOMAIN words -> Spans(line)] :
    /\ \A i, j \in DOMAIN words : i < j => span[i][1] < span[j][1]
    /\ \A r \in Spans(line) : \E i \in DOMAIN words : span[i] = r
    /\ \A i \in DOMAIN words : words[i] = SubSeq(line, span[i][1], span[i][2])
=============================================================================
