--------------------------- MODULE SmallKeyboard ---------------------------
(***************************************************************************)
(* A small keyboard and two small languages for TLC.  Three keys: two that  *)
(* are letters in both layouts and one that is a comma in English and a     *)
(* letter in the secondary layout; one of them also comes with Shift.       *)
(*                                                                         *)
(* The words make every kind of decision happen within MaxTokenLen: a       *)
(* dictionary prefix that wins, an n-gram-only win, a win that a later      *)
(* letter takes back, a comma that ends a word and one that belongs to a    *)
(* word.                                                                   *)
(***************************************************************************)
EXTENDS Integers, Sequences, FiniteSets, SequencesExt

MCLetterEvent == {[physical_key |-> "A", shift |-> FALSE],
                  [physical_key |-> "A", shift |-> TRUE],
                  [physical_key |-> "B", shift |-> FALSE],
                  [physical_key |-> "Comma", shift |-> FALSE]}

MCRender(e, l) ==
    IF l = "English"
    THEN CASE e.physical_key = "A"     -> IF e.shift THEN "A" ELSE "a"
           [] e.physical_key = "B"     -> "b"
           [] e.physical_key = "Comma" -> ","
    ELSE CASE e.physical_key = "A"     -> IF e.shift THEN "F" ELSE "f"
           [] e.physical_key = "B"     -> "i"
           [] e.physical_key = "Comma" -> "w"

MCChar == {"a", "A", "b", ",", "f", "F", "i", "w"}

MCPunctuationLetterKeys == {","}

\* to_lowercase
Lower(c) == CASE c = "A" -> "a" [] c = "F" -> "f" [] OTHER -> c

Words(l) == IF l = "English" THEN {<<"b", "b", "a", "a">>}
                             ELSE {<<"i", "i">>, <<"f", "w", "i">>}
LikelyPair(l) == IF l = "English" THEN {<<"b", "a">>}
                                  ELSE {<<"f", "f">>}

\* The n-gram part counts the likely pairs of the history; the dictionary part
\* is that of score_layout_from_ngrams with log10(1 + 1) taken as 0.
MCScoreLayout(l, text, history) ==
    LET word   == [i \in 1..Len(text) |-> Lower(text[i])]
        past   == [i \in 1..Len(history) |-> Lower(history[i])]
        pairs  == {i \in 1..Len(past) - 1 : <<past[i], past[i + 1]>> \in LikelyPair(l)}
        exact  == IF word \in Words(l) THEN 1 ELSE 0
        prefix == IF word = <<>> THEN 0
                  ELSE Cardinality({w \in Words(l) : IsPrefix(word, w)})
    IN [total        |-> Cardinality(pairs) + 2 * exact
                             + (IF prefix > exact THEN 1 ELSE 0),
        exact_count  |-> exact,
        prefix_sum   |-> prefix]

=============================================================================
