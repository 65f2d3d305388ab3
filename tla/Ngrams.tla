------------------------------- MODULE Ngrams -------------------------------
(***************************************************************************)
(* N-gram statistics: counted over a corpus by several workers, batch by     *)
(* batch, compiled into tables, and summed over a text, either from scratch  *)
(* or in the totals the engine keeps while a token grows and shrinks.        *)
(*                                                                         *)
(* Abstracted data: an n-gram is the sequence of its two or three letters    *)
(* (packed into 64 bits in the code), a table of counts a bag, and a         *)
(* logarithm an integer of the table: sums are exact, where f32 rounds.      *)
(***************************************************************************)
EXTENDS Integers, Sequences, FiniteSets, SequencesExt

CONSTANTS
    Chars,              \* the characters
    Lowercase(_),       \* char::to_lowercase: one letter or several
    Alphabet,           \* the letters of the language, in lower case
    BatchLines,         \* NGRAM_BATCH_LINES (8192)
    BatchBytes          \* NGRAM_BATCH_BYTES (8 MiB)

ASSUME LowercaseAssumption ==
    /\ Alphabet \subseteq Chars
    /\ \A char \in Chars : Lowercase(char) \in Seq(Chars) \ {<<>>}

-----------------------------------------------------------------------------
(* Counting                                                                 *)

\* The builder's Normalizer takes the first letter of the lower case.
Normalize(char) == Lowercase(char)[1]
IsLetter(char) == Normalize(char) \in Alphabet

\* TextFilter: a line without a marker of the language is skipped.
Accepts(line, markers) ==
    markers = {} \/ \E i \in DOMAIN line : Normalize(line[i]) \in markers

\* Mistake: what is not a letter does not end the run before it.
AfterNonLetterKept(state) == state

AfterNonLetter(state) == [state EXCEPT !.previous = <<>>]

\* The letters before this one, at most two, make a bigram and a trigram.
CountLetter(state, char) ==
    IF ~IsLetter(char) THEN AfterNonLetter(state)
    ELSE LET run == Append(state.previous, Normalize(char))
             last(n) == SubSeq(run, Len(run) - n + 1, Len(run))
         IN  [previous |-> IF Len(run) > 2 THEN Tail(run) ELSE run,
              counts |-> state.counts
                  (+) (IF Len(run) >= 2 THEN SetToBag({last(2)}) ELSE EmptyBag)
                  (+) (IF Len(run) >= 3 THEN SetToBag({last(3)}) ELSE EmptyBag)]

CountLine(line) ==
    LET after[n \in 0..Len(line)] ==
            IF n = 0 THEN [previous |-> <<>>, counts |-> EmptyBag]
            ELSE CountLetter(after[n - 1], line[n])
    IN  after[Len(line)].counts

CountChunk(lines, markers) ==
    LET after[n \in 0..Len(lines)] ==
            IF n = 0 THEN EmptyBag
            ELSE IF Accepts(lines[n], markers) THEN after[n - 1] (+) CountLine(lines[n])
            ELSE after[n - 1]
    IN  after[Len(lines)]

\* Each worker counts a run of lines; the counts are added up.
CountLines(lines, workers, markers) ==
    LET active == IF workers > Len(lines) THEN Len(lines) ELSE workers
        size == IF active = 0 THEN 1 ELSE (Len(lines) + active - 1) \div active
        chunk(n) == SubSeq(lines, (n - 1) * size + 1,
                           IF n * size > Len(lines) THEN Len(lines) ELSE n * size)
        chunks == (Len(lines) + size - 1) \div size
        merged[n \in 0..chunks] ==
            IF n = 0 THEN EmptyBag ELSE merged[n - 1] (+) CountChunk(chunk(n), markers)
    IN  merged[chunks]

\* A line and its end.
Bytes(line) == Len(line) + 1

\* Batches are counted as they fill; reading ends with the line that reaches
\* the budget, at the earliest with the first.
ReadLine(state, line, workers, markers, budget) ==
    LET batch == Append(state.batch, line)
        bytes == state.bytes + Bytes(line)
        seen == state.seen + Bytes(line)
    IN  IF state.seen > 0 /\ state.seen >= budget THEN state
        ELSE IF \/ Len(batch) >= BatchLines
                \/ bytes >= BatchBytes
                \/ seen >= budget
        THEN [batch |-> <<>>, bytes |-> 0, seen |-> seen,
              counts |-> state.counts (+) CountLines(batch, workers, markers)]
        ELSE [batch |-> batch, bytes |-> bytes, seen |-> seen, counts |-> state.counts]

CountNgrams(corpus, workers, markers, budget) ==
    LET after[n \in 0..Len(corpus)] ==
            IF n = 0 THEN [batch |-> <<>>, bytes |-> 0, seen |-> 0, counts |-> EmptyBag]
            ELSE ReadLine(after[n - 1], corpus[n], workers, markers, budget)
        end == after[Len(corpus)]
    IN  end.counts (+) CountLines(end.batch, workers, markers)

-----------------------------------------------------------------------------
(* Compiling: probabilities smoothed over the vocabulary, as fractions       *)

OfOrder(counts, n) == {g \in BagToSet(counts) : Len(g) = n}

CompileTable(counts, n) ==
    LET total == SumFunctionOnSet(counts, OfOrder(counts, n))
        vocabulary == Cardinality(Alphabet) ^ n
    IN  [floor |-> <<1, total + vocabulary>>,
         table |-> [g \in OfOrder(counts, n) |-> <<counts[g] + 1, total + vocabulary>>]]

\* A corpus without bigrams or trigrams is refused.
CanCompile(counts) == OfOrder(counts, 2) # {} /\ OfOrder(counts, 3) # {}

-----------------------------------------------------------------------------
(* Scoring; a model has a table and a floor for each order                  *)

LogProb(order, ngram) ==
    IF ngram \in DOMAIN order.table THEN order.table[ngram] ELSE order.floor

\* The sums over the first k letters of a text, for every k.
Sums(order, n, text) ==
    LET sum[k \in 0..Len(text)] ==
            IF k = 0 THEN 0
            ELSE IF k < n THEN sum[k - 1]
            ELSE sum[k - 1] + LogProb(order, SubSeq(text, k - n + 1, k))
    IN  sum

\* score_ngrams: from scratch.
ScoreNgrams(model, text) ==
    [bigram |-> Sums(model.bigram, 2, text)[Len(text)],
     trigram |-> Sums(model.trigram, 3, text)[Len(text)],
     count |-> Len(text)]

\* The lower case of the first n characters of a text, for every n.
Lowered(text) ==
    LET lower[n \in 0..Len(text)] ==
            IF n = 0 THEN <<>> ELSE lower[n - 1] \o Lowercase(text[n])
    IN  lower

\* lowercase_if_needed: what precedes the first character that changes is
\* copied, what follows it is lowered one by one.
LowercaseIfNeeded(text) ==
    LET changed == {i \in DOMAIN text : Lowercase(text[i]) # <<text[i]>>}
        first == CHOOSE i \in changed : \A j \in changed : i <= j
        rest == SubSeq(text, first, Len(text))
    IN  IF changed = {} THEN text
        ELSE SubSeq(text, 1, first - 1) \o Lowered(rest)[Len(rest)]

-----------------------------------------------------------------------------
(* RollingNgrams: the sums kept with the token                              *)

NoTotals == [raw_bigram |-> 0, raw_trigram |-> 0, normalized |-> <<>>,
             chunk_lens |-> <<>>, bigram_contribs |-> <<>>, trigram_contribs |-> <<>>]

PushNormalized(model, rolling, current) ==
    LET run == Append(rolling.normalized, current)
        len == Len(run)
        bigram == IF len >= 2
                  THEN LogProb(model.bigram, SubSeq(run, len - 1, len)) ELSE 0
        trigram == IF len >= 3
                   THEN LogProb(model.trigram, SubSeq(run, len - 2, len)) ELSE 0
    IN  [rolling EXCEPT
            !.raw_bigram = @ + bigram, !.raw_trigram = @ + trigram,
            !.normalized = run,
            !.bigram_contribs = Append(@, bigram),
            !.trigram_contribs = Append(@, trigram)]

PushLetters(model, rolling, letters) ==
    LET after[n \in 0..Len(letters)] ==
            IF n = 0 THEN rolling ELSE PushNormalized(model, after[n - 1], letters[n])
    IN  after[Len(letters)]

PushCharacter(model, rolling, char) ==
    LET letters == Lowercase(char)
    IN  [PushLetters(model, rolling, letters) EXCEPT !.chunk_lens = Append(@, Len(letters))]

PopNormalized(rolling) ==
    [rolling EXCEPT
        !.normalized = Front(@),
        !.raw_bigram = @ - Last(rolling.bigram_contribs),
        !.raw_trigram = @ - Last(rolling.trigram_contribs),
        !.bigram_contribs = Front(@),
        !.trigram_contribs = Front(@)]

\* Mistake: a character is taken to have been one letter.
LettersToPopOne(rolling) == 1

LettersToPop(rolling) == Last(rolling.chunk_lens)

PopLetters(rolling, count) ==
    LET after[n \in 0..count] ==
            IF n = 0 THEN rolling ELSE PopNormalized(after[n - 1])
    IN  after[count]

\* One character takes back all the letters it was lowered to.
PopCharacter(rolling) ==
    IF rolling.chunk_lens = <<>> THEN rolling
    ELSE [PopLetters(rolling, LettersToPop(rolling)) EXCEPT !.chunk_lens = Front(@)]

Totals(rolling) ==
    [bigram |-> rolling.raw_bigram, trigram |-> rolling.raw_trigram,
     count |-> Len(rolling.normalized)]

=============================================================================
