----------------------------- MODULE Dictionary -----------------------------
(***************************************************************************)
(* The word-frequency dictionary of a language: how it is built from a      *)
(* frequency list, how many words begin with a token, found by a walk of    *)
(* the dictionary, and the index that answers the same without the walk.    *)
(*                                                                         *)
(* Abstracted data: a word is a sequence of letters, which are numbers in   *)
(* the order of their bytes; a dictionary (the FST) maps words to counts    *)
(* and is walked in lexicographic order.                                    *)
(***************************************************************************)
EXTENDS Integers, Sequences, FiniteSets, SequencesExt

CONSTANTS
    SampleCap,      \* PREFIX_SAMPLE_CAP (64)
    TopByte,        \* u8::MAX
    TopCount        \* u64::MAX

ASSUME DictionaryAssumption ==
    SampleCap \in Nat \ {0} /\ TopByte \in Nat /\ TopCount \in Nat

SaturatingAdd(a, b) == IF a + b > TopCount THEN TopCount ELSE a + b

\* The order of the FST: byte by byte, a prefix before what it begins.
Before(u, w) ==
    \/ u # w /\ IsPrefix(u, w)
    \/ \E i \in DOMAIN u \cap DOMAIN w :
          u[i] < w[i] /\ \A j \in 1..(i - 1) : u[j] = w[j]

Stream(dict) ==
    [n \in 1..Cardinality(DOMAIN dict) |->
        CHOOSE w \in DOMAIN dict :
            Cardinality({u \in DOMAIN dict : Before(u, w)}) = n - 1]

Exact(dict, token) == IF token \in DOMAIN dict THEN dict[token] ELSE 0

-----------------------------------------------------------------------------
(* Building a dictionary from the lines of a frequency list                 *)

\* A line that is short, has no count, or is not a word of the alphabet, is
\* skipped; spellings that normalise to one word are added up.
BuildCounts(lines) ==
    LET kept == {i \in DOMAIN lines : lines[i].word # <<>>}
        total(word) ==
            LET sum[n \in 0..Len(lines)] ==
                    IF n = 0 THEN 0
                    ELSE IF lines[n].word = word THEN sum[n - 1] + lines[n].count
                    ELSE sum[n - 1]
            IN  sum[Len(lines)]
    IN  [w \in {lines[i].word : i \in kept} |-> total(w)]

\* The most frequent words, and of equal ones the first.
BuildFst(lines, topK) ==
    LET counts == BuildCounts(lines)
        Ahead(u, w) == \/ counts[u] > counts[w]
                       \/ counts[u] = counts[w] /\ Before(u, w)
        top == {w \in DOMAIN counts :
                   Cardinality({u \in DOMAIN counts : Ahead(u, w)}) < topK}
    IN  [w \in top |-> counts[w]]

-----------------------------------------------------------------------------
(* dict_lookup: the walk                                                    *)

\* The first word after all that begin with the prefix; empty when none can be.
PrefixUpperBound(prefix) ==
    LET low == {i \in DOMAIN prefix : prefix[i] < TopByte}
        last == CHOOSE i \in low : \A j \in low : j <= i
    IN  IF low = {} THEN <<>>
        ELSE Append(SubSeq(prefix, 1, last - 1), prefix[last] + 1)

InRange(word, token) ==
    LET upper == PrefixUpperBound(token)
    IN  ~Before(word, token) /\ (upper = <<>> \/ Before(word, upper))

DictLookup(token, dict) ==
    LET words == Stream(dict)
        walk[n \in 0..Len(words)] ==
            IF n = 0 THEN [sum |-> 0, count |-> 0]
            ELSE IF ~InRange(words[n], token) \/ walk[n - 1].count >= SampleCap
            THEN walk[n - 1]
            ELSE [sum |-> SaturatingAdd(walk[n - 1].sum, dict[words[n]]),
                  count |-> walk[n - 1].count + 1]
        end == walk[Len(words)]
    IN  [exact_count |-> Exact(dict, token), prefix_sum |-> end.sum,
         prefix_sample |-> end.count]

-----------------------------------------------------------------------------
(* The index, built in one walk                                             *)

Entry(prefix) == [prefix |-> prefix, sum |-> 0, sample |-> 0]

\* Mistake: the cap is tested after the word was added.
RecordSampleLate(entry, value) ==
    IF entry.sample > SampleCap THEN entry
    ELSE [entry EXCEPT !.sum = SaturatingAdd(@, value), !.sample = @ + 1]

RecordSample(entry, value) ==
    IF entry.sample >= SampleCap THEN entry
    ELSE [entry EXCEPT !.sum = SaturatingAdd(@, value), !.sample = @ + 1]

\* The lengths of the prefixes of a word; of the empty one, the word itself.
PrefixEnds(word) == IF word = <<>> THEN <<0>> ELSE [i \in DOMAIN word |-> i]

\* How many of the active entries the word continues.
Kept(active, word) ==
    Cardinality({k \in DOMAIN active :
        \A i \in 1..k : IsPrefix(active[i].prefix, word)})

\* Entries of prefixes the next word does not have are finished; those it has
\* beyond them are opened; all that are active count the word.
Walk(index, word, value) ==
    LET keep == Kept(index.active, word)
        ends == PrefixEnds(word)
        opened == [i \in 1..(Len(ends) - keep) |->
                      Entry(SubSeq(word, 1, ends[keep + i]))]
        active == SubSeq(index.active, 1, keep) \o
                     (IF Len(ends) > keep THEN opened ELSE <<>>)
    IN  [active |-> [i \in DOMAIN active |-> RecordSample(active[i], value)],
         entries |-> index.entries \o
            SubSeq(index.active, keep + 1, Len(index.active))]

BuildPrefixIndex(dict) ==
    LET words == Stream(dict)
        index[n \in 0..Len(words)] ==
            IF n = 0 THEN [active |-> <<>>, entries |-> <<>>]
            ELSE Walk(index[n - 1], words[n], dict[words[n]])
        end == index[Len(words)]
    IN  ToSet(end.entries \o end.active)

IndexLookup(entries, token, dict) ==
    LET found == {e \in entries : e.prefix = token}
        entry == CHOOSE e \in found : TRUE
    IN  [exact_count |-> Exact(dict, token),
         prefix_sum |-> IF found = {} THEN 0 ELSE entry.sum,
         prefix_sample |-> IF found = {} THEN 0 ELSE entry.sample]

=============================================================================
