----------------------------- MODULE Artifacts ------------------------------
(***************************************************************************)
(* The binary artifacts of a pack: the n-gram tables and the dictionary     *)
(* prefix index, written as fields behind a magic number and read back by a *)
(* cursor that refuses what is cut short, too long or not its own.           *)
(*                                                                         *)
(* Abstracted data: an artifact is a sequence of units; a number is one     *)
(* unit, a string or a blob its length and then its own units.              *)
(***************************************************************************)
EXTENDS Integers, Sequences

CONSTANTS
    NgramMagic, PrefixMagic,
    MaxString,      \* MAX_NGRAM_STRING_BYTES
    MaxEntries      \* MAX_NGRAM_ENTRIES

Unit == Nat

NgramEntry == [key : Seq(Unit), score : Unit]

LanguageData == [tag : Seq(Unit), bigramFloor : Unit, trigramFloor : Unit,
                 bigrams : Seq(NgramEntry), trigrams : Seq(NgramEntry)]

IndexData == [sum : Seq(Unit), sample : Seq(Unit)]

ASSUME UnitAssumption ==
    /\ NgramMagic \in Unit /\ PrefixMagic \in Unit
    /\ MaxString \in Nat /\ MaxEntries \in Nat

\* A cursor over an artifact, what it has read last, and whether it failed.
Reader(bytes) == [bytes |-> bytes, position |-> 0, value |-> <<>>, ok |-> TRUE]

Refused(reader) == [reader EXCEPT !.ok = FALSE]

ReadExact(reader, len) ==
    IF ~reader.ok \/ Len(reader.bytes) - reader.position < len THEN Refused(reader)
    ELSE [reader EXCEPT
            !.position = @ + len,
            !.value = SubSeq(reader.bytes, reader.position + 1, reader.position + len)]

ReadUnit(reader) ==
    LET read == ReadExact(reader, 1)
    IN  IF read.ok THEN [read EXCEPT !.value = @[1]] ELSE read

\* The units that follow their number, which may not exceed max.
ReadCounted(reader, max) ==
    LET len == ReadUnit(reader)
    IN  IF ~len.ok \/ len.value > max THEN Refused(len) ELSE ReadExact(len, len.value)

\* Mistake: what follows the last field is not looked at.
FinishEarly(reader) == reader

Finish(reader) ==
    IF reader.position # Len(reader.bytes) THEN Refused(reader) ELSE reader

ReadMagic(bytes, magic) ==
    LET read == ReadUnit(Reader(bytes))
    IN  IF read.ok /\ read.value # magic THEN Refused(read) ELSE read

Counted(units) == <<Len(units)>> \o units

-----------------------------------------------------------------------------
(* The dictionary prefix index: two blobs                                   *)

EncodeIndex(index) == <<PrefixMagic>> \o Counted(index.sum) \o Counted(index.sample)

DecodeIndex(bytes) ==
    LET sum == ReadCounted(ReadMagic(bytes, PrefixMagic), Len(bytes))
        sample == ReadCounted(sum, Len(bytes))
    IN  [ok |-> Finish(sample).ok,
         value |-> [sum |-> sum.value, sample |-> sample.value]]

-----------------------------------------------------------------------------
(* The n-gram tables                                                        *)

TooLong(table) ==
    Len(table) > MaxEntries \/ \E i \in DOMAIN table : Len(table[i].key) > MaxString

\* An artifact that the reader would refuse is not written.
CanEncode(data) ==
    Len(data.tag) <= MaxString /\ ~TooLong(data.bigrams) /\ ~TooLong(data.trigrams)

\* The first n entries of a table as they are written, for every n.
EncodedEntries(table) ==
    LET entries[n \in 0..Len(table)] ==
            IF n = 0 THEN <<>>
            ELSE entries[n - 1] \o Append(Counted(table[n].key), table[n].score)
    IN  entries

EncodeTable(table) == <<Len(table)>> \o EncodedEntries(table)[Len(table)]

EncodeLanguage(data) ==
    <<NgramMagic>> \o Counted(data.tag) \o <<data.bigramFloor, data.trigramFloor>>
        \o EncodeTable(data.bigrams) \o EncodeTable(data.trigrams)

ReadEntry(state) ==
    LET key == ReadCounted(state.reader, MaxString)
        score == ReadUnit(key)
    IN  [reader |-> score,
         table |-> Append(state.table, [key |-> key.value, score |-> score.value])]

\* What the cursor has after n entries, for every n up to a count.
ReadEntries(reader, count) ==
    LET read[n \in 0..count] ==
            IF n = 0 THEN [reader |-> reader, table |-> <<>>] ELSE ReadEntry(read[n - 1])
    IN  read

ReadTable(reader) ==
    LET len == ReadUnit(reader)
    IN  IF len.ok /\ len.value <= MaxEntries THEN ReadEntries(len, len.value)[len.value]
        ELSE [reader |-> Refused(len), table |-> <<>>]

DecodeLanguage(bytes) ==
    LET tag == ReadCounted(ReadMagic(bytes, NgramMagic), MaxString)
        bigramFloor == ReadUnit(tag)
        trigramFloor == ReadUnit(bigramFloor)
        bigrams == ReadTable(trigramFloor)
        trigrams == ReadTable(bigrams.reader)
    IN  [ok |-> Finish(trigrams.reader).ok,
         value |-> [tag |-> tag.value,
                    bigramFloor |-> bigramFloor.value, trigramFloor |-> trigramFloor.value,
                    bigrams |-> bigrams.table, trigrams |-> trigrams.table]]

=============================================================================
