------------------------------ MODULE MCRules -------------------------------
(***************************************************************************)
(* The pure rules of the system on small inputs.  An initial state is one    *)
(* input of one of the rules; only the rolling totals go on from there, with *)
(* each character typed or erased.                                          *)
(***************************************************************************)
EXTENDS HostConfig, PackManifest, Dictionary, Artifacts, Ngrams

CONSTANT MaxTyped       \* bound: characters of a token

VARIABLE sample

ASSUME SampleKeys == KeyCount = 2

ASSUME SampleSigns == {"a", "b", "semicolon", "colon", "latin", "cyrillic", "none",
                      "combining"} \subseteq STRING

ASSUME SampleStrings ==
    {"editor", "warp", "notes", "fr", "de", "french", "ukrainian", "home", "env",
     "own", "explicit", "data", "uk", "with/slash", "French", "us", "jcuken", "unknown",
     "abc", "corpus", "words.fst", "../parent"} \subseteq STRING \ {NoWord}

-----------------------------------------------------------------------------
(* The policy: every two descriptions of a surface and pairs of lists of    *)
(* which one says more                                                      *)

MCBundles == {None, Id("editor"), [Id("editor") EXCEPT !.padded = TRUE],
              [Id("warp") EXCEPT !.upper = TRUE], Id("notes")}
MCFields == {<<a, b>> : a, b \in {None, {}, {"text"}, {"tty", "text"}}}
MCFacts == [secure : BOOLEAN, bundle : MCBundles, fields : MCFields]
MCListed == {{}, {Id("editor")}, {[Id("editor") EXCEPT !.padded = TRUE], Id(NoWord)}}
MCApps == [disable : MCListed, disableAuto : MCListed]

PolicySample ==
    \E facts, fewer \in MCFacts, apps, less \in MCApps :
        /\ KnowsMore(facts, fewer) /\ DisablesMore(apps, less)
        /\ sample = [topic |-> "policy", facts |-> facts, fewer |-> fewer,
                     apps |-> apps, less |-> less]

ConfigFor(apps) == FromSource([DefaultConfig EXCEPT !.apps = apps],
                              [home |-> None, config |-> None, data |-> None,
                               packs |-> None], None)

\* Knowing more about a surface, or disabling more applications, never allows
\* what was forbidden before, whichever of the described fields betrays a
\* terminal; without a configuration everything is forbidden.
PolicyFailsClosed ==
    sample.topic = "policy" =>
        /\ AtLeastAsStrict(HostPolicy(ConfigFor(sample.apps), sample.facts),
                           HostPolicy(ConfigFor(sample.less), sample.fewer))
        /\ AtLeastAsStrict(HostPolicy(None, sample.facts),
                           HostPolicy(ConfigFor(sample.apps), sample.facts))

-----------------------------------------------------------------------------
(* Switching packs: every environment, file and explicit path               *)

MCEnvironments ==
    [home : {None, "home"}, config : {None, <<"env", "config.toml">>},
     data : {None, <<"env", "data">>}, packs : {None, <<"env", "packs">>}]
MCConfigs ==
    [engineValid : BOOLEAN, secondary : {Id("uk"), Id("with/slash")},
     packs : {None, <<"own", "packs">>}, data : {None, <<"own", "data">>},
     source : {None, Id("ukrainian"), Id("french")},
     apps : {[disable |-> {Id("editor")}, disableAuto |-> {}]}]
MCPaths == {<<"home", "config.toml">>, <<"explicit", "config.toml">>}
MCIds == {Id("uk"), Id("en"), Id("fr"), [Id("fr") EXCEPT !.padded = TRUE], Id("de"),
          Id("with/slash"), Id(NoWord)}

\* Whatever the name of its directory, every installed pack is the French one;
\* of two data directories one loads.
MCDisk ==
    [packs |-> [place \in ({<<"own", "packs">>} \X (MCIds \ {Id(NoWord)}))
                          \cup {<<<<"home", "packs">>, Id("fr")>>} |-> Id("fr")],
     data |-> {<<"own", "data">>}]

ConfigSample ==
    \E env \in MCEnvironments, explicit \in {None, <<"explicit", "config.toml">>},
       paths \in SUBSET MCPaths, config \in MCConfigs \cup {Failed},
       id \in MCIds :
        sample = [topic |-> "config", env |-> env, explicit |-> explicit,
                  files |-> [p \in paths |-> config], id |-> id]

\* What a `pack use` that reported success is contradicted by: a setting the
\* engine refuses, the primary language for a secondary one, an input source that
\* is not the one of the embedded language, and a data directory, which has no
\* language but that one or does not load.
Contradicted(config, env, id, disk) ==
    \/ ~config.engineValid
    \/ id = Id("en")
    \/ id = Id("uk") /\ ~SourceMatchesSecondary(id, NormalizedOptional(config.source))
    \/ DataDir(config, env) # None /\ (id # Id("uk") \/ DataDir(config, env) \notin disk.data)

\* What is then loaded: the data directory, the embedded language, or the very
\* pack that was found under the name given, whatever its manifest calls it.
Chosen(config, env, id, disk) ==
    IF DataDir(config, env) # None THEN LoadData(disk, DataDir(config, env))
    ELSE IF id = Id("uk") THEN <<"embedded", id>>
    ELSE LoadPack(disk, PackDir(config, env), id)

\* After a `pack use` that reported success, a host that loads its config
\* afresh has that choice and every other setting as before, and gets an engine
\* from the pack the command found; if something contradicts the choice it gets
\* an error, never an engine from something else.  A `config init` that reported
\* success replaced no file, and changes nothing for a host that went by the
\* defaults.
ConfigCommandsTakeEffect ==
    sample.topic = "config" =>
        LET s == sample
            used == UsePack(s.id, s.explicit, s.env, s.files, MCDisk)
            created == ConfigInit(s.explicit, s.env, s.files)
            path == WritableConfigPath(s.explicit, s.env)
            before == IF path \in DOMAIN s.files THEN s.files[path] ELSE DefaultConfig
            loaded == HostConfigLoad(s.explicit, s.env, used)
            engine == EngineAfter(s.explicit, s.env, used, MCDisk)
            byDefault == HostConfigLoadDefaults(s.env)
        IN  /\ used # Failed /\ FileDecides(s.explicit, s.env) =>
                  IF before = Failed THEN FALSE
                  ELSE IF Contradicted(before, s.env, s.id, MCDisk) THEN engine = ReturnedNull
                  ELSE /\ engine = Returned(Chosen(before, s.env, s.id, MCDisk))
                       /\ Described(loaded.value).secondary = s.id
                       /\ Described(loaded.value).source = path
                       /\ loaded.value = FromSource([before EXCEPT !.secondary = s.id],
                                                    s.env, path)
            /\ created # Failed =>
                  /\ \A p \in DOMAIN s.files : created[p] = s.files[p]
                  /\ FileDecides(s.explicit, s.env) /\ ~byDefault.error =>
                        HostConfigLoad(s.explicit, s.env, created).value =
                           [byDefault.value EXCEPT !.source_path = path]

-----------------------------------------------------------------------------
(* Keyboard maps: every two maps over two keys                              *)

MCChars == {Letter("a", "latin", FALSE), Letter("a", "latin", TRUE),
            Letter("b", "cyrillic", FALSE), Letter("b", "cyrillic", TRUE),
            Mark("semicolon"), Mark("colon")}
MCEnglish == [unshifted |-> <<Letter("a", "latin", FALSE), Mark("semicolon")>>,
              shifted |-> <<Letter("a", "latin", TRUE), Mark("colon")>>]
MCEnglishPlaces ==
    [sign \in {"a", "semicolon", "colon"} |->
        CASE sign = "a" -> [physical_key |-> 1, shift |-> FALSE]
          [] sign = "semicolon" -> [physical_key |-> 2, shift |-> FALSE]
          [] sign = "colon" -> [physical_key |-> 2, shift |-> TRUE]]
MCRows == [unshifted : [Key -> MCChars], shifted : [Key -> MCChars]]

KeyboardSample ==
    \E secondary \in MCRows, char \in MCChars :
        sample = [topic |-> "keyboard", secondary |-> secondary, char |-> char]

\* A character that is on a keyboard, typed into the tools that go from text to
\* key events, comes back from the layout that has it, English first; English
\* characters stand for the same event in both of the tables the code has.
TypedCharacterRoundTrips ==
    sample.topic = "keyboard" =>
        LET secondary == sample.secondary
            char == sample.char
            event == BundleEventFromChar(MCEnglish, secondary, char)
            shown == RenderCandidates(MCEnglish, secondary, <<event>>)
        IN  /\ char \in CharsOf(MCEnglish) =>
                  /\ shown.english = <<char>>
                  /\ event = FromChar(MCEnglishPlaces, char)
            /\ Cased(secondary) /\ char \in CharsOf(secondary) \ CharsOf(MCEnglish) =>
                  shown.secondary = <<char>>

-----------------------------------------------------------------------------
(* The dictionary: frequency lists over words of at most three letters      *)

ASSUME SampleBytes == 2 <= TopByte

MCWords == {<<1>>, <<2>>, <<1, 1>>, <<1, 2>>, <<2, 2>>, <<1, 1, 2>>, <<1, 2, 1>>}
MCTokens == MCWords \cup {<<2, 1>>, <<1, 2, 2>>, <<1, 2, 1, 1>>}
MCLines(words, more) ==
    LET Heavy(w) == IF w \in more THEN 3 ELSE 1
        line(w, n) == [word |-> w, count |-> n]
        all == [i \in 1..Cardinality(words) |->
                   Stream([w \in words |-> 1])[i]]
    IN  [i \in DOMAIN all |-> line(all[i], Heavy(all[i]))]
            \o <<line(<<>>, 9), line(<<1, 2>>, 2)>>

DictionarySample ==
    \E words \in SUBSET MCWords, more \in {{}, {<<1, 1>>, <<2>>}, {<<1, 2, 1>>}},
       topK \in {2, 5, 9} :
        sample = [topic |-> "dictionary",
                  dict |-> BuildFst(MCLines(words, more), topK)]

\* For every dictionary the builder makes and every token, the index that was
\* built in one pass answers what the walk of the dictionary answers: the same
\* capped sample, with shared prefixes, saturated sums and the last letter of
\* the alphabet.
PrefixIndexIsExact ==
    sample.topic = "dictionary" =>
        LET index == BuildPrefixIndex(sample.dict)
        IN  \A token \in MCTokens :
               IndexLookup(index, token, sample.dict) = DictLookup(token, sample.dict)

-----------------------------------------------------------------------------
(* Artifacts                                                                *)

MCTables == {<<>>} \cup {<<[key |-> k, score |-> 1]>> : k \in {<<>>, <<5>>, <<5, 6>>}}
            \cup {<<[key |-> <<5>>, score |-> 1], [key |-> <<6>>, score |-> 2]>>}

ArtifactSample ==
    \E tag \in {<<>>, <<7>>, <<7, 8>>}, bigrams, trigrams \in MCTables,
       sum \in {<<>>, <<1, 2>>} :
        sample = [topic |-> "artifact",
                  data |-> [tag |-> tag, bigramFloor |-> 3, trigramFloor |-> 4,
                            bigrams |-> bigrams, trigrams |-> trigrams],
                  index |-> [sum |-> sum, sample |-> <<9>>]]

\* An artifact that was written whole is read as it was; one that was cut
\* anywhere, or goes on after its end, is refused.
DamagedArtifactsAreRefused ==
    sample.topic = "artifact" =>
        LET bytes == EncodeLanguage(sample.data)
            index == EncodeIndex(sample.index)
            cut(b) == {SubSeq(b, 1, n) : n \in 0..(Len(b) - 1)}
        IN  /\ DecodeIndex(index) = [ok |-> TRUE, value |-> sample.index]
            /\ \A b \in cut(index) \cup {Append(index, 1)} : ~DecodeIndex(b).ok
            /\ DecodeLanguage(bytes).ok = CanEncode(sample.data)
            /\ CanEncode(sample.data) =>
                  /\ DecodeLanguage(bytes).value = sample.data
                  /\ \A b \in cut(bytes) \cup {Append(bytes, 1)} : ~DecodeLanguage(b).ok

-----------------------------------------------------------------------------
(* Counting: corpora of up to three lines                                   *)

\* 1 and 2 are letters, 3 is lowered to two of them, 0 is none.
MCLowercase(char) == IF char = 3 THEN <<1, 2>> ELSE <<char>>
MCAlphabet == {1, 2}
MCCorpusLines == {<<>>, <<1, 2>>, <<1, 0, 2, 1>>, <<2, 1, 3, 2>>}

CountSample ==
    \E corpus \in BoundedSeq(MCCorpusLines, 3), workers \in 1..3,
       budget \in {1, 4, 8, 100}, markers \in {{}, {2}} :
        sample = [topic |-> "counts", corpus |-> corpus, workers |-> workers,
                  budget |-> budget, markers |-> markers]

\* The bytes of the first n lines, for every n.
BytesOf(corpus) ==
    LET sum[n \in 0..Len(corpus)] == IF n = 0 THEN 0 ELSE sum[n - 1] + Bytes(corpus[n])
    IN  sum

\* The lines that are read: the first, and up to the one that reaches the budget.
WithinBudget(corpus, budget) ==
    {l \in DOMAIN corpus : l = 1 \/ BytesOf(corpus)[l - 1] < budget}

Count(counts, ngram) == IF BagIn(ngram, counts) THEN counts[ngram] ELSE 0

MCNgrams == {g \in SeqOf(Alphabet, 3) : Len(g) >= 2}

\* The letters of an n-gram are those of a line up to place i.
EndsAt(line, ngram, i) ==
    /\ Len(ngram) <= i
    /\ \A k \in 1..Len(ngram) : Normalize(line[i - Len(ngram) + k]) = ngram[k]

\* Where an n-gram stands in a corpus: in which lines, and where it ends.
Occurrences(corpus, lines, ngram) ==
    UNION {{l} \X {i \in DOMAIN corpus[l] : EndsAt(corpus[l], ngram, i)} : l \in lines}

\* However lines are batched and spread over workers, each occurrence of an
\* n-gram in the accepted lines within the budget is counted once, and nothing
\* else is: none spans a character that is no letter or the end of a line;
\* what is compiled of the counts is above the floor.
CountsAreOccurrences ==
    sample.topic = "counts" =>
        LET counts == CountNgrams(sample.corpus, sample.workers, sample.markers,
                                  sample.budget)
            lines == {l \in WithinBudget(sample.corpus, sample.budget) :
                         Accepts(sample.corpus[l], sample.markers)}
        IN  /\ BagToSet(counts) \subseteq MCNgrams
            /\ \A g \in MCNgrams :
                  Count(counts, g) = Cardinality(Occurrences(sample.corpus, lines, g))
            /\ CanCompile(counts) =>
                  \A n \in {2, 3} :
                      LET compiled == CompileTable(counts, n)
                      IN  \A g \in DOMAIN compiled.table :
                             compiled.table[g][1] > compiled.floor[1]

-----------------------------------------------------------------------------
(* Rolling totals: every token of characters, typed and erased              *)

ASSUME SampleLetters == {0, 1, 2, 3} \subseteq Chars

MCModel ==
    [bigram |-> [floor |-> -9,
                 table |-> [g \in {<<1, 2>>, <<2, 1>>} |->
                               IF g = <<1, 2>> THEN -2 ELSE -3]],
     trigram |-> [floor |-> -20, table |-> [g \in {<<1, 1, 2>>} |-> -5]]]

RollingSample ==
    sample = [topic |-> "rolling", text |-> <<>>, rolling |-> NoTotals]

TypeCharacter(char) ==
    /\ sample.topic = "rolling" /\ Len(sample.text) < MaxTyped
    /\ sample' = [sample EXCEPT !.text = Append(@, char),
                                !.rolling = PushCharacter(MCModel, @, char)]

EraseCharacter ==
    /\ sample.topic = "rolling"
    /\ sample.text # <<>>
    /\ sample' = [sample EXCEPT !.text = Front(@), !.rolling = PopCharacter(@)]

\* However a token was typed and erased, the totals kept with it are those of
\* scoring its lower-case text from scratch, also when a character is lowered
\* to several letters.
RollingTotalsAreFresh ==
    sample.topic = "rolling" =>
        Totals(sample.rolling) = ScoreNgrams(MCModel, LowercaseIfNeeded(sample.text))

-----------------------------------------------------------------------------
(* Packs: specifications, directories and what is installed over            *)

MCOwnRows == [unshifted |-> <<Letter("b", "cyrillic", FALSE), Mark("semicolon")>>,
              shifted |-> <<Letter("b", "cyrillic", TRUE), Mark("colon")>>]
MCSecondary == [unshifted |-> <<Letter("a", "latin", FALSE), Letter("b", "cyrillic", FALSE)>>,
                shifted |-> <<Letter("a", "latin", TRUE), Letter("b", "cyrillic", TRUE)>>]
MCBadRows == [unshifted |-> <<Letter("b", "combining", FALSE)>>, shifted |-> <<>>]
MCNamedLayouts == [name \in {"us", "jcuken"} |->
                      IF name = "us" THEN MCEnglish ELSE MCSecondary]

MCSpecs ==
    [id : {"fr", "uk", Blank, "with/slash"}, display_name : {"French", Blank},
     layout : {"us", "jcuken", "unknown", Blank}, alphabet : {"abc", Blank},
     top_k : {0, 10},
     keys : {Missing, <<>>, <<Mark("colon")>>, <<Mark("colon"), Mark("colon")>>,
             <<Letter("a", "latin", FALSE)>>},
     keyboard : {Missing, MCOwnRows, MCBadRows}, source : {"corpus"}, build_id : {Missing}]
MCEmptyDir == [symlink |-> FALSE, manifest |-> Missing, files |-> [p \in {} |-> Missing]]
MCOldDir == [MCEmptyDir EXCEPT !.files = [p \in {"dict.fst"} |-> Artifact("dict", "de")]]
MCLinkedDir ==
    [MCEmptyDir EXCEPT !.files =
        [p \in {"dict.fst"} |-> [Artifact("dict", "fr") EXCEPT !.symlink = TRUE]]]

BuildSample ==
    \E spec \in MCSpecs,
       dir \in {MCEmptyDir, MCOldDir, MCLinkedDir, [MCEmptyDir EXCEPT !.symlink = TRUE]},
       force \in BOOLEAN, inputs \in {"good", "no corpus", "no words"} :
        sample = [topic |-> "build", spec |-> spec, dir |-> dir, force |-> force,
                  inputs |-> inputs]

\* A pack that a third party made: artifacts under names of its own.
MCForeignPaths == {[StandardPath EXCEPT !.dict = p] : p \in {"words.fst", "../parent"}}

InstallDirs ==
    {[symlink |-> link,
      manifest |-> [current_format |-> format, id |-> "fr", display_name |-> "French",
                    layout |-> "jcuken", keyboard |-> rows,
                    punctuation_letter_keys |-> keys, paths |-> paths,
                    source |-> Missing, build_id |-> Missing],
      files |-> [p \in {paths[f] : f \in ArtifactField} |->
                    Artifact(CHOOSE f \in ArtifactField : paths[f] = p, tag)]] :
        link, format \in BOOLEAN, rows \in {Missing, MCOwnRows},
        keys \in {<<>>, <<Mark("colon")>>}, paths \in MCForeignPaths \cup {StandardPath},
        tag \in {"fr", "de"}}

InstallSample ==
    \E source \in InstallDirs, target \in {MCEmptyDir, MCOldDir, MCLinkedDir} :
        sample = [topic |-> "install", source |-> source, target |-> target]

\* The builder and the loader, which check a pack each by rules of their own,
\* agree: what a valid specification and usable inputs are built into loads,
\* but where an artifact of that name was a symbolic link; and a pack that loads
\* is, once installed, the same pack, whatever was in the directory.
PacksSurviveBuildAndInstall ==
    /\ sample.topic = "build" =>
          LET built == BuildPack(sample.spec, sample.dir, sample.force, sample.inputs)
              usable == /\ ValidSpec(sample.spec) /\ sample.inputs = "good"
                        /\ CanPrepare(sample.dir, sample.force)
                        /\ \A f \in ArtifactField : ~Linked(sample.dir, StandardPath[f])
              pack == FromPackDir(built.dir)
          IN  /\ built.ok = usable
              /\ built.ok =>
                    /\ pack.id = sample.spec.id
                    /\ FromPackDir(InstallPack(built.dir, MCEmptyDir)) = pack
    /\ sample.topic = "install" =>
          LET pack == FromPackDir(sample.source)
          IN  pack # Missing =>
                 FromPackDir(InstallPack(sample.source, sample.target)) = pack

-----------------------------------------------------------------------------
Init ==
    \/ PolicySample
    \/ ConfigSample
    \/ KeyboardSample
    \/ DictionarySample
    \/ ArtifactSample
    \/ CountSample
    \/ RollingSample
    \/ BuildSample
    \/ InstallSample

Next ==
    \/ \E char \in Chars : TypeCharacter(char)
    \/ EraseCharacter

Spec == Init /\ [][Next]_sample

=============================================================================
