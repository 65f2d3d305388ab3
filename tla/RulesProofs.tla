---------------------------- MODULE RulesProofs ----------------------------
(***************************************************************************)
(* The rules beyond the samples of the run: what a policy forbids, what the *)
(* commands that change a configuration leave a host with, that text comes   *)
(* back from the keyboards it is typed on, that a pack outlives its build    *)
(* and its installation, that an artifact is read as it was written or not   *)
(* at all, that an index answers as its dictionary does, that counts are the *)
(* occurrences in a corpus, and that the totals of a token are those of its  *)
(* text.  Each is a theorem for any input of its type; that the property of  *)
(* the run holds is its corollary.                                          *)
(***************************************************************************)
EXTENDS MCRules, TLAPS, FiniteSetTheorems

WellFounded == INSTANCE WellFoundedInduction

\* The record a rolling sample starts as keeps its fields.
KeepsTopic == sample.topic = "rolling" => "topic" \in DOMAIN sample

-----------------------------------------------------------------------------
(* The policy                                                               *)

\* What a policy forbids, and why.
LEMMA PolicyForbids ==
    ASSUME NEW policy, NEW facts,
           NEW p, p = ResolveInputPolicy(policy, facts),
           NEW stops, stops = \/ facts.secure
                              \/ facts.bundle # None /\ IsTerminalBundle(facts.bundle)
                              \/ SaysTerminal(facts.fields)
    PROVE  /\ p.disable_automatic_processing <=>
                 \/ stops
                 \/ facts.bundle # None /\ DisablesAutomaticProcessing(policy, facts.bundle)
           /\ p.disable_manual_switch <=>
                 \/ stops
                 \/ facts.bundle # None /\ DisablesBundle(policy, facts.bundle)
<1>. DEFINE b == facts.bundle
<1>1. CASE facts.secure
  BY <1>1 DEF ResolveInputPolicy, Policy
<1>2. CASE ~facts.secure /\ b # None /\ IsTerminalBundle(b)
  BY <1>2 DEF ResolveInputPolicy, Policy
<1>3. CASE ~facts.secure /\ ~(b # None /\ IsTerminalBundle(b))
  <2>1. p = IF SaysTerminal(facts.fields) THEN Policy(TRUE, TRUE, TRUE, "TerminalSurface")
         ELSE IF b = None THEN Allowing
         ELSE IF DisablesBundle(policy, b)
              THEN Policy(TRUE, TRUE, FALSE, "DisabledBundle")
         ELSE IF DisablesAutomaticProcessing(policy, b)
              THEN Policy(TRUE, FALSE, FALSE, "AutomaticProcessingDisabledBundle")
         ELSE Allowing
    BY <1>3 DEF ResolveInputPolicy
  <2>2. DisablesBundle(policy, b) => DisablesAutomaticProcessing(policy, b)
    BY DEF DisablesBundle, DisablesAutomaticProcessing
  <2>. QED  BY <1>3, <2>1, <2>2 DEF Policy, Allowing
<1>. QED  BY <1>1, <1>2, <1>3

\* What crosses the C ABI still says all the other description says.
LEMMA FfiKeepsMore ==
    ASSUME NEW BundleId, NEW Field,
           NEW facts \in [secure : BOOLEAN, bundle : BundleId, fields : Field],
           NEW fewer \in [secure : BOOLEAN, bundle : BundleId, fields : Field],
           KnowsMore(facts, fewer),
           DOMAIN fewer.fields \subseteq DOMAIN facts.fields
    PROVE  /\ FactsFromFfi(fewer).secure => FactsFromFfi(facts).secure
           /\ FactsFromFfi(fewer).bundle # None =>
                 FactsFromFfi(fewer).bundle = FactsFromFfi(facts).bundle
           /\ SaysTerminal(FactsFromFfi(fewer).fields) =>
                 SaysTerminal(FactsFromFfi(facts).fields)
<1>. DEFINE Given(f) == [i \in DOMAIN f |-> IF f[i] = {} THEN None ELSE f[i]]
<1>1. \A f \in {facts, fewer} :
         /\ FactsFromFfi(f).secure = f.secure
         /\ FactsFromFfi(f).bundle = NormalizedOptional(f.bundle)
         /\ FactsFromFfi(f).fields = Given(f.fields)
  BY DEF FactsFromFfi
<1>2. NormalizedOptional(fewer.bundle) # None => fewer.bundle = facts.bundle
  BY DEF NormalizedOptional, KnowsMore
<1>3. ASSUME NEW i \in DOMAIN fewer.fields, Given(fewer.fields)[i] # None,
             Given(fewer.fields)[i] \cap SurfaceMarkers # {}
      PROVE  /\ i \in DOMAIN facts.fields /\ Given(facts.fields)[i] # None
             /\ Given(facts.fields)[i] \cap SurfaceMarkers # {}
  <2>1. Given(fewer.fields)[i] = fewer.fields[i] /\ fewer.fields[i] # None
    BY <1>3
  <2>2. facts.fields[i] # None /\ fewer.fields[i] \subseteq facts.fields[i]
    BY <2>1 DEF KnowsMore
  <2>3. Given(facts.fields)[i] = facts.fields[i]
    BY <1>3, <2>1, <2>2
  <2>. QED  BY <1>3, <2>1, <2>2, <2>3
<1>4. SaysTerminal(Given(fewer.fields)) => SaysTerminal(Given(facts.fields))
  BY <1>3 DEF SaysTerminal
<1>. QED  BY <1>1, <1>2, <1>4 DEF KnowsMore

\* Disabling more disables more after the lists are normalised.
LEMMA NormalizedListsKeepMore ==
    ASSUME NEW apps, NEW less, DisablesMore(apps, less), NEW bundle
    PROVE  /\ DisablesBundle(AppPolicy(less), bundle) =>
                 DisablesBundle(AppPolicy(apps), bundle)
           /\ DisablesAutomaticProcessing(AppPolicy(less), bundle) =>
                 DisablesAutomaticProcessing(AppPolicy(apps), bundle)
  BY DEF DisablesMore, DisablesBundle, DisablesAutomaticProcessing, AppPolicy,
         NormalizedBundleIds

\* resolve_input_policy fails closed: for any two descriptions of a surface of
\* which one says all the other says, and any two pairs of lists of which one
\* disables all the other disables, the policy of more forbids what the policy
\* of less forbids, and a missing config forbids everything.
THEOREM MoreForbidsMore ==
    ASSUME NEW BundleId, NEW Field,
           NEW facts \in [secure : BOOLEAN, bundle : BundleId, fields : Field],
           NEW fewer \in [secure : BOOLEAN, bundle : BundleId, fields : Field],
           KnowsMore(facts, fewer),
           DOMAIN fewer.fields \subseteq DOMAIN facts.fields,
           NEW apps, NEW less, DisablesMore(apps, less),
           NEW config, config = None \/ config.app_policy = AppPolicy(apps),
           NEW lax, lax # None, lax.app_policy = AppPolicy(less)
    PROVE  AtLeastAsStrict(HostPolicy(config, facts), HostPolicy(lax, fewer))
<1>1. CASE config = None
  BY <1>1 DEF HostPolicy, Unavailable, Policy, AtLeastAsStrict
<1>2. CASE config # None
  <2>. DEFINE f == FactsFromFfi(facts)
              g == FactsFromFfi(fewer)
              strict == AppPolicy(apps)
              loose == AppPolicy(less)
              stops(h) == \/ h.secure
                          \/ h.bundle # None /\ IsTerminalBundle(h.bundle)
                          \/ SaysTerminal(h.fields)
  <2>1. /\ HostPolicy(config, facts) = ResolveInputPolicy(strict, f)
        /\ HostPolicy(lax, fewer) = ResolveInputPolicy(loose, g)
    BY <1>2 DEF HostPolicy
  <2>2. /\ g.secure => f.secure
        /\ g.bundle # None => g.bundle = f.bundle
        /\ SaysTerminal(g.fields) => SaysTerminal(f.fields)
    BY FfiKeepsMore
  <2>3. /\ DisablesBundle(loose, g.bundle) => DisablesBundle(strict, g.bundle)
        /\ DisablesAutomaticProcessing(loose, g.bundle) =>
              DisablesAutomaticProcessing(strict, g.bundle)
    BY NormalizedListsKeepMore
  <2>. HIDE DEF f, g, strict, loose
  <2>4. stops(g) => stops(f)
    BY <2>2
  <2>. DEFINE p == ResolveInputPolicy(strict, f)
              q == ResolveInputPolicy(loose, g)
  <2>5. /\ p.disable_automatic_processing <=>
              \/ stops(f)
              \/ f.bundle # None /\ DisablesAutomaticProcessing(strict, f.bundle)
        /\ p.disable_manual_switch <=>
              stops(f) \/ (f.bundle # None /\ DisablesBundle(strict, f.bundle))
    BY PolicyForbids
  <2>6. /\ q.disable_automatic_processing <=>
              \/ stops(g)
              \/ g.bundle # None /\ DisablesAutomaticProcessing(loose, g.bundle)
        /\ q.disable_manual_switch <=>
              stops(g) \/ (g.bundle # None /\ DisablesBundle(loose, g.bundle))
    BY PolicyForbids
  <2>. HIDE DEF p, q, stops
  <2>7. AtLeastAsStrict(p, q)
    BY <2>2, <2>3, <2>4, <2>5, <2>6 DEF AtLeastAsStrict
  <2>. QED  BY <2>1, <2>7 DEF p, q
<1>. QED  BY <1>1, <1>2

-----------------------------------------------------------------------------
(* The samples                                                              *)

LEMMA SampleStays ==
    KeepsTopic /\ [Next]_sample =>
        KeepsTopic' /\ (sample' = sample \/ sample'.topic = "rolling")
<1>. SUFFICES ASSUME KeepsTopic, [Next]_sample
              PROVE  KeepsTopic' /\ (sample' = sample \/ sample'.topic = "rolling")
  OBVIOUS
<1>1. CASE \E char \in Chars : TypeCharacter(char)
  <2>1. PICK char : TypeCharacter(char)
    BY <1>1
  <2>2. sample.topic = "rolling" /\ "topic" \in DOMAIN sample
    BY <2>1 DEF TypeCharacter, KeepsTopic
  <2>3. DOMAIN sample' = DOMAIN sample /\ sample'.topic = sample.topic
    BY <2>1, <2>2 DEF TypeCharacter
  <2>. QED  BY <2>2, <2>3 DEF KeepsTopic
<1>2. CASE EraseCharacter
  <2>1. sample.topic = "rolling" /\ "topic" \in DOMAIN sample
    BY <1>2 DEF EraseCharacter, KeepsTopic
  <2>2. DOMAIN sample' = DOMAIN sample /\ sample'.topic = sample.topic
    BY <1>2, <2>1 DEF EraseCharacter
  <2>. QED  BY <2>1, <2>2 DEF KeepsTopic
<1>3. CASE sample' = sample
  BY <1>3 DEF KeepsTopic
<1>. QED  BY <1>1, <1>2, <1>3 DEF Next

LEMMA SampleStarts ==
    ASSUME Init
    PROVE  /\ KeepsTopic
           /\ sample.topic = "policy" => PolicySample
           /\ sample.topic = "config" => ConfigSample
           /\ sample.topic = "keyboard" => KeyboardSample
           /\ sample.topic = "dictionary" => DictionarySample
           /\ sample.topic = "artifact" => ArtifactSample
           /\ sample.topic = "counts" => CountSample
           /\ sample.topic = "build" => BuildSample
           /\ sample.topic = "install" => InstallSample
           /\ sample.topic = "rolling" => RollingSample
<1>1. PolicySample => sample.topic = "policy"
  BY DEF PolicySample
<1>2. ConfigSample => sample.topic = "config"
  BY DEF ConfigSample
<1>3. KeyboardSample => sample.topic = "keyboard"
  BY DEF KeyboardSample
<1>4. DictionarySample => sample.topic = "dictionary"
  BY DEF DictionarySample
<1>5. ArtifactSample => sample.topic = "artifact"
  BY DEF ArtifactSample
<1>6. CountSample => sample.topic = "counts"
  BY DEF CountSample
<1>7. RollingSample => sample.topic = "rolling" /\ "topic" \in DOMAIN sample
  BY DEF RollingSample
<1>8. BuildSample => sample.topic = "build"
  <2>. SUFFICES ASSUME NEW spec, NEW dir, NEW force, NEW inputs,
                       sample = [topic |-> "build", spec |-> spec, dir |-> dir,
                                 force |-> force, inputs |-> inputs]
                PROVE  sample.topic = "build"
    BY Zenon DEF BuildSample
  <2>. QED  OBVIOUS
<1>9. InstallSample => sample.topic = "install"
  BY DEF InstallSample
<1>. QED  BY <1>1, <1>2, <1>3, <1>4, <1>5, <1>6, <1>7, <1>8, <1>9, SMT DEF Init, KeepsTopic

-----------------------------------------------------------------------------
(* A config that only lists applications                                    *)

LEMMA IdTyped ==
    ASSUME NEW word \in STRING
    PROVE  /\ Id(word) \in Identifier
           /\ Id(word).word = word
           /\ Trimmed(Id(word)) = Id(word)
<1>1. Id(word) \in Identifier /\ Id(word).word = word /\ Id(word).padded = FALSE
  BY DEF Id, Identifier
<1>2. \A id \in Identifier : id.padded = FALSE => [id EXCEPT !.padded = FALSE] = id
  BY DEF Identifier
<1>. QED  BY <1>1, <1>2 DEF Trimmed

LEMMA TrimmedTyped ==
    ASSUME NEW id \in Identifier
    PROVE  Trimmed(id) \in Identifier /\ Trimmed(id).word = id.word
  BY DEF Trimmed, Identifier

LEMMA NormalizedTyped ==
    ASSUME NEW id \in Option(Identifier)
    PROVE  NormalizedOptional(id) \in Option(Identifier)
  BY TrimmedTyped DEF NormalizedOptional, Option

LEMMA AppPolicyTyped ==
    ASSUME NEW apps \in Apps
    PROVE  AppPolicy(apps) \in Apps
<1>1. \A ids \in SUBSET Identifier : NormalizedBundleIds(ids) \in SUBSET Identifier
  BY NormalizedTyped DEF NormalizedBundleIds, Option
<1>2. apps.disable \in SUBSET Identifier /\ apps.disableAuto \in SUBSET Identifier
  BY DEF Apps
<1>. QED  BY <1>1, <1>2 DEF AppPolicy, Apps

\* from_source builds the policy of the lists of the file and nothing else.
LEMMA FromSourceTyped ==
    ASSUME NEW config \in Config, NEW env \in Environment, NEW path \in Option(Path),
           NEW resolved, resolved = FromSource(config, env, path), resolved # Failed
    PROVE  /\ resolved \in HostConfig
           /\ resolved = [engineValid |-> TRUE, secondary |-> SecondaryId(config),
                          pack_directory |-> PackDir(config, env),
                          data_directory |-> DataDir(config, env),
                          app_policy |-> AppPolicy(config.apps), source_path |-> path]
           /\ config.engineValid
           /\ SourceMatchesSecondary(SecondaryId(config), NormalizedOptional(config.source))
           /\ DataMatchesSecondary(SecondaryId(config), DataDir(config, env))
<1>1. /\ resolved = [engineValid |-> TRUE, secondary |-> SecondaryId(config),
                     pack_directory |-> PackDir(config, env),
                     data_directory |-> DataDir(config, env),
                     app_policy |-> AppPolicy(config.apps), source_path |-> path]
      /\ config.engineValid
      /\ SourceMatchesSecondary(SecondaryId(config), NormalizedOptional(config.source))
      /\ DataMatchesSecondary(SecondaryId(config), DataDir(config, env))
  BY DEF FromSource
<1>2. SecondaryId(config) \in Identifier
  <2>1. config.secondary \in Identifier /\ Id("uk") \in Identifier
    BY IdTyped, StringAssumption DEF Config
  <2>. QED  BY <2>1, TrimmedTyped DEF SecondaryId
<1>3. PackDir(config, env) \in Option(Path) /\ DataDir(config, env) \in Option(Path)
  <2>1. /\ config.packs \in Option(Path) /\ config.data \in Option(Path)
        /\ env.packs \in Option(Path) /\ env.data \in Option(Path)
        /\ env.home \in Option(STRING)
    BY DEF Config, Environment
  <2>2. DefaultPackDir(env) \in Option(Path)
    BY <2>1, StringAssumption DEF DefaultPackDir, Option, Path
  <2>. QED  BY <2>1, <2>2 DEF PackDir, DataDir, FirstOf
<1>4. AppPolicy(config.apps) \in Apps
  BY AppPolicyTyped DEF Config
<1>. QED  BY <1>1, <1>2, <1>3, <1>4 DEF HostConfig

LEMMA OptionsDistinct ==
    /\ None \notin HostConfig /\ Failed \notin HostConfig
    /\ None \notin Config /\ Failed \notin Config
    /\ None \notin Path /\ Failed \notin Path
    /\ None \notin Identifier /\ Failed \notin Identifier
    /\ None \notin Bundle /\ Failed \notin Bundle
  BY OptionAssumption

LEMMA DefaultConfigTyped == DefaultConfig \in Config
<1>1. Id("uk") \in Identifier
  BY IdTyped, StringAssumption
<1>2. DefaultConfig.apps \in Apps
  BY DEF DefaultConfig, Apps
<1>. QED  BY <1>1, <1>2 DEF DefaultConfig, Config, Option

LEMMA SourceReplaced ==
    ASSUME NEW r \in HostConfig, NEW path \in Option(Path)
    PROVE  [r EXCEPT !.source_path = path] =
             [engineValid |-> r.engineValid, secondary |-> r.secondary,
              pack_directory |-> r.pack_directory,
              data_directory |-> r.data_directory,
              app_policy |-> r.app_policy, source_path |-> path]
<1>. DEFINE w == [r EXCEPT !.source_path = path]
<1>1. w \in HostConfig
  BY DEF HostConfig
<1>2. /\ w.engineValid = r.engineValid /\ w.secondary = r.secondary
      /\ w.pack_directory = r.pack_directory /\ w.data_directory = r.data_directory
      /\ w.app_policy = r.app_policy /\ w.source_path = path
  BY DEF HostConfig
<1>. HIDE DEF w
<1>. QED  BY <1>1, <1>2 DEF HostConfig, w

LEMMA ListsResolve ==
    ASSUME NEW apps \in Apps
    PROVE  ConfigFor(apps) # None /\ ConfigFor(apps).app_policy = AppPolicy(apps)
<1>. DEFINE config == [DefaultConfig EXCEPT !.apps = apps]
            env == [home |-> None, config |-> None, data |-> None, packs |-> None]
<1>1. /\ config.engineValid /\ config.secondary = Id("uk") /\ config.source = None
      /\ config.data = None /\ config.apps = apps
  BY DEF DefaultConfig
<1>2. SecondaryId(config) = Id("uk")
  BY <1>1, IdTyped, StringAssumption DEF SecondaryId
<1>3. NormalizedOptional(config.source) = None /\ DataDir(config, env) = None
  BY <1>1 DEF NormalizedOptional, DataDir, FirstOf
<1>4. Id("uk") # Id("en") /\ SupportedCharacters(Id("uk"))
  BY WordAssumption DEF Id, SupportedCharacters
<1>5. ConfigFor(apps) = [engineValid |-> TRUE, secondary |-> Id("uk"),
                         pack_directory |-> PackDir(config, env),
                         data_directory |-> None,
                         app_policy |-> AppPolicy(apps), source_path |-> None]
  BY <1>1, <1>2, <1>3, <1>4 DEF ConfigFor, FromSource, SourceMatchesSecondary,
     DataMatchesSecondary
<1>6. PackDir(config, env) = None
  BY DEF PackDir, FirstOf, DefaultPackDir, DefaultConfig
<1>7. ConfigFor(apps) \in HostConfig
  <2>1. Id("uk") \in Identifier
    BY IdTyped, StringAssumption
  <2>. QED  BY <1>5, <1>6, <2>1, AppPolicyTyped DEF HostConfig, Option
<1>8. ConfigFor(apps).app_policy = AppPolicy(apps)
  BY <1>5
<1>9. ConfigFor(apps) # None
  BY <1>7, OptionsDistinct, Zenon
<1>. QED  BY <1>8, <1>9

\* The sampled descriptions and lists are of the kind MoreForbidsMore is about.
LEMMA PolicySampleFailsClosed ==
    ASSUME PolicySample
    PROVE  PolicyFailsClosed
<1>1. PICK facts \in MCFacts, fewer \in MCFacts, apps \in MCApps, less \in MCApps :
          /\ KnowsMore(facts, fewer) /\ DisablesMore(apps, less)
          /\ sample = [topic |-> "policy", facts |-> facts, fewer |-> fewer,
                       apps |-> apps, less |-> less]
  BY DEF PolicySample
<1>2. DOMAIN facts.fields = 1..2 /\ DOMAIN fewer.fields = 1..2
  BY DEF MCFacts, MCFields
<1>3. MCApps \subseteq Apps
  <2>1. Id("editor") \in Identifier /\ Id(NoWord) \in Identifier
    BY IdTyped, SampleStrings, OptionAssumption
  <2>2. [Id("editor") EXCEPT !.padded = TRUE] \in Identifier
    BY <2>1 DEF Identifier
  <2>3. MCListed \subseteq SUBSET Identifier
    BY <2>1, <2>2 DEF MCListed
  <2>. QED  BY <2>3 DEF MCApps, Apps
<1>4. /\ ConfigFor(apps) # None /\ ConfigFor(apps).app_policy = AppPolicy(apps)
      /\ ConfigFor(less) # None /\ ConfigFor(less).app_policy = AppPolicy(less)
  BY <1>3, ListsResolve
<1>5. AtLeastAsStrict(HostPolicy(ConfigFor(apps), facts), HostPolicy(ConfigFor(less), fewer))
  BY <1>1, <1>2, <1>4, MoreForbidsMore DEF MCFacts
<1>6. AtLeastAsStrict(HostPolicy(None, facts), HostPolicy(ConfigFor(apps), facts))
  <2>1. KnowsMore(facts, facts) /\ DisablesMore(apps, apps)
    <3>1. HostPolicy(None, facts) = Unavailable
      BY DEF HostPolicy
    <3>. QED  BY <1>1 DEF KnowsMore, DisablesMore
  <2>. QED  BY DEF AtLeastAsStrict, HostPolicy, Unavailable, Policy
<1>. QED  BY <1>1, <1>5, <1>6 DEF PolicyFailsClosed

\* Hence no sampled surface is allowed more by knowing more about it
\* (resolve_input_policy in host config, as the C ABI calls it).
THEOREM PolicyAlwaysFailsClosed == Spec => []PolicyFailsClosed
<1>1. Init => KeepsTopic /\ PolicyFailsClosed
  BY SampleStarts, PolicySampleFailsClosed DEF PolicyFailsClosed
<1>2. KeepsTopic /\ PolicyFailsClosed /\ [Next]_sample => (KeepsTopic /\ PolicyFailsClosed)'
  <2>1. PolicyFailsClosed /\ sample' = sample => PolicyFailsClosed'
    BY DEF PolicyFailsClosed
  <2>2. sample'.topic = "rolling" => PolicyFailsClosed'
    BY DEF PolicyFailsClosed
  <2>. QED  BY <2>1, <2>2, SampleStays
<1>. QED  BY <1>1, <1>2, PTL DEF Spec

-----------------------------------------------------------------------------
(* Switching packs                                                          *)

\* The files a host finds: each a config, or what cannot be parsed.
Files(paths) == [paths -> Config \cup {Failed}]

\* The config that is written decides: it is loaded, from the path it was
\* written to.
LEMMA WrittenIsLoaded ==
    ASSUME NEW env \in Environment, NEW explicit \in Option(Path),
           FileDecides(explicit, env),
           NEW path, path = WritableConfigPath(explicit, env), path # None,
           NEW files, NEW config \in Config
    PROVE  LET written == Written(files, path, config)
           IN  /\ ConfigPath(explicit, env, written) = path
               /\ Load(explicit, env, written) = config
               /\ HostConfigLoad(explicit, env, written) =
                     Resolved(FromSource(config, env, path))
<1>. DEFINE written == Written(files, path, config)
<1>1. path \in DOMAIN written /\ written[path] = config
  BY DEF Written
<1>. HIDE DEF written
<1>2. ConfigPath(explicit, env, written) = path
  BY <1>1 DEF ConfigPath, WritableConfigPath, FirstOf, FileDecides
<1>3. Load(explicit, env, written) = config
  BY <1>1, <1>2 DEF Load, ReadPath
<1>4. config # Failed
  BY OptionsDistinct
<1>. QED  BY <1>2, <1>3, <1>4 DEF HostConfigLoad, written

LEMMA WritablePathTyped ==
    ASSUME NEW env \in Environment, NEW explicit \in Option(Path)
    PROVE  WritableConfigPath(explicit, env) \in Option(Path)
<1>1. env.home \in Option(STRING)
  BY DEF Environment
<1>2. HomeDefault(env) \in Option(Path)
  BY <1>1, StringAssumption DEF HomeDefault, Option, Path
<1>. QED  BY <1>2 DEF WritableConfigPath, FirstOf

\* What a disk holds: directories and names to the identifiers of manifests, and
\* data directories.
HoldsPacks(disk) == \A place \in DOMAIN disk.packs : disk.packs[place] \in Identifier

\* `typeclaw pack use`, for every environment, files, disk and identifier: once
\* it reports success, a host that loads its config afresh has that choice and
\* every other setting as before, and gets the embedded language, the data
\* directory, or the very pack the command found there, whatever its manifest
\* calls it; if something contradicts the choice, an error.
THEOREM UsedPackTakesEffect ==
    ASSUME NEW env \in Environment, NEW explicit \in Option(Path),
           NEW paths \in SUBSET Path, NEW files \in Files(paths),
           NEW disk, HoldsPacks(disk), NEW id \in Identifier,
           FileDecides(explicit, env),
           NEW used, used = UsePack(id, explicit, env, files, disk), used # Failed,
           NEW path, path = WritableConfigPath(explicit, env),
           NEW before,
           before = IF path \in DOMAIN files THEN files[path] ELSE DefaultConfig
    PROVE  LET loaded == HostConfigLoad(explicit, env, used)
               engine == EngineAfter(explicit, env, used, disk)
           IN  /\ before # Failed
               /\ Contradicted(before, env, id, disk) => engine = ReturnedNull
               /\ ~Contradicted(before, env, id, disk) =>
                     /\ engine = Returned(Chosen(before, env, id, disk))
                     /\ Described(loaded.value).secondary = id
                     /\ Described(loaded.value).source = path
                     /\ loaded.value =
                           FromSource([before EXCEPT !.secondary = id], env, path)
<1>. DEFINE config == [before EXCEPT !.secondary = id]
<1>1. /\ path # None /\ before # Failed
      /\ id.word # NoWord /\ SupportedCharacters(id)
      /\ used = Written(files, path, config)
      /\ id # Id("uk") => LoadPack(disk, PackDir(before, env), id) # Failed
  BY DEF UsePack, ConfigToChange, ReadPath
<1>2. before \in Config
  BY <1>1, DefaultConfigTyped DEF Files
<1>3. config \in Config
  BY <1>2 DEF Config
<1>4. /\ config.secondary = id /\ config.engineValid = before.engineValid
      /\ config.packs = before.packs /\ config.data = before.data
      /\ config.source = before.source
  BY <1>2 DEF Config
<1>. HIDE DEF config
<1>5. path \in Path
  BY <1>1, WritablePathTyped DEF Option
<1>. DEFINE resolved == FromSource(config, env, path)
<1>6. HostConfigLoad(explicit, env, used) = Resolved(resolved)
  BY <1>1, <1>3, WrittenIsLoaded
<1>7. SecondaryId(config) = id
  <2>1. id # None
    BY OptionsDistinct
  <2>2. Trimmed(id) = id
    BY <1>1 DEF Trimmed, Identifier, SupportedCharacters
  <2>. QED  BY <1>1, <1>4, <2>1, <2>2 DEF SecondaryId, NormalizedOptional
<1>8. DataDir(config, env) = DataDir(before, env) /\ PackDir(config, env) = PackDir(before, env)
  BY <1>4 DEF DataDir, PackDir
<1>. DEFINE data == DataDir(before, env)
<1>9. Contradicted(before, env, id, disk) =>
           EngineAfter(explicit, env, used, disk) = ReturnedNull
  <2>. SUFFICES ASSUME Contradicted(before, env, id, disk)
                PROVE  EngineAfter(explicit, env, used, disk) = ReturnedNull
    OBVIOUS
  <2>1. CASE resolved = Failed
    <3>1. HostConfigLoad(explicit, env, used).value = None
      BY <1>6, <2>1 DEF Resolved, ReturnedNull
    <3>. QED  BY <3>1 DEF EngineAfter, NewFromHostConfig
  <2>2. CASE resolved # Failed
    <3>1. /\ resolved = [engineValid |-> TRUE, secondary |-> id,
                        pack_directory |-> PackDir(before, env), data_directory |-> data,
                        app_policy |-> AppPolicy(config.apps), source_path |-> path]
          /\ resolved \in HostConfig
      BY <1>3, <1>5, <1>7, <1>8, <2>2, FromSourceTyped DEF Option
    <3>2. data # None /\ data \notin disk.data
      BY <1>4, <1>7, <1>8, <2>2 DEF FromSource, Contradicted, DataMatchesSecondary,
         SourceMatchesSecondary
    <3>3. resolved # None
      BY <3>1, OptionsDistinct, Zenon
    <3>4. LanguageBundle(resolved, disk) = Failed
      BY <3>1, <3>2 DEF LanguageBundle, LoadData
    <3>. HIDE DEF resolved
    <3>5. HostConfigLoad(explicit, env, used).value = resolved
      BY <1>6, <2>2 DEF Resolved, Returned
    <3>. QED  BY <3>4, <3>5 DEF EngineAfter, NewFromHostConfig, NewEngine, ReturnedNull
  <2>. QED  BY <2>1, <2>2
<1>10. ASSUME ~Contradicted(before, env, id, disk)
       PROVE  LET loaded == HostConfigLoad(explicit, env, used)
                  engine == EngineAfter(explicit, env, used, disk)
              IN  /\ engine = Returned(Chosen(before, env, id, disk))
                  /\ Described(loaded.value).secondary = id
                  /\ Described(loaded.value).source = path
                  /\ loaded.value = resolved
  <2>1. resolved = [engineValid |-> TRUE, secondary |-> id,
                    pack_directory |-> PackDir(before, env), data_directory |-> data,
                    app_policy |-> AppPolicy(config.apps), source_path |-> path]
    BY <1>1, <1>4, <1>7, <1>8, <1>10
       DEF FromSource, Contradicted, DataMatchesSecondary, SourceMatchesSecondary
  <2>2. resolved \in HostConfig
    <3>1. AppPolicy(config.apps) \in Apps
      BY <1>3, AppPolicyTyped DEF Config
    <3>2. PackDir(before, env) \in Option(Path) /\ DataDir(before, env) \in Option(Path)
      <4>1. /\ before.packs \in Option(Path) /\ before.data \in Option(Path)
            /\ env.packs \in Option(Path) /\ env.data \in Option(Path)
            /\ env.home \in Option(STRING)
        BY <1>2 DEF Config, Environment
      <4>2. DefaultPackDir(env) \in Option(Path)
        BY <4>1, StringAssumption DEF DefaultPackDir, Option, Path
      <4>. QED  BY <4>1, <4>2 DEF PackDir, DataDir, FirstOf
    <3>. QED  BY <1>5, <2>1, <3>1, <3>2 DEF HostConfig, Option
  <2>3. resolved # Failed /\ resolved # None
    BY <2>2, OptionsDistinct, Zenon
  <2>. HIDE DEF resolved
  <2>4. HostConfigLoad(explicit, env, used) = [value |-> resolved, error |-> FALSE]
    BY <1>6, <2>3 DEF Resolved, Returned
  <2>. DEFINE bundle == LanguageBundle(resolved, disk)
  <2>5. /\ bundle = Chosen(before, env, id, disk)
        /\ data # None => bundle = <<"data_dir", data>>
        /\ data = None /\ id = Id("uk") => bundle = <<"embedded", id>>
        /\ data = None /\ id # Id("uk") =>
              \E place \in DOMAIN disk.packs : bundle = <<"pack", disk.packs[place]>>
    <3>1. bundle = Chosen(before, env, id, disk)
      BY <2>1 DEF LanguageBundle, Chosen
    <3>2. data # None => bundle = <<"data_dir", data>>
      BY <1>10, <3>1 DEF Contradicted, Chosen, LoadData
    <3>3. data = None /\ id = Id("uk") => bundle = <<"embedded", id>>
      BY <3>1 DEF Chosen
    <3>4. data = None /\ id # Id("uk") =>
              \E place \in DOMAIN disk.packs : bundle = <<"pack", disk.packs[place]>>
      BY <1>1, <3>1 DEF Chosen, LoadPack
    <3>. QED  BY <3>1, <3>2, <3>3, <3>4
  <2>6. bundle \in Bundle
    <3>1. data # None => data \in Path
      BY <2>1, <2>2 DEF HostConfig, Option
    <3>2. \A place \in DOMAIN disk.packs : disk.packs[place] \in Identifier
      BY DEF HoldsPacks
    <3>. QED  BY <2>5, <3>1, <3>2 DEF Bundle
  <2>7. bundle # Failed
    BY <2>6, OptionsDistinct, Zenon
  <2>. HIDE DEF bundle
  <2>8. EngineAfter(explicit, env, used, disk) = Returned(bundle)
    BY <2>1, <2>3, <2>4, <2>7 DEF EngineAfter, NewFromHostConfig, NewEngine, Returned, bundle
  <2>9. Described(resolved).secondary = id /\ Described(resolved).source = path
    BY <2>1, <2>3 DEF Described
  <2>. QED  BY <2>4, <2>5, <2>8, <2>9
<1>. QED  BY <1>1, <1>9, <1>10 DEF config

\* `typeclaw config init`, for every environment and files: once it reports
\* success no file was replaced, and a host that went by the defaults finds what
\* it had, with the path of the new file for its source.
THEOREM CreatedConfigChangesNothing ==
    ASSUME NEW env \in Environment, NEW explicit \in Option(Path), NEW files,
           NEW created, created = ConfigInit(explicit, env, files), created # Failed,
           NEW path, path = WritableConfigPath(explicit, env),
           NEW byDefault, byDefault = HostConfigLoadDefaults(env)
    PROVE  /\ \A p \in DOMAIN files : created[p] = files[p]
           /\ FileDecides(explicit, env) /\ ~byDefault.error =>
                 HostConfigLoad(explicit, env, created).value =
                    [byDefault.value EXCEPT !.source_path = path]
<1>1. path # None /\ path \notin DOMAIN files
      /\ created = Written(files, path, DefaultConfig)
  BY DEF ConfigInit, WritableConfigPath
<1>2. \A p \in DOMAIN files : created[p] = files[p]
  BY <1>1 DEF Written
<1>3. ASSUME FileDecides(explicit, env), ~byDefault.error
      PROVE  HostConfigLoad(explicit, env, created).value =
                [byDefault.value EXCEPT !.source_path = path]
  <2>. DEFINE before == FromSource(DefaultConfig, env, None)
              resolved == FromSource(DefaultConfig, env, path)
  <2>1. before # Failed /\ byDefault.value = before
    BY <1>3 DEF HostConfigLoadDefaults, Resolved, ReturnedNull, Returned
  <2>2. path \in Path /\ path \in Option(Path) /\ None \in Option(Path)
    BY <1>1, WritablePathTyped DEF Option
  <2>3. /\ before \in HostConfig
        /\ before = [engineValid |-> TRUE, secondary |-> SecondaryId(DefaultConfig),
                     pack_directory |-> PackDir(DefaultConfig, env),
                     data_directory |-> DataDir(DefaultConfig, env),
                     app_policy |-> AppPolicy(DefaultConfig.apps), source_path |-> None]
    BY <2>1, <2>2, DefaultConfigTyped, FromSourceTyped
  <2>4. resolved = [before EXCEPT !.source_path = path]
    <3>1. resolved = [engineValid |-> TRUE, secondary |-> SecondaryId(DefaultConfig),
                     pack_directory |-> PackDir(DefaultConfig, env),
                     data_directory |-> DataDir(DefaultConfig, env),
                     app_policy |-> AppPolicy(DefaultConfig.apps), source_path |-> path]
      BY <2>1 DEF FromSource
    <3>. HIDE DEF before, resolved
    <3>2. /\ before.engineValid = TRUE /\ before.secondary = SecondaryId(DefaultConfig)
          /\ before.pack_directory = PackDir(DefaultConfig, env)
          /\ before.data_directory = DataDir(DefaultConfig, env)
          /\ before.app_policy = AppPolicy(DefaultConfig.apps)
      BY <2>3
    <3>3. [before EXCEPT !.source_path = path] =
             [engineValid |-> before.engineValid, secondary |-> before.secondary,
              pack_directory |-> before.pack_directory,
              data_directory |-> before.data_directory,
              app_policy |-> before.app_policy, source_path |-> path]
      BY <2>2, <2>3, SourceReplaced
    <3>. QED  BY <3>1, <3>2, <3>3
  <2>5. resolved \in HostConfig
    BY <2>2, <2>3, <2>4 DEF HostConfig
  <2>6. resolved # Failed
    BY <2>5, OptionsDistinct, Zenon
  <2>7. HostConfigLoad(explicit, env, created) = Resolved(resolved)
    BY <1>1, <1>3, DefaultConfigTyped, WrittenIsLoaded
  <2>. HIDE DEF before, resolved
  <2>. QED  BY <2>1, <2>4, <2>6, <2>7 DEF Resolved, Returned
<1>. QED  BY <1>2, <1>3

LEMMA ConfigSampleTyped ==
    /\ MCEnvironments \subseteq Environment
    /\ MCConfigs \subseteq Config
    /\ MCPaths \subseteq Path /\ <<"explicit", "config.toml">> \in Path
    /\ MCIds \subseteq Identifier
    /\ HoldsPacks(MCDisk)
<1>1. /\ {"uk", "en", "fr", "de", "with/slash", "ukrainian", "french", "editor"} \subseteq STRING
      /\ NoWord \in STRING
      /\ {"home", "env", "own", "explicit", "data", "packs", "config.toml"} \subseteq STRING
  BY SampleStrings, StringAssumption, OptionAssumption
<1>2. /\ Id("uk") \in Identifier /\ Id("fr") \in Identifier /\ Id("de") \in Identifier
      /\ Id("ukrainian") \in Identifier /\ Id("french") \in Identifier
      /\ Id("editor") \in Identifier /\ Id(NoWord) \in Identifier
      /\ Id("en") \in Identifier /\ Id("with/slash") \in Identifier
  BY <1>1, IdTyped
<1>3. /\ MCPaths \subseteq Path /\ <<"explicit", "config.toml">> \in Path
      /\ <<"env", "config.toml">> \in Path /\ <<"env", "data">> \in Path
      /\ <<"env", "packs">> \in Path /\ <<"own", "packs">> \in Path
      /\ <<"own", "data">> \in Path
  BY <1>1 DEF MCPaths, Path
<1>4. MCEnvironments \subseteq Environment
  BY <1>1, <1>3 DEF MCEnvironments, Environment, Option
<1>5. [disable |-> {Id("editor")}, disableAuto |-> {}] \in Apps
  BY <1>2 DEF Apps
<1>6. MCConfigs \subseteq Config
  BY <1>2, <1>3, <1>5 DEF MCConfigs, Config, Option
<1>7. [Id("fr") EXCEPT !.padded = TRUE] \in Identifier
  BY <1>2 DEF Identifier
<1>8. MCIds \subseteq Identifier
  BY <1>2, <1>7 DEF MCIds
<1>9. HoldsPacks(MCDisk)
  BY <1>2 DEF HoldsPacks, MCDisk
<1>. QED  BY <1>3, <1>4, <1>6, <1>8, <1>9

LEMMA ConfigSampleTakesEffect ==
    ASSUME ConfigSample
    PROVE  ConfigCommandsTakeEffect
<1>1. PICK env \in MCEnvironments, explicit \in {None, <<"explicit", "config.toml">>},
           paths \in SUBSET MCPaths, config \in MCConfigs \cup {Failed},
           id \in MCIds :
          sample = [topic |-> "config", env |-> env, explicit |-> explicit,
                    files |-> [p \in paths |-> config], id |-> id]
  BY DEF ConfigSample
<1>. DEFINE files == [p \in paths |-> config]
            used == UsePack(id, explicit, env, files, MCDisk)
            created == ConfigInit(explicit, env, files)
            path == WritableConfigPath(explicit, env)
            before == IF path \in DOMAIN files THEN files[path] ELSE DefaultConfig
<1>2. /\ env \in Environment /\ explicit \in Option(Path)
      /\ paths \in SUBSET Path /\ files \in Files(paths)
      /\ id \in Identifier /\ HoldsPacks(MCDisk)
  BY ConfigSampleTyped DEF Option, Files
<1>. HIDE DEF files, used, created, path, before
<1>5. ASSUME used # Failed, FileDecides(explicit, env)
      PROVE  LET loaded == HostConfigLoad(explicit, env, used)
                 engine == EngineAfter(explicit, env, used, MCDisk)
             IN  /\ before # Failed
                 /\ Contradicted(before, env, id, MCDisk) => engine = ReturnedNull
                 /\ ~Contradicted(before, env, id, MCDisk) =>
                       /\ engine = Returned(Chosen(before, env, id, MCDisk))
                       /\ Described(loaded.value).secondary = id
                       /\ Described(loaded.value).source = path
                       /\ loaded.value =
                             FromSource([before EXCEPT !.secondary = id], env, path)
  BY <1>2, <1>5, UsedPackTakesEffect DEF used, path, before
<1>6. created # Failed =>
          /\ \A p \in DOMAIN files : created[p] = files[p]
          /\ FileDecides(explicit, env) /\ ~HostConfigLoadDefaults(env).error =>
                HostConfigLoad(explicit, env, created).value =
                   [HostConfigLoadDefaults(env).value EXCEPT !.source_path = path]
  BY <1>2, CreatedConfigChangesNothing DEF created, path
<1>7. /\ sample.env = env /\ sample.explicit = explicit
      /\ sample.files = files /\ sample.id = id
  BY <1>1 DEF files
<1>. QED  BY <1>5, <1>6, <1>7, Zenon DEF ConfigCommandsTakeEffect, used, created, path, before

\* Hence for every sampled environment, file and command (pack use, config init,
\* and a host that loads its config and builds an engine).
THEOREM ConfigCommandsAlwaysTakeEffect == Spec => []ConfigCommandsTakeEffect
<1>1. Init => KeepsTopic /\ ConfigCommandsTakeEffect
  BY SampleStarts, ConfigSampleTakesEffect DEF ConfigCommandsTakeEffect
<1>2. KeepsTopic /\ ConfigCommandsTakeEffect /\ [Next]_sample =>
          (KeepsTopic /\ ConfigCommandsTakeEffect)'
  <2>1. ConfigCommandsTakeEffect /\ sample' = sample => ConfigCommandsTakeEffect'
    BY DEF ConfigCommandsTakeEffect
  <2>2. sample'.topic = "rolling" => ConfigCommandsTakeEffect'
    BY DEF ConfigCommandsTakeEffect
  <2>. QED  BY <2>1, <2>2, SampleStays
<1>. QED  BY <1>1, <1>2, PTL DEF Spec


-----------------------------------------------------------------------------
(* Keyboard maps                                                            *)

LEMMA LeastNatural ==
    ASSUME NEW T \in SUBSET Nat, T # {}
    PROVE  \E n \in T : \A m \in T : n <= m
<1>1. \E x \in T : \A y \in T : <<y, x>> \notin WellFounded!OpToRel(<, Nat)
  <2>. DEFINE R == WellFounded!OpToRel(<, Nat)
  <2>1. WellFounded!IsWellFoundedOn(R, Nat)
    BY WellFounded!NatLessThanWellFounded
  <2>. HIDE DEF R
  <2>2. \E x \in T : \A y \in T : <<y, x>> \notin R
    BY <2>1, WellFounded!WFMin, Zenon
  <2>. QED  BY <2>2 DEF R
<1>2. PICK x \in T : \A y \in T : <<y, x>> \notin WellFounded!OpToRel(<, Nat)
  BY <1>1
<1>3. ASSUME NEW y \in T, y < x
      PROVE  FALSE
  <2>1. <<y, x>> \in WellFounded!OpToRel(<, Nat)
    BY <1>3, Zenon DEF WellFounded!OpToRel
  <2>. QED  BY <1>2, <2>1
<1>. QED  BY <1>3

\* Characters: only letters have a case.
Characters(Sign, Script) ==
    {c \in [sign : Sign, script : Script, upper : BOOLEAN] : IsAlphabetic(c) \/ ~c.upper}

Rows(Char) == [unshifted : [Key -> Char], shifted : [Key -> Char]]

LEMMA EventPlaces ==
    /\ \A n \in 1..(2 * KeyCount) :
          /\ EventAt(n).physical_key \in Key /\ EventAt(n).shift \in BOOLEAN
          /\ EventAt(n) = [physical_key |-> EventAt(n).physical_key, shift |-> EventAt(n).shift]
          /\ EventAt(n) # NoEvent
    /\ \A k \in Key, s \in BOOLEAN :
          \E n \in 1..(2 * KeyCount) : EventAt(n) = [physical_key |-> k, shift |-> s]
<1>1. ASSUME NEW n \in 1..(2 * KeyCount)
      PROVE  /\ EventAt(n).physical_key \in Key /\ EventAt(n).shift \in BOOLEAN
             /\ EventAt(n) = [physical_key |-> EventAt(n).physical_key, shift |-> EventAt(n).shift]
             /\ EventAt(n) # NoEvent
  <2>1. (n + 1) \div 2 \in 1..KeyCount
    BY KeyCountAssumption
  <2>. QED  BY <2>1 DEF EventAt, Key, NoEvent
<1>2. ASSUME NEW k \in Key, NEW s \in BOOLEAN
      PROVE  \E n \in 1..(2 * KeyCount) : EventAt(n) = [physical_key |-> k, shift |-> s]
  <2>1. CASE s = TRUE
    <3>1. 2 * k \in 1..(2 * KeyCount) /\ (2 * k + 1) \div 2 = k /\ (2 * k) % 2 = 0
      BY KeyCountAssumption DEF Key
    <3>. QED  BY <2>1, <3>1 DEF EventAt
  <2>2. CASE s = FALSE
    <3>1. 2 * k - 1 \in 1..(2 * KeyCount) /\ (2 * k - 1 + 1) \div 2 = k /\ (2 * k - 1) % 2 = 1
      BY KeyCountAssumption DEF Key
    <3>. QED  BY <2>2, <3>1 DEF EventAt
  <2>. QED  BY <2>1, <2>2
<1>. QED  BY <1>1, <1>2

LEMMA CharsOnKeys ==
    ASSUME NEW map, NEW char
    PROVE  char \in CharsOf(map) <=>
              \E k \in Key : char = map.unshifted[k] \/ char = map.shifted[k]
<1>1. ASSUME NEW n \in 1..(2 * KeyCount), char = Render(map, EventAt(n))
      PROVE  \E k \in Key : char = map.unshifted[k] \/ char = map.shifted[k]
  BY <1>1, EventPlaces DEF Render
<1>2. ASSUME NEW k \in Key, char = map.unshifted[k]
      PROVE  char \in CharsOf(map)
  <2>1. PICK n \in 1..(2 * KeyCount) : EventAt(n) = [physical_key |-> k, shift |-> FALSE]
    BY EventPlaces
  <2>. QED  BY <1>2, <2>1 DEF CharsOf, Render
<1>3. ASSUME NEW k \in Key, char = map.shifted[k]
      PROVE  char \in CharsOf(map)
  <2>1. PICK n \in 1..(2 * KeyCount) : EventAt(n) = [physical_key |-> k, shift |-> TRUE]
    BY EventPlaces
  <2>. QED  BY <1>3, <2>1 DEF CharsOf, Render
<1>. QED  BY <1>1, <1>2, <1>3 DEF CharsOf

\* The lookup table has every character of the map, at a key that types it.
LEMMA LookupFinds ==
    ASSUME NEW map, NEW char
    PROVE  IF char \in CharsOf(map)
           THEN /\ \E n \in 1..(2 * KeyCount) : Lookup(map, char) = EventAt(n)
                /\ Render(map, Lookup(map, char)) = char
                /\ Lookup(map, char) # NoEvent
           ELSE Lookup(map, char) = NoEvent
<1>. DEFINE typing == {n \in 1..(2 * KeyCount) : Render(map, EventAt(n)) = char}
<1>1. typing = {} <=> char \notin CharsOf(map)
  BY DEF CharsOf
<1>2. CASE typing # {}
  <2>1. typing \in SUBSET Nat
    BY KeyCountAssumption
  <2>2. \E n \in typing : \A m \in typing : n <= m
    <3>. HIDE DEF typing
    <3>. QED  BY <1>2, <2>1, LeastNatural
  <2>. DEFINE least == CHOOSE n \in typing : \A m \in typing : n <= m
  <2>3. least \in typing
    <3>. HIDE DEF typing
    <3>. QED  BY <2>2
  <2>4. Lookup(map, char) = EventAt(least)
    BY <1>2 DEF Lookup
  <2>. HIDE DEF least
  <2>. QED  BY <1>1, <1>2, <2>3, <2>4, EventPlaces
<1>3. CASE typing = {}
  BY <1>1, <1>3 DEF Lookup
<1>. QED  BY <1>2, <1>3

\* On a map that has its letters in both cases, a character that is typed by
\* some key comes back as the event that types it, and no other does.
LEMMA MapRoundTrip ==
    ASSUME NEW Sign, NEW Script, NEW map \in Rows(Characters(Sign, Script)), Cased(map),
           NEW char \in Characters(Sign, Script)
    PROVE  IF char \in CharsOf(map)
           THEN /\ MapEventFromChar(map, char) # NoEvent
                /\ Render(map, MapEventFromChar(map, char)) = char
           ELSE MapEventFromChar(map, char) = NoEvent
<1>. DEFINE low == ToLower(char)
            event == Lookup(map, low)
<1>1. /\ low.sign = char.sign /\ low.script = char.script /\ low.upper = FALSE
      /\ low \in Characters(Sign, Script)
      /\ IsAlphabetic(low) <=> IsAlphabetic(char)
  BY DEF ToLower, Characters, IsAlphabetic
<1>2. ~char.upper => low = char
  BY <1>1 DEF Characters
<1>3. char.upper => IsAlphabetic(char) /\ [low EXCEPT !.upper = TRUE] = char
  <2>. HIDE DEF low
  <2>. QED  BY <1>1 DEF Characters
<1>. HIDE DEF low
<1>4. ASSUME NEW k \in Key
      PROVE  /\ map.unshifted[k] \in Characters(Sign, Script)
             /\ map.shifted[k] \in Characters(Sign, Script)
             /\ IF IsAlphabetic(map.unshifted[k])
                THEN /\ ~map.unshifted[k].upper
                     /\ map.shifted[k] = [map.unshifted[k] EXCEPT !.upper = TRUE]
                ELSE ~IsAlphabetic(map.shifted[k])
  BY DEF Rows, Cased
<1>5. ASSUME NEW k \in Key, IsAlphabetic(map.unshifted[k])
      PROVE  map.shifted[k].upper = TRUE
  BY <1>4, <1>5 DEF Characters
<1>6. CASE low \in CharsOf(map)
  <2>1. PICK n \in 1..(2 * KeyCount) : event = EventAt(n)
    BY <1>6, LookupFinds
  <2>2. Render(map, event) = low /\ event # NoEvent
    BY <1>6, LookupFinds
  <2>. DEFINE k == event.physical_key
              s == event.shift
  <2>3. k \in Key /\ s \in BOOLEAN /\ event = [physical_key |-> k, shift |-> s]
    BY <2>1, EventPlaces
  <2>4. MapEventFromChar(map, char) = ShiftForCase(event, char)
    BY <2>2 DEF MapEventFromChar, low
  <2>. HIDE DEF event
  <2>5. CASE ~char.upper
    <3>1. ShiftForCase(event, char) = event
      <4>1. char.upper = FALSE
        BY <2>5 DEF Characters
      <4>. QED  BY <2>3, <4>1 DEF ShiftForCase
    <3>. QED  BY <1>2, <1>6, <2>2, <2>4, <2>5, <3>1
  <2>6. CASE char.upper
    <3>1. ~s
      <4>1. ASSUME s PROVE FALSE
        <5>1. map.shifted[k] = low
          BY <2>2, <4>1 DEF Render
        <5>2. IsAlphabetic(map.shifted[k])
          BY <1>1, <1>3, <2>6, <5>1
        <5>3. map.shifted[k].upper = TRUE
          BY <1>4, <1>5, <2>3, <5>2
        <5>. QED  BY <1>1, <5>1, <5>3
      <4>. QED  BY <4>1
    <3>2. map.unshifted[k] = low
      BY <2>2, <3>1 DEF Render
    <3>3. map.shifted[k] = char
      BY <1>1, <1>3, <1>4, <2>3, <2>6, <3>2
    <3>4. ShiftForCase(event, char) = [physical_key |-> k, shift |-> TRUE]
      <4>1. char.upper = TRUE
        BY <2>6 DEF Characters
      <4>2. s = FALSE
        BY <2>3, <3>1
      <4>. QED  BY <2>3, <4>1, <4>2 DEF ShiftForCase
    <3>5. Render(map, ShiftForCase(event, char)) = char
      BY <3>3, <3>4 DEF Render
    <3>6. char \in CharsOf(map)
      BY <2>3, <3>3, CharsOnKeys
    <3>7. ShiftForCase(event, char) # NoEvent
      BY <2>3, <3>4, KeyCountAssumption DEF Key, NoEvent
    <3>. QED  BY <2>4, <3>5, <3>6, <3>7
  <2>. QED  BY <2>5, <2>6
<1>7. CASE low \notin CharsOf(map)
  <2>1. event = NoEvent
    BY <1>7, LookupFinds
  <2>2. MapEventFromChar(map, char) = Lookup(map, char)
    BY <2>1 DEF MapEventFromChar, low
  <2>. QED  BY <2>2, LookupFinds
<1>. QED  BY <1>6, <1>7

\* Whatever the two keyboards are (a char of any sign and script, letters below
\* their capitals), a character typed into the tools that go from text to key
\* events comes back from the layout that has it, English first
\* (KeyboardBundle::event_from_char and render_candidates).
THEOREM TypedTextRoundTrips ==
    ASSUME NEW Sign, NEW Script,
           NEW english \in Rows(Characters(Sign, Script)), Cased(english),
           NEW secondary \in Rows(Characters(Sign, Script)),
           NEW char \in Characters(Sign, Script)
    PROVE  LET event == BundleEventFromChar(english, secondary, char)
               shown == RenderCandidates(english, secondary, <<event>>)
           IN  /\ char \in CharsOf(english) => shown.english = <<char>>
               /\ Cased(secondary) /\ char \in CharsOf(secondary) \ CharsOf(english) =>
                     shown.secondary = <<char>>
<1>. DEFINE event == BundleEventFromChar(english, secondary, char)
<1>1. ASSUME NEW map
      PROVE  Candidate(map, <<event>>) = <<Render(map, event)>>
  <2>. HIDE DEF event
  <2>. QED  BY DEF Candidate
<1>2. CASE char \in CharsOf(english)
  <2>1. event = MapEventFromChar(english, char) /\ Render(english, event) = char
    BY <1>2, MapRoundTrip DEF BundleEventFromChar
  <2>. HIDE DEF event
  <2>. QED  BY <1>1, <1>2, <2>1 DEF RenderCandidates, event
<1>3. CASE char \notin CharsOf(english) /\ Cased(secondary) /\ char \in CharsOf(secondary)
  <2>1. event = MapEventFromChar(secondary, char) /\ Render(secondary, event) = char
    BY <1>3, MapRoundTrip DEF BundleEventFromChar
  <2>. HIDE DEF event
  <2>. QED  BY <1>1, <1>3, <2>1 DEF RenderCandidates, event
<1>. QED  BY <1>2, <1>3

LEMMA Lower ==
    ASSUME NEW sign, NEW script, NEW upper \in BOOLEAN
    PROVE  ToLower(Letter(sign, script, upper)) = Letter(sign, script, FALSE)
<1>1. Letter(sign, script, upper) \in [sign : {sign}, script : {script}, upper : BOOLEAN]
  BY DEF Letter
<1>2. ToLower(Letter(sign, script, upper)) \in [sign : {sign}, script : {script}, upper : BOOLEAN]
  BY <1>1 DEF ToLower
<1>3. ToLower(Letter(sign, script, upper)).upper = FALSE
  BY <1>1 DEF ToLower
<1>. QED  BY <1>2, <1>3 DEF Letter

LEMMA EnglishKeys ==
    /\ Key = {1, 2}
    /\ MCEnglish.unshifted = <<Letter("a", "latin", FALSE), Mark("semicolon")>>
    /\ MCEnglish.shifted = <<Letter("a", "latin", TRUE), Mark("colon")>>
    /\ MCEnglish.unshifted[1] = Letter("a", "latin", FALSE)
    /\ MCEnglish.unshifted[2] = Mark("semicolon")
    /\ MCEnglish.shifted[1] = Letter("a", "latin", TRUE)
    /\ MCEnglish.shifted[2] = Mark("colon")
<1>1. Key = {1, 2}
  BY SampleKeys DEF Key
<1>2. /\ MCEnglish.unshifted = <<Letter("a", "latin", FALSE), Mark("semicolon")>>
      /\ MCEnglish.shifted = <<Letter("a", "latin", TRUE), Mark("colon")>>
  BY DEF MCEnglish
<1>3. \A x, y : <<x, y>>[1] = x /\ <<x, y>>[2] = y
  OBVIOUS
<1>. QED  BY <1>1, <1>2, <1>3

\* The sample's characters, and the English map of two keys, are such a keyboard.
LEMMA SampleKeyboard ==
    /\ MCChars \subseteq Characters(STRING, STRING)
    /\ MCRows \subseteq Rows(Characters(STRING, STRING))
    /\ MCEnglish \in Rows(Characters(STRING, STRING))
    /\ Cased(MCEnglish)
<1>1. MCChars \subseteq Characters(STRING, STRING)
  BY SampleSigns DEF MCChars, Characters, Letter, Mark, IsAlphabetic
<1>2. MCEnglish \in MCRows
  <2>1. \A x, y \in MCChars : <<x, y>> \in [{1, 2} -> MCChars]
    OBVIOUS
  <2>2. \A row \in {MCEnglish.unshifted, MCEnglish.shifted} : row \in [Key -> MCChars]
    <3>1. {Letter("a", "latin", FALSE), Letter("a", "latin", TRUE), Mark("semicolon"),
           Mark("colon")} \subseteq MCChars
      BY Zenon DEF MCChars
    <3>2. /\ MCEnglish.unshifted \in [{1, 2} -> MCChars]
          /\ MCEnglish.shifted \in [{1, 2} -> MCChars]
      <4>1. /\ Letter("a", "latin", FALSE) \in MCChars /\ Mark("semicolon") \in MCChars
            /\ Letter("a", "latin", TRUE) \in MCChars /\ Mark("colon") \in MCChars
        BY <3>1
      <4>2. /\ <<Letter("a", "latin", FALSE), Mark("semicolon")>> \in [{1, 2} -> MCChars]
            /\ <<Letter("a", "latin", TRUE), Mark("colon")>> \in [{1, 2} -> MCChars]
        BY <2>1, <4>1
      <4>3. /\ MCEnglish.unshifted = <<Letter("a", "latin", FALSE), Mark("semicolon")>>
            /\ MCEnglish.shifted = <<Letter("a", "latin", TRUE), Mark("colon")>>
        BY EnglishKeys, Zenon
      <4>. QED  BY <4>2, <4>3, Zenon
    <3>. QED  BY <3>2, EnglishKeys
  <2>. QED  BY <2>2 DEF MCEnglish, MCRows
<1>3. Cased(MCEnglish)
  <2>1. [Letter("a", "latin", FALSE) EXCEPT !.upper = TRUE] = Letter("a", "latin", TRUE)
    <3>. DEFINE C == [sign : {"a"}, script : {"latin"}, upper : BOOLEAN]
                high == [Letter("a", "latin", FALSE) EXCEPT !.upper = TRUE]
    <3>1. Letter("a", "latin", FALSE) \in C /\ Letter("a", "latin", TRUE) \in C
      BY DEF Letter
    <3>2. high \in C /\ high.upper = TRUE
      BY <3>1
    <3>3. Letter("a", "latin", TRUE).upper = TRUE
      BY DEF Letter
    <3>4. \A c, d \in C : c.upper = d.upper => c = d
      OBVIOUS
    <3>. HIDE DEF high, C
    <3>. QED  BY <3>1, <3>2, <3>3, <3>4 DEF high
  <2>2. IsAlphabetic(Letter("a", "latin", FALSE)) /\ ~Letter("a", "latin", FALSE).upper
    BY DEF IsAlphabetic, Letter
  <2>3. ~IsAlphabetic(Mark("semicolon")) /\ ~IsAlphabetic(Mark("colon"))
    BY DEF IsAlphabetic, Letter, Mark
  <2>. QED  BY EnglishKeys, <2>1, <2>2, <2>3 DEF Cased
<1>. QED  BY <1>1, <1>2, <1>3 DEF MCRows, Rows

\* English characters stand for the same event in both of the tables.
LEMMA SampleTablesAgree ==
    ASSUME NEW char \in CharsOf(MCEnglish)
    PROVE  MapEventFromChar(MCEnglish, char) = FromChar(MCEnglishPlaces, char)
<1>1. Key = {1, 2}
  BY EnglishKeys
<1>2. char \in {Letter("a", "latin", FALSE), Letter("a", "latin", TRUE),
                Mark("semicolon"), Mark("colon")}
  BY EnglishKeys, CharsOnKeys
<1>3. ASSUME NEW c \in {Letter("a", "latin", FALSE), Mark("semicolon"), Mark("colon")}
      PROVE  Lookup(MCEnglish, c) = MCEnglishPlaces[c.sign]
  <2>1. c \in CharsOf(MCEnglish)
    BY EnglishKeys, CharsOnKeys
  <2>2. PICK n \in 1..4 : Lookup(MCEnglish, c) = EventAt(n)
    BY <2>1, LookupFinds, SampleKeys
  <2>. DEFINE event == EventAt(n)
  <2>3. Render(MCEnglish, event) = c
    BY <2>1, <2>2, LookupFinds
  <2>4. event.physical_key \in {1, 2} /\ event.shift \in BOOLEAN
        /\ event = [physical_key |-> event.physical_key, shift |-> event.shift]
    BY EnglishKeys, EventPlaces, SampleKeys
  <2>. HIDE DEF event
  <2>5. c.upper = FALSE /\ c.sign \in {"a", "semicolon", "colon"}
    BY DEF Letter, Mark
  <2>6. c.sign = "a" => event.physical_key = 1 /\ event.shift = FALSE
    BY <2>3, <2>4, EnglishKeys DEF Render, Letter, Mark
  <2>7. c.sign = "semicolon" => event.physical_key = 2 /\ event.shift = FALSE
    BY <2>3, <2>4, EnglishKeys DEF Render, Letter, Mark
  <2>8. c.sign = "colon" => event.physical_key = 2 /\ event.shift = TRUE
    BY <2>3, <2>4, EnglishKeys DEF Render, Letter, Mark
  <2>9. Lookup(MCEnglish, c) = event
    BY <2>2 DEF event
  <2>. QED  BY <2>4, <2>5, <2>6, <2>7, <2>8, <2>9 DEF MCEnglishPlaces
<1>4. CASE char = Letter("a", "latin", TRUE)
  <2>1. ToLower(char) = Letter("a", "latin", FALSE) /\ char.upper = TRUE
    BY <1>4, Lower DEF Letter
  <2>. DEFINE event == Lookup(MCEnglish, ToLower(char))
  <2>2. event = [physical_key |-> 1, shift |-> FALSE]
    BY <1>3, <2>1 DEF MCEnglishPlaces, Letter
  <2>3. event # NoEvent /\ event.shift = FALSE
        /\ [event EXCEPT !.shift = TRUE] = [physical_key |-> 1, shift |-> TRUE]
    <3>1. event # NoEvent /\ event.shift = FALSE
      BY <2>2 DEF NoEvent
    <3>. DEFINE shifted == [event EXCEPT !.shift = TRUE]
    <3>2. shifted \in [physical_key : {1}, shift : BOOLEAN] /\ shifted.shift = TRUE
      <4>1. event \in [physical_key : {1}, shift : BOOLEAN]
        BY <2>2
      <4>. HIDE DEF event
      <4>. QED  BY <4>1
    <3>3. shifted = [physical_key |-> 1, shift |-> TRUE]
      <4>. HIDE DEF shifted
      <4>. QED  BY <3>2
    <3>. QED  BY <3>1, <3>3
  <2>4. MapEventFromChar(MCEnglish, char) = [physical_key |-> 1, shift |-> TRUE]
    <3>. HIDE DEF event
    <3>. QED  BY <2>1, <2>3, Zenon DEF MapEventFromChar, ShiftForCase, event
  <2>5. FromChar(MCEnglishPlaces, char) = [physical_key |-> 1, shift |-> TRUE]
    <3>1. ToLower(char).sign = "a"
      BY <2>1 DEF Letter
    <3>2. MCEnglishPlaces["a"].physical_key = 1 /\ "a" \in DOMAIN MCEnglishPlaces
      BY DEF MCEnglishPlaces
    <3>3. (MCEnglishPlaces["a"].shift \/ char.upper) = TRUE
      BY <2>1
    <3>. QED  BY <3>1, <3>2, <3>3, Zenon DEF FromChar
  <2>. QED  BY <2>4, <2>5
<1>5. CASE char \in {Letter("a", "latin", FALSE), Mark("semicolon"), Mark("colon")}
  <2>1. ToLower(char) = char /\ char.upper = FALSE /\ char.sign \in {"a", "semicolon", "colon"}
    <3>1. ToLower(char) = char
      BY <1>5, Lower DEF Mark
    <3>2. char.upper = FALSE /\ char.sign \in {"a", "semicolon", "colon"}
      BY <1>5 DEF Letter, Mark
    <3>. QED  BY <3>1, <3>2
  <2>. DEFINE place == MCEnglishPlaces[char.sign]
  <2>2. /\ place # NoEvent
        /\ place \in [physical_key : Nat, shift : BOOLEAN]
    BY <2>1 DEF MCEnglishPlaces, NoEvent
  <2>3. DOMAIN MCEnglishPlaces = {"a", "semicolon", "colon"}
    BY DEF MCEnglishPlaces
  <2>4. Lookup(MCEnglish, char) = place
    BY <1>3, <1>5
  <2>. HIDE DEF place
  <2>5. MapEventFromChar(MCEnglish, char) = place
    BY <2>1, <2>2, <2>4 DEF MapEventFromChar, ShiftForCase
  <2>6. FromChar(MCEnglishPlaces, char) = [physical_key |-> place.physical_key,
                                           shift |-> place.shift \/ FALSE]
    BY <2>1, <2>3, Zenon DEF FromChar, place
  <2>7. FromChar(MCEnglishPlaces, char) = place
    BY <2>2, <2>6
  <2>. QED  BY <2>5, <2>7
<1>. QED  BY <1>2, <1>4, <1>5

LEMMA KeyboardSampleRoundTrips == KeyboardSample => TypedCharacterRoundTrips
<1>. SUFFICES ASSUME KeyboardSample
              PROVE  TypedCharacterRoundTrips
  OBVIOUS
<1>1. PICK secondary \in MCRows, char \in MCChars :
          sample = [topic |-> "keyboard", secondary |-> secondary, char |-> char]
  BY DEF KeyboardSample
<1>. DEFINE event == BundleEventFromChar(MCEnglish, secondary, char)
            shown == RenderCandidates(MCEnglish, secondary, <<event>>)
<1>2. /\ char \in Characters(STRING, STRING)
      /\ secondary \in Rows(Characters(STRING, STRING))
      /\ MCEnglish \in Rows(Characters(STRING, STRING)) /\ Cased(MCEnglish)
  BY SampleKeyboard
<1>3. /\ char \in CharsOf(MCEnglish) => shown.english = <<char>>
      /\ Cased(secondary) /\ char \in CharsOf(secondary) \ CharsOf(MCEnglish) =>
            shown.secondary = <<char>>
  BY <1>2, TypedTextRoundTrips
<1>4. char \in CharsOf(MCEnglish) => event = FromChar(MCEnglishPlaces, char)
  BY <1>2, MapRoundTrip, SampleTablesAgree DEF BundleEventFromChar
<1>5. sample.secondary = secondary /\ sample.char = char
  BY <1>1
<1>. HIDE DEF shown, event
<1>. QED  BY <1>3, <1>4, <1>5 DEF TypedCharacterRoundTrips, shown, event

\* Hence for every map of two keys and every character of the run, which also
\* stand for the same event in LetterEvent::from_char's table of English.
THEOREM TypedCharactersRoundTrip == Spec => []TypedCharacterRoundTrips
<1>1. Init => KeepsTopic /\ TypedCharacterRoundTrips
  BY SampleStarts, KeyboardSampleRoundTrips DEF TypedCharacterRoundTrips
<1>2. KeepsTopic /\ TypedCharacterRoundTrips /\ [Next]_sample =>
          (KeepsTopic /\ TypedCharacterRoundTrips)'
  <2>1. TypedCharacterRoundTrips /\ sample' = sample => TypedCharacterRoundTrips'
    BY DEF TypedCharacterRoundTrips
  <2>2. sample'.topic = "rolling" => TypedCharacterRoundTrips'
    BY DEF TypedCharacterRoundTrips
  <2>. QED  BY <2>1, <2>2, SampleStays
<1>. QED  BY <1>1, <1>2, PTL DEF Spec

-----------------------------------------------------------------------------
(* Packs                                                                    *)

\* What from_pack_dir asks of a directory, and what it makes of it.
CanLoad(dir, m, keyboard, keys) ==
    /\ ~dir.symlink
    /\ m # Missing
    /\ ValidManifest(m)
    /\ keyboard # Missing
    /\ \A f \in ArtifactField : Readable(dir, m.paths[f], f)
    /\ At(dir, m.paths["ngrams"]).tag = m.id
    /\ ValidPunctuationKeys(keys)

PackOf(dir, m, keyboard, keys) ==
    [id |-> m.id, display_name |-> m.display_name, layout |-> m.layout,
     keyboard |-> keyboard, punctuation_letter_keys |-> keys,
     artifacts |-> [f \in ArtifactField |-> At(dir, m.paths[f])],
     source |-> IF m.source = Missing THEN "external pack" ELSE m.source,
     build_id |-> IF m.build_id = Missing THEN "external" ELSE m.build_id]

LEMMA LoadingAPack ==
    ASSUME NEW dir, NEW m, m = dir.manifest,
           NEW keyboard, keyboard = KeyboardOf(m.layout, m.keyboard),
           NEW keys, keys = PunctuationKeys(m.punctuation_letter_keys, keyboard)
    PROVE  FromPackDir(dir) =
              IF CanLoad(dir, m, keyboard, keys) THEN PackOf(dir, m, keyboard, keys)
              ELSE Missing
  BY Zenon DEF FromPackDir, CanLoad, PackOf

LEMMA StandardPaths ==
    /\ \A f, g \in ArtifactField : StandardPath[f] = StandardPath[g] => f = g
    /\ \A f \in ArtifactField : StaysInside(StandardPath[f])
    /\ "ngrams" \in ArtifactField
    /\ DOMAIN StandardPath = ArtifactField
  BY DEF ArtifactField, StandardPath, StaysInside

LEMMA StandardPathsTyped == StandardPath \in [ArtifactField -> STRING]
<1>1. \A x, y, z \in STRING : [ngrams |-> x, dict |-> y, dict_prefix |-> z] \in
                              [{"ngrams", "dict", "dict_prefix"} -> STRING]
  OBVIOUS
<1>. QED  BY <1>1, PackAssumption, Zenon DEF StandardPath, ArtifactField

LEMMA InstalledAt ==
    ASSUME NEW source, NEW target \in Directory, FromPackDir(source) # Missing,
           NEW f \in ArtifactField
    PROVE  At(InstallPack(source, target), StandardPath[f]) =
              At(source, source.manifest.paths[f])
<1>. DEFINE m == source.manifest
            names == DOMAIN target.files \cup {StandardPath[g] : g \in ArtifactField}
            files == [p \in names |->
                IF \E g \in ArtifactField : StandardPath[g] = p
                THEN At(source, m.paths[CHOOSE g \in ArtifactField : StandardPath[g] = p])
                ELSE target.files[p]]
            new == InstallPack(source, target)
<1>1. new.files = files
  BY DEF InstallPack, Directory
<1>. HIDE DEF new
<1>2. (CHOOSE g \in ArtifactField : StandardPath[g] = StandardPath[f]) = f
  BY StandardPaths
<1>3. StandardPath[f] \in DOMAIN files
  OBVIOUS
<1>4. files[StandardPath[f]] = At(source, m.paths[f])
  BY <1>2
<1>. HIDE DEF files
<1>. QED  BY <1>1, <1>3, <1>4 DEF At, new
LEMMA KeysInOrder ==
    ASSUME NEW keys \in SUBSET CharsOf(English)
    PROVE  /\ IsFiniteSet(keys)
           /\ InKeyOrder(keys) \in [1..Cardinality(keys) -> keys]
           /\ \A i, j \in 1..Cardinality(keys) : InKeyOrder(keys)[i] = InKeyOrder(keys)[j] => i = j
<1>. DEFINE N == 1..(2 * KeyCount)
            at(char) == CHOOSE n \in 1..(2 * KeyCount) :
                           /\ Render(English, EventAt(n)) = char
                           /\ \A m \in 1..(n - 1) : Render(English, EventAt(m)) # char
            below(c) == {d \in keys : at(d) < at(c)}
            rank(c) == Cardinality(below(c))
            size == Cardinality(keys)
<1>1. ASSUME NEW c \in keys
      PROVE  at(c) \in N /\ Render(English, EventAt(at(c))) = c
  <2>. DEFINE typing == {n \in N : Render(English, EventAt(n)) = c}
  <2>1. typing \in SUBSET Nat /\ typing # {}
    BY KeyCountAssumption DEF CharsOf
  <2>2. PICK n \in typing : \A m \in typing : n <= m
    <3>. HIDE DEF typing
    <3>. QED  BY <2>1, LeastNatural
  <2>3. \A m \in 1..(n - 1) : Render(English, EventAt(m)) # c
    BY <2>2, KeyCountAssumption
  <2>4. \E x \in 1..(2 * KeyCount) :
           /\ Render(English, EventAt(x)) = c
           /\ \A m \in 1..(x - 1) : Render(English, EventAt(m)) # c
    BY <2>2, <2>3
  <2>. QED  BY <2>4, Zenon
<1>2. \A c \in keys : at(c) \in N /\ at(c) \in Nat
  BY <1>1, KeyCountAssumption
<1>3. \A c, d \in keys : at(c) = at(d) => c = d
  BY <1>1
<1>. HIDE DEF at
<1>4. IsFiniteSet(keys)
  <2>1. [c \in keys |-> at(c)] \in Injection(keys, N)
    BY <1>2, <1>3 DEF Injection, IsInjective
  <2>2. IsFiniteSet(N)
    BY FS_Interval, KeyCountAssumption
  <2>. QED  BY <2>1, <2>2, FS_Injection
<1>5. size \in Nat /\ \A S \in SUBSET keys : IsFiniteSet(S) /\ Cardinality(S) \in Nat
  BY <1>4, FS_Subset, FS_CardinalityType
<1>6. ASSUME NEW c \in keys
      PROVE  rank(c) \in 0..(size - 1)
  <2>1. below(c) \in SUBSET (keys \ {c})
    BY <1>2
  <2>2. IsFiniteSet(keys \ {c}) /\ Cardinality(keys \ {c}) = size - 1
    BY <1>4, FS_RemoveElement
  <2>3. rank(c) <= size - 1 /\ rank(c) \in Nat
    <3>. HIDE DEF below
    <3>. QED  BY <1>5, <2>1, <2>2, FS_Subset
  <2>. QED  BY <1>5, <2>3
<1>7. ASSUME NEW c \in keys, NEW e \in keys, at(c) < at(e)
      PROVE  rank(c) < rank(e)
  <2>1. below(c) \in SUBSET (below(e) \ {c}) /\ c \in below(e)
    BY <1>2, <1>7
  <2>2. below(e) \in SUBSET keys /\ below(c) \in SUBSET keys
    OBVIOUS
  <2>. HIDE DEF below
  <2>3. IsFiniteSet(below(e) \ {c}) /\ Cardinality(below(e) \ {c}) = rank(e) - 1
    BY <1>5, <2>1, <2>2, FS_RemoveElement
  <2>4. rank(c) <= rank(e) - 1
    BY <2>1, <2>3, FS_Subset
  <2>. QED  BY <1>5, <2>2, <2>4
<1>. HIDE DEF below
<1>8. \A c, e \in keys : rank(c) = rank(e) => c = e
  <2>1. \A c, e \in keys : at(c) < at(e) \/ at(e) < at(c) \/ at(c) = at(e)
    BY <1>2
  <2>2. \A c \in keys : rank(c) \in Int
    BY <1>5, <1>6
  <2>. HIDE DEF rank
  <2>. QED  BY <1>3, <1>7, <2>1, <2>2
<1>. HIDE DEF rank
<1>9. \A i \in 1..size : \E c \in keys : rank(c) = i - 1
  <2>. DEFINE r == [c \in keys |-> rank(c)]
  <2>1. r \in Injection(keys, 0..(size - 1))
    BY <1>6, <1>8 DEF Injection, IsInjective
  <2>2. IsFiniteSet(0..(size - 1)) /\ Cardinality(0..(size - 1)) = size
    <3>1. 0 \in Int /\ size - 1 \in Int
      BY <1>5
    <3>2. /\ IsFiniteSet(0..(size - 1))
          /\ Cardinality(0..(size - 1)) = IF 0 > size - 1 THEN 0 ELSE size - 1 - 0 + 1
      BY <3>1, FS_Interval
    <3>. QED  BY <1>5, <3>2
  <2>3. r \in Surjection(keys, 0..(size - 1))
    <3>. HIDE DEF r
    <3>. QED  BY <2>1, <2>2, FS_Injection
  <2>4. ASSUME NEW i \in 1..size
        PROVE  \E c \in keys : rank(c) = i - 1
    <3>1. i - 1 \in 0..(size - 1)
      BY <1>5
    <3>. QED  BY <2>3, <3>1 DEF Surjection
  <2>. QED  BY <2>4
<1>. DEFINE nth(i) == CHOOSE c \in keys : rank(c) = i - 1
<1>10. \A i \in 1..size : nth(i) \in keys /\ rank(nth(i)) = i - 1
  BY <1>9
<1>11. InKeyOrder(keys) = [i \in 1..size |-> nth(i)]
  BY Zenon DEF InKeyOrder, rank, below, at
<1>. HIDE DEF nth, size
<1>12. InKeyOrder(keys) \in [1..size -> keys]
  BY <1>10, <1>11
<1>13. \A i, j \in 1..size : InKeyOrder(keys)[i] = InKeyOrder(keys)[j] => i = j
  <2>1. \A i, j \in 1..size : nth(i) = nth(j) => i - 1 = j - 1
    BY <1>10
  <2>2. \A i \in 1..size : InKeyOrder(keys)[i] = nth(i)
    BY <1>11
  <2>. QED  BY <1>5, <2>1, <2>2
<1>. QED  BY <1>4, <1>12, <1>13 DEF size

LEMMA EnglishIsTyped == CharsOf(English) \subseteq Character
<1>1. ASSUME NEW row \in {English.unshifted, English.shifted}, NEW k \in Key
      PROVE  row[k] \in Character
  <2>1. row \in Seq(Character) /\ Len(row) = KeyCount
    BY PackAssumption DEF KeyboardRows, RowsAreValid
  <2>. QED  BY <2>1, KeyCountAssumption DEF Key
<1>. QED  BY <1>1, CharsOnKeys

\* The keys that are derived from two keyboards are keys a manifest may name.
LEMMA DerivedKeysAreValid ==
    ASSUME NEW keyboard
    PROVE  /\ DerivedKeys(keyboard) \in Seq(Character)
           /\ ValidPunctuationKeys(DerivedKeys(keyboard))
<1>. DEFINE keys == PunctuationLetterKeysAgainst(keyboard, English)
            row == InKeyOrder(keys)
            size == Cardinality(keys)
<1>1. keys \in SUBSET CharsOf(English) /\ \A c \in keys : ~IsAsciiAlphabetic(c)
  BY DEF PunctuationLetterKeysAgainst, CharsOf
<1>. HIDE DEF keys
<1>2. /\ IsFiniteSet(keys) /\ row \in [1..size -> keys]
      /\ \A i, j \in 1..size : row[i] = row[j] => i = j
  BY <1>1, KeysInOrder
<1>3. size \in Nat
  BY <1>2, FS_CardinalityType
<1>4. keys \subseteq Character
  BY <1>1, EnglishIsTyped
<1>. HIDE DEF row, size
<1>5. row \in Seq(Character)
  <2>1. row \in [1..size -> Character]
    BY <1>2, <1>4
  <2>. QED  BY <1>3, <2>1
<1>6. DOMAIN row = 1..size /\ \A i \in 1..size : row[i] \in keys
  BY <1>2
<1>7. ValidPunctuationKeys(row)
  BY <1>1, <1>2, <1>6 DEF ValidPunctuationKeys
<1>. QED  BY <1>5, <1>7 DEF DerivedKeys, row, keys

\* Whatever pack a directory holds, under whatever names, what is installed of
\* it over whatever is in the target is the same pack.
THEOREM InstalledPacksStayTheSame ==
    ASSUME NEW source \in Directory, NEW target \in Directory, ~target.symlink,
           FromPackDir(source) # Missing
    PROVE  FromPackDir(InstallPack(source, target)) = FromPackDir(source)
<1>. DEFINE m == source.manifest
            keyboard == KeyboardOf(m.layout, m.keyboard)
            keys == PunctuationKeys(m.punctuation_letter_keys, keyboard)
            new == InstallPack(source, target)
<1>1. CanLoad(source, m, keyboard, keys) /\ FromPackDir(source) = PackOf(source, m, keyboard, keys)
  BY LoadingAPack
<1>2. m \in Manifest
  BY <1>1 DEF Directory, CanLoad
<1>. DEFINE standard == NormalizedForInstall(m)
            written == [standard EXCEPT !.punctuation_letter_keys =
                           IF m.punctuation_letter_keys = <<>> THEN keys ELSE @]
<1>3. /\ standard \in Manifest /\ standard.paths = StandardPath
      /\ standard.punctuation_letter_keys = m.punctuation_letter_keys
      /\ standard.current_format = m.current_format /\ standard.id = m.id
      /\ standard.display_name = m.display_name /\ standard.layout = m.layout
      /\ standard.keyboard = m.keyboard /\ standard.source = m.source
      /\ standard.build_id = m.build_id
  <2>. HIDE DEF m
  <2>. QED  BY <1>2, StandardPathsTyped DEF NormalizedForInstall, Manifest
<1>4. /\ keys \in Seq(Character)
      /\ keys = <<>> => m.punctuation_letter_keys = <<>>
  <2>1. m.punctuation_letter_keys \in Seq(Character)
    BY <1>2 DEF Manifest
  <2>. HIDE DEF m, keyboard
  <2>. QED  BY <2>1, DerivedKeysAreValid DEF PunctuationKeys
<1>. HIDE DEF standard
<1>5. /\ written \in Manifest /\ written.paths = StandardPath
      /\ written.punctuation_letter_keys = keys
      /\ written.current_format = m.current_format /\ written.id = m.id
      /\ written.display_name = m.display_name /\ written.layout = m.layout
      /\ written.keyboard = m.keyboard /\ written.source = m.source
      /\ written.build_id = m.build_id
  <2>1. keys = IF m.punctuation_letter_keys = <<>> THEN keys ELSE m.punctuation_letter_keys
    BY DEF PunctuationKeys
  <2>. HIDE DEF keys, m
  <2>. QED  BY <1>3, <1>4, <2>1 DEF Manifest
<1>6. new.manifest = written /\ ~new.symlink
  <2>1. FromPackDir(source).punctuation_letter_keys = keys
    <3>1. \A d, n, k, ks : PackOf(d, n, k, ks).punctuation_letter_keys = ks
      BY DEF PackOf
    <3>. HIDE DEF keys, keyboard, m
    <3>. QED  BY <1>1, <3>1
  <2>. HIDE DEF keys
  <2>2. \A t \in Directory : \A fs, w : LET d == [[t EXCEPT !.files = fs] EXCEPT !.manifest = w] IN
            d.manifest = w /\ d.symlink = t.symlink
    BY DEF Directory
  <2>. DEFINE files == [p \in DOMAIN target.files \cup {StandardPath[f] : f \in ArtifactField} |->
            IF \E f \in ArtifactField : StandardPath[f] = p
            THEN At(source, m.paths[CHOOSE f \in ArtifactField : StandardPath[f] = p])
            ELSE target.files[p]]
  <2>3. new = [[target EXCEPT !.files = files] EXCEPT !.manifest = written]
    BY <2>1, <1>3, Zenon DEF InstallPack, standard
  <2>. HIDE DEF files, new, written, m
  <2>. QED  BY <2>2, <2>3
<1>7. \A f \in ArtifactField : At(new, StandardPath[f]) = At(source, m.paths[f])
  BY InstalledAt
<1>. HIDE DEF new, written
<1>8. /\ KeyboardOf(new.manifest.layout, new.manifest.keyboard) = keyboard
      /\ PunctuationKeys(new.manifest.punctuation_letter_keys, keyboard) = keys
  <2>1. KeyboardOf(new.manifest.layout, new.manifest.keyboard) = keyboard
    BY <1>5, <1>6
  <2>2. PunctuationKeys(keys, keyboard) = keys
    BY <1>4 DEF PunctuationKeys
  <2>. QED  BY <1>5, <1>6, <2>1, <2>2
<1>9. CanLoad(new, new.manifest, keyboard, keys)
  <2>. HIDE DEF keyboard, keys, m
  <2>1. ValidManifest(written)
    BY <1>1, <1>5, StandardPaths DEF CanLoad, ValidManifest
  <2>2. \A f \in ArtifactField : Readable(new, written.paths[f], f)
    BY <1>1, <1>5, <1>7 DEF CanLoad, Readable
  <2>3. At(new, written.paths["ngrams"]).tag = written.id
    BY <1>1, <1>5, <1>7, StandardPaths DEF CanLoad
  <2>. QED  BY <1>1, <1>5, <1>6, <2>1, <2>2, <2>3, PackAssumption DEF CanLoad
<1>10. PackOf(new, new.manifest, keyboard, keys) = PackOf(source, m, keyboard, keys)
  <2>. HIDE DEF keyboard, keys, m
  <2>1. [f \in ArtifactField |-> At(new, written.paths[f])] =
        [f \in ArtifactField |-> At(source, m.paths[f])]
    BY <1>5, <1>7
  <2>. QED  BY <1>5, <1>6, <2>1, Zenon DEF PackOf
<1>11. FromPackDir(new) = PackOf(new, new.manifest, keyboard, keys)
  <2>. HIDE DEF keyboard, keys, m
  <2>. QED  BY <1>8, <1>9, LoadingAPack
<1>. QED  BY <1>1, <1>10, <1>11 DEF new

\* A directory with one more file.
Wrote(dir, path, file) == [dir EXCEPT !.files = With(dir.files, path, file)]

LEMMA WrittenTyped ==
    ASSUME NEW dir \in Directory, NEW path \in STRING, NEW file \in File
    PROVE  /\ Wrote(dir, path, file) \in Directory
           /\ Wrote(dir, path, file).symlink = dir.symlink
           /\ Wrote(dir, path, file).manifest = dir.manifest
           /\ At(Wrote(dir, path, file), path) = file
           /\ \A p \in STRING \ {path} : At(Wrote(dir, path, file), p) = At(dir, p)
<1>. DEFINE new == Wrote(dir, path, file)
            files == With(dir.files, path, file)
<1>1. PICK names \in SUBSET STRING : dir.files \in [names -> File]
  BY DEF Directory
<1>2. /\ files \in [names \cup {path} -> File] /\ files[path] = file
      /\ \A p \in names : p # path => files[p] = dir.files[p]
  BY <1>1 DEF With
<1>. HIDE DEF files
<1>3. files \in UNION {[n -> File] : n \in SUBSET STRING}
  <2>1. names \cup {path} \in SUBSET STRING
    OBVIOUS
  <2>. QED  BY <1>2, <2>1
<1>4. new \in Directory /\ new.symlink = dir.symlink /\ new.manifest = dir.manifest
      /\ new.files = files
  BY <1>3 DEF Directory, files, Wrote
<1>. HIDE DEF new
<1>5. /\ At(new, path) = file
      /\ \A p \in STRING \ {path} : At(new, p) = At(dir, p)
  BY <1>1, <1>2, <1>4 DEF At
<1>. QED  BY <1>4, <1>5 DEF new

\* What the builder writes of a valid specification.
LEMMA ManifestIsValid ==
    ASSUME NEW spec \in PackBuildSpec, ValidSpec(spec),
           NEW m, m = ManifestFor(spec),
           NEW keyboard, keyboard = KeyboardOf(m.layout, m.keyboard)
    PROVE  /\ m \in Manifest /\ m.id = spec.id /\ m.paths = StandardPath
           /\ ValidManifest(m)
           /\ keyboard \in KeyboardRows
           /\ ValidPunctuationKeys(PunctuationKeys(m.punctuation_letter_keys, keyboard))
           /\ PunctuationKeys(m.punctuation_letter_keys, keyboard) \in Seq(Character)
<1>. DEFINE own == KeyboardOf(spec.layout, spec.keyboard)
            keys == IF spec.keys # Missing THEN spec.keys ELSE DerivedKeys(own)
            id == IF spec.build_id = Missing THEN "build-pack" ELSE spec.build_id
<1>1. keys \in Seq(Character) /\ ValidPunctuationKeys(keys)
  <2>1. spec.keys # Missing => spec.keys \in Seq(Character) /\ ValidPunctuationKeys(spec.keys)
    BY DEF ValidSpec, PackBuildSpec
  <2>. HIDE DEF own
  <2>. QED  BY <2>1, DerivedKeysAreValid
<1>2. id \in STRING
  BY PackAssumption DEF PackBuildSpec
<1>3. m = [current_format |-> TRUE, id |-> spec.id, display_name |-> spec.display_name,
           layout |-> spec.layout, keyboard |-> spec.keyboard,
           punctuation_letter_keys |-> keys, paths |-> StandardPath,
           source |-> spec.source, build_id |-> id]
  BY Zenon DEF ManifestFor
<1>. HIDE DEF keys, id
<1>4. /\ m.current_format = TRUE /\ m.id = spec.id /\ m.display_name = spec.display_name
      /\ m.layout = spec.layout /\ m.keyboard = spec.keyboard
      /\ m.punctuation_letter_keys = keys /\ m.paths = StandardPath
  BY <1>3
<1>5. m \in Manifest
  BY <1>1, <1>2, <1>3, StandardPathsTyped DEF Manifest, PackBuildSpec
<1>6. keyboard = own /\ own # Missing
  BY <1>4 DEF ValidSpec
<1>7. own \in KeyboardRows
  BY <1>6, PackAssumption DEF KeyboardOf, PackBuildSpec
<1>8. ValidManifest(m)
  BY <1>1, <1>4, StandardPaths DEF ValidManifest, ValidSpec
<1>9. /\ ValidPunctuationKeys(PunctuationKeys(keys, own))
      /\ PunctuationKeys(keys, own) \in Seq(Character)
  BY <1>1, DerivedKeysAreValid DEF PunctuationKeys
<1>. QED  BY <1>4, <1>5, <1>6, <1>7, <1>8, <1>9

LEMMA LoadedIsAPack ==
    ASSUME NEW dir \in Directory, NEW m \in Manifest, NEW keyboard \in KeyboardRows,
           NEW keys \in Seq(Character),
           \A f \in ArtifactField : At(dir, m.paths[f]) \in File
    PROVE  PackOf(dir, m, keyboard, keys) \in Pack
<1>1. [f \in ArtifactField |-> At(dir, m.paths[f])] \in [ArtifactField -> File]
  OBVIOUS
<1>2. /\ (IF m.source = Missing THEN "external pack" ELSE m.source) \in STRING
      /\ (IF m.build_id = Missing THEN "external" ELSE m.build_id) \in STRING
      /\ m.id \in STRING /\ m.display_name \in STRING /\ m.layout \in STRING
  BY PackAssumption DEF Manifest
<1>. QED  BY <1>1, <1>2, Zenon DEF PackOf, Pack

\* An artifact as it is written, through a link or not.
LEMMA WrittenArtifact ==
    ASSUME NEW spec \in PackBuildSpec, NEW f \in ArtifactField, NEW link \in BOOLEAN
    PROVE  LET file == [Artifact(f, spec.id) EXCEPT !.symlink = link]
           IN  /\ file \in File /\ file.symlink = link
               /\ file.holds = f /\ file.tag = spec.id
<1>1. f \in STRING /\ spec.id \in STRING
  BY PackAssumption DEF ArtifactField, PackBuildSpec
<1>. QED  BY <1>1 DEF File, Artifact

\* None of the names the builder writes is a symbolic link.
ArtifactsAreFiles(dir) == \A f \in ArtifactField : ~Linked(dir, StandardPath[f])

\* The builder ends with success when the specification is valid, the directory
\* may be written to, none of the artifacts there is a symbolic link and the
\* sources are usable, whatever the keyboards, and only then (cmd_build_pack,
\* with what prepare_pack_dir lets through and from_pack_dir refuses); and what
\* it has built loads under the name it was given, and still does, as the same
\* pack, wherever it is installed.
THEOREM BuiltPacksLoad ==
    ASSUME NEW spec \in PackBuildSpec, NEW dir \in Directory, NEW force \in BOOLEAN,
           NEW inputs \in {"good", "no corpus", "no words"}
    PROVE  LET built == BuildPack(spec, dir, force, inputs)
           IN  /\ built.ok = (/\ ValidSpec(spec) /\ CanPrepare(dir, force)
                              /\ inputs = "good" /\ ArtifactsAreFiles(dir))
               /\ built.ok =>
                     /\ FromPackDir(built.dir).id = spec.id
                     /\ \A target \in Directory : ~target.symlink =>
                           FromPackDir(InstallPack(built.dir, target)) = FromPackDir(built.dir)
<1>. DEFINE built == BuildPack(spec, dir, force, inputs)
            artifact(f) == [Artifact(f, spec.id) EXCEPT !.symlink = Linked(dir, StandardPath[f])]
            write(d, f) == Wrote(d, StandardPath[f], artifact(f))
            ngrams == write(dir, "ngrams")
            half == write(ngrams, "dict")
            dict == write(half, "dict_prefix")
            m == ManifestFor(spec)
            new == [dict EXCEPT !.manifest = m]
            usable == ValidSpec(spec) /\ CanPrepare(dir, force)
            good == /\ ValidSpec(spec) /\ CanPrepare(dir, force)
                    /\ inputs = "good" /\ ArtifactsAreFiles(dir)
<1>a. \A d, b : [dir |-> d, ok |-> b].dir = d /\ [dir |-> d, ok |-> b].ok = b
  OBVIOUS
<1>1. built = CASE ~(usable /\ inputs # "no corpus") -> [dir |-> dir, ok |-> FALSE]
                [] usable /\ inputs = "no words" -> [dir |-> ngrams, ok |-> FALSE]
                [] OTHER -> IF ValidManifest(new.manifest)
                            THEN [dir |-> new, ok |-> FromPackDir(new) # Missing]
                            ELSE [dir |-> dict, ok |-> FALSE]
  BY Zenon DEF BuildPack, Wrote
<1>. HIDE DEF built
<1>2. CASE ~(usable /\ inputs # "no corpus")
  <2>1. built = [dir |-> dir, ok |-> FALSE]
    <3>. HIDE DEF ngrams, dict, new, usable
    <3>. QED  BY <1>1, <1>2
  <2>2. built.ok = FALSE
    BY <1>a, <2>1, Zenon
  <2>3. good = FALSE
    BY <1>2
  <2>. HIDE DEF good
  <2>4. built.ok = good /\ ~built.ok
    BY <2>2, <2>3
  <2>. QED  BY <2>4, Zenon DEF good, built
<1>3. CASE usable /\ inputs = "no words"
  <2>1. built = [dir |-> ngrams, ok |-> FALSE]
    <3>. HIDE DEF ngrams, dict, new, usable
    <3>. QED  BY <1>1, <1>3
  <2>2. built.ok = FALSE
    BY <1>a, <2>1, Zenon
  <2>3. good = FALSE
    BY <1>3
  <2>. HIDE DEF good
  <2>4. built.ok = good /\ ~built.ok
    BY <2>2, <2>3
  <2>. QED  BY <2>4, Zenon DEF good, built
<1>4. CASE usable /\ inputs = "good"
  <2>. DEFINE keyboard == KeyboardOf(m.layout, m.keyboard)
              keys == PunctuationKeys(m.punctuation_letter_keys, keyboard)
  <2>1. /\ m \in Manifest /\ m.id = spec.id /\ m.paths = StandardPath /\ ValidManifest(m)
        /\ keyboard \in KeyboardRows /\ keyboard # Missing
        /\ ValidPunctuationKeys(keys) /\ keys \in Seq(Character)
    <3>1. /\ m \in Manifest /\ m.id = spec.id /\ m.paths = StandardPath /\ ValidManifest(m)
          /\ keyboard \in KeyboardRows
          /\ ValidPunctuationKeys(keys) /\ keys \in Seq(Character)
      BY <1>4, ManifestIsValid
    <3>2. keyboard = KeyboardOf(spec.layout, spec.keyboard)
      <4>1. m.layout = spec.layout /\ m.keyboard = spec.keyboard
        BY DEF ManifestFor
      <4>. QED  BY <4>1
    <3>. QED  BY <1>4, <3>1, <3>2 DEF ValidSpec
  <2>2. \A f \in ArtifactField :
           /\ StandardPath[f] \in STRING /\ artifact(f) \in File
           /\ artifact(f).symlink = Linked(dir, StandardPath[f])
           /\ artifact(f).holds = f /\ artifact(f).tag = spec.id
    <3>. SUFFICES ASSUME NEW f \in ArtifactField
                  PROVE  /\ StandardPath[f] \in STRING /\ artifact(f) \in File
                         /\ artifact(f).symlink = Linked(dir, StandardPath[f])
                         /\ artifact(f).holds = f /\ artifact(f).tag = spec.id
      OBVIOUS
    <3>1. Linked(dir, StandardPath[f]) \in BOOLEAN
      BY DEF Linked
    <3>2. StandardPath[f] \in STRING
      BY StandardPathsTyped
    <3>3. /\ artifact(f) \in File /\ artifact(f).symlink = Linked(dir, StandardPath[f])
          /\ artifact(f).holds = f /\ artifact(f).tag = spec.id
      BY <3>1, <3>2, WrittenArtifact, Zenon
    <3>. QED  BY <3>2, <3>3, Zenon
  <2>3. ArtifactField = {"ngrams", "dict", "dict_prefix"}
    BY DEF ArtifactField
  <2>. HIDE DEF m, artifact
  <2>4. /\ ngrams \in Directory /\ ngrams.symlink = dir.symlink
        /\ At(ngrams, StandardPath["ngrams"]) = artifact("ngrams")
    <3>1. ngrams = Wrote(dir, StandardPath["ngrams"], artifact("ngrams"))
      OBVIOUS
    <3>. HIDE DEF ngrams
    <3>2. StandardPath["ngrams"] \in STRING /\ artifact("ngrams") \in File
      BY <2>2, <2>3
    <3>3. dir \in Directory
      BY <2>2, <2>3
    <3>. QED  BY <3>1, <3>2, <3>3, WrittenTyped
  <2>. HIDE DEF ngrams
  <2>5. /\ half \in Directory /\ half.symlink = dir.symlink
        /\ At(half, StandardPath["dict"]) = artifact("dict")
        /\ \A p \in STRING \ {StandardPath["dict"]} : At(half, p) = At(ngrams, p)
    <3>1. half = Wrote(ngrams, StandardPath["dict"], artifact("dict"))
      OBVIOUS
    <3>. HIDE DEF half
    <3>2. StandardPath["dict"] \in STRING /\ artifact("dict") \in File
      BY <2>2, <2>3
    <3>3. ngrams \in Directory /\ ngrams.symlink = dir.symlink
      BY <2>4
    <3>. QED  BY <3>1, <3>2, <3>3, WrittenTyped
  <2>. HIDE DEF half
  <2>6. /\ dict \in Directory /\ dict.symlink = dir.symlink
        /\ At(dict, StandardPath["dict_prefix"]) = artifact("dict_prefix")
        /\ \A p \in STRING \ {StandardPath["dict_prefix"]} : At(dict, p) = At(half, p)
    <3>1. dict = Wrote(half, StandardPath["dict_prefix"], artifact("dict_prefix"))
      OBVIOUS
    <3>. HIDE DEF dict
    <3>2. StandardPath["dict_prefix"] \in STRING /\ artifact("dict_prefix") \in File
      BY <2>2, <2>3
    <3>3. half \in Directory /\ half.symlink = dir.symlink
      BY <2>5
    <3>. QED  BY <3>1, <3>2, <3>3, WrittenTyped
  <2>. HIDE DEF dict
  <2>7. \A f \in ArtifactField : At(dict, StandardPath[f]) = artifact(f)
    <3>1. /\ StandardPath["ngrams"] # StandardPath["dict"]
          /\ StandardPath["ngrams"] # StandardPath["dict_prefix"]
          /\ StandardPath["dict"] # StandardPath["dict_prefix"]
      BY DEF StandardPath
    <3>. QED  BY <2>2, <2>3, <2>4, <2>5, <2>6, <3>1
  <2>8. /\ new \in Directory /\ new.symlink = dir.symlink /\ new.manifest = m
        /\ new.files = dict.files
    BY <2>1, <2>6 DEF Directory
  <2>. HIDE DEF new
  <2>9. \A f \in ArtifactField : At(new, m.paths[f]) = artifact(f)
    BY <2>1, <2>7, <2>8 DEF At
  <2>10. built = [dir |-> new, ok |-> FromPackDir(new) # Missing]
    <3>1. built = IF ValidManifest(new.manifest)
                  THEN [dir |-> new, ok |-> FromPackDir(new) # Missing]
                  ELSE [dir |-> dict, ok |-> FALSE]
      <4>. HIDE DEF usable
      <4>. QED  BY <1>1, <1>4
    <3>. QED  BY <2>1, <2>8, <3>1
  <2>11. FromPackDir(new) = IF CanLoad(new, m, keyboard, keys)
                           THEN PackOf(new, m, keyboard, keys) ELSE Missing
    BY <2>8, LoadingAPack
  <2>12. CASE ~ArtifactsAreFiles(dir)
    <3>1. PICK f \in ArtifactField : Linked(dir, StandardPath[f])
      BY <2>12 DEF ArtifactsAreFiles
    <3>2. ~Readable(new, m.paths[f], f)
      BY <2>2, <2>9, <3>1 DEF Readable
    <3>3. FromPackDir(new) = Missing
      <4>. HIDE DEF keyboard, keys
      <4>. QED  BY <2>11, <3>2 DEF CanLoad
    <3>4. (FromPackDir(new) # Missing) = FALSE
      BY <3>3
    <3>5. built.ok = FALSE
      BY <1>a, <2>10, <3>4, Zenon
    <3>6. good = FALSE
      BY <2>12
    <3>. HIDE DEF good
    <3>7. built.ok = good /\ ~built.ok
      BY <3>5, <3>6
    <3>. QED  BY <3>7, Zenon DEF good, built
  <2>13. CASE ArtifactsAreFiles(dir)
    <3>1. CanLoad(new, m, keyboard, keys)
      <4>. HIDE DEF keyboard, keys
      <4>1. ~new.symlink
        BY <1>4, <2>8 DEF CanPrepare
      <4>2. \A f \in ArtifactField : Readable(new, m.paths[f], f)
        BY <2>2, <2>9, <2>13, PackAssumption DEF Readable, ArtifactsAreFiles
      <4>3. At(new, m.paths["ngrams"]).tag = m.id
        BY <2>1, <2>2, <2>3, <2>9
      <4>. QED  BY <2>1, <4>1, <4>2, <4>3, PackAssumption DEF CanLoad
    <3>. HIDE DEF keyboard, keys
    <3>2. FromPackDir(new) = PackOf(new, m, keyboard, keys)
      BY <2>11, <3>1
    <3>3. PackOf(new, m, keyboard, keys) \in Pack
      BY <2>1, <2>2, <2>8, <2>9, LoadedIsAPack
    <3>4. FromPackDir(new) # Missing
      BY <3>2, <3>3, PackAssumption
    <3>5. FromPackDir(new).id = spec.id
      <4>1. PackOf(new, m, keyboard, keys).id = m.id
        BY DEF PackOf
      <4>. QED  BY <2>1, <3>2, <4>1
    <3>6. built.dir = new /\ built.ok = TRUE
      <4>1. (FromPackDir(new) # Missing) = TRUE
        BY <3>4
      <4>. QED  BY <1>a, <2>10, <4>1, Zenon
    <3>7. ASSUME NEW target \in Directory, ~target.symlink
          PROVE  FromPackDir(InstallPack(new, target)) = FromPackDir(new)
      BY <2>8, <3>4, <3>7, InstalledPacksStayTheSame
    <3>8. good = TRUE
      BY <1>4, <2>13
    <3>. HIDE DEF good
    <3>9. built.ok = good
      BY <3>6, <3>8
    <3>. QED  BY <3>5, <3>6, <3>7, <3>9, Zenon DEF good, built
  <2>. QED  BY <2>12, <2>13
<1>. QED  BY <1>2, <1>3, <1>4 DEF built

LEMMA SamplePackStrings ==
    /\ {"fr", "uk", Blank, "with/slash", "French", "us", "jcuken", "unknown", "abc",
        "corpus", "words.fst", "../parent", "de", "a", "b", "colon", "semicolon", "latin",
        "cyrillic", "combining", "none"} \subseteq STRING
  BY PackAssumption, SampleStrings, SampleSigns

LEMMA SampleRowsTyped ==
    /\ Mark("colon") \in Character /\ Letter("a", "latin", FALSE) \in Character
    /\ MCOwnRows \in KeyboardRows /\ MCBadRows \in KeyboardRows
<1>1. /\ Mark("colon") \in Character /\ Mark("semicolon") \in Character
      /\ Letter("a", "latin", FALSE) \in Character
      /\ \A upper \in BOOLEAN : Letter("b", "cyrillic", upper) \in Character
      /\ Letter("b", "combining", FALSE) \in Character
  BY SamplePackStrings DEF Mark, Letter, Character
<1>2. \A c, d \in Character : <<c>> \in Seq(Character) /\ <<c, d>> \in Seq(Character)
  OBVIOUS
<1>3. <<>> \in Seq(Character)
  OBVIOUS
<1>. QED  BY <1>1, <1>2, <1>3, Zenon DEF MCOwnRows, MCBadRows, KeyboardRows

LEMMA SampleSpecsTyped == MCSpecs \subseteq PackBuildSpec
<1>1. {Missing, <<>>, <<Mark("colon")>>, <<Mark("colon"), Mark("colon")>>,
       <<Letter("a", "latin", FALSE)>>} \subseteq Seq(Character) \cup {Missing}
  <2>1. \A c, d \in Character : <<c>> \in Seq(Character) /\ <<c, d>> \in Seq(Character)
    OBVIOUS
  <2>2. <<>> \in Seq(Character)
    OBVIOUS
  <2>. QED  BY <2>1, <2>2, SampleRowsTyped, Zenon
<1>2. {Missing, MCOwnRows, MCBadRows} \subseteq KeyboardRows \cup {Missing}
  BY SampleRowsTyped, Zenon
<1>. DEFINE Keys == {Missing, <<>>, <<Mark("colon")>>, <<Mark("colon"), Mark("colon")>>,
                     <<Letter("a", "latin", FALSE)>>}
            Boards == {Missing, MCOwnRows, MCBadRows}
<1>. HIDE DEF Keys, Boards
<1>3. Keys \subseteq Seq(Character) \cup {Missing} /\ Boards \subseteq KeyboardRows \cup {Missing}
  BY <1>1, <1>2 DEF Keys, Boards
<1>4. MCSpecs = [id : {"fr", "uk", Blank, "with/slash"}, display_name : {"French", Blank},
                 layout : {"us", "jcuken", "unknown", Blank}, alphabet : {"abc", Blank},
                 top_k : {0, 10}, keys : Keys, keyboard : Boards,
                 source : {"corpus"}, build_id : {Missing}]
  BY Zenon DEF MCSpecs, Keys, Boards
<1>. QED  BY <1>3, <1>4, SamplePackStrings DEF PackBuildSpec

LEMMA SampleTargetsTyped ==
    ASSUME NEW dir \in {MCEmptyDir, MCOldDir, MCLinkedDir, [MCEmptyDir EXCEPT !.symlink = TRUE]}
    PROVE  dir \in Directory /\ (dir \in {MCEmptyDir, MCOldDir, MCLinkedDir} => ~dir.symlink)
<1>. DEFINE Contents == UNION {[names -> File] : names \in SUBSET STRING}
<1>1. [p \in {} |-> Missing] \in Contents
  <2>1. [p \in {} |-> Missing] \in [{} -> File]
    OBVIOUS
  <2>. QED  BY <2>1
<1>2. ASSUME NEW file \in File
      PROVE  [p \in {"dict.fst"} |-> file] \in Contents
  <2>1. {"dict.fst"} \in SUBSET STRING
    BY PackAssumption
  <2>2. [p \in {"dict.fst"} |-> file] \in [{"dict.fst"} -> File]
    BY <1>2
  <2>. QED  BY <2>1, <2>2
<1>3. /\ Artifact("dict", "de") \in File
      /\ [Artifact("dict", "fr") EXCEPT !.symlink = TRUE] \in File
  <2>1. Artifact("dict", "de") \in File /\ Artifact("dict", "fr") \in File
    BY PackAssumption, SamplePackStrings DEF Artifact, File
  <2>2. \A file \in File : [file EXCEPT !.symlink = TRUE] \in File
    BY DEF File
  <2>. QED  BY <2>1, <2>2
<1>. DEFINE old == [p \in {"dict.fst"} |-> Artifact("dict", "de")]
            linked == [p \in {"dict.fst"} |-> [Artifact("dict", "fr") EXCEPT !.symlink = TRUE]]
            none == [p \in {} |-> Missing]
<1>4. old \in Contents /\ linked \in Contents /\ none \in Contents
  <2>. HIDE DEF Contents
  <2>. QED  BY <1>1, <1>2, <1>3
<1>. HIDE DEF Contents, old, linked, none
<1>5. Directory = [symlink : BOOLEAN, manifest : Manifest \cup {Missing}, files : Contents]
  BY Zenon DEF Directory, Contents
<1>6. MCEmptyDir = [symlink |-> FALSE, manifest |-> Missing, files |-> none]
  BY Zenon DEF MCEmptyDir, none
<1>7. MCEmptyDir \in Directory /\ ~MCEmptyDir.symlink /\ [MCEmptyDir EXCEPT !.symlink = TRUE] \in Directory
  BY <1>4, <1>5, <1>6
<1>8. /\ MCOldDir = [MCEmptyDir EXCEPT !.files = old]
      /\ MCLinkedDir = [MCEmptyDir EXCEPT !.files = linked]
  BY Zenon DEF MCOldDir, MCLinkedDir, old, linked
<1>9. MCOldDir \in Directory /\ ~MCOldDir.symlink /\ MCLinkedDir \in Directory /\ ~MCLinkedDir.symlink
  BY <1>4, <1>5, <1>7, <1>8
<1>. QED  BY <1>7, <1>9

LEMMA SampleSourcesTyped == InstallDirs \subseteq Directory
<1>. SUFFICES ASSUME NEW dir \in InstallDirs
              PROVE  dir \in Directory
  OBVIOUS
<1>. DEFINE Source(link, format, rows, keys, paths, tag) ==
                [symlink |-> link,
                 manifest |-> [current_format |-> format, id |-> "fr", display_name |-> "French",
                               layout |-> "jcuken", keyboard |-> rows,
                               punctuation_letter_keys |-> keys, paths |-> paths,
                               source |-> Missing, build_id |-> Missing],
                 files |-> [p \in {paths[f] : f \in ArtifactField} |->
                               Artifact(CHOOSE f \in ArtifactField : paths[f] = p, tag)]]
<1>0. PICK link \in BOOLEAN, format \in BOOLEAN, rows \in {Missing, MCOwnRows},
           keys \in {<<>>, <<Mark("colon")>>}, paths \in MCForeignPaths \cup {StandardPath},
           tag \in {"fr", "de"} :
         dir = Source(link, format, rows, keys, paths, tag)
  <2>1. InstallDirs = {Source(link, format, rows, keys, paths, tag) :
           link, format \in BOOLEAN, rows \in {Missing, MCOwnRows},
           keys \in {<<>>, <<Mark("colon")>>}, paths \in MCForeignPaths \cup {StandardPath},
           tag \in {"fr", "de"}}
    BY SMTT(30) DEF InstallDirs
  <2>. HIDE DEF Source
  <2>. QED  BY <2>1
<1>. DEFINE names == {paths[f] : f \in ArtifactField}
            file(p) == Artifact(CHOOSE f \in ArtifactField : paths[f] = p, tag)
            files == [p \in names |-> file(p)]
            m == [current_format |-> format, id |-> "fr",
                  display_name |-> "French", layout |-> "jcuken",
                  keyboard |-> rows, punctuation_letter_keys |-> keys,
                  paths |-> paths, source |-> Missing, build_id |-> Missing]
<1>1. paths \in [ArtifactField -> STRING]
  <2>1. MCForeignPaths \subseteq [ArtifactField -> STRING]
    BY SamplePackStrings, StandardPathsTyped DEF MCForeignPaths
  <2>. QED  BY <2>1, StandardPathsTyped
<1>2. keys \in Seq(Character) /\ rows \in KeyboardRows \cup {Missing}
  <2>1. \A c \in Character : <<c>> \in Seq(Character)
    OBVIOUS
  <2>2. <<>> \in Seq(Character)
    OBVIOUS
  <2>. QED  BY <2>1, <2>2, SampleRowsTyped, Zenon
<1>3. m \in Manifest
  BY <1>1, <1>2, SamplePackStrings DEF Manifest
<1>4. files \in [names -> File]
  <2>1. ASSUME NEW p \in names
        PROVE  file(p) \in File
    <3>1. (CHOOSE f \in ArtifactField : paths[f] = p) \in ArtifactField
      OBVIOUS
    <3>2. ArtifactField \subseteq STRING /\ tag \in STRING
      BY PackAssumption, SamplePackStrings DEF ArtifactField
    <3>. QED  BY <3>1, <3>2 DEF Artifact, File
  <2>. HIDE DEF file, names
  <2>. QED  BY <2>1
<1>5. names \in SUBSET STRING
  BY <1>1
<1>6. files \in UNION {[n -> File] : n \in SUBSET STRING}
  <2>. HIDE DEF files, names
  <2>. QED  BY <1>4, <1>5
<1>. HIDE DEF files, m
<1>7. [symlink |-> link, manifest |-> m, files |-> files] \in Directory
  BY <1>3, <1>6, Zenon DEF Directory
<1>. QED  BY <1>0, <1>7, Zenon DEF files, m, names, file

LEMMA BuildSampleSurvives == BuildSample => PacksSurviveBuildAndInstall
<1>. SUFFICES ASSUME BuildSample
              PROVE  PacksSurviveBuildAndInstall
  OBVIOUS
<1>1. PICK spec \in MCSpecs,
           dir \in {MCEmptyDir, MCOldDir, MCLinkedDir, [MCEmptyDir EXCEPT !.symlink = TRUE]},
           force \in BOOLEAN, inputs \in {"good", "no corpus", "no words"} :
          sample = [topic |-> "build", spec |-> spec, dir |-> dir, force |-> force,
                    inputs |-> inputs]
  BY Zenon DEF BuildSample
<1>2. /\ sample.topic = "build" /\ sample.spec = spec /\ sample.dir = dir
      /\ sample.force = force /\ sample.inputs = inputs
  BY <1>1
<1>3. spec \in PackBuildSpec /\ dir \in Directory
  BY SampleSpecsTyped, SampleTargetsTyped
<1>4. MCEmptyDir \in Directory /\ ~MCEmptyDir.symlink
  BY SampleTargetsTyped
<1>. DEFINE built == BuildPack(spec, dir, force, inputs)
            usable == /\ ValidSpec(spec) /\ inputs = "good"
                      /\ CanPrepare(dir, force)
                      /\ \A f \in ArtifactField : ~Linked(dir, StandardPath[f])
            good == /\ ValidSpec(spec) /\ CanPrepare(dir, force)
                    /\ inputs = "good" /\ ArtifactsAreFiles(dir)
<1>5. /\ built.ok = good
      /\ built.ok =>
            /\ FromPackDir(built.dir).id = spec.id
            /\ FromPackDir(InstallPack(built.dir, MCEmptyDir)) = FromPackDir(built.dir)
  <2>1. /\ spec \in PackBuildSpec /\ dir \in Directory /\ force \in BOOLEAN
        /\ inputs \in {"good", "no corpus", "no words"}
    BY <1>3
  <2>2. /\ built.ok = good
        /\ built.ok =>
              /\ FromPackDir(built.dir).id = spec.id
              /\ \A target \in Directory : ~target.symlink =>
                    FromPackDir(InstallPack(built.dir, target)) = FromPackDir(built.dir)
    BY <2>1, BuiltPacksLoad, Zenon
  <2>. HIDE DEF built, good
  <2>. QED  BY <1>4, <2>2
<1>6. built.ok = usable
  <2>1. good = usable
    BY Zenon DEF ArtifactsAreFiles
  <2>. QED  BY <1>5, <2>1, Zenon
<1>. HIDE DEF built, usable, good
<1>. QED  BY <1>2, <1>5, <1>6, Zenon DEF PacksSurviveBuildAndInstall, built, usable

LEMMA InstallSampleSurvives == InstallSample => PacksSurviveBuildAndInstall
<1>. SUFFICES ASSUME InstallSample
              PROVE  PacksSurviveBuildAndInstall
  OBVIOUS
<1>1. PICK source \in InstallDirs, target \in {MCEmptyDir, MCOldDir, MCLinkedDir} :
          sample = [topic |-> "install", source |-> source, target |-> target]
  BY Zenon DEF InstallSample
<1>2. sample.topic = "install" /\ sample.source = source /\ sample.target = target
  BY <1>1
<1>3. source \in Directory /\ target \in Directory /\ ~target.symlink
  BY SampleSourcesTyped, SampleTargetsTyped
<1>4. FromPackDir(source) # Missing =>
         FromPackDir(InstallPack(source, target)) = FromPackDir(source)
  BY <1>3, InstalledPacksStayTheSame
<1>. QED  BY <1>2, <1>4 DEF PacksSurviveBuildAndInstall

\* Hence for every specification, directory and pack of the run.
THEOREM PacksAlwaysSurvive == Spec => []PacksSurviveBuildAndInstall
<1>1. Init => KeepsTopic /\ PacksSurviveBuildAndInstall
  BY SampleStarts, BuildSampleSurvives, InstallSampleSurvives DEF PacksSurviveBuildAndInstall
<1>2. KeepsTopic /\ PacksSurviveBuildAndInstall /\ [Next]_sample =>
          (KeepsTopic /\ PacksSurviveBuildAndInstall)'
  <2>1. PacksSurviveBuildAndInstall /\ sample' = sample => PacksSurviveBuildAndInstall'
    BY DEF PacksSurviveBuildAndInstall
  <2>2. sample'.topic = "rolling" => PacksSurviveBuildAndInstall'
    BY DEF PacksSurviveBuildAndInstall
  <2>. QED  BY <2>1, <2>2, SampleStays
<1>. QED  BY <1>1, <1>2, PTL DEF Spec

-----------------------------------------------------------------------------
(* Artifacts                                                                *)

Value == Unit \cup Seq(Unit)

Readers == [bytes : Seq(Unit), position : Nat, value : Value, ok : BOOLEAN]

\* A cursor over o that has read what was written up to p, or failed because o
\* ends before.
Reads(r, o, p) ==
    /\ r \in Readers /\ r.bytes = o
    /\ r.ok <=> p <= Len(o)
    /\ r.ok => r.position = p

\* As far as o goes, the units that were written after p are there.
Holds(o, p, units) == \A i \in 1..Len(units) : p + i <= Len(o) => o[p + i] = units[i]

LEMMA BothUnits ==
    ASSUME NEW u \in Seq(Unit), NEW w \in Seq(Unit)
    PROVE  u \o w \in Seq(Unit) /\ Len(u \o w) = Len(u) + Len(w) /\ Len(u) \in Nat /\ Len(w) \in Nat
OBVIOUS

LEMMA OneUnit ==
    ASSUME NEW unit \in Unit
    PROVE  <<unit>> \in Seq(Unit) /\ Len(<<unit>>) = 1 /\ <<unit>>[1] = unit
OBVIOUS

\* Fields are found one after the other.
LEMMA HoldsBoth ==
    ASSUME NEW o \in Seq(Unit), NEW p \in Nat,
           NEW u \in Seq(Unit), NEW w \in Seq(Unit), Holds(o, p, u \o w)
    PROVE  Holds(o, p, u) /\ Holds(o, p + Len(u), w)
<1>. DEFINE both == u \o w
<1>1. both \in Seq(Unit) /\ Len(both) = Len(u) + Len(w)
  OBVIOUS
<1>2. \A i \in 1..Len(u) : both[i] = u[i]
  OBVIOUS
<1>3. \A i \in 1..Len(w) : both[Len(u) + i] = w[i]
  OBVIOUS
<1>. HIDE DEF both
<1>4. \A i \in 1..Len(both) : p + i <= Len(o) => o[p + i] = both[i]
  BY <1>1 DEF Holds, both
<1>5. \A i \in 1..Len(u) : p + i <= Len(o) => o[p + i] = u[i]
  BY <1>1, <1>2, <1>4
<1>6. ASSUME NEW i \in 1..Len(w), p + Len(u) + i <= Len(o)
      PROVE  o[p + Len(u) + i] = w[i]
  <2>1. Len(u) + i \in 1..Len(both)
    BY <1>1
  <2>2. p + (Len(u) + i) = p + Len(u) + i
    OBVIOUS
  <2>. QED  BY <1>3, <1>4, <1>6, <2>1, <2>2
<1>. QED  BY <1>5, <1>6 DEF Holds

LEMMA RefusedTyped ==
    ASSUME NEW r \in Readers
    PROVE  Refused(r) \in Readers /\ ~Refused(r).ok /\ Refused(r).bytes = r.bytes
BY DEF Refused, Readers

LEMMA PartTyped ==
    ASSUME NEW b \in Seq(Unit), NEW p \in Nat, NEW n \in Nat, p + n <= Len(b)
    PROVE  /\ SubSeq(b, p + 1, p + n) \in Seq(Unit)
           /\ Len(SubSeq(b, p + 1, p + n)) = n
           /\ \A i \in 1..n : SubSeq(b, p + 1, p + n)[i] = b[p + i]
<1>1. SubSeq(b, p + 1, p + n) = [i \in 1..n |-> b[p + i]]
  OBVIOUS
<1>2. \A i \in 1..n : b[p + i] \in Unit
  OBVIOUS
<1>3. [i \in 1..n |-> b[p + i]] \in Seq(Unit)
  BY <1>2
<1>4. Len([i \in 1..n |-> b[p + i]]) = n
  OBVIOUS
<1>. QED  BY <1>1, <1>3, <1>4

LEMMA ExactTyped ==
    ASSUME NEW r \in Readers, NEW n \in Nat
    PROVE  /\ ReadExact(r, n) \in Readers /\ ReadExact(r, n).bytes = r.bytes
           /\ ReadExact(r, n).ok <=> r.ok /\ n <= Len(r.bytes) - r.position
           /\ ReadExact(r, n).ok =>
                 /\ ReadExact(r, n).position = r.position + n
                 /\ ReadExact(r, n).value =
                       SubSeq(r.bytes, r.position + 1, r.position + n)
                 /\ ReadExact(r, n).value \in Seq(Unit)
                 /\ Len(ReadExact(r, n).value) = n
                 /\ \A i \in 1..n : ReadExact(r, n).value[i] = r.bytes[r.position + i]
<1>. DEFINE part == SubSeq(r.bytes, r.position + 1, r.position + n)
            s == [r EXCEPT !.position = @ + n, !.value = part]
<1>1. r.bytes \in Seq(Unit) /\ r.position \in Nat /\ r.ok \in BOOLEAN
  BY DEF Readers
<1>2. CASE ~(r.ok /\ n <= Len(r.bytes) - r.position)
  <2>1. ReadExact(r, n) = Refused(r)
    BY <1>1, <1>2 DEF ReadExact
  <2>. QED  BY <1>2, <2>1, RefusedTyped
<1>3. CASE r.ok /\ n <= Len(r.bytes) - r.position
  <2>1. ReadExact(r, n) = s
    BY <1>1, <1>3 DEF ReadExact
  <2>2. /\ part \in Seq(Unit) /\ Len(part) = n
        /\ \A i \in 1..n : part[i] = r.bytes[r.position + i]
    <3>1. r.position + n <= Len(r.bytes)
      BY <1>1, <1>3
    <3>. QED  BY <1>1, <3>1, PartTyped
  <2>. HIDE DEF part
  <2>3. /\ s \in Readers /\ s.bytes = r.bytes /\ s.ok
        /\ s.position = r.position + n /\ s.value = part
    <3>1. part \in Value /\ r.position + n \in Nat
      BY <1>1, <2>2 DEF Value
    <3>. QED  BY <1>3, <3>1 DEF Readers
  <2>. QED  BY <1>3, <2>1, <2>2, <2>3 DEF part
<1>. QED  BY <1>2, <1>3

LEMMA UnitTyped ==
    ASSUME NEW r \in Readers
    PROVE  /\ ReadUnit(r) \in Readers /\ ReadUnit(r).bytes = r.bytes
           /\ ReadUnit(r).ok <=> r.ok /\ r.position < Len(r.bytes)
           /\ ReadUnit(r).ok =>
                 /\ ReadUnit(r).position = r.position + 1
                 /\ ReadUnit(r).value = r.bytes[r.position + 1]
                 /\ ReadUnit(r).value \in Unit
<1>. DEFINE e == ReadExact(r, 1)
<1>1. r.bytes \in Seq(Unit) /\ r.position \in Nat /\ r.ok \in BOOLEAN
  BY DEF Readers
<1>2. /\ e \in Readers /\ e.bytes = r.bytes
      /\ e.ok <=> r.ok /\ 1 <= Len(r.bytes) - r.position
      /\ e.ok => /\ e.position = r.position + 1
                 /\ e.value \in Seq(Unit) /\ Len(e.value) = 1
                 /\ \A i \in 1..1 : e.value[i] = r.bytes[r.position + i]
  BY ExactTyped
<1>3. ReadUnit(r) = IF e.ok THEN [e EXCEPT !.value = e.value[1]] ELSE e
  BY DEF ReadUnit
<1>. HIDE DEF e
<1>4. CASE ~e.ok
  BY <1>1, <1>2, <1>3, <1>4
<1>5. CASE e.ok
  <2>. DEFINE u == e.value[1]
  <2>1. u = r.bytes[r.position + 1] /\ u \in Unit
    BY <1>2, <1>5
  <2>. HIDE DEF u
  <2>2. ReadUnit(r) = [e EXCEPT !.value = u]
    BY <1>3, <1>5 DEF u
  <2>3. /\ ReadUnit(r) \in Readers /\ ReadUnit(r).bytes = e.bytes /\ ReadUnit(r).ok
        /\ ReadUnit(r).position = e.position /\ ReadUnit(r).value = u
    BY <1>2, <1>5, <2>1, <2>2 DEF Readers, Value
  <2>. QED  BY <1>1, <1>2, <1>5, <2>1, <2>3
<1>. QED  BY <1>4, <1>5

LEMMA CountedTyped ==
    ASSUME NEW r \in Readers, NEW max \in Nat
    PROVE  /\ ReadCounted(r, max) \in Readers /\ ReadCounted(r, max).bytes = r.bytes
           /\ ReadCounted(r, max).ok =>
                 /\ r.ok /\ ReadUnit(r).ok /\ ReadUnit(r).value <= max
                 /\ ReadCounted(r, max) = ReadExact(ReadUnit(r), ReadUnit(r).value)
           /\ ReadUnit(r).ok /\ ReadUnit(r).value <= max =>
                 ReadCounted(r, max) = ReadExact(ReadUnit(r), ReadUnit(r).value)
<1>. DEFINE len == ReadUnit(r)
<1>1. /\ len \in Readers /\ len.bytes = r.bytes /\ (len.ok => r.ok /\ len.value \in Nat)
  BY UnitTyped DEF Unit
<1>2. ReadCounted(r, max) = IF ~len.ok \/ len.value > max THEN Refused(len)
                            ELSE ReadExact(len, len.value)
  BY DEF ReadCounted
<1>. HIDE DEF len
<1>3. CASE len.ok /\ len.value <= max
  <2>1. ~(len.value > max)
    BY <1>1, <1>3
  <2>2. ReadCounted(r, max) = ReadExact(len, len.value)
    BY <1>2, <1>3, <2>1
  <2>3. ReadExact(len, len.value) \in Readers /\ ReadExact(len, len.value).bytes = len.bytes
    BY <1>1, <1>3, ExactTyped
  <2>. QED  BY <1>1, <1>3, <2>2, <2>3 DEF len
<1>4. CASE ~(len.ok /\ len.value <= max)
  <2>1. ~len.ok \/ len.value > max
    BY <1>1, <1>4
  <2>. QED  BY <1>1, <1>2, <1>4, <2>1, RefusedTyped DEF len
<1>. QED  BY <1>3, <1>4

\* What was written is what is read.
LEMMA UnitRead ==
    ASSUME NEW o \in Seq(Unit), NEW p \in Nat, NEW r, Reads(r, o, p),
           NEW w \in Unit, Holds(o, p, <<w>>)
    PROVE  /\ Reads(ReadUnit(r), o, p + 1)
           /\ ReadUnit(r).ok => ReadUnit(r).value = w
<1>1. /\ r \in Readers /\ r.bytes = o /\ (r.ok <=> p <= Len(o)) /\ (r.ok => r.position = p)
  BY DEF Reads
<1>2. p + 1 <= Len(o) => o[p + 1] = w
  BY DEF Holds
<1>3. /\ ReadUnit(r) \in Readers /\ ReadUnit(r).bytes = o
      /\ ReadUnit(r).ok <=> r.ok /\ r.position < Len(o)
      /\ ReadUnit(r).ok => /\ ReadUnit(r).position = r.position + 1
                           /\ ReadUnit(r).value = o[r.position + 1]
  BY <1>1, UnitTyped
<1>4. ReadUnit(r).ok <=> p + 1 <= Len(o)
  BY <1>1, <1>3
<1>. QED  BY <1>1, <1>2, <1>3, <1>4 DEF Reads

LEMMA CountedUnits ==
    ASSUME NEW units \in Seq(Unit)
    PROVE  /\ Counted(units) \in Seq(Unit) /\ Len(Counted(units)) = Len(units) + 1
           /\ Counted(units)[1] = Len(units)
           /\ \A i \in 1..Len(units) : Counted(units)[i + 1] = units[i]
BY DEF Counted, Unit

LEMMA CountedRead ==
    ASSUME NEW o \in Seq(Unit), NEW p \in Nat, NEW r, Reads(r, o, p),
           NEW units \in Seq(Unit), Holds(o, p, Counted(units)), NEW max \in Nat
    PROVE  /\ ReadCounted(r, max) \in Readers /\ ReadCounted(r, max).bytes = o
           /\ Len(units) <= max =>
                 /\ Reads(ReadCounted(r, max), o, p + Len(Counted(units)))
                 /\ ReadCounted(r, max).ok => ReadCounted(r, max).value = units
           /\ Len(units) > max => ~ReadCounted(r, max).ok
<1>. DEFINE len == ReadUnit(r)
            s == ReadCounted(r, max)
            n == Len(units)
            c == Counted(units)
<1>0. n \in Nat /\ Len(o) \in Nat
  OBVIOUS
<1>10. /\ c \in Seq(Unit) /\ Len(c) = n + 1 /\ c[1] = n
       /\ \A i \in 1..n : c[i + 1] = units[i]
  BY CountedUnits
<1>1. r \in Readers /\ r.bytes = o
  BY DEF Reads
<1>2. \A i \in 1..(n + 1) : p + i <= Len(o) => o[p + i] = c[i]
  BY <1>10 DEF Holds
<1>9. Holds(o, p, <<n>>)
  <2>. HIDE DEF n, c
  <2>1. p + 1 <= Len(o) => o[p + 1] = n
    BY <1>0, <1>2, <1>10
  <2>. QED  BY <2>1 DEF Holds
<1>3. /\ Reads(len, o, p + 1) /\ (len.ok => len.value = n)
  BY <1>0, <1>9, UnitRead DEF Unit
<1>4. /\ len \in Readers /\ len.bytes = o /\ (len.ok <=> p + 1 <= Len(o))
      /\ (len.ok => len.position = p + 1)
  BY <1>3 DEF Reads
<1>5. /\ s \in Readers /\ s.bytes = o
      /\ s.ok => len.ok /\ len.value <= max
      /\ len.ok /\ len.value <= max => s = ReadExact(len, len.value)
  BY <1>1, CountedTyped
<1>. SUFFICES /\ s \in Readers /\ s.bytes = o
              /\ n <= max => Reads(s, o, p + Len(c)) /\ (s.ok => s.value = units)
              /\ n > max => ~s.ok
  OBVIOUS
<1>. HIDE DEF len, s, n, c
<1>6. CASE ~len.ok
  <2>1. ~s.ok /\ ~(p + (n + 1) <= Len(o))
    BY <1>0, <1>4, <1>5, <1>6
  <2>. QED  BY <1>5, <1>10, <2>1 DEF Reads
<1>7. CASE len.ok /\ n > max
  BY <1>0, <1>3, <1>5, <1>7
<1>8. CASE len.ok /\ n <= max
  <2>1. s = ReadExact(len, n)
    BY <1>3, <1>5, <1>8
  <2>2. /\ s.ok <=> n <= Len(o) - (p + 1)
        /\ s.ok => /\ s.position = p + 1 + n
                   /\ s.value \in Seq(Unit) /\ Len(s.value) = n
                   /\ \A i \in 1..n : s.value[i] = o[p + 1 + i]
    <3>1. /\ s.ok <=> len.ok /\ n <= Len(len.bytes) - len.position
          /\ s.ok => /\ s.position = len.position + n
                     /\ s.value \in Seq(Unit) /\ Len(s.value) = n
                     /\ \A i \in 1..n : s.value[i] = len.bytes[len.position + i]
      BY <1>0, <1>4, <2>1, ExactTyped, Zenon
    <3>2. len.position = p + 1 /\ len.bytes = o
      BY <1>4, <1>8
    <3>. QED  BY <1>8, <3>1, <3>2
  <2>3. ASSUME s.ok
        PROVE  s.value = units
    <3>1. \A i \in 1..n : s.value[i] = units[i]
      <4>1. TAKE i \in 1..n
      <4>2. p + (i + 1) <= Len(o) /\ i + 1 \in 1..(n + 1) /\ p + 1 + i = p + (i + 1)
        BY <1>0, <2>2, <2>3
      <4>3. o[p + (i + 1)] = c[i + 1]
        BY <1>2, <4>2
      <4>. QED  BY <1>10, <2>2, <2>3, <4>2, <4>3
    <3>2. s.value \in Seq(Unit) /\ Len(s.value) = n
      BY <2>2, <2>3
    <3>. QED  BY <3>1, <3>2 DEF n
  <2>4. s.ok <=> p + (n + 1) <= Len(o)
    BY <1>0, <2>2
  <2>5. p + 1 + n = p + (n + 1)
    BY <1>0
  <2>. QED  BY <1>0, <1>5, <1>8, <1>10, <2>2, <2>3, <2>4, <2>5 DEF Reads
<1>. QED  BY <1>0, <1>6, <1>7, <1>8

LEMMA MagicRead ==
    ASSUME NEW o \in Seq(Unit), NEW magic \in Unit, Holds(o, 0, <<magic>>)
    PROVE  Reads(ReadMagic(o, magic), o, 1)
<1>. DEFINE start == Reader(o)
            read == ReadUnit(start)
<1>1. Reads(start, o, 0)
  <2>1. <<>> \in Value
    BY DEF Value
  <2>. QED  BY <2>1 DEF Reads, Readers, Reader
<1>2. Reads(read, o, 0 + 1) /\ (read.ok => read.value = magic)
  BY <1>1, UnitRead
<1>3. ReadMagic(o, magic) = read
  BY <1>2 DEF ReadMagic
<1>. HIDE DEF read
<1>. QED  BY <1>2, <1>3

LEMMA FinishRead ==
    ASSUME NEW o \in Seq(Unit), NEW p \in Nat, NEW r, Reads(r, o, p)
    PROVE  Finish(r).ok <=> p = Len(o)
<1>1. /\ r \in Readers /\ r.bytes = o /\ (r.ok <=> p <= Len(o)) /\ (r.ok => r.position = p)
  BY DEF Reads
<1>2. r.position = Len(o) => Finish(r) = r
  BY <1>1 DEF Finish
<1>3. r.position # Len(o) => ~Finish(r).ok
  BY <1>1, RefusedTyped DEF Finish
<1>4. r.position \in Nat /\ r.ok \in BOOLEAN /\ Len(o) \in Nat
  BY <1>1 DEF Readers
<1>. QED  BY <1>1, <1>2, <1>3, <1>4

\* A cursor that has failed reads nothing more.
LEMMA StaysRefused ==
    ASSUME NEW r \in Readers, ~r.ok, NEW max \in Nat
    PROVE  /\ ~ReadUnit(r).ok /\ ~ReadCounted(r, max).ok /\ ~Finish(r).ok
<1>1. ~ReadUnit(r).ok
  BY UnitTyped
<1>2. ~ReadCounted(r, max).ok
  BY CountedTyped
<1>3. ~Finish(r).ok
  BY RefusedTyped DEF Finish
<1>. QED  BY <1>1, <1>2, <1>3

LEMMA FinishTyped ==
    ASSUME NEW r \in Readers
    PROVE  Finish(r).ok \in BOOLEAN
<1>1. Finish(r) \in Readers
  BY RefusedTyped DEF Finish
<1>. QED  BY <1>1 DEF Readers

LEMMA BlobRead ==
    ASSUME NEW o \in Seq(Unit), NEW p \in Nat, NEW r, Reads(r, o, p),
           NEW units \in Seq(Unit), Holds(o, p, Counted(units))
    PROVE  /\ Reads(ReadCounted(r, Len(o)), o, p + Len(Counted(units)))
           /\ ReadCounted(r, Len(o)).ok => ReadCounted(r, Len(o)).value = units
<1>. DEFINE s == ReadCounted(r, Len(o))
            c == Counted(units)
<1>1. Len(o) \in Nat /\ Len(units) \in Nat /\ Len(c) = Len(units) + 1
  BY CountedUnits
<1>2. /\ s \in Readers /\ s.bytes = o
      /\ Len(units) <= Len(o) => Reads(s, o, p + Len(c)) /\ (s.ok => s.value = units)
      /\ Len(units) > Len(o) => ~s.ok
  BY <1>1, CountedRead, Zenon
<1>. SUFFICES Reads(s, o, p + Len(c)) /\ (s.ok => s.value = units)
  OBVIOUS
<1>. HIDE DEF s, c
<1>3. CASE Len(units) > Len(o)
  <2>1. ~(p + Len(c) <= Len(o))
    BY <1>1, <1>3
  <2>. QED  BY <1>2, <1>3, <2>1 DEF Reads
<1>4. CASE Len(units) <= Len(o)
  BY <1>2, <1>4
<1>. QED  BY <1>1, <1>3, <1>4

\* A prefix index is read back when the file holds all of it and no more; a file
\* that was cut short or goes on is refused.
THEOREM WholeIndexesAreRead ==
    ASSUME NEW index \in IndexData, NEW o \in Seq(Unit), Holds(o, 0, EncodeIndex(index))
    PROVE  /\ DecodeIndex(o).ok <=> Len(o) = Len(EncodeIndex(index))
           /\ DecodeIndex(o).ok => DecodeIndex(o).value = index
<1>. DEFINE m == <<PrefixMagic>>
            c1 == Counted(index.sum)
            c2 == Counted(index.sample)
            start == ReadMagic(o, PrefixMagic)
            sum == ReadCounted(start, Len(o))
            smp == ReadCounted(sum, Len(o))
<1>1. index.sum \in Seq(Unit) /\ index.sample \in Seq(Unit)
  BY DEF IndexData
<1>2. /\ m \in Seq(Unit) /\ c1 \in Seq(Unit) /\ c2 \in Seq(Unit) /\ Len(m) = 1
      /\ Len(c1) \in Nat /\ Len(c2) \in Nat
  <2>1. c1 \in Seq(Unit) /\ c2 \in Seq(Unit)
    BY <1>1, CountedUnits, Zenon
  <2>. QED  BY <2>1, BothUnits, OneUnit, UnitAssumption, Zenon
<1>3. EncodeIndex(index) = m \o c1 \o c2
  BY DEF EncodeIndex
<1>4. DecodeIndex(o) = [ok |-> Finish(smp).ok,
                        value |-> [sum |-> sum.value, sample |-> smp.value]]
  BY DEF DecodeIndex
<1>5. Reads(start, o, 1)
  <2>1. Holds(o, 0, m)
    <3>. HIDE DEF m, c1, c2
    <3>1. m \o c1 \in Seq(Unit) /\ 0 \in Nat
      BY <1>2, BothUnits, Zenon
    <3>2. Holds(o, 0, (m \o c1) \o c2)
      BY <1>3
    <3>3. Holds(o, 0, m \o c1)
      BY <1>2, <3>1, <3>2, HoldsBoth, Zenon
    <3>. QED  BY <1>2, <3>1, <3>3, HoldsBoth, Zenon
  <2>. QED  BY <2>1, MagicRead, UnitAssumption
<1>. HIDE DEF m, start
<1>6. /\ Holds(o, 1, c1) /\ Holds(o, 1 + Len(c1), c2)
      /\ Len(m \o c1 \o c2) = 1 + Len(c1) + Len(c2)
  <2>. HIDE DEF c1, c2
  <2>1. /\ m \o c1 \in Seq(Unit) /\ Len(m \o c1) = Len(m) + Len(c1) /\ 0 \in Nat
        /\ Len((m \o c1) \o c2) = Len(m \o c1) + Len(c2)
    BY <1>2, BothUnits, Zenon
  <2>2. Holds(o, 0, (m \o c1) \o c2)
    BY <1>3
  <2>3. Holds(o, 0, m \o c1) /\ Holds(o, 0 + Len(m \o c1), c2)
    BY <1>2, <2>1, <2>2, HoldsBoth, Zenon
  <2>4. Holds(o, 0 + Len(m), c1)
    BY <1>2, <2>1, <2>3, HoldsBoth, Zenon
  <2>5. 0 + Len(m) = 1 /\ 0 + Len(m \o c1) = 1 + Len(c1)
    BY <1>2, <2>1
  <2>. QED  BY <1>2, <2>1, <2>3, <2>4, <2>5
<1>7. Reads(sum, o, 1 + Len(c1)) /\ (sum.ok => sum.value = index.sum)
  BY <1>1, <1>5, <1>6, BlobRead
<1>. HIDE DEF sum
<1>8. Reads(smp, o, 1 + Len(c1) + Len(c2)) /\ (smp.ok => smp.value = index.sample)
  <2>1. 1 + Len(c1) \in Nat
    BY <1>2
  <2>. QED  BY <1>1, <1>6, <1>7, <2>1, BlobRead
<1>. HIDE DEF smp, c1, c2
<1>9. Finish(smp).ok <=> Len(o) = 1 + Len(c1) + Len(c2)
  <2>1. 1 + Len(c1) + Len(c2) \in Nat
    BY <1>2
  <2>. QED  BY <1>8, <2>1, FinishRead
<1>10. Finish(smp).ok => sum.ok /\ smp.ok
  <2>1. Len(o) = 1 + Len(c1) + Len(c2) => 1 + Len(c1) <= Len(o) /\ 1 + Len(c1) + Len(c2) <= Len(o)
    BY <1>2
  <2>. QED  BY <1>7, <1>8, <1>9, <2>1 DEF Reads
<1>11. index = [sum |-> index.sum, sample |-> index.sample]
  BY DEF IndexData
<1>. QED  BY <1>3, <1>4, <1>6, <1>7, <1>8, <1>9, <1>10, <1>11

-----------------------------------------------------------------------------
(* The tables, entry by entry                                               *)

Steps(N, S) == [(1..N) \X S -> S]

Follows(N, base, step, f) == f[0] = base /\ \A n \in 1..N : f[n] = step[<<n, f[n - 1]>>]

\* A function that is defined from each number to the next exists.
LEMMA RecursiveFunction ==
    ASSUME NEW N \in Nat, NEW S, NEW base \in S, NEW step \in Steps(N, S)
    PROVE  \E f \in [0..N -> S] : Follows(N, base, step, f)
<1>. DEFINE After(f, n) == IF n = 0 THEN base ELSE step[<<n, f[n - 1]>>]
            Good(k) == \E f \in [0..k -> S] : \A n \in 0..k : f[n] = After(f, n)
            Bad == {k \in 0..N : ~Good(k)}
<1>1. Good(0)
  <2>1. [n \in 0..0 |-> base] \in [0..0 -> S]
    OBVIOUS
  <2>2. \A n \in 0..0 : [i \in 0..0 |-> base][n] = base /\ n = 0
    OBVIOUS
  <2>. QED  BY <2>1, <2>2
<1>2. ASSUME NEW k \in 1..N, Good(k - 1)
      PROVE  Good(k)
  <2>1. PICK f \in [0..(k - 1) -> S] : \A n \in 0..(k - 1) : f[n] = After(f, n)
    BY <1>2
  <2>. DEFINE last == step[<<k, f[k - 1]>>]
              g == [n \in 0..k |-> IF n = k THEN last ELSE f[n]]
  <2>2. last \in S
    <3>1. f[k - 1] \in S
      OBVIOUS
    <3>2. <<k, f[k - 1]>> \in (1..N) \X S
      BY <3>1, Zenon
    <3>. QED  BY <3>2, Zenon DEF Steps
  <2>. HIDE DEF last
  <2>3. g \in [0..k -> S]
    <3>1. \A n \in 0..k : n # k => n \in 0..(k - 1)
      OBVIOUS
    <3>. QED  BY <2>2, <3>1
  <2>4. ASSUME NEW n \in 0..k
        PROVE  g[n] = After(g, n)
    <3>1. CASE n = k
      <4>1. g[n] = last /\ g[n - 1] = f[k - 1] /\ n # 0
        BY <3>1
      <4>. HIDE DEF g
      <4>. QED  BY <3>1, <4>1 DEF last
    <3>2. CASE n = 0
      <4>1. g[n] = f[0] /\ 0 \in 0..(k - 1)
        BY <3>2
      <4>. HIDE DEF g
      <4>. QED  BY <2>1, <3>2, <4>1
    <3>3. CASE n # k /\ n # 0
      <4>1. g[n] = f[n] /\ g[n - 1] = f[n - 1] /\ n \in 0..(k - 1)
        BY <3>3
      <4>. HIDE DEF g
      <4>. QED  BY <2>1, <3>3, <4>1
    <3>. QED  BY <3>1, <3>2, <3>3
  <2>. HIDE DEF g, After
  <2>. QED  BY <2>3, <2>4
<1>. HIDE DEF Good
<1>3. Bad = {}
  <2>1. SUFFICES ASSUME Bad # {}
                 PROVE  FALSE
    OBVIOUS
  <2>2. PICK k \in Bad : \A j \in Bad : k <= j
    <3>1. Bad \in SUBSET Nat
      OBVIOUS
    <3>. HIDE DEF Bad
    <3>. QED  BY <2>1, <3>1, LeastNatural
  <2>3. k \in 1..N /\ ~Good(k)
    BY <1>1, <2>2
  <2>4. k - 1 \notin Bad /\ k - 1 \in 0..N
    BY <2>2, <2>3
  <2>. QED  BY <1>2, <2>3, <2>4
<1>4. PICK f \in [0..N -> S] : \A n \in 0..N : f[n] = After(f, n)
  BY <1>3 DEF Good
<1>5. Follows(N, base, step, f)
  <2>1. 0 \in 0..N /\ \A n \in 1..N : n \in 0..N /\ n # 0
    OBVIOUS
  <2>. QED  BY <1>4, <2>1, Zenon DEF Follows
<1>. QED  BY <1>5

\* What one entry of a table is written as.
EncodedEntry(entry) == Append(Counted(entry.key), entry.score)

LEMMA EntriesEncoded ==
    ASSUME NEW table \in Seq(NgramEntry)
    PROVE  /\ EncodedEntries(table) \in [0..Len(table) -> Seq(Unit)]
           /\ EncodedEntries(table)[0] = <<>>
           /\ \A n \in 1..Len(table) :
                 EncodedEntries(table)[n] =
                    EncodedEntries(table)[n - 1] \o EncodedEntry(table[n])
<1>. DEFINE N == Len(table)
            Units == Seq(Unit)
            Step == [a \in (1..N) \X Units |-> a[2] \o EncodedEntry(table[a[1]])]
            Is(f) == f = [n \in 0..N |->
                             IF n = 0 THEN <<>>
                             ELSE f[n - 1] \o Append(Counted(table[n].key), table[n].score)]
            e == EncodedEntries(table)
<1>1. N \in Nat /\ <<>> \in Units
  OBVIOUS
<1>2. \A n \in 1..N : EncodedEntry(table[n]) \in Units
  <2>1. TAKE n \in 1..N
  <2>2. table[n] \in NgramEntry
    OBVIOUS
  <2>3. table[n].key \in Seq(Unit) /\ table[n].score \in Unit
    BY <2>2 DEF NgramEntry
  <2>4. Counted(table[n].key) \in Seq(Unit)
    BY <2>3, CountedUnits, Zenon
  <2>. QED  BY <2>3, <2>4 DEF EncodedEntry
<1>3. \A u, w \in Units : u \o w \in Units
  BY BothUnits, Zenon
<1>4. e = CHOOSE f : Is(f)
  BY DEF EncodedEntries
<1>. HIDE DEF N, Units, e
<1>5. Step \in [(1..N) \X Units -> Units]
  BY <1>2, <1>3
<1>6. PICK f \in [0..N -> Units] :
            f[0] = <<>> /\ \A n \in 1..N : f[n] = Step[<<n, f[n - 1]>>]
  <2>. HIDE DEF Step
  <2>1. Step \in Steps(N, Units)
    BY <1>5 DEF Steps
  <2>2. PICK f \in [0..N -> Units] : Follows(N, <<>>, Step, f)
    BY <1>1, <2>1, RecursiveFunction, Zenon
  <2>. QED  BY <2>2 DEF Follows
<1>7. \A n \in 1..N : <<n, f[n - 1]>> \in (1..N) \X Units
  BY <1>1
<1>8. \A n \in 1..N : Step[<<n, f[n - 1]>>] = f[n - 1] \o EncodedEntry(table[n])
  BY <1>7
<1>. HIDE DEF Step
<1>9. Is(f)
  <2>1. \A n \in 0..N : n # 0 => n \in 1..N
    BY <1>1
  <2>. QED  BY <1>6, <1>8, <2>1 DEF EncodedEntry
<1>10. Is(e)
  <2>. HIDE DEF Is
  <2>. QED  BY <1>4, <1>9, Zenon
<1>11. e[0] = <<>> /\ \A n \in 1..N : e[n] = e[n - 1] \o EncodedEntry(table[n])
  BY <1>1, <1>10 DEF EncodedEntry
<1>12. \A n \in 0..N : e[n] \in Units
  <2>. DEFINE Bad == {n \in 0..N : e[n] \notin Units}
  <2>1. SUFFICES ASSUME Bad # {}
                 PROVE  FALSE
    OBVIOUS
  <2>2. PICK n \in Bad : \A m \in Bad : n <= m
    <3>1. Bad \in SUBSET Nat
      BY <1>1
    <3>. HIDE DEF Bad
    <3>. QED  BY <2>1, <3>1, LeastNatural
  <2>3. n \in 1..N /\ e[n] \notin Units
    BY <1>1, <1>11, <2>2
  <2>4. e[n - 1] \in Units
    BY <1>1, <2>2, <2>3
  <2>5. e[n - 1] \o EncodedEntry(table[n]) \in Units
    BY <1>2, <1>3, <2>3, <2>4
  <2>. QED  BY <1>11, <2>3, <2>5
<1>13. e \in [0..N -> Units]
  <2>1. e = [n \in 0..N |-> e[n]]
    BY <1>10
  <2>. QED  BY <1>12, <2>1, Zenon
<1>. QED  BY <1>11, <1>13 DEF e, N, Units

\* What has been read of a table.
Progress == [reader : Readers, table : Seq([key : Value, score : Value])]

LEMMA EntryTyped ==
    ASSUME NEW state \in Progress
    PROVE  /\ ReadEntry(state) \in Progress
           /\ ReadEntry(state).reader.bytes = state.reader.bytes
           /\ ~state.reader.ok => ~ReadEntry(state).reader.ok
<1>. DEFINE key == ReadCounted(state.reader, MaxString)
            score == ReadUnit(key)
            entry == [key |-> key.value, score |-> score.value]
<1>1. state.reader \in Readers /\ state.table \in Seq([key : Value, score : Value])
  BY DEF Progress
<1>2. /\ key \in Readers /\ key.bytes = state.reader.bytes
      /\ ~state.reader.ok => ~key.ok
  BY <1>1, CountedTyped, UnitAssumption
<1>3. /\ score \in Readers /\ score.bytes = key.bytes
      /\ ~key.ok => ~score.ok
  <2>. HIDE DEF key
  <2>. QED  BY <1>2, UnitTyped
<1>4. ReadEntry(state) = [reader |-> score, table |-> Append(state.table, entry)]
  BY DEF ReadEntry
<1>. HIDE DEF key, score
<1>5. entry \in [key : Value, score : Value]
  BY <1>2, <1>3 DEF Readers
<1>. HIDE DEF entry
<1>6. Append(state.table, entry) \in Seq([key : Value, score : Value])
  BY <1>1, <1>5
<1>. QED  BY <1>2, <1>3, <1>4, <1>6 DEF Progress

LEMMA EntriesRead ==
    ASSUME NEW r \in Readers, NEW count \in Nat
    PROVE  /\ ReadEntries(r, count) \in [0..count -> Progress]
           /\ ReadEntries(r, count)[0] = [reader |-> r, table |-> <<>>]
           /\ \A n \in 1..count :
                 ReadEntries(r, count)[n] = ReadEntry(ReadEntries(r, count)[n - 1])
<1>. DEFINE base == [reader |-> r, table |-> <<>>]
            Step == [a \in (1..count) \X Progress |-> ReadEntry(a[2])]
            Is(f) == f = [n \in 0..count |-> IF n = 0 THEN [reader |-> r, table |-> <<>>]
                                             ELSE ReadEntry(f[n - 1])]
            e == ReadEntries(r, count)
<1>1. base \in Progress
  BY DEF Progress
<1>2. \A state \in Progress : ReadEntry(state) \in Progress
  BY EntryTyped, Zenon
<1>3. Step \in [(1..count) \X Progress -> Progress]
  BY <1>2
<1>4. e = CHOOSE f : Is(f)
  BY DEF ReadEntries
<1>. HIDE DEF e
<1>5. PICK f \in [0..count -> Progress] :
            f[0] = base /\ \A n \in 1..count : f[n] = Step[<<n, f[n - 1]>>]
  <2>. HIDE DEF Step, base
  <2>1. Step \in Steps(count, Progress)
    BY <1>3 DEF Steps
  <2>2. PICK f \in [0..count -> Progress] : Follows(count, base, Step, f)
    BY <1>1, <2>1, RecursiveFunction, Zenon
  <2>. QED  BY <2>2 DEF Follows
<1>6. \A n \in 1..count : <<n, f[n - 1]>> \in (1..count) \X Progress
  OBVIOUS
<1>7. \A n \in 1..count : Step[<<n, f[n - 1]>>] = ReadEntry(f[n - 1])
  BY <1>6
<1>. HIDE DEF Step
<1>8. Is(f)
  <2>1. \A n \in 0..count : n # 0 => n \in 1..count
    OBVIOUS
  <2>. QED  BY <1>5, <1>7, <2>1
<1>9. Is(e)
  <2>. HIDE DEF Is
  <2>. QED  BY <1>4, <1>8, Zenon
<1>. HIDE DEF base
<1>10. e[0] = base /\ \A n \in 1..count : e[n] = ReadEntry(e[n - 1])
  BY <1>9 DEF base
<1>11. \A n \in 0..count : e[n] \in Progress
  <2>. DEFINE Bad == {n \in 0..count : e[n] \notin Progress}
  <2>1. SUFFICES ASSUME Bad # {}
                 PROVE  FALSE
    OBVIOUS
  <2>2. PICK n \in Bad : \A m \in Bad : n <= m
    <3>1. Bad \in SUBSET Nat
      OBVIOUS
    <3>. HIDE DEF Bad
    <3>. QED  BY <2>1, <3>1, LeastNatural
  <2>3. n \in 1..count /\ e[n] \notin Progress
    BY <1>1, <1>10, <2>2
  <2>4. e[n - 1] \in Progress
    BY <2>2, <2>3
  <2>. QED  BY <1>2, <1>10, <2>3, <2>4
<1>12. e \in [0..count -> Progress]
  <2>1. e = [n \in 0..count |-> e[n]]
    BY <1>9
  <2>. QED  BY <1>11, <2>1, Zenon
<1>. QED  BY <1>10, <1>12 DEF e, base

LEMMA EntryUnits ==
    ASSUME NEW entry \in NgramEntry
    PROVE  /\ entry.key \in Seq(Unit) /\ Len(entry.key) \in Nat /\ entry.score \in Unit
           /\ entry = [key |-> entry.key, score |-> entry.score]
           /\ Counted(entry.key) \in Seq(Unit) /\ <<entry.score>> \in Seq(Unit)
           /\ EncodedEntry(entry) = Counted(entry.key) \o <<entry.score>>
           /\ EncodedEntry(entry) \in Seq(Unit)
           /\ Len(EncodedEntry(entry)) = Len(Counted(entry.key)) + 1
           /\ Len(Counted(entry.key)) \in Nat
<1>. DEFINE c == Counted(entry.key)
<1>1. /\ entry.key \in Seq(Unit) /\ entry.score \in Unit
      /\ entry = [key |-> entry.key, score |-> entry.score]
  BY DEF NgramEntry
<1>2. c \in Seq(Unit) /\ <<entry.score>> \in Seq(Unit)
  BY <1>1, CountedUnits, OneUnit, Zenon
<1>3. EncodedEntry(entry) = Append(c, entry.score)
  BY DEF EncodedEntry
<1>. HIDE DEF c
<1>4. /\ Append(c, entry.score) = c \o <<entry.score>>
      /\ Append(c, entry.score) \in Seq(Unit)
      /\ Len(Append(c, entry.score)) = Len(c) + 1 /\ Len(c) \in Nat
  BY <1>1, <1>2
<1>. QED  BY <1>1, <1>2, <1>3, <1>4 DEF c

LEMMA EntryRead ==
    ASSUME NEW o \in Seq(Unit), NEW p \in Nat, NEW state \in Progress,
           Reads(state.reader, o, p),
           NEW entry \in NgramEntry, Holds(o, p, EncodedEntry(entry))
    PROVE  /\ Len(entry.key) <= MaxString =>
                 /\ Reads(ReadEntry(state).reader, o, p + Len(EncodedEntry(entry)))
                 /\ ReadEntry(state).reader.ok =>
                       /\ state.reader.ok
                       /\ ReadEntry(state).table = Append(state.table, entry)
           /\ Len(entry.key) > MaxString => ~ReadEntry(state).reader.ok
<1>. DEFINE key == ReadCounted(state.reader, MaxString)
            score == ReadUnit(key)
            c == Counted(entry.key)
            s == <<entry.score>>
<1>1. /\ c \in Seq(Unit) /\ s \in Seq(Unit) /\ EncodedEntry(entry) = c \o s
      /\ Len(EncodedEntry(entry)) = Len(c) + 1 /\ Len(c) \in Nat
      /\ entry.key \in Seq(Unit) /\ Len(entry.key) \in Nat /\ entry.score \in Unit
      /\ entry = [key |-> entry.key, score |-> entry.score]
  BY EntryUnits
<1>2. Holds(o, p, c) /\ Holds(o, p + Len(c), s)
  <2>. HIDE DEF c, s
  <2>1. Holds(o, p, c \o s)
    BY <1>1
  <2>. QED  BY <1>1, <2>1, HoldsBoth, Zenon
<1>3. ReadEntry(state) = [reader |-> score,
                          table |-> Append(state.table,
                                           [key |-> key.value, score |-> score.value])]
  BY DEF ReadEntry
<1>4. /\ key \in Readers /\ (key.ok => state.reader.ok)
      /\ Len(entry.key) <= MaxString =>
            Reads(key, o, p + Len(c)) /\ (key.ok => key.value = entry.key)
      /\ Len(entry.key) > MaxString => ~key.ok
  <2>1. state.reader \in Readers
    BY DEF Progress
  <2>2. key.ok => state.reader.ok
    BY <2>1, CountedTyped, UnitAssumption
  <2>3. /\ key \in Readers
        /\ Len(entry.key) <= MaxString =>
              /\ Reads(key, o, p + Len(c))
              /\ key.ok => key.value = entry.key
        /\ Len(entry.key) > MaxString => ~key.ok
    <3>1. entry.key \in Seq(Unit) /\ MaxString \in Nat /\ Holds(o, p, Counted(entry.key))
      BY <1>1, <1>2, UnitAssumption
    <3>. QED  BY <3>1, CountedRead
  <2>. QED  BY <2>2, <2>3
<1>. HIDE DEF key
<1>5. CASE Len(entry.key) > MaxString
  <2>1. ~score.ok
    BY <1>4, <1>5, StaysRefused, UnitAssumption
  <2>2. ~(Len(entry.key) <= MaxString)
    BY <1>1, <1>5, UnitAssumption
  <2>. QED  BY <1>3, <2>1, <2>2
<1>6. CASE Len(entry.key) <= MaxString
  <2>1. Reads(key, o, p + Len(c)) /\ p + Len(c) \in Nat
    BY <1>1, <1>4, <1>6
  <2>2. Reads(score, o, p + Len(c) + 1) /\ (score.ok => score.value = entry.score)
    <3>. HIDE DEF c
    <3>. QED  BY <1>1, <1>2, <2>1, UnitRead
  <2>3. score.ok => key.ok
    BY <1>4, UnitTyped
  <2>. HIDE DEF score, c, s
  <2>4. p + Len(EncodedEntry(entry)) = p + Len(c) + 1
    BY <1>1
  <2>5. score.ok => [key |-> key.value, score |-> score.value] = entry
    BY <1>1, <1>4, <1>6, <2>2, <2>3
  <2>6. ~(Len(entry.key) > MaxString)
    BY <1>1, <1>6, UnitAssumption
  <2>. QED  BY <1>3, <1>4, <2>2, <2>3, <2>4, <2>5, <2>6
<1>. QED  BY <1>1, <1>5, <1>6, UnitAssumption

\* A table is never read by a cursor that has failed.
LEMMA TableTyped ==
    ASSUME NEW r \in Readers
    PROVE  /\ ReadTable(r).reader \in Readers /\ ReadTable(r).reader.bytes = r.bytes
           /\ ~ReadUnit(r).ok => ~ReadTable(r).reader.ok
           /\ ~r.ok => ~ReadTable(r).reader.ok
<1>. DEFINE len == ReadUnit(r)
            d == ReadEntries(len, len.value)
<1>1. /\ len \in Readers /\ len.bytes = r.bytes
      /\ len.ok => r.ok /\ len.value \in Nat
  BY UnitTyped DEF Unit
<1>2. ReadTable(r) = IF len.ok /\ len.value <= MaxEntries THEN d[len.value]
                     ELSE [reader |-> Refused(len), table |-> <<>>]
  BY DEF ReadTable
<1>. HIDE DEF len
<1>3. CASE ~(len.ok /\ len.value <= MaxEntries)
  BY <1>1, <1>2, <1>3, RefusedTyped
<1>4. CASE len.ok /\ len.value <= MaxEntries
  <2>. DEFINE n == len.value
              Bad == {k \in 0..n : d[k].reader.bytes # r.bytes}
  <2>1. n \in Nat
    BY <1>1, <1>4
  <2>2. /\ d \in [0..n -> Progress] /\ d[0] = [reader |-> len, table |-> <<>>]
        /\ \A k \in 1..n : d[k] = ReadEntry(d[k - 1])
    BY <1>1, <2>1, EntriesRead, Zenon
  <2>. HIDE DEF d, n
  <2>3. Bad = {}
    <3>1. SUFFICES ASSUME Bad # {}
                   PROVE  FALSE
      OBVIOUS
    <3>2. PICK k \in Bad : \A j \in Bad : k <= j
      <4>1. Bad \in SUBSET Nat
        BY <2>1
      <4>. HIDE DEF Bad
      <4>. QED  BY <3>1, <4>1, LeastNatural
    <3>3. k \in 1..n /\ d[k].reader.bytes # r.bytes
      BY <1>1, <2>1, <2>2, <3>2
    <3>4. d[k - 1] \in Progress /\ d[k - 1].reader.bytes = r.bytes
      BY <2>1, <2>2, <3>2, <3>3
    <3>. QED  BY <2>2, <3>3, <3>4, EntryTyped
  <2>4. d[n] \in Progress /\ d[n].reader.bytes = r.bytes
    BY <2>1, <2>2, <2>3
  <2>5. ReadTable(r) = d[n]
    BY <1>2, <1>4 DEF n
  <2>. QED  BY <1>1, <1>4, <2>4, <2>5 DEF Progress, len
<1>. QED  BY <1>3, <1>4

LEMMA TableUnits ==
    ASSUME NEW table \in Seq(NgramEntry)
    PROVE  /\ Len(table) \in Nat
           /\ EncodedEntries(table)[Len(table)] \in Seq(Unit)
           /\ <<Len(table)>> \in Seq(Unit) /\ Len(<<Len(table)>>) = 1
           /\ EncodeTable(table) = <<Len(table)>> \o EncodedEntries(table)[Len(table)]
           /\ EncodeTable(table) \in Seq(Unit)
           /\ Len(EncodeTable(table)) = 1 + Len(EncodedEntries(table)[Len(table)])
           /\ Len(EncodedEntries(table)[Len(table)]) \in Nat
<1>. DEFINE N == Len(table)
            last == EncodedEntries(table)[N]
            s == <<N>>
<1>1. N \in Nat /\ N \in Unit
  BY DEF Unit
<1>2. last \in Seq(Unit)
  <2>. DEFINE e == EncodedEntries(table)
  <2>1. e \in [0..N -> Seq(Unit)] /\ N \in 0..N
    <3>1. e \in [0..N -> Seq(Unit)]
      BY EntriesEncoded, Zenon
    <3>2. N \in 0..N
      BY <1>1
    <3>. QED  BY <3>1, <3>2
  <2>. HIDE DEF e
  <2>2. e[N] \in Seq(Unit)
    BY <2>1, Zenon
  <2>. QED  BY <2>2 DEF e
<1>3. s \in Seq(Unit) /\ Len(s) = 1
  BY <1>1, OneUnit, Zenon
<1>4. EncodeTable(table) = s \o last
  BY DEF EncodeTable
<1>. HIDE DEF s, last, N
<1>5. s \o last \in Seq(Unit) /\ Len(s \o last) = 1 + Len(last) /\ Len(last) \in Nat
  <2>1. /\ s \o last \in Seq(Unit) /\ Len(s \o last) = Len(s) + Len(last)
        /\ Len(last) \in Nat
    BY <1>2, <1>3, BothUnits, Zenon
  <2>. QED  BY <1>3, <2>1
<1>. QED  BY <1>1, <1>2, <1>3, <1>4, <1>5 DEF s, last, N

\* Every entry of a table holds where the ones before it end.
LEMMA EntriesHold ==
    ASSUME NEW o \in Seq(Unit), NEW q \in Nat, NEW table \in Seq(NgramEntry),
           Holds(o, q, EncodedEntries(table)[Len(table)])
    PROVE  \A n \in 1..Len(table) :
              /\ Len(EncodedEntries(table)[n - 1]) \in Nat
              /\ Holds(o, q + Len(EncodedEntries(table)[n - 1]), EncodedEntry(table[n]))
              /\ Len(EncodedEntries(table)[n]) =
                    Len(EncodedEntries(table)[n - 1]) + Len(EncodedEntry(table[n]))
<1>. DEFINE N == Len(table)
            e == EncodedEntries(table)
            Bad == {k \in 0..N : ~Holds(o, q, e[N - k])}
<1>1. N \in Nat
  OBVIOUS
<1>2. /\ e \in [0..N -> Seq(Unit)]
      /\ \A n \in 1..N : e[n] = e[n - 1] \o EncodedEntry(table[n])
  BY EntriesEncoded
<1>3. \A n \in 1..N : EncodedEntry(table[n]) \in Seq(Unit)
  <2>1. \A n \in 1..N : table[n] \in NgramEntry
    OBVIOUS
  <2>. QED  BY <2>1, EntryUnits
<1>4. Holds(o, q, e[N])
  OBVIOUS
<1>. HIDE DEF e, N
<1>5. ASSUME NEW n \in 1..N, Holds(o, q, e[n])
      PROVE  /\ Holds(o, q, e[n - 1]) /\ Len(e[n - 1]) \in Nat
             /\ Holds(o, q + Len(e[n - 1]), EncodedEntry(table[n]))
             /\ Len(e[n]) = Len(e[n - 1]) + Len(EncodedEntry(table[n]))
  <2>1. e[n - 1] \in Seq(Unit) /\ EncodedEntry(table[n]) \in Seq(Unit)
    BY <1>1, <1>2, <1>3
  <2>2. e[n] = e[n - 1] \o EncodedEntry(table[n])
    BY <1>2
  <2>3. Holds(o, q, e[n - 1] \o EncodedEntry(table[n]))
    BY <1>5, <2>2
  <2>4. /\ Len(e[n - 1] \o EncodedEntry(table[n]))
              = Len(e[n - 1]) + Len(EncodedEntry(table[n]))
        /\ Len(e[n - 1]) \in Nat
    BY <2>1, BothUnits, Zenon
  <2>5. Holds(o, q, e[n - 1]) /\ Holds(o, q + Len(e[n - 1]), EncodedEntry(table[n]))
    BY <2>1, <2>3, HoldsBoth, Zenon
  <2>. QED  BY <2>2, <2>4, <2>5
<1>6. Bad = {}
  <2>1. SUFFICES ASSUME Bad # {}
                 PROVE  FALSE
    OBVIOUS
  <2>2. PICK k \in Bad : \A j \in Bad : k <= j
    <3>1. Bad \in SUBSET Nat
      BY <1>1
    <3>. HIDE DEF Bad
    <3>. QED  BY <2>1, <3>1, LeastNatural
  <2>3. k \in 1..N /\ ~Holds(o, q, e[N - k])
    <3>1. k \in 0..N /\ ~Holds(o, q, e[N - k])
      BY <2>2
    <3>2. k # 0
      <4>1. N - 0 = N
        BY <1>1
      <4>. QED  BY <1>4, <3>1, <4>1
    <3>. QED  BY <1>1, <3>1, <3>2
  <2>4. k - 1 \in 0..N /\ k - 1 \notin Bad
    <3>1. k - 1 \in 0..N /\ ~(k <= k - 1)
      BY <1>1, <2>3
    <3>. HIDE DEF Bad
    <3>. QED  BY <2>2, <3>1
  <2>5. Holds(o, q, e[N - (k - 1)])
    BY <2>4
  <2>6. N - (k - 1) \in 1..N /\ N - (k - 1) - 1 = N - k
    BY <1>1, <2>3
  <2>. QED  BY <1>5, <2>3, <2>5, <2>6
<1>7. \A n \in 0..N : Holds(o, q, e[n])
  <2>1. TAKE n \in 0..N
  <2>2. N - n \in 0..N /\ N - (N - n) = n
    BY <1>1
  <2>. QED  BY <1>6, <2>2
<1>8. \A n \in 1..N : n \in 0..N
  BY <1>1
<1>. QED  BY <1>5, <1>7, <1>8 DEF e, N

LEMMA Appended ==
    ASSUME NEW S, NEW s \in Seq(S), NEW x
    PROVE  /\ Len(Append(s, x)) = Len(s) + 1
           /\ Append(s, x)[Len(s) + 1] = x
           /\ \A j \in 1..Len(s) : Append(s, x)[j] = s[j]
OBVIOUS

LEMMA TableRead ==
    ASSUME NEW o \in Seq(Unit), NEW p \in Nat, NEW r, Reads(r, o, p),
           NEW table \in Seq(NgramEntry), Holds(o, p, EncodeTable(table))
    PROVE  /\ ~TooLong(table) =>
                 /\ Reads(ReadTable(r).reader, o, p + Len(EncodeTable(table)))
                 /\ ReadTable(r).reader.ok => ReadTable(r).table = table
           /\ TooLong(table) => ~ReadTable(r).reader.ok
<1>. DEFINE N == Len(table)
            e == EncodedEntries(table)
            len == ReadUnit(r)
            d == ReadEntries(len, N)
            t == ReadTable(r)
            Short(n) == \A j \in 1..n : Len(table[j].key) <= MaxString
<1>1. /\ N \in Nat /\ N \in Unit /\ e[N] \in Seq(Unit) /\ Len(e[N]) \in Nat
      /\ <<N>> \in Seq(Unit) /\ Len(<<N>>) = 1
      /\ EncodeTable(table) = <<N>> \o e[N]
      /\ Len(EncodeTable(table)) = 1 + Len(e[N])
  BY TableUnits DEF Unit
<1>2. /\ r \in Readers /\ t.reader \in Readers /\ t.reader.bytes = o
      /\ ~len.ok => ~t.reader.ok
  <2>1. r \in Readers /\ r.bytes = o
    BY DEF Reads
  <2>. QED  BY <2>1, TableTyped
<1>3. t = IF len.ok /\ len.value <= MaxEntries
          THEN ReadEntries(len, len.value)[len.value]
          ELSE [reader |-> Refused(len), table |-> <<>>]
  BY DEF ReadTable
<1>4. e[0] = <<>>
  BY EntriesEncoded
<1>5. \A n \in 1..N : table[n] \in NgramEntry /\ Len(table[n].key) \in Nat
  <2>1. \A n \in 1..N : table[n] \in NgramEntry
    OBVIOUS
  <2>. QED  BY <2>1, EntryUnits
<1>6. TooLong(table) <=> N > MaxEntries \/ ~Short(N)
  <2>1. DOMAIN table = 1..N
    OBVIOUS
  <2>2. \A n \in 1..N : Len(table[n].key) > MaxString <=> ~(Len(table[n].key) <= MaxString)
    BY <1>5, UnitAssumption
  <2>. QED  BY <2>1, <2>2 DEF TooLong
<1>. HIDE DEF t, Short
<1>7. Holds(o, p, <<N>>) /\ Holds(o, p + 1, e[N])
  <2>. HIDE DEF N, e
  <2>1. Holds(o, p, <<N>> \o e[N])
    BY <1>1
  <2>2. Holds(o, p, <<N>>) /\ Holds(o, p + Len(<<N>>), e[N])
    BY <1>1, <2>1, HoldsBoth, Zenon
  <2>. QED  BY <1>1, <2>2
<1>8. Reads(len, o, p + 1) /\ (len.ok => len.value = N)
  <2>. HIDE DEF N
  <2>. QED  BY <1>1, <1>7, UnitRead
<1>9. /\ len \in Readers /\ (len.ok <=> p + 1 <= Len(o)) /\ Len(o) \in Nat
  BY <1>8 DEF Reads
<1>10. CASE ~len.ok
  <2>. HIDE DEF len, e, N
  <2>1. ~(p + (1 + Len(e[N])) <= Len(o)) /\ ~t.reader.ok
    BY <1>1, <1>2, <1>9, <1>10
  <2>. QED  BY <1>1, <1>2, <2>1 DEF Reads, t
<1>11. CASE len.ok /\ N > MaxEntries
  <2>. HIDE DEF len, N
  <2>1. ~(len.value <= MaxEntries)
    BY <1>1, <1>8, <1>11, UnitAssumption
  <2>2. ~t.reader.ok
    BY <1>3, <1>9, <2>1, RefusedTyped
  <2>. QED  BY <1>6, <1>11, <2>2 DEF t
<1>12. CASE len.ok /\ ~(N > MaxEntries)
  <2>1. t = d[N]
    <3>. HIDE DEF len, N
    <3>1. len.value = N /\ N <= MaxEntries
      BY <1>1, <1>8, <1>12, UnitAssumption
    <3>. QED  BY <1>3, <1>12, <3>1
  <2>2. /\ d \in [0..N -> Progress] /\ d[0] = [reader |-> len, table |-> <<>>]
        /\ \A n \in 1..N : d[n] = ReadEntry(d[n - 1])
    BY <1>1, <1>9, EntriesRead, Zenon
  <2>3. \A n \in 1..N :
           /\ Len(e[n - 1]) \in Nat
           /\ Holds(o, p + 1 + Len(e[n - 1]), EncodedEntry(table[n]))
           /\ Len(e[n]) = Len(e[n - 1]) + Len(EncodedEntry(table[n]))
    <3>1. p + 1 \in Nat
      OBVIOUS
    <3>. QED  BY <1>7, <3>1, EntriesHold, Zenon
  <2>. DEFINE Read(n) ==
                 /\ Reads(d[n].reader, o, p + 1 + Len(e[n]))
                 /\ d[n].reader.ok =>
                       /\ Len(d[n].table) = n
                       /\ \A j \in 1..n : d[n].table[j] = table[j]
              Good(n) == IF Short(n) THEN Read(n) ELSE ~d[n].reader.ok
              Bad == {n \in 0..N : ~Good(n)}
  <2>. HIDE DEF e, d, len, N
  <2>4. Good(0)
    <3>1. Short(0)
      BY DEF Short
    <3>2. Len(e[0]) = 0 /\ p + 1 + Len(e[0]) = p + 1
      BY <1>4
    <3>. QED  BY <1>8, <2>2, <3>1, <3>2
  <2>5. ASSUME NEW n \in 1..N, Good(n - 1)
        PROVE  Good(n)
    <3>. DEFINE state == d[n - 1]
                before == e[n - 1]
    <3>1. d[n] = ReadEntry(state) /\ state \in Progress
      BY <1>1, <2>2
    <3>2. Short(n) <=> Short(n - 1) /\ Len(table[n].key) <= MaxString
      <4>1. \A j \in 1..n : j # n => j \in 1..(n - 1)
        BY <1>1
      <4>2. \A j \in 1..(n - 1) : j \in 1..n
        BY <1>1
      <4>3. n \in 1..n
        BY <1>1
      <4>. QED  BY <4>1, <4>2, <4>3, Zenon DEF Short
    <3>3. CASE ~Short(n - 1)
      <4>1. ~state.reader.ok
        BY <2>5, <3>3
      <4>. QED  BY <3>1, <3>2, <3>3, <4>1, EntryTyped
    <3>4. CASE Short(n - 1)
      <4>1. /\ Reads(state.reader, o, p + 1 + Len(before))
            /\ state.reader.ok =>
                  /\ Len(state.table) = n - 1
                  /\ \A j \in 1..(n - 1) : state.table[j] = table[j]
        BY <2>5, <3>4
      <4>2. /\ Len(before) \in Nat /\ p + 1 + Len(before) \in Nat
            /\ Holds(o, p + 1 + Len(before), EncodedEntry(table[n]))
            /\ table[n] \in NgramEntry
        <5>1. /\ Len(before) \in Nat /\ table[n] \in NgramEntry
              /\ Holds(o, p + 1 + Len(before), EncodedEntry(table[n]))
          BY <1>5, <2>3
        <5>. HIDE DEF before
        <5>. QED  BY <5>1
      <4>3. /\ Len(table[n].key) <= MaxString =>
                  /\ Reads(d[n].reader, o,
                           p + 1 + Len(before) + Len(EncodedEntry(table[n])))
                  /\ d[n].reader.ok =>
                        /\ state.reader.ok
                        /\ d[n].table = Append(state.table, table[n])
            /\ Len(table[n].key) > MaxString => ~d[n].reader.ok
        <5>. HIDE DEF state, before
        <5>1. /\ Len(table[n].key) <= MaxString =>
                  /\ Reads(ReadEntry(state).reader, o,
                           p + 1 + Len(before) + Len(EncodedEntry(table[n])))
                  /\ ReadEntry(state).reader.ok =>
                        /\ state.reader.ok
                        /\ ReadEntry(state).table = Append(state.table, table[n])
              /\ Len(table[n].key) > MaxString => ~ReadEntry(state).reader.ok
          BY <3>1, <4>1, <4>2, EntryRead
        <5>. QED  BY <3>1, <5>1
      <4>4. CASE Len(table[n].key) > MaxString
        <5>1. ~Short(n)
          BY <1>5, <3>2, <4>4, UnitAssumption
        <5>. QED  BY <4>3, <4>4, <5>1
      <4>5. CASE ~(Len(table[n].key) > MaxString)
        <5>1. Len(table[n].key) <= MaxString /\ Short(n)
          BY <1>5, <3>2, <3>4, <4>5, UnitAssumption
        <5>2. p + 1 + Len(e[n]) = p + 1 + Len(before) + Len(EncodedEntry(table[n]))
          <6>1. Len(EncodedEntry(table[n])) \in Nat
            BY <4>2, EntryUnits
          <6>2. Len(e[n]) = Len(before) + Len(EncodedEntry(table[n]))
            BY <2>3
          <6>. HIDE DEF before
          <6>. QED  BY <4>2, <6>1, <6>2
        <5>3. Reads(d[n].reader, o, p + 1 + Len(e[n]))
          BY <4>3, <5>1, <5>2
        <5>4. ASSUME d[n].reader.ok
              PROVE  Len(d[n].table) = n /\ \A j \in 1..n : d[n].table[j] = table[j]
          <6>1. d[n].table = Append(state.table, table[n]) /\ state.reader.ok
            BY <4>3, <5>1, <5>4
          <6>2. /\ Len(state.table) = n - 1
                /\ \A j \in 1..(n - 1) : state.table[j] = table[j]
            BY <4>1, <6>1
          <6>3. state.table \in Seq([key : Value, score : Value])
            BY <3>1 DEF Progress
          <6>4. /\ Len(Append(state.table, table[n])) = n
                /\ Append(state.table, table[n])[n] = table[n]
                /\ \A j \in 1..(n - 1) : Append(state.table, table[n])[j] = state.table[j]
            <7>1. Len(state.table) = n - 1 /\ n - 1 + 1 = n
              BY <6>2
            <7>2. /\ Len(Append(state.table, table[n])) = Len(state.table) + 1
                  /\ Append(state.table, table[n])[Len(state.table) + 1] = table[n]
                  /\ \A j \in 1..Len(state.table) :
                        Append(state.table, table[n])[j] = state.table[j]
              BY <6>3, Appended, Zenon
            <7>. QED  BY <7>1, <7>2
          <6>. QED  BY <6>1, <6>2, <6>4
        <5>. QED  BY <5>1, <5>3, <5>4
      <4>. QED  BY <4>4, <4>5
    <3>. QED  BY <3>3, <3>4
  <2>. HIDE DEF Good
  <2>6. Bad = {}
    <3>1. SUFFICES ASSUME Bad # {}
                   PROVE  FALSE
      OBVIOUS
    <3>2. PICK k \in Bad : \A j \in Bad : k <= j
      <4>1. Bad \in SUBSET Nat
        BY <1>1
      <4>. HIDE DEF Bad
      <4>. QED  BY <3>1, <4>1, LeastNatural
    <3>3. k \in 1..N /\ ~Good(k)
      BY <1>1, <2>4, <3>2
    <3>4. Good(k - 1)
      BY <1>1, <3>2, <3>3
    <3>. QED  BY <2>5, <3>3, <3>4
  <2>7. Good(N)
    BY <1>1, <2>6
  <2>8. CASE ~Short(N)
    <3>1. TooLong(table) /\ ~t.reader.ok
      BY <1>6, <2>1, <2>7, <2>8 DEF Good
    <3>. QED  BY <3>1 DEF t
  <2>9. CASE Short(N)
    <3>1. ~TooLong(table)
      BY <1>6, <1>12, <2>9
    <3>2. Read(N)
      BY <2>7, <2>9 DEF Good
    <3>3. p + Len(EncodeTable(table)) = p + 1 + Len(e[N])
      <4>1. Len(EncodeTable(table)) = 1 + Len(e[N]) /\ Len(e[N]) \in Nat
        BY <1>1
      <4>. DEFINE all == Len(EncodeTable(table))
                  rest == Len(e[N])
      <4>. HIDE DEF all, rest
      <4>2. all = 1 + rest /\ rest \in Nat
        BY <4>1 DEF all, rest
      <4>3. p + all = p + 1 + rest
        BY <4>2
      <4>. QED  BY <4>3 DEF all, rest
    <3>4. ASSUME t.reader.ok
          PROVE  t.table = table
      <4>1. /\ Len(t.table) = N /\ \A j \in 1..N : t.table[j] = table[j]
            /\ t.table \in Seq([key : Value, score : Value])
        <5>1. N \in 0..N
          BY <1>1
        <5>2. d[N] \in Progress
          BY <2>2, <5>1, Zenon
        <5>. QED  BY <2>1, <3>2, <3>4, <5>2 DEF Progress
      <4>2. table \in Seq([key : Value, score : Value]) /\ Len(table) = N
        <5>1. \A i \in 1..Len(table) : table[i] \in [key : Value, score : Value]
          BY <1>5 DEF NgramEntry, Value, N
        <5>2. table = [i \in 1..Len(table) |-> table[i]] /\ Len(table) \in Nat
          OBVIOUS
        <5>3. [i \in 1..Len(table) |-> table[i]] \in Seq([key : Value, score : Value])
          BY <5>1, <5>2
        <5>. QED  BY <5>2, <5>3 DEF N
      <4>. HIDE DEF N
      <4>. QED  BY <4>1, <4>2
    <3>5. Reads(t.reader, o, p + Len(EncodeTable(table)))
      BY <2>1, <3>2, <3>3
    <3>. QED  BY <3>1, <3>4, <3>5 DEF t
  <2>. QED  BY <2>8, <2>9
<1>. QED  BY <1>10, <1>11, <1>12

LEMMA TwoUnits ==
    ASSUME NEW a \in Unit, NEW b \in Unit
    PROVE  /\ <<a, b>> \in Seq(Unit) /\ Len(<<a, b>>) = 2
           /\ \A o \in Seq(Unit), q \in Nat : Holds(o, q, <<a, b>>) =>
                 Holds(o, q, <<a>>) /\ Holds(o, q + 1, <<b>>)
<1>1. <<a, b>> \in Seq(Unit) /\ Len(<<a, b>>) = 2
  OBVIOUS
<1>2. ASSUME NEW o \in Seq(Unit), NEW q \in Nat, Holds(o, q, <<a, b>>)
      PROVE  Holds(o, q, <<a>>) /\ Holds(o, q + 1, <<b>>)
  <2>1. \A i \in 1..2 : q + i <= Len(o) => o[q + i] = <<a, b>>[i]
    BY <1>1, <1>2 DEF Holds
  <2>2. q + 1 <= Len(o) => o[q + 1] = a
    BY <2>1
  <2>3. q + 2 <= Len(o) => o[q + 2] = b
    BY <2>1
  <2>4. Holds(o, q, <<a>>)
    BY <2>2 DEF Holds
  <2>5. Holds(o, q + 1, <<b>>)
    <3>. DEFINE p == q + 1
    <3>1. p + 1 = q + 2
      OBVIOUS
    <3>2. p + 1 <= Len(o) => o[p + 1] = b
      BY <2>3, <3>1
    <3>. HIDE DEF p
    <3>3. Holds(o, p, <<b>>)
      BY <3>2 DEF Holds
    <3>. QED  BY <3>3 DEF p
  <2>. QED  BY <2>4, <2>5
<1>. QED  BY <1>1, <1>2

\* Tables are read back when they could be written and the file holds all of
\* them and no more; a file that was cut short or goes on is refused.
THEOREM WholeTablesAreRead ==
    ASSUME NEW data \in LanguageData, NEW o \in Seq(Unit),
           Holds(o, 0, EncodeLanguage(data))
    PROVE  /\ DecodeLanguage(o).ok <=>
                 CanEncode(data) /\ Len(o) = Len(EncodeLanguage(data))
           /\ DecodeLanguage(o).ok => DecodeLanguage(o).value = data
           /\ DecodeLanguage(o).ok \in BOOLEAN
<1>. DEFINE m == <<NgramMagic>>
            c == Counted(data.tag)
            f == <<data.bigramFloor, data.trigramFloor>>
            b == EncodeTable(data.bigrams)
            t == EncodeTable(data.trigrams)
            start == ReadMagic(o, NgramMagic)
            tag == ReadCounted(start, MaxString)
            low == ReadUnit(tag)
            high == ReadUnit(low)
            bigrams == ReadTable(high)
            trigrams == ReadTable(bigrams.reader)
<1>1. /\ data.tag \in Seq(Unit) /\ data.bigramFloor \in Unit /\ data.trigramFloor \in Unit
      /\ data.bigrams \in Seq(NgramEntry) /\ data.trigrams \in Seq(NgramEntry)
      /\ data = [tag |-> data.tag, bigramFloor |-> data.bigramFloor,
                 trigramFloor |-> data.trigramFloor,
                 bigrams |-> data.bigrams, trigrams |-> data.trigrams]
  BY DEF LanguageData
<1>2. Len(data.tag) \in Nat /\ Len(o) \in Nat /\ MaxString \in Nat
  BY <1>1, UnitAssumption
<1>3. EncodeLanguage(data) = (((m \o c) \o f) \o b) \o t
  BY DEF EncodeLanguage
<1>4. DecodeLanguage(o) =
         [ok |-> Finish(trigrams.reader).ok,
          value |-> [tag |-> tag.value, bigramFloor |-> low.value,
                     trigramFloor |-> high.value,
                     bigrams |-> bigrams.table, trigrams |-> trigrams.table]]
  BY DEF DecodeLanguage
<1>5. /\ m \in Seq(Unit) /\ Len(m) = 1 /\ c \in Seq(Unit) /\ Len(c) \in Nat
      /\ f \in Seq(Unit) /\ Len(f) = 2
      /\ b \in Seq(Unit) /\ Len(b) \in Nat /\ t \in Seq(Unit) /\ Len(t) \in Nat
  <2>1. m \in Seq(Unit) /\ Len(m) = 1
    BY OneUnit, UnitAssumption
  <2>2. f \in Seq(Unit) /\ Len(f) = 2
    BY <1>1, TwoUnits
  <2>3. c \in Seq(Unit)
    BY <1>1, CountedUnits
  <2>4. b \in Seq(Unit) /\ t \in Seq(Unit)
    BY <1>1, TableUnits
  <2>. HIDE DEF m, f, c, b, t
  <2>5. Len(c) \in Nat /\ Len(b) \in Nat /\ Len(t) \in Nat
    BY <2>3, <2>4
  <2>. QED  BY <2>1, <2>2, <2>3, <2>4, <2>5
<1>. DEFINE size == 1 + Len(c) + 2 + Len(b) + Len(t)
<1>6. /\ Holds(o, 0, m) /\ Holds(o, 1, c) /\ Holds(o, 1 + Len(c), f)
      /\ Holds(o, 1 + Len(c) + 2, b) /\ Holds(o, 1 + Len(c) + 2 + Len(b), t)
      /\ Len(EncodeLanguage(data)) = size
  <2>. DEFINE mc == m \o c
              mcf == mc \o f
              mcfb == mcf \o b
  <2>. HIDE DEF m, c, f, b, t
  <2>1. mc \in Seq(Unit) /\ Len(mc) = Len(m) + Len(c)
    BY <1>5, BothUnits, Zenon
  <2>2. Holds(o, 0, mc) => Holds(o, 0, m) /\ Holds(o, 0 + Len(m), c)
    BY <1>5, HoldsBoth
  <2>. HIDE DEF mc
  <2>3. mcf \in Seq(Unit) /\ Len(mcf) = Len(mc) + Len(f)
    BY <1>5, <2>1, BothUnits, Zenon
  <2>4. Holds(o, 0, mcf) => Holds(o, 0, mc) /\ Holds(o, 0 + Len(mc), f)
    BY <1>5, <2>1, HoldsBoth
  <2>. HIDE DEF mcf
  <2>5. mcfb \in Seq(Unit) /\ Len(mcfb) = Len(mcf) + Len(b)
    BY <1>5, <2>3, BothUnits, Zenon
  <2>6. Holds(o, 0, mcfb) => Holds(o, 0, mcf) /\ Holds(o, 0 + Len(mcf), b)
    BY <1>5, <2>3, HoldsBoth
  <2>. HIDE DEF mcfb
  <2>7. Len(mcfb \o t) = Len(mcfb) + Len(t)
    BY <1>5, <2>5, BothUnits, Zenon
  <2>8. Holds(o, 0, mcfb \o t) => Holds(o, 0, mcfb) /\ Holds(o, 0 + Len(mcfb), t)
    BY <1>5, <2>5, HoldsBoth
  <2>9. EncodeLanguage(data) = mcfb \o t
    BY <1>3 DEF mcfb, mcf, mc
  <2>10. Holds(o, 0, mcfb \o t)
    BY <2>9
  <2>11. /\ 0 + Len(m) = 1 /\ 0 + Len(mc) = 1 + Len(c) /\ 0 + Len(mcf) = 1 + Len(c) + 2
         /\ 0 + Len(mcfb) = 1 + Len(c) + 2 + Len(b)
         /\ Len(mcfb) + Len(t) = size
    BY <1>5, <2>1, <2>3, <2>5
  <2>. QED  BY <2>2, <2>4, <2>6, <2>7, <2>8, <2>9, <2>10, <2>11
<1>7. Reads(start, o, 1)
  BY <1>6, MagicRead, UnitAssumption
<1>. HIDE DEF start, m
<1>8. /\ tag \in Readers
      /\ Len(data.tag) <= MaxString =>
            Reads(tag, o, 1 + Len(c)) /\ (tag.ok => tag.value = data.tag)
      /\ Len(data.tag) > MaxString => ~tag.ok
  BY <1>1, <1>2, <1>6, <1>7, CountedRead
<1>. HIDE DEF tag, c
<1>9. /\ low \in Readers /\ (low.ok => tag.ok)
      /\ high \in Readers /\ (high.ok => low.ok)
  <2>1. low \in Readers /\ (low.ok => tag.ok)
    BY <1>8, UnitTyped
  <2>. HIDE DEF low
  <2>. QED  BY <2>1, UnitTyped
<1>10. /\ bigrams.reader \in Readers /\ (~high.ok => ~bigrams.reader.ok)
       /\ trigrams.reader \in Readers /\ (~bigrams.reader.ok => ~trigrams.reader.ok)
       /\ (~trigrams.reader.ok => ~Finish(trigrams.reader).ok)
  <2>. HIDE DEF high
  <2>1. bigrams.reader \in Readers /\ (~high.ok => ~bigrams.reader.ok)
    BY <1>9, TableTyped
  <2>. HIDE DEF bigrams
  <2>2. trigrams.reader \in Readers /\ (~bigrams.reader.ok => ~trigrams.reader.ok)
    BY <2>1, TableTyped
  <2>. HIDE DEF trigrams
  <2>. QED  BY <2>1, <2>2, StaysRefused, UnitAssumption
<1>11. Reads(tag, o, 1 + Len(c)) =>
          /\ Reads(high, o, 1 + Len(c) + 2)
          /\ low.ok => low.value = data.bigramFloor
          /\ high.ok => high.value = data.trigramFloor
  <2>. SUFFICES ASSUME Reads(tag, o, 1 + Len(c))
                PROVE  /\ Reads(high, o, 1 + Len(c) + 2)
                       /\ low.ok => low.value = data.bigramFloor
                       /\ high.ok => high.value = data.trigramFloor
    OBVIOUS
  <2>. DEFINE p == 1 + Len(c)
  <2>1. p \in Nat /\ p + 1 \in Nat /\ p + 1 + 1 = p + 2
    BY <1>5
  <2>2. Reads(tag, o, p) /\ Holds(o, p, f)
    BY <1>6
  <2>3. p + 2 = 1 + Len(c) + 2
    BY <1>5
  <2>. HIDE DEF p
  <2>4. Holds(o, p, <<data.bigramFloor>>) /\ Holds(o, p + 1, <<data.trigramFloor>>)
    BY <1>1, <2>1, <2>2, TwoUnits
  <2>5. Reads(low, o, p + 1) /\ (low.ok => low.value = data.bigramFloor)
    BY <1>1, <2>1, <2>2, <2>4, UnitRead
  <2>. HIDE DEF low
  <2>6. Reads(high, o, p + 1 + 1) /\ (high.ok => high.value = data.trigramFloor)
    BY <1>1, <2>1, <2>4, <2>5, UnitRead
  <2>. QED  BY <2>1, <2>3, <2>5, <2>6
<1>. HIDE DEF low, high, f
<1>12. /\ Reads(high, o, 1 + Len(c) + 2) /\ ~TooLong(data.bigrams) =>
             /\ Reads(bigrams.reader, o, 1 + Len(c) + 2 + Len(b))
             /\ bigrams.reader.ok => bigrams.table = data.bigrams
       /\ Reads(high, o, 1 + Len(c) + 2) /\ TooLong(data.bigrams) => ~bigrams.reader.ok
  <2>1. 1 + Len(c) + 2 \in Nat
    BY <1>5
  <2>. QED  BY <1>1, <1>6, <2>1, TableRead
<1>. HIDE DEF bigrams, b
<1>13. /\ Reads(bigrams.reader, o, 1 + Len(c) + 2 + Len(b)) /\ ~TooLong(data.trigrams) =>
             /\ Reads(trigrams.reader, o, size)
             /\ trigrams.reader.ok => trigrams.table = data.trigrams
       /\ Reads(bigrams.reader, o, 1 + Len(c) + 2 + Len(b)) /\ TooLong(data.trigrams) =>
             ~trigrams.reader.ok
  <2>1. 1 + Len(c) + 2 + Len(b) \in Nat
    BY <1>5
  <2>. QED  BY <1>1, <1>6, <2>1, TableRead
<1>. HIDE DEF trigrams, t
<1>14. size \in Nat
  BY <1>5
<1>15. Reads(trigrams.reader, o, size) => (Finish(trigrams.reader).ok <=> size = Len(o))
  <2>. HIDE DEF size
  <2>. QED  BY <1>14, FinishRead
<1>. HIDE DEF size
<1>21. Finish(trigrams.reader).ok \in BOOLEAN
  BY <1>10, FinishTyped
<1>. SUFFICES /\ DecodeLanguage(o).ok <=>
                    CanEncode(data) /\ Len(o) = Len(EncodeLanguage(data))
              /\ DecodeLanguage(o).ok => DecodeLanguage(o).value = data
  BY <1>4, <1>21
<1>16. CASE Len(data.tag) > MaxString
  <2>1. ~CanEncode(data)
    BY <1>2, <1>16 DEF CanEncode
  <2>. QED  BY <1>4, <1>8, <1>9, <1>10, <1>16, <2>1
<1>17. CASE Len(data.tag) <= MaxString /\ TooLong(data.bigrams)
  <2>1. ~CanEncode(data)
    BY <1>17 DEF CanEncode
  <2>. QED  BY <1>4, <1>8, <1>10, <1>11, <1>12, <1>17, <2>1
<1>18. CASE /\ Len(data.tag) <= MaxString /\ ~TooLong(data.bigrams)
            /\ TooLong(data.trigrams)
  <2>1. ~CanEncode(data)
    BY <1>18 DEF CanEncode
  <2>. QED  BY <1>4, <1>8, <1>10, <1>11, <1>12, <1>13, <1>18, <2>1
<1>19. CASE /\ Len(data.tag) <= MaxString /\ ~TooLong(data.bigrams)
            /\ ~TooLong(data.trigrams)
  <2>1. CanEncode(data)
    BY <1>19 DEF CanEncode
  <2>2. /\ Finish(trigrams.reader).ok <=> size = Len(o)
        /\ trigrams.reader.ok => trigrams.table = data.trigrams
        /\ bigrams.reader.ok => bigrams.table = data.bigrams
        /\ high.ok => high.value = data.trigramFloor
        /\ low.ok => low.value = data.bigramFloor
        /\ tag.ok => tag.value = data.tag
    BY <1>8, <1>11, <1>12, <1>13, <1>15, <1>19
  <2>3. Finish(trigrams.reader).ok =>
           trigrams.reader.ok /\ bigrams.reader.ok /\ high.ok /\ low.ok /\ tag.ok
    BY <1>9, <1>10
  <2>. QED  BY <1>1, <1>4, <1>6, <2>1, <2>2, <2>3
<1>20. ~(Len(data.tag) > MaxString) => Len(data.tag) <= MaxString
  BY <1>2
<1>. QED  BY <1>16, <1>17, <1>18, <1>19, <1>20

\* What was written agrees with all that is cut from it or goes on after it.
LEMMA CutsHold ==
    ASSUME NEW b \in Seq(Unit)
    PROVE  /\ Holds(b, 0, b)
           /\ \A n \in 0..(Len(b) - 1) :
                 /\ SubSeq(b, 1, n) \in Seq(Unit) /\ Len(SubSeq(b, 1, n)) # Len(b)
                 /\ Holds(SubSeq(b, 1, n), 0, b)
           /\ Append(b, 1) \in Seq(Unit) /\ Len(Append(b, 1)) # Len(b)
           /\ Holds(Append(b, 1), 0, b)
<1>1. Holds(b, 0, b)
  BY DEF Holds
<1>2. ASSUME NEW n \in 0..(Len(b) - 1)
      PROVE  /\ SubSeq(b, 1, n) \in Seq(Unit) /\ Len(SubSeq(b, 1, n)) # Len(b)
             /\ Holds(SubSeq(b, 1, n), 0, b)
  <2>. DEFINE cut == SubSeq(b, 0 + 1, 0 + n)
  <2>1. /\ cut \in Seq(Unit) /\ Len(cut) = n /\ \A i \in 1..n : cut[i] = b[0 + i]
    <3>1. n \in Nat /\ 0 + n <= Len(b)
      OBVIOUS
    <3>. QED  BY <3>1, PartTyped
  <2>2. cut = SubSeq(b, 1, n)
    OBVIOUS
  <2>. HIDE DEF cut
  <2>3. \A i \in 1..Len(b) : 0 + i <= Len(cut) => cut[0 + i] = b[i]
    BY <2>1
  <2>. QED  BY <2>1, <2>2, <2>3 DEF Holds
<1>3. /\ Append(b, 1) \in Seq(Unit) /\ Len(Append(b, 1)) # Len(b)
      /\ Holds(Append(b, 1), 0, b)
  <2>. DEFINE more == Append(b, 1)
  <2>1. 1 \in Unit
    BY DEF Unit
  <2>2. more \in Seq(Unit) /\ Len(more) # Len(b) /\ \A i \in 1..Len(b) : more[i] = b[i]
    BY <2>1
  <2>. HIDE DEF more
  <2>3. \A i \in 1..Len(b) : 0 + i <= Len(more) => more[0 + i] = b[i]
    BY <2>2
  <2>. QED  BY <2>2, <2>3 DEF Holds, more
<1>. QED  BY <1>1, <1>2, <1>3

LEMMA EncodedTyped ==
    ASSUME NEW data \in LanguageData, NEW index \in IndexData
    PROVE  EncodeLanguage(data) \in Seq(Unit) /\ EncodeIndex(index) \in Seq(Unit)
<1>1. EncodeIndex(index) \in Seq(Unit)
  <2>1. index.sum \in Seq(Unit) /\ index.sample \in Seq(Unit)
    BY DEF IndexData
  <2>2. /\ <<PrefixMagic>> \in Seq(Unit)
        /\ Counted(index.sum) \in Seq(Unit) /\ Counted(index.sample) \in Seq(Unit)
    BY <2>1, OneUnit, CountedUnits, UnitAssumption, Zenon
  <2>. QED  BY <2>2, BothUnits, Zenon DEF EncodeIndex
<1>2. EncodeLanguage(data) \in Seq(Unit)
  <2>1. /\ data.tag \in Seq(Unit) /\ data.bigramFloor \in Unit /\ data.trigramFloor \in Unit
        /\ data.bigrams \in Seq(NgramEntry) /\ data.trigrams \in Seq(NgramEntry)
    BY DEF LanguageData
  <2>2. /\ <<NgramMagic>> \in Seq(Unit) /\ Counted(data.tag) \in Seq(Unit)
        /\ <<data.bigramFloor, data.trigramFloor>> \in Seq(Unit)
        /\ EncodeTable(data.bigrams) \in Seq(Unit) /\ EncodeTable(data.trigrams) \in Seq(Unit)
    BY <2>1, OneUnit, TwoUnits, CountedUnits, TableUnits, UnitAssumption, Zenon
  <2>. QED  BY <2>2, BothUnits, Zenon DEF EncodeLanguage
<1>. QED  BY <1>1, <1>2

LEMMA SampleArtifactsTyped ==
    ASSUME ArtifactSample
    PROVE  sample.data \in LanguageData /\ sample.index \in IndexData
<1>1. PICK tag \in {<<>>, <<7>>, <<7, 8>>}, bigrams \in MCTables, trigrams \in MCTables,
           sum \in {<<>>, <<1, 2>>} :
          sample = [topic |-> "artifact",
                    data |-> [tag |-> tag, bigramFloor |-> 3, trigramFloor |-> 4,
                              bigrams |-> bigrams, trigrams |-> trigrams],
                    index |-> [sum |-> sum, sample |-> <<9>>]]
  BY Zenon DEF ArtifactSample
<1>2. \A n \in Nat : n \in Unit
  BY DEF Unit
<1>3. /\ tag \in Seq(Unit) /\ sum \in Seq(Unit) /\ <<9>> \in Seq(Unit)
      /\ 3 \in Unit /\ 4 \in Unit
  <2>1. /\ <<>> \in Seq(Nat) /\ <<7>> \in Seq(Nat) /\ <<7, 8>> \in Seq(Nat)
        /\ <<1, 2>> \in Seq(Nat) /\ <<9>> \in Seq(Nat)
    OBVIOUS
  <2>. QED  BY <1>2, <2>1, Zenon DEF Unit
<1>4. \A table \in MCTables : table \in Seq(NgramEntry)
  <2>1. \A k \in {<<>>, <<5>>, <<6>>, <<5, 6>>}, n \in {1, 2} :
           [key |-> k, score |-> n] \in NgramEntry
    <3>1. \A k \in {<<>>, <<5>>, <<6>>, <<5, 6>>} : k \in Seq(Unit)
      <4>1. /\ <<>> \in Seq(Nat) /\ <<5>> \in Seq(Nat) /\ <<6>> \in Seq(Nat)
            /\ <<5, 6>> \in Seq(Nat)
        OBVIOUS
      <4>. QED  BY <4>1, Zenon DEF Unit
    <3>2. 1 \in Unit /\ 2 \in Unit
      BY <1>2
    <3>. QED  BY <3>1, <3>2 DEF NgramEntry
  <2>2. \A k \in {<<>>, <<5>>, <<5, 6>>} : <<[key |-> k, score |-> 1]>> \in Seq(NgramEntry)
    <3>1. \A entry \in NgramEntry : <<entry>> \in Seq(NgramEntry)
      OBVIOUS
    <3>. QED  BY <2>1, <3>1
  <2>3. <<[key |-> <<5>>, score |-> 1], [key |-> <<6>>, score |-> 2]>> \in Seq(NgramEntry)
    <3>1. \A entry, other \in NgramEntry : <<entry, other>> \in Seq(NgramEntry)
      OBVIOUS
    <3>. QED  BY <2>1, <3>1
  <2>4. <<>> \in Seq(NgramEntry)
    OBVIOUS
  <2>. QED  BY <2>2, <2>3, <2>4, Zenon DEF MCTables
<1>. DEFINE data == [tag |-> tag, bigramFloor |-> 3, trigramFloor |-> 4,
                     bigrams |-> bigrams, trigrams |-> trigrams]
            index == [sum |-> sum, sample |-> <<9>>]
<1>5. data \in LanguageData /\ index \in IndexData
  BY <1>3, <1>4 DEF LanguageData, IndexData
<1>6. sample.data = data /\ sample.index = index
  BY <1>1
<1>. QED  BY <1>5, <1>6

LEMMA ArtifactSampleIsRefused == ArtifactSample => DamagedArtifactsAreRefused
<1>. SUFFICES ASSUME ArtifactSample
              PROVE  DamagedArtifactsAreRefused
  OBVIOUS
<1>. DEFINE data == sample.data
            index == sample.index
            bytes == EncodeLanguage(data)
            whole == EncodeIndex(index)
<1>1. data \in LanguageData /\ index \in IndexData
  BY SampleArtifactsTyped
<1>. HIDE DEF data, index
<1>2. bytes \in Seq(Unit) /\ whole \in Seq(Unit)
  BY <1>1, EncodedTyped
<1>3. \A o \in Seq(Unit) : Holds(o, 0, whole) =>
         /\ DecodeIndex(o).ok <=> Len(o) = Len(whole)
         /\ DecodeIndex(o).ok => DecodeIndex(o).value = index
  BY <1>1, WholeIndexesAreRead
<1>4. \A o \in Seq(Unit) : Holds(o, 0, bytes) =>
         /\ DecodeLanguage(o).ok <=> CanEncode(data) /\ Len(o) = Len(bytes)
         /\ DecodeLanguage(o).ok => DecodeLanguage(o).value = data
         /\ DecodeLanguage(o).ok \in BOOLEAN
  BY <1>1, WholeTablesAreRead
<1>5. DecodeIndex(whole) = [ok |-> TRUE, value |-> index]
  <2>1. DecodeIndex(whole).ok /\ DecodeIndex(whole).value = index
    BY <1>2, <1>3, CutsHold
  <2>2. DecodeIndex(whole).ok = TRUE
    BY <2>1 DEF DecodeIndex
  <2>. QED  BY <2>1, <2>2 DEF DecodeIndex
<1>6. \A n \in 0..(Len(whole) - 1) : ~DecodeIndex(SubSeq(whole, 1, n)).ok
  BY <1>2, <1>3, CutsHold
<1>7. ~DecodeIndex(Append(whole, 1)).ok
  BY <1>2, <1>3, CutsHold
<1>8. /\ DecodeLanguage(bytes).ok <=> CanEncode(data)
      /\ DecodeLanguage(bytes).ok \in BOOLEAN
      /\ CanEncode(data) => DecodeLanguage(bytes).value = data
  BY <1>2, <1>4, CutsHold
<1>9. \A n \in 0..(Len(bytes) - 1) : ~DecodeLanguage(SubSeq(bytes, 1, n)).ok
  BY <1>2, <1>4, CutsHold
<1>10. ~DecodeLanguage(Append(bytes, 1)).ok
  BY <1>2, <1>4, CutsHold
<1>11. CanEncode(data) \in BOOLEAN
  BY DEF CanEncode
<1>. HIDE DEF bytes, whole
<1>12. DecodeLanguage(bytes).ok = CanEncode(data)
  <2>. DEFINE ok == DecodeLanguage(bytes).ok
              can == CanEncode(data)
  <2>1. ok \in BOOLEAN /\ can \in BOOLEAN /\ (ok <=> can)
    BY <1>8, <1>11
  <2>. HIDE DEF ok, can
  <2>2. ok = can
    BY <2>1
  <2>. QED  BY <2>2 DEF ok, can
<1>13. \A b \in {SubSeq(whole, 1, n) : n \in 0..(Len(whole) - 1)} \cup {Append(whole, 1)} :
          ~DecodeIndex(b).ok
  BY <1>6, <1>7, Zenon
<1>14. \A b \in {SubSeq(bytes, 1, n) : n \in 0..(Len(bytes) - 1)} \cup {Append(bytes, 1)} :
          ~DecodeLanguage(b).ok
  BY <1>9, <1>10, Zenon
<1>. QED  BY <1>5, <1>8, <1>12, <1>13, <1>14, Zenon
          DEF DamagedArtifactsAreRefused, data, index, bytes, whole

\* Hence for every artifact of the run, cut anywhere or continued.
THEOREM DamagedArtifactsAreAlwaysRefused == Spec => []DamagedArtifactsAreRefused
<1>1. Init => KeepsTopic /\ DamagedArtifactsAreRefused
  BY SampleStarts, ArtifactSampleIsRefused DEF DamagedArtifactsAreRefused
<1>2. KeepsTopic /\ DamagedArtifactsAreRefused /\ [Next]_sample =>
          (KeepsTopic /\ DamagedArtifactsAreRefused)'
  <2>1. DamagedArtifactsAreRefused /\ sample' = sample => DamagedArtifactsAreRefused'
    BY DEF DamagedArtifactsAreRefused
  <2>2. sample'.topic = "rolling" => DamagedArtifactsAreRefused'
    BY DEF DamagedArtifactsAreRefused
  <2>. QED  BY <2>1, <2>2, SampleStays
<1>. QED  BY <1>1, <1>2, PTL DEF Spec

-----------------------------------------------------------------------------
(* The order of the words                                                   *)

Byte == 0..TopByte

\* The first place where a word goes on as an earlier one does not.
PartsAt(u, w, k) ==
    /\ k \in 1..Len(w) /\ k <= Len(u) + 1
    /\ \A j \in 1..(k - 1) : u[j] = w[j]
    /\ k <= Len(u) => u[k] < w[k]

\* Bytes are compared as numbers.
LEMMA BytesAreNumbers == \A b \in Byte : b \in Int /\ b <= TopByte
BY DictionaryAssumption DEF Byte

\* A prefix, place by place.
LEMMA PrefixAgrees ==
    ASSUME NEW u \in Seq(Byte), NEW w \in Seq(Byte)
    PROVE  IsPrefix(u, w) <=> Len(u) <= Len(w) /\ \A i \in 1..Len(u) : u[i] = w[i]
<1>1. CASE Len(u) <= Len(w)
  <2>1. SubSeq(u, 1, Len(u)) = u
    OBVIOUS
  <2>2. Len(SubSeq(w, 1, Len(u))) = Len(u) /\ SubSeq(w, 1, Len(u)) \in Seq(Byte)
    BY <1>1
  <2>3. \A i \in 1..Len(u) : SubSeq(w, 1, Len(u))[i] = w[i]
    BY <1>1
  <2>4. u = SubSeq(w, 1, Len(u)) <=> \A i \in 1..Len(u) : u[i] = w[i]
    BY <2>2, <2>3
  <2>. QED  BY <1>1, <2>1, <2>4 DEF IsPrefix
<1>2. CASE ~(Len(u) <= Len(w))
  BY <1>2 DEF IsPrefix
<1>. QED  BY <1>1, <1>2

\* Two words part at one place, which decides their order.
LEMMA BeforeParts ==
    ASSUME NEW u \in Seq(Byte), NEW w \in Seq(Byte)
    PROVE  Before(u, w) <=> \E k \in 1..Len(w) : PartsAt(u, w, k)
<1>1. DOMAIN u = 1..Len(u) /\ DOMAIN w = 1..Len(w) /\ Len(u) \in Nat /\ Len(w) \in Nat
  OBVIOUS
<1>2. ASSUME u # w, IsPrefix(u, w)
      PROVE  PartsAt(u, w, Len(u) + 1) /\ Len(u) + 1 \in 1..Len(w)
  <2>1. Len(u) <= Len(w) /\ \A i \in 1..Len(u) : u[i] = w[i]
    BY <1>2, PrefixAgrees
  <2>2. Len(u) # Len(w)
    <3>1. SubSeq(u, 1, Len(u)) = u /\ SubSeq(w, 1, Len(w)) = w
      OBVIOUS
    <3>2. SubSeq(u, 1, Len(u)) = SubSeq(w, 1, Len(u))
      BY <1>2 DEF IsPrefix
    <3>3. ASSUME Len(u) = Len(w)
          PROVE  u = w
      <4>1. SubSeq(w, 1, Len(u)) = SubSeq(w, 1, Len(w))
        BY <3>3
      <4>. QED  BY <3>1, <3>2, <4>1
    <3>. QED  BY <1>2, <3>3
  <2>3. Len(u) + 1 \in 1..Len(w) /\ ~(Len(u) + 1 <= Len(u))
    <3>. DEFINE a == Len(u)
                b == Len(w)
    <3>1. a \in Nat /\ b \in Nat /\ a <= b /\ a # b
      BY <1>1, <2>1, <2>2
    <3>. HIDE DEF a, b
    <3>2. a + 1 \in 1..b /\ ~(a + 1 <= a)
      BY <3>1
    <3>. QED  BY <3>2 DEF a, b
  <2>4. \A j \in 1..(Len(u) + 1 - 1) : u[j] = w[j]
    BY <1>1, <2>1
  <2>. QED  BY <1>1, <2>3, <2>4 DEF PartsAt
<1>3. ASSUME NEW i \in DOMAIN u \cap DOMAIN w, u[i] < w[i],
             \A j \in 1..(i - 1) : u[j] = w[j]
      PROVE  PartsAt(u, w, i) /\ i \in 1..Len(w)
  BY <1>1, <1>3 DEF PartsAt
<1>4. ASSUME NEW k \in 1..Len(w), PartsAt(u, w, k)
      PROVE  Before(u, w)
  <2>1. CASE k <= Len(u)
    BY <1>1, <1>4, <2>1 DEF PartsAt, Before
  <2>2. CASE k = Len(u) + 1
    <3>1. IsPrefix(u, w)
      BY <1>1, <1>4, <2>2, PrefixAgrees DEF PartsAt
    <3>2. u # w
      BY <1>1, <2>2
    <3>. QED  BY <3>1, <3>2 DEF Before
  <2>. QED  BY <1>1, <1>4, <2>1, <2>2 DEF PartsAt
<1>. QED  BY <1>2, <1>3, <1>4 DEF Before

\* The order of the words is strict and total.
LEMMA BeforeOrders ==
    /\ \A u \in Seq(Byte) : ~Before(u, u)
    /\ \A u, w \in Seq(Byte) : Before(u, w) \/ u = w \/ Before(w, u)
    /\ \A u, v, w \in Seq(Byte) : Before(u, v) /\ Before(v, w) => Before(u, w)
<1>1. ASSUME NEW u \in Seq(Byte), NEW k \in 1..Len(u), PartsAt(u, u, k)
      PROVE  FALSE
  <2>1. u[k] \in Int /\ u[k] < u[k]
    BY <1>1, BytesAreNumbers DEF PartsAt
  <2>. QED  BY <2>1
<1>2. ASSUME NEW u \in Seq(Byte), NEW w \in Seq(Byte)
      PROVE  Before(u, w) \/ u = w \/ Before(w, u)
  <2>. DEFINE Differ == {i \in Nat : i \in 1..Len(u) /\ i \in 1..Len(w) /\ u[i] # w[i]}
  <2>1. CASE Differ = {}
    <3>1. \A i \in 1..Len(u) : i \in 1..Len(w) => u[i] = w[i]
      BY <2>1
    <3>2. CASE Len(u) <= Len(w)
      <4>1. IsPrefix(u, w)
        BY <3>1, <3>2, PrefixAgrees
      <4>. QED  BY <4>1 DEF Before
    <3>3. CASE Len(w) <= Len(u)
      <4>1. IsPrefix(w, u)
        BY <3>1, <3>3, PrefixAgrees
      <4>. QED  BY <4>1 DEF Before
    <3>. QED  BY <3>2, <3>3
  <2>2. CASE Differ # {}
    <3>1. PICK i \in Differ : \A j \in Differ : i <= j
      <4>1. Differ \in SUBSET Nat
        OBVIOUS
      <4>. HIDE DEF Differ
      <4>. QED  BY <2>2, <4>1, LeastNatural
    <3>2. \A j \in 1..(i - 1) : u[j] = w[j]
      BY <3>1
    <3>3. i \in 1..Len(u) /\ i \in 1..Len(w) /\ u[i] # w[i]
      BY <3>1
    <3>4. u[i] \in Int /\ w[i] \in Int
      BY <3>3, BytesAreNumbers
    <3>5. u[i] < w[i] \/ w[i] < u[i]
      BY <3>3, <3>4
    <3>6. PartsAt(u, w, i) \/ PartsAt(w, u, i)
      BY <3>2, <3>3, <3>5 DEF PartsAt
    <3>. QED  BY <3>3, <3>6, BeforeParts
  <2>. QED  BY <2>1, <2>2
<1>3. ASSUME NEW u \in Seq(Byte), NEW v \in Seq(Byte), NEW w \in Seq(Byte),
             NEW k \in 1..Len(v), PartsAt(u, v, k), NEW m \in 1..Len(w), PartsAt(v, w, m)
      PROVE  \E n \in 1..Len(w) : PartsAt(u, w, n)
  <2>1. CASE k < m
    <3>1. PartsAt(u, w, k) /\ k \in 1..Len(w)
      BY <1>3, <2>1 DEF PartsAt
    <3>. QED  BY <3>1
  <2>2. CASE m < k
    <3>1. m <= Len(v) /\ m \in 1..(k - 1) /\ \A j \in 1..(m - 1) : j \in 1..(k - 1)
      BY <1>3, <2>2
    <3>2. u[m] = v[m] /\ v[m] < w[m] /\ \A j \in 1..(m - 1) : u[j] = w[j]
      BY <1>3, <3>1 DEF PartsAt
    <3>3. m <= Len(u) + 1
      BY <1>3, <2>2 DEF PartsAt
    <3>4. PartsAt(u, w, m)
      BY <3>2, <3>3 DEF PartsAt
    <3>. QED  BY <3>4
  <2>3. CASE k = m
    <3>1. k <= Len(u) =>
            u[k] < v[k] /\ v[k] < w[k] /\ u[k] \in Int /\ v[k] \in Int /\ w[k] \in Int
      BY <1>3, <2>3, BytesAreNumbers DEF PartsAt
    <3>2. PartsAt(u, w, k)
      BY <1>3, <2>3, <3>1 DEF PartsAt
    <3>. QED  BY <2>3, <3>2
  <2>. QED  BY <2>1, <2>2, <2>3
<1>4. \A u \in Seq(Byte) : ~Before(u, u)
  BY <1>1, BeforeParts
<1>5. \A u, v, w \in Seq(Byte) : Before(u, v) /\ Before(v, w) => Before(u, w)
  <2>1. TAKE u, v, w \in Seq(Byte)
  <2>2. HAVE Before(u, v) /\ Before(v, w)
  <2>3. PICK k \in 1..Len(v) : PartsAt(u, v, k)
    BY <2>2, BeforeParts
  <2>4. PICK m \in 1..Len(w) : PartsAt(v, w, m)
    BY <2>2, BeforeParts
  <2>. QED  BY <1>3, <2>3, <2>4, BeforeParts
<1>. QED  BY <1>2, <1>4, <1>5

\* The words that begin with a prefix stand together.
LEMMA PrefixesStandTogether ==
    ASSUME NEW p \in Seq(Byte), NEW u \in Seq(Byte), NEW v \in Seq(Byte),
           NEW w \in Seq(Byte),
           IsPrefix(p, u), IsPrefix(p, w), Before(u, v), Before(v, w)
    PROVE  IsPrefix(p, v)
<1>1. /\ Len(p) <= Len(u) /\ \A i \in 1..Len(p) : p[i] = u[i]
      /\ Len(p) <= Len(w) /\ \A i \in 1..Len(p) : p[i] = w[i]
  BY PrefixAgrees
<1>2. PICK k \in 1..Len(v) : PartsAt(u, v, k)
  BY BeforeParts
<1>3. PICK m \in 1..Len(w) : PartsAt(v, w, m)
  BY BeforeParts
<1>4. CASE k > Len(p)
  <2>1. Len(p) <= Len(v) /\ \A i \in 1..Len(p) : u[i] = v[i]
    BY <1>2, <1>4 DEF PartsAt
  <2>. QED  BY <1>1, <2>1, PrefixAgrees
<1>5. CASE m > Len(p)
  <2>1. Len(p) <= Len(v) /\ \A i \in 1..Len(p) : v[i] = w[i]
    BY <1>3, <1>5 DEF PartsAt
  <2>. QED  BY <1>1, <2>1, PrefixAgrees
<1>6. CASE k <= Len(p) /\ m <= Len(p)
  <2>1. /\ k \in 1..Len(p) /\ k \in 1..Len(u) /\ k \in 1..Len(w)
        /\ m \in 1..Len(p) /\ m \in 1..Len(u) /\ m \in 1..Len(w)
    BY <1>1, <1>6
  <2>2. u[k] < v[k] /\ u[k] = w[k] /\ u[m] = w[m]
    BY <1>1, <1>2, <2>1 DEF PartsAt
  <2>3. \A i \in 1..Len(u) : u[i] \in Int
    BY BytesAreNumbers
  <2>4. \A i \in 1..Len(v) : v[i] \in Int
    BY BytesAreNumbers
  <2>5. CASE k < m
    <3>1. k \in 1..(m - 1)
      BY <2>5
    <3>2. v[k] = w[k]
      BY <1>3, <3>1 DEF PartsAt
    <3>. QED  BY <2>1, <2>2, <2>3, <3>2
  <2>6. CASE m < k
    <3>1. m \in 1..(k - 1) /\ m <= Len(v) /\ m \in 1..Len(v)
      BY <2>6
    <3>2. u[m] = v[m] /\ v[m] < w[m]
      BY <1>2, <1>3, <3>1 DEF PartsAt
    <3>. QED  BY <2>1, <2>2, <2>3, <3>2
  <2>7. CASE k = m
    <3>1. v[k] < w[k] /\ k \in 1..Len(v)
      BY <1>2, <1>3, <2>7 DEF PartsAt
    <3>. QED  BY <2>1, <2>2, <2>3, <2>4, <3>1
  <2>. QED  BY <2>5, <2>6, <2>7
<1>. QED  BY <1>4, <1>5, <1>6

\* A set of places has a last one.
LEMMA GreatestPosition ==
    ASSUME NEW n \in Nat, NEW T \in SUBSET (1..n), T # {}
    PROVE  \E i \in T : \A j \in T : j <= i
<1>. DEFINE Down == {k \in Nat : n - k \in T}
<1>1. Down \in SUBSET Nat /\ Down # {}
  <2>1. PICK j \in T : TRUE
    OBVIOUS
  <2>2. n - j \in Nat /\ n - (n - j) = j
    OBVIOUS
  <2>. QED  BY <2>1, <2>2
<1>2. PICK k \in Down : \A m \in Down : k <= m
  <2>. HIDE DEF Down
  <2>. QED  BY <1>1, LeastNatural
<1>3. ASSUME NEW j \in T
      PROVE  j <= n - k
  <2>1. n - j \in Nat /\ n - (n - j) = j
    OBVIOUS
  <2>2. n - j \in Down
    BY <2>1
  <2>. QED  BY <1>2, <2>2
<1>. QED  BY <1>2, <1>3

\* The range the walk of the dictionary asks for is the words that begin with
\* the token, also when the last letters of the alphabet end it.
LEMMA RangeIsThePrefix ==
    ASSUME NEW token \in Seq(Byte), NEW w \in Seq(Byte)
    PROVE  InRange(w, token) <=> IsPrefix(token, w)
<1>. DEFINE low == {i \in DOMAIN token : token[i] < TopByte}
            last == CHOOSE i \in low : \A j \in low : j <= i
            upper == Append(SubSeq(token, 1, last - 1), token[last] + 1)
<1>1. low \in SUBSET (1..Len(token)) /\ Len(token) \in Nat
  OBVIOUS
<1>2. low # {} => last \in low /\ \A j \in low : j <= last
  <2>. HIDE DEF low
  <2>. QED  BY <1>1, GreatestPosition
<1>3. InRange(w, token) <=> ~Before(w, token) /\ (low = {} \/ Before(w, upper))
  <2>1. PrefixUpperBound(token) = IF low = {} THEN <<>> ELSE upper
    BY DEF PrefixUpperBound
  <2>2. low # {} => upper # <<>>
    <3>1. low # {} => SubSeq(token, 1, last - 1) \in Seq(Byte)
      BY <1>1, <1>2
    <3>2. \A t \in Seq(Byte) : \A x : Append(t, x) # <<>>
      OBVIOUS
    <3>. HIDE DEF last, low
    <3>. QED  BY <3>1, <3>2, Zenon
  <2>. HIDE DEF low, upper
  <2>. QED  BY <2>1, <2>2 DEF InRange
<1>4. \A i \in 1..Len(token) : token[i] \in Int /\ token[i] <= TopByte
  BY BytesAreNumbers
<1>5. \A i \in 1..Len(w) : w[i] \in Int /\ w[i] <= TopByte
  BY BytesAreNumbers
<1>6. ASSUME IsPrefix(token, w)
      PROVE  ~Before(w, token)
  <2>1. SUFFICES ASSUME NEW k \in 1..Len(token), PartsAt(w, token, k)
                 PROVE  FALSE
    BY BeforeParts
  <2>2. k <= Len(w) /\ token[k] = w[k]
    BY <1>6, PrefixAgrees
  <2>3. w[k] < token[k]
    BY <2>1, <2>2 DEF PartsAt
  <2>. QED  BY <1>4, <2>2, <2>3
<1>7. ASSUME ~IsPrefix(token, w), ~Before(w, token)
      PROVE  \E k \in 1..Len(w) : /\ k \in 1..Len(token)
                                  /\ \A j \in 1..(k - 1) : token[j] = w[j]
                                  /\ token[k] < w[k]
  <2>1. IsPrefix(token, token)
    BY PrefixAgrees
  <2>2. Before(token, w)
    BY <1>7, <2>1, BeforeOrders
  <2>3. PICK k \in 1..Len(w) : PartsAt(token, w, k)
    BY <2>2, BeforeParts
  <2>4. k <= Len(token)
    <3>1. SUFFICES ASSUME k = Len(token) + 1
                   PROVE  FALSE
      BY <1>1, <2>3 DEF PartsAt
    <3>2. Len(token) <= Len(w) /\ \A j \in 1..Len(token) : token[j] = w[j]
      BY <2>3, <3>1 DEF PartsAt
    <3>. QED  BY <1>7, <3>2, PrefixAgrees
  <2>. QED  BY <2>3, <2>4 DEF PartsAt
<1>8. CASE low = {}
  <2>1. ASSUME ~IsPrefix(token, w), ~Before(w, token)
        PROVE  FALSE
    <3>1. PICK k \in 1..Len(w) : /\ k \in 1..Len(token)
                                 /\ \A j \in 1..(k - 1) : token[j] = w[j]
                                 /\ token[k] < w[k]
      BY <1>7, <2>1
    <3>2. token[k] \in Int /\ w[k] \in Int /\ w[k] <= TopByte /\ token[k] < w[k]
      BY <1>4, <1>5, <3>1, Zenon
    <3>3. token[k] < TopByte
      BY <3>2, DictionaryAssumption
    <3>. QED  BY <1>8, <3>1, <3>3
  <2>. QED  BY <1>3, <1>6, <1>8, <2>1
<1>9. CASE low # {}
  <2>. DEFINE q == last
  <2>1. q \in 1..Len(token) /\ token[q] < TopByte /\ \A j \in low : j <= q
    BY <1>2, <1>9
  <2>. HIDE DEF last
  <2>2. /\ upper \in Seq(Int) /\ Len(upper) = q /\ upper[q] = token[q] + 1
        /\ \A j \in 1..(q - 1) : upper[j] = token[j]
    <3>1. SubSeq(token, 1, q - 1) \in Seq(Byte) /\ Len(SubSeq(token, 1, q - 1)) = q - 1
      BY <2>1
    <3>2. \A j \in 1..(q - 1) : SubSeq(token, 1, q - 1)[j] = token[j]
      BY <2>1
    <3>3. token[q] + 1 \in Int /\ SubSeq(token, 1, q - 1) \in Seq(Int)
      BY <1>4, <2>1, <3>1, BytesAreNumbers
    <3>. DEFINE t == SubSeq(token, 1, q - 1)
                x == token[q] + 1
    <3>. HIDE DEF q, t, x
    <3>4. t \in Seq(Int) /\ x \in Int /\ Len(t) = q - 1 /\ q \in Nat
      BY <2>1, <3>1, <3>3 DEF t, x
    <3>5. Append(t, x) \in Seq(Int) /\ Len(Append(t, x)) = q /\ Append(t, x)[q] = x
      BY <3>4
    <3>6. \A j \in 1..(q - 1) : Append(t, x)[j] = t[j]
      BY <3>4
    <3>7. upper = Append(t, x)
      BY Zenon DEF t, x, q
    <3>. HIDE DEF upper
    <3>. QED  BY <3>2, <3>5, <3>6, <3>7 DEF t, x
  <2>3. upper \in Seq(Byte)
    <3>1. \A j \in 1..q : upper[j] \in Byte
      BY <1>4, <2>1, <2>2, DictionaryAssumption DEF Byte
    <3>. HIDE DEF upper
    <3>. QED  BY <2>2, <3>1
  <2>. HIDE DEF upper, low, q
  <2>4. ASSUME IsPrefix(token, w)
        PROVE  Before(w, upper)
    <3>1. Len(token) <= Len(w) /\ \A i \in 1..Len(token) : token[i] = w[i]
      BY <2>4, PrefixAgrees
    <3>2. q \in 1..Len(upper) /\ q <= Len(w) + 1 /\ w[q] < upper[q]
      BY <1>4, <2>1, <2>2, <3>1
    <3>3. \A j \in 1..(q - 1) : w[j] = upper[j]
      BY <2>1, <2>2, <3>1
    <3>4. PartsAt(w, upper, q)
      BY <3>2, <3>3 DEF PartsAt
    <3>. QED  BY <2>3, <3>2, <3>4, BeforeParts
  <2>5. ASSUME ~IsPrefix(token, w), ~Before(w, token), Before(w, upper)
        PROVE  FALSE
    <3>1. PICK k \in 1..Len(w) : /\ k \in 1..Len(token)
                                 /\ \A j \in 1..(k - 1) : token[j] = w[j]
                                 /\ token[k] < w[k]
      BY <1>7, <2>5
    <3>2. k <= q
      <4>1. token[k] \in Int /\ w[k] \in Int /\ w[k] <= TopByte /\ token[k] < w[k]
        BY <1>4, <1>5, <3>1, Zenon
      <4>2. token[k] < TopByte
        BY <4>1, DictionaryAssumption
      <4>3. k \in low
        BY <3>1, <4>2 DEF low
      <4>. QED  BY <2>1, <4>3
    <3>3. PICK m \in 1..Len(upper) : PartsAt(w, upper, m)
      BY <2>3, <2>5, BeforeParts
    <3>4. m \in 1..q
      BY <2>2, <3>3
    <3>5. CASE k < m
      <4>1. k \in 1..(m - 1) /\ k \in 1..(q - 1)
        BY <3>1, <3>4, <3>5, <2>1
      <4>2. w[k] = upper[k] /\ upper[k] = token[k]
        BY <2>2, <3>3, <4>1 DEF PartsAt
      <4>3. token[k] \in Int /\ token[k] < w[k]
        BY <1>4, <3>1, Zenon
      <4>. QED  BY <4>2, <4>3
    <3>6. CASE m < k
      <4>1. m \in 1..(k - 1) /\ m \in 1..(q - 1) /\ m <= Len(w) /\ m \in 1..Len(token)
        BY <3>1, <3>2, <3>4, <3>6, <2>1
      <4>2. token[m] = w[m] /\ upper[m] = token[m] /\ w[m] < upper[m]
        BY <2>2, <3>1, <3>3, <4>1 DEF PartsAt
      <4>. QED  BY <1>4, <4>1, <4>2
    <3>7. CASE k = m
      <4>1. w[k] < upper[k]
        BY <3>1, <3>3, <3>7 DEF PartsAt
      <4>2. upper[k] = token[k] \/ upper[k] = token[k] + 1
        BY <2>1, <2>2, <3>2, <3>1
      <4>3. token[k] \in Int /\ w[k] \in Int /\ token[k] < w[k]
        BY <1>4, <1>5, <3>1, Zenon
      <4>. QED  BY <4>1, <4>2, <4>3
    <3>. QED  BY <3>1, <3>4, <3>5, <3>6, <3>7
  <2>. QED  BY <1>3, <1>6, <1>9, <2>4, <2>5
<1>. QED  BY <1>8, <1>9
-----------------------------------------------------------------------------
(* The walk of a dictionary                                                 *)

\* A dictionary: finitely many words, none empty, and their counts.
IsDictionary(dict) ==
    /\ dict \in [DOMAIN dict -> Nat]
    /\ IsFiniteSet(DOMAIN dict)
    /\ DOMAIN dict \subseteq Seq(Byte) \ {<<>>}

\* A dictionary is walked word by word, each one before the next.
LEMMA WalkInOrder ==
    ASSUME NEW dict, DOMAIN dict \subseteq Seq(Byte), IsFiniteSet(DOMAIN dict)
    PROVE  /\ Cardinality(DOMAIN dict) \in Nat
           /\ Stream(dict) \in [1..Cardinality(DOMAIN dict) -> DOMAIN dict]
           /\ \A m, n \in 1..Cardinality(DOMAIN dict) :
                 m < n => Before(Stream(dict)[m], Stream(dict)[n])
<1>. DEFINE D == DOMAIN dict
            size == Cardinality(D)
            below(w) == {u \in D : Before(u, w)}
            rank(w) == Cardinality(below(w))
<1>1. size \in Nat /\ \A S \in SUBSET D : IsFiniteSet(S) /\ Cardinality(S) \in Nat
  BY FS_Subset, FS_CardinalityType
<1>. HIDE DEF D
<1>2. /\ \A u \in D : ~Before(u, u)
      /\ \A u, w \in D : Before(u, w) \/ u = w \/ Before(w, u)
      /\ \A u, v, w \in D : Before(u, v) /\ Before(v, w) => Before(u, w)
  <2>1. \A u \in D : u \in Seq(Byte)
    BY DEF D
  <2>. QED  BY <2>1, BeforeOrders, Zenon
<1>3. ASSUME NEW c \in D
      PROVE  rank(c) \in 0..(size - 1)
  <2>1. below(c) \in SUBSET (D \ {c})
    BY <1>2
  <2>2. IsFiniteSet(D \ {c}) /\ Cardinality(D \ {c}) = size - 1
    BY FS_RemoveElement DEF D
  <2>3. below(c) \in SUBSET D
    OBVIOUS
  <2>4. rank(c) <= size - 1 /\ rank(c) \in Nat
    <3>. HIDE DEF below
    <3>. QED  BY <1>1, <2>1, <2>2, <2>3, FS_Subset
  <2>. QED  BY <1>1, <2>4
<1>4. ASSUME NEW c \in D, NEW e \in D, Before(c, e)
      PROVE  rank(c) < rank(e)
  <2>1. below(c) \in SUBSET (below(e) \ {c}) /\ c \in below(e)
    BY <1>2, <1>4
  <2>2. below(e) \in SUBSET D /\ below(c) \in SUBSET D
    OBVIOUS
  <2>. HIDE DEF below
  <2>3. IsFiniteSet(below(e) \ {c}) /\ Cardinality(below(e) \ {c}) = rank(e) - 1
    BY <1>1, <2>1, <2>2, FS_RemoveElement
  <2>4. rank(c) <= rank(e) - 1
    BY <2>1, <2>3, FS_Subset
  <2>. QED  BY <1>1, <2>2, <2>4
<1>5. \A c \in D : rank(c) \in Int
  BY <1>1, <1>3
<1>. HIDE DEF below, rank
<1>6. \A c, e \in D : rank(c) = rank(e) => c = e
  <2>1. \A c, e \in D : Before(c, e) => rank(c) < rank(e)
    BY <1>4
  <2>. QED  BY <1>2, <1>5, <2>1
<1>7. \A i \in 1..size : \E c \in D : rank(c) = i - 1
  <2>. DEFINE r == [c \in D |-> rank(c)]
  <2>1. r \in Injection(D, 0..(size - 1))
    BY <1>3, <1>6 DEF Injection, IsInjective
  <2>2. IsFiniteSet(0..(size - 1)) /\ Cardinality(0..(size - 1)) = size
    <3>1. 0 \in Int /\ size - 1 \in Int
      BY <1>1
    <3>2. /\ IsFiniteSet(0..(size - 1))
          /\ Cardinality(0..(size - 1)) = IF 0 > size - 1 THEN 0 ELSE size - 1 - 0 + 1
      BY <3>1, FS_Interval
    <3>. QED  BY <1>1, <3>2
  <2>3. r \in Surjection(D, 0..(size - 1))
    <3>. HIDE DEF r
    <3>. QED  BY <2>1, <2>2, FS_Injection
  <2>4. ASSUME NEW i \in 1..size
        PROVE  \E c \in D : rank(c) = i - 1
    <3>1. i - 1 \in 0..(size - 1)
      BY <1>1
    <3>. QED  BY <2>3, <3>1 DEF Surjection
  <2>. QED  BY <2>4
<1>. DEFINE nth(i) == CHOOSE c \in D : rank(c) = i - 1
<1>8. \A i \in 1..size : nth(i) \in D /\ rank(nth(i)) = i - 1
  BY <1>7
<1>9. Stream(dict) = [i \in 1..size |-> nth(i)]
  BY Zenon DEF Stream, rank, below, D
<1>. HIDE DEF nth, size
<1>10. Stream(dict) \in [1..size -> D]
  BY <1>8, <1>9
<1>11. ASSUME NEW m \in 1..size, NEW n \in 1..size, m < n
       PROVE  Before(Stream(dict)[m], Stream(dict)[n])
  <2>1. Stream(dict)[m] = nth(m) /\ Stream(dict)[n] = nth(n)
    BY <1>9
  <2>2. nth(m) \in D /\ nth(n) \in D /\ rank(nth(m)) = m - 1 /\ rank(nth(n)) = n - 1
    BY <1>8
  <2>3. ~(rank(nth(n)) < rank(nth(m))) /\ rank(nth(n)) # rank(nth(m))
    BY <1>1, <1>11, <2>2 DEF size
  <2>4. Before(nth(n), nth(m)) => rank(nth(n)) < rank(nth(m))
    BY <1>4, <2>2
  <2>5. nth(m) # nth(n)
    BY <2>3
  <2>6. Before(nth(m), nth(n))
    BY <1>2, <2>2, <2>3, <2>4, <2>5
  <2>. QED  BY <2>1, <2>6
<1>12. size \in Nat
  BY <1>1 DEF size
<1>. QED  BY <1>10, <1>11, <1>12 DEF size, D
-----------------------------------------------------------------------------
(* One word of the walk that builds the index                               *)

Entries == [prefix : Seq(Byte), sum : Nat, sample : Nat]
Indexes == [active : Seq(Entries), entries : Seq(Entries)]

\* A new entry.
LEMMA OpenEntryTyped == \A p \in Seq(Byte) : Entry(p) \in Entries /\ Entry(p).prefix = p
BY DEF Entry, Entries

\* An entry that counts one more word keeps its prefix.
LEMMA RecordTyped ==
    ASSUME NEW entry \in Entries, NEW value \in Nat
    PROVE  RecordSample(entry, value) \in Entries /\
             RecordSample(entry, value).prefix = entry.prefix
<1>1. SaturatingAdd(entry.sum, value) \in Nat
  BY DictionaryAssumption DEF SaturatingAdd, Entries
<1>2. RecordSample(entry, value) =
         IF entry.sample >= SampleCap THEN entry
         ELSE [prefix |-> entry.prefix, sum |-> SaturatingAdd(entry.sum, value),
               sample |-> entry.sample + 1]
  <2>. DEFINE more == SaturatingAdd(entry.sum, value)
              r == [prefix |-> entry.prefix, sum |-> more, sample |-> entry.sample + 1]
  <2>1. entry = [prefix |-> entry.prefix, sum |-> entry.sum, sample |-> entry.sample]
    BY DEF Entries
  <2>2. r = [prefix |-> r.prefix, sum |-> r.sum, sample |-> r.sample]
    OBVIOUS
  <2>3. r.prefix = entry.prefix /\ r.sum = more /\ r.sample = entry.sample + 1
    OBVIOUS
  <2>4. [entry EXCEPT !.sum = SaturatingAdd(@, value), !.sample = @ + 1] =
           [entry EXCEPT !.sum = more, !.sample = entry.sample + 1]
    BY Zenon
  <2>. HIDE DEF r, more
  <2>5. [entry EXCEPT !.sum = more, !.sample = entry.sample + 1] = r
    BY <2>1, <2>2, <2>3
  <2>. QED  BY <2>4, <2>5, Zenon DEF RecordSample, r, more
<1>. QED  BY <1>1, <1>2 DEF Entries

\* The active entries that a word continues are the first ones.
LEMMA KeptAreFirst ==
    ASSUME NEW n \in Nat, NEW active, DOMAIN active = 1..n, NEW word
    PROVE  /\ Kept(active, word) \in 0..n
           /\ \A i \in 1..Kept(active, word) : IsPrefix(active[i].prefix, word)
           /\ Kept(active, word) < n =>
                 ~IsPrefix(active[Kept(active, word) + 1].prefix, word)
<1>. DEFINE goes(i) == IsPrefix(active[i].prefix, word)
            Stops == {i \in Nat : i \in 1..n /\ ~goes(i)}
            whole == {k \in 1..n : \A i \in 1..k : goes(i)}
<1>1. Kept(active, word) = Cardinality(whole)
  BY DEF Kept
<1>. HIDE DEF goes
<1>2. CASE Stops = {}
  <2>1. whole = 1..n
    BY <1>2
  <2>2. Cardinality(1..n) = n
    BY FS_Interval
  <2>3. Kept(active, word) = n
    BY <1>1, <2>1, <2>2
  <2>4. \A i \in 1..n : goes(i)
    BY <1>2
  <2>. QED  BY <2>3, <2>4 DEF goes
<1>3. CASE Stops # {}
  <2>1. PICK m \in Stops : \A j \in Stops : m <= j
    <3>1. Stops \in SUBSET Nat
      OBVIOUS
    <3>. HIDE DEF Stops
    <3>. QED  BY <1>3, <3>1, LeastNatural
  <2>2. \A i \in 1..(m - 1) : goes(i)
    BY <2>1
  <2>3. whole = 1..(m - 1)
    <3>1. \A k \in whole : k \in 1..(m - 1)
      BY <2>1
    <3>2. \A k \in 1..(m - 1) : k \in whole
      BY <2>1, <2>2
    <3>. HIDE DEF whole
    <3>3. whole \subseteq 1..n
      BY DEF whole
    <3>. QED  BY <3>1, <3>2
  <2>4. Cardinality(1..(m - 1)) = m - 1
    <3>1. m \in Nat /\ m >= 1 /\ 1 \in Int /\ m - 1 \in Int
      BY <2>1
    <3>. QED  BY <3>1, FS_Interval
  <2>5. Kept(active, word) = m - 1
    <3>. HIDE DEF whole
    <3>. QED  BY <1>1, <2>3, <2>4
  <2>6. m \in 1..n /\ ~goes(m) /\ (m - 1) + 1 = m /\ m - 1 \in 0..n
    BY <2>1
  <2>. HIDE DEF Stops
  <2>. QED  BY <2>2, <2>5, <2>6 DEF goes
<1>. QED  BY <1>2, <1>3

\* The prefixes of a word are its beginnings.
LEMMA PrefixIsCut ==
    ASSUME NEW w \in Seq(Byte)
    PROVE  /\ \A i \in 1..Len(w) : /\ SubSeq(w, 1, i) \in Seq(Byte) \ {<<>>}
                                   /\ Len(SubSeq(w, 1, i)) = i
                                   /\ IsPrefix(SubSeq(w, 1, i), w)
           /\ \A p \in Seq(Byte) \ {<<>>} : IsPrefix(p, w) =>
                 Len(p) \in 1..Len(w) /\ p = SubSeq(w, 1, Len(p))
<1>1. ASSUME NEW i \in 1..Len(w)
      PROVE  /\ SubSeq(w, 1, i) \in Seq(Byte) \ {<<>>} /\ Len(SubSeq(w, 1, i)) = i
             /\ IsPrefix(SubSeq(w, 1, i), w)
  <2>1. SubSeq(w, 1, i) \in Seq(Byte) /\ Len(SubSeq(w, 1, i)) = i
    OBVIOUS
  <2>2. SubSeq(w, 1, i) # <<>>
    BY <2>1
  <2>3. \A j \in 1..i : SubSeq(w, 1, i)[j] = w[j]
    OBVIOUS
  <2>. DEFINE p == SubSeq(w, 1, i)
  <2>. HIDE DEF p
  <2>4. p \in Seq(Byte) /\ Len(p) = i /\ \A j \in 1..i : p[j] = w[j]
    BY <2>1, <2>3 DEF p
  <2>5. IsPrefix(p, w)
    BY <2>4, PrefixAgrees
  <2>. QED  BY <2>1, <2>2, <2>5 DEF p
<1>2. ASSUME NEW p \in Seq(Byte) \ {<<>>}, IsPrefix(p, w)
      PROVE  Len(p) \in 1..Len(w) /\ p = SubSeq(w, 1, Len(p))
  <2>1. SubSeq(p, 1, Len(p)) = p
    OBVIOUS
  <2>. QED  BY <1>2, <2>1 DEF IsPrefix
<1>. QED  BY <1>1, <1>2

\* What the walk of one word makes of the active entries.
LEMMA WalkActive ==
    ASSUME NEW index \in Indexes, NEW w \in Seq(Byte) \ {<<>>}, NEW value \in Nat
    PROVE  LET keep == Kept(index.active, w)
               next == Walk(index, w, value)
           IN  /\ next \in Indexes
               /\ next.entries =
                    index.entries \o SubSeq(index.active, keep + 1, Len(index.active))
               /\ keep <= Len(w) =>
                     /\ Len(next.active) = Len(w)
                     /\ \A i \in 1..Len(w) : next.active[i] =
                           RecordSample(IF i <= keep THEN index.active[i]
                                        ELSE Entry(SubSeq(w, 1, i)), value)
<1>. DEFINE a == index.active
            n == Len(a)
            l == Len(w)
            keep == Kept(a, w)
            next == Walk(index, w, value)
            ends == PrefixEnds(w)
            opened == [i \in 1..(Len(ends) - keep) |-> Entry(SubSeq(w, 1, ends[keep + i]))]
            more == IF Len(ends) > keep THEN opened ELSE <<>>
            active == SubSeq(a, 1, keep) \o more
<1>1. /\ n \in Nat /\ l \in Nat /\ DOMAIN a = 1..n /\ DOMAIN w = 1..l
      /\ a \in Seq(Entries) /\ index.entries \in Seq(Entries)
  BY DEF Indexes
<1>2. keep \in 0..n
  <2>. HIDE DEF a, n
  <2>. QED  BY <1>1, KeptAreFirst
<1>. HIDE DEF keep, next
<1>3. Len(ends) = l /\ \A i \in 1..l : ends[i] = i
  BY DEF PrefixEnds
<1>. HIDE DEF ends, a
<1>4. /\ SubSeq(a, 1, keep) \in Seq(Entries) /\ Len(SubSeq(a, 1, keep)) = keep
      /\ \A i \in 1..keep : SubSeq(a, 1, keep)[i] = a[i]
      /\ SubSeq(a, keep + 1, n) \in Seq(Entries)
  BY <1>1, <1>2
<1>. HIDE DEF n, l
<1>5. ASSUME l > keep
      PROVE  /\ active \in Seq(Entries)
             /\ keep <= l =>
                   /\ Len(active) = l
                   /\ \A i \in 1..l : active[i] = IF i <= keep THEN a[i]
                        ELSE Entry(SubSeq(w, 1, i))
  <2>1. \A i \in 1..(l - keep) : ends[keep + i] = keep + i /\ keep + i \in 1..l
    BY <1>1, <1>2, <1>3
  <2>2. \A i \in 1..l : SubSeq(w, 1, i) \in Seq(Byte)
    BY DEF l
  <2>. DEFINE open == [i \in 1..(l - keep) |-> Entry(SubSeq(w, 1, keep + i))]
  <2>3. more = open
    BY <1>3, <1>5, <2>1
  <2>4. open \in Seq(Entries) /\ Len(open) = l - keep
    <3>1. \A i \in 1..(l - keep) : Entry(SubSeq(w, 1, keep + i)) \in Entries
      BY <2>1, <2>2, OpenEntryTyped
    <3>2. l - keep \in Nat
      BY <1>1, <1>2, <1>5
    <3>. QED  BY <3>1, <3>2
  <2>5. \A i \in 1..(l - keep) : open[i] = Entry(SubSeq(w, 1, keep + i))
    OBVIOUS
  <2>. HIDE DEF open, more
  <2>6. active \in Seq(Entries) /\ Len(active) = l
    BY <1>1, <1>2, <1>4, <1>5, <2>3, <2>4
  <2>7. /\ \A i \in 1..keep : active[i] = a[i]
        /\ \A j \in 1..(l - keep) : active[keep + j] = open[j]
    <3>1. \A s, t \in Seq(Entries) :
             /\ \A i \in 1..Len(s) : (s \o t)[i] = s[i]
             /\ \A j \in 1..Len(t) : (s \o t)[Len(s) + j] = t[j]
      OBVIOUS
    <3>. DEFINE s == SubSeq(a, 1, keep)
    <3>2. s \in Seq(Entries) /\ Len(s) = keep /\ \A i \in 1..keep : s[i] = a[i]
      BY <1>4
    <3>. HIDE DEF s
    <3>3. active = s \o open
      BY <2>3 DEF s
    <3>. HIDE DEF active
    <3>4. /\ \A i \in 1..Len(s) : active[i] = s[i]
          /\ \A j \in 1..Len(open) : active[Len(s) + j] = open[j]
      BY <2>4, <3>1, <3>2, <3>3, Zenon
    <3>. QED  BY <2>4, <3>2, <3>4
  <2>8. ASSUME NEW i \in 1..l
        PROVE  active[i] = IF i <= keep THEN a[i] ELSE Entry(SubSeq(w, 1, i))
    <3>1. CASE i <= keep
      <4>1. i \in 1..keep
        BY <1>1, <1>2, <3>1
      <4>. QED  BY <2>7, <3>1, <4>1
    <3>2. CASE ~(i <= keep)
      <4>. DEFINE j == i - keep
      <4>1. j \in 1..(l - keep) /\ keep + j = i
        BY <1>1, <1>2, <3>2
      <4>. HIDE DEF j, active
      <4>2. active[keep + j] = open[j]
        BY <2>7, <4>1, Zenon
      <4>3. active[i] = open[j]
        BY <4>1, <4>2, Zenon
      <4>. QED  BY <2>5, <3>2, <4>1, <4>3
    <3>. QED  BY <3>1, <3>2
  <2>. QED  BY <2>6, <2>8
<1>6. ASSUME ~(l > keep)
      PROVE  /\ active \in Seq(Entries)
             /\ keep <= l =>
                   /\ Len(active) = l
                   /\ \A i \in 1..l : active[i] = IF i <= keep THEN a[i]
                        ELSE Entry(SubSeq(w, 1, i))
  <2>1. more = <<>>
    BY <1>3, <1>6
  <2>. HIDE DEF more
  <2>2. active = SubSeq(a, 1, keep)
    BY <1>4, <2>1
  <2>3. active \in Seq(Entries)
    BY <1>4, <2>2, Zenon
  <2>4. ASSUME keep <= l
        PROVE  Len(active) = l /\ \A i \in 1..l : i <= keep /\ active[i] = a[i]
    <3>1. keep = l
      BY <1>1, <1>2, <1>6, <2>4
    <3>. HIDE DEF active
    <3>2. Len(active) = keep /\ \A i \in 1..keep : active[i] = a[i]
      BY <1>4, <2>2, Zenon
    <3>. QED  BY <1>1, <3>1, <3>2
  <2>. HIDE DEF active
  <2>. QED  BY <2>3, <2>4
<1>7. /\ active \in Seq(Entries)
      /\ keep <= l =>
            /\ Len(active) = l
            /\ \A i \in 1..l : active[i] = IF i <= keep THEN a[i]
                 ELSE Entry(SubSeq(w, 1, i))
  <2>1. l > keep \/ ~(l > keep)
    OBVIOUS
  <2>2. l > keep => keep <= l
    BY <1>1, <1>2
  <2>. HIDE DEF active
  <2>. QED  BY <1>5, <1>6, <2>1, <2>2
<1>8. next = [active |-> [i \in DOMAIN active |-> RecordSample(active[i], value)],
              entries |-> index.entries \o SubSeq(a, keep + 1, n)]
  BY Zenon DEF Walk, next, active, more, opened, ends, a, n, keep
<1>. HIDE DEF active
<1>9. /\ [i \in DOMAIN active |-> RecordSample(active[i], value)] \in Seq(Entries)
      /\ Len([i \in DOMAIN active |-> RecordSample(active[i], value)]) = Len(active)
  <2>1. \A i \in 1..Len(active) : active[i] \in Entries
    BY <1>7
  <2>2. \A i \in 1..Len(active) : RecordSample(active[i], value) \in Entries
    BY <2>1, RecordTyped
  <2>3. DOMAIN active = 1..Len(active) /\ Len(active) \in Nat
    BY <1>7
  <2>. QED  BY <2>2, <2>3
<1>10. index.entries \o SubSeq(a, keep + 1, n) \in Seq(Entries)
  BY <1>1, <1>4
<1>11. ASSUME keep <= l, NEW i \in 1..l
       PROVE  next.active[i] = RecordSample(IF i <= keep THEN a[i]
                                            ELSE Entry(SubSeq(w, 1, i)), value)
  <2>1. i \in DOMAIN active /\ active[i] = IF i <= keep THEN a[i]
          ELSE Entry(SubSeq(w, 1, i))
    BY <1>7, <1>11
  <2>2. next.active[i] = RecordSample(active[i], value)
    BY <1>8, <2>1
  <2>. HIDE DEF l
  <2>. QED  BY <2>1, <2>2, Zenon
<1>12. next \in Indexes
  BY <1>8, <1>9, <1>10 DEF Indexes
<1>13. next.entries = index.entries \o SubSeq(a, keep + 1, n)
  <2>. DEFINE m == index.entries \o SubSeq(a, keep + 1, n)
              x == [i \in DOMAIN active |-> RecordSample(active[i], value)]
  <2>. HIDE DEF m, x
  <2>1. next = [active |-> x, entries |-> m]
    BY <1>8, Zenon DEF m, x
  <2>2. next.entries = m
    BY <2>1
  <2>. QED  BY <2>2, Zenon DEF m
<1>14. keep <= l => Len(next.active) = l
  BY <1>7, <1>8, <1>9
<1>. QED  BY <1>11, <1>12, <1>13, <1>14 DEF l, n, a, keep, next

\* The members of two sequences joined.
LEMMA ToSetJoined ==
    ASSUME NEW S, NEW s \in Seq(S), NEW t \in Seq(S)
    PROVE  ToSet(s \o t) = ToSet(s) \cup ToSet(t)
<1>1. /\ DOMAIN s = 1..Len(s) /\ DOMAIN t = 1..Len(t) /\ Len(s) \in Nat /\ Len(t) \in Nat
      /\ DOMAIN (s \o t) = 1..(Len(s) + Len(t))
      /\ \A i \in 1..Len(s) : (s \o t)[i] = s[i]
      /\ \A j \in 1..Len(t) : (s \o t)[Len(s) + j] = t[j]
  OBVIOUS
<1>. DEFINE both == s \o t
<1>. HIDE DEF both
<1>2. ASSUME NEW i \in DOMAIN both
      PROVE  both[i] \in ToSet(s) \cup ToSet(t)
  <2>1. CASE i <= Len(s)
    <3>1. i \in DOMAIN s /\ both[i] = s[i]
      BY <1>1, <2>1 DEF both
    <3>. QED  BY <3>1 DEF ToSet
  <2>2. CASE ~(i <= Len(s))
    <3>1. i - Len(s) \in DOMAIN t /\ i = Len(s) + (i - Len(s))
      BY <1>1, <2>2 DEF both
    <3>2. both[i] = t[i - Len(s)]
      BY <1>1, <3>1 DEF both
    <3>. QED  BY <3>1, <3>2 DEF ToSet
  <2>. QED  BY <2>1, <2>2
<1>3. \A i \in DOMAIN s : i \in DOMAIN both /\ both[i] = s[i]
  BY <1>1 DEF both
<1>4. \A j \in DOMAIN t : Len(s) + j \in DOMAIN both /\ both[Len(s) + j] = t[j]
  BY <1>1 DEF both
<1>5. ToSet(both) = ToSet(s) \cup ToSet(t)
  BY <1>2, <1>3, <1>4 DEF ToSet
<1>. QED  BY <1>5 DEF both

\* The entries that are finished.
LEMMA RestOfEntries ==
    ASSUME NEW a \in Seq(Entries), NEW k \in 0..Len(a)
    PROVE  LET t == SubSeq(a, k + 1, Len(a))
           IN  /\ t \in Seq(Entries) /\ Len(t) = Len(a) - k
               /\ \A j \in 1..(Len(a) - k) : t[j] = a[k + j]
<1>. DEFINE n == Len(a)
            m == k + 1
            t == SubSeq(a, m, n)
<1>1. n \in Nat /\ m \in Nat /\ m >= 1 /\ m <= n + 1 /\ k = m - 1 /\ n - k = n - m + 1
  OBVIOUS
<1>. HIDE DEF m
<1>2. t \in Seq(Entries)
  BY <1>1
<1>3. CASE m <= n
  <2>1. Len(t) = n - m + 1 /\ \A j \in 1..(n - m + 1) : t[j] = a[m + j - 1]
    BY <1>1, <1>3
  <2>2. \A j \in 1..(n - m + 1) : m + j - 1 = k + j
    BY <1>1
  <2>. HIDE DEF t
  <2>3. Len(t) = n - k /\ \A j \in 1..(n - k) : t[j] = a[k + j]
    BY <1>1, <2>1, <2>2
  <2>. QED  BY <1>2, <2>3 DEF t, m
<1>4. CASE ~(m <= n)
  <2>1. m = n + 1 /\ n - k = 0
    BY <1>1, <1>4
  <2>2. t = <<>>
    BY <1>1, <1>4
  <2>3. Len(t) = n - k /\ \A j \in 1..(n - k) : t[j] = a[k + j]
    BY <2>1, <2>2
  <2>. HIDE DEF t
  <2>. QED  BY <1>2, <2>3 DEF t, m
<1>. QED  BY <1>3, <1>4

\* What the index is after a word: the entries of its prefixes are active, those
\* of the other prefixes that were opened are closed, each with what it counted.
Indexed(index, word, counted, opened) ==
    /\ \A p \in Seq(Byte) : counted[p].prefix = p
    /\ \A p \in Seq(Byte) \ {<<>>} : IsPrefix(p, word) => p \in opened
    /\ \A p \in Seq(Byte) \ {<<>>} : p \notin opened => counted[p] = Entry(p)
    /\ Len(index.active) = Len(word)
    /\ \A i \in 1..Len(word) : index.active[i] = counted[SubSeq(word, 1, i)]
    /\ ToSet(index.entries) = {counted[p] : p \in {q \in opened : ~IsPrefix(q, word)}}

CountIf(prefix, word, value, entry) ==
    IF IsPrefix(prefix, word) THEN RecordSample(entry, value) ELSE entry

CountsWord(before, after, word, value) ==
    \A p \in Seq(Byte) : after[p] = CountIf(p, word, value, before[p])

\* What a word opens, and what may not be opened again.
Opens(opened, word) == opened \cup {p \in Seq(Byte) \ {<<>>} : IsPrefix(p, word)}
StaysClosed(opened, last, word) == \A p \in opened : IsPrefix(p, word) => IsPrefix(p, last)

\* One word of the walk.
LEMMA WalkStep ==
    ASSUME NEW index \in Indexes, NEW v \in Seq(Byte), NEW w \in Seq(Byte) \ {<<>>},
           NEW value \in Nat,
           NEW before \in [Seq(Byte) -> Entries], NEW after \in [Seq(Byte) -> Entries],
           NEW opened \in SUBSET (Seq(Byte) \ {<<>>}),
           Indexed(index, v, before, opened),
           CountsWord(before, after, w, value),
           StaysClosed(opened, v, w)
    PROVE  /\ Walk(index, w, value) \in Indexes
           /\ Indexed(Walk(index, w, value), w, after, Opens(opened, w))
<1>. DEFINE a == index.active
            n == Len(v)
            keep == Kept(a, w)
            next == Walk(index, w, value)
<1>. HIDE DEF next
<1>0. /\ next \in Indexes
      /\ next.entries = index.entries \o SubSeq(a, keep + 1, Len(a))
      /\ keep <= Len(w) =>
            /\ Len(next.active) = Len(w)
            /\ \A i \in 1..Len(w) : next.active[i] =
                  RecordSample(IF i <= keep THEN a[i] ELSE Entry(SubSeq(w, 1, i)), value)
  BY WalkActive, Zenon DEF next
<1>20. /\ \A p \in Seq(Byte) : before[p].prefix = p
       /\ \A p \in Seq(Byte) \ {<<>>} : IsPrefix(p, v) => p \in opened
       /\ \A p \in Seq(Byte) \ {<<>>} : p \notin opened => before[p] = Entry(p)
  BY Zenon DEF Indexed
<1>21. Len(a) = n /\ \A i \in 1..n : a[i] = before[SubSeq(v, 1, i)]
  BY Zenon DEF Indexed
<1>22. ToSet(index.entries) = {before[p] : p \in {q \in opened : ~IsPrefix(q, v)}}
  BY Zenon DEF Indexed
<1>23. /\ \A p \in Seq(Byte) : IsPrefix(p, w) => after[p] = RecordSample(before[p], value)
       /\ \A p \in Seq(Byte) : ~IsPrefix(p, w) => after[p] = before[p]
  BY DEF CountsWord, CountIf
<1>24. \A p \in opened : IsPrefix(p, w) => IsPrefix(p, v)
  BY DEF StaysClosed
<1>1. /\ a \in Seq(Entries) /\ index.entries \in Seq(Entries)
      /\ n \in Nat /\ Len(a) = n /\ DOMAIN a = 1..n
  BY <1>21 DEF Indexes
<1>. HIDE DEF a
<1>2. \A i \in 1..n : SubSeq(v, 1, i) \in Seq(Byte) \ {<<>>} /\ a[i].prefix =
        SubSeq(v, 1, i)
  BY <1>20, <1>21, PrefixIsCut
<1>3. /\ keep \in 0..n
      /\ \A i \in 1..keep : IsPrefix(a[i].prefix, w)
      /\ keep < n => ~IsPrefix(a[keep + 1].prefix, w)
  BY <1>1, KeptAreFirst
<1>. HIDE DEF keep
<1>4. \A i \in 1..n : IsPrefix(SubSeq(v, 1, i), w) <=> i <= keep
  <2>1. ASSUME NEW i \in 1..n, i <= keep
        PROVE  IsPrefix(SubSeq(v, 1, i), w)
    <3>1. i \in 1..keep
      BY <1>1, <1>3, <2>1
    <3>. DEFINE p == SubSeq(v, 1, i)
    <3>. HIDE DEF p
    <3>2. a[i].prefix = p
      BY <1>2 DEF p
    <3>3. IsPrefix(a[i].prefix, w)
      BY <1>3, <3>1
    <3>4. IsPrefix(p, w)
      BY <3>2, <3>3
    <3>. QED  BY <3>4 DEF p
  <2>2. ASSUME NEW i \in 1..n, ~(i <= keep), IsPrefix(SubSeq(v, 1, i), w)
        PROVE  FALSE
    <3>1. keep + 1 \in 1..n /\ keep < n /\ keep + 1 <= i
      BY <1>1, <1>3, <2>2
    <3>2. ~IsPrefix(SubSeq(v, 1, keep + 1), w)
      BY <1>2, <1>3, <3>1
    <3>. DEFINE p == SubSeq(v, 1, i)
                q == SubSeq(v, 1, keep + 1)
    <3>3. /\ p \in Seq(Byte) /\ Len(p) = i /\ \A j \in 1..i : p[j] = v[j]
          /\ q \in Seq(Byte) /\ Len(q) = keep + 1 /\ \A j \in 1..(keep + 1) : q[j] = v[j]
      BY <1>1, <1>3, <3>1
    <3>. HIDE DEF p, q
    <3>4. IsPrefix(p, w) /\ ~IsPrefix(q, w)
      BY <2>2, <3>2 DEF p, q
    <3>5. i <= Len(w) /\ \A j \in 1..i : p[j] = w[j]
      <4>1. Len(p) <= Len(w) /\ \A j \in 1..Len(p) : p[j] = w[j]
        BY <3>3, <3>4, PrefixAgrees
      <4>. QED  BY <3>3, <4>1
    <3>6. Len(q) <= Len(w) /\ \A j \in 1..Len(q) : q[j] = w[j]
      BY <1>1, <1>3, <3>1, <3>3, <3>5
    <3>. QED  BY <3>3, <3>4, <3>6, PrefixAgrees
  <2>. QED  BY <2>1, <2>2
<1>5. \A i \in 1..keep : SubSeq(v, 1, i) = SubSeq(w, 1, i) /\ i \in 1..Len(w)
  <2>1. TAKE i \in 1..keep
  <2>2. i \in 1..n /\ i <= keep
    BY <1>1, <1>3
  <2>3. IsPrefix(SubSeq(v, 1, i), w) /\ SubSeq(v, 1, i) \in Seq(Byte) \ {<<>>}
    BY <1>2, <1>4, <2>2
  <2>4. Len(SubSeq(v, 1, i)) = i
    BY <2>2
  <2>. DEFINE p == SubSeq(v, 1, i)
  <2>. HIDE DEF p
  <2>5. p \in Seq(Byte) \ {<<>>} /\ IsPrefix(p, w) /\ Len(p) = i
    BY <2>3, <2>4 DEF p
  <2>6. Len(p) \in 1..Len(w) /\ p = SubSeq(w, 1, Len(p))
    BY <2>5, PrefixIsCut
  <2>. QED  BY <2>5, <2>6 DEF p
<1>6. keep <= Len(w)
  <2>1. CASE keep = 0
    BY <2>1
  <2>2. CASE keep # 0
    <3>1. keep \in 1..keep
      BY <1>3, <2>2
    <3>. QED  BY <1>5, <3>1
  <2>. QED  BY <2>1, <2>2
<1>7. /\ next \in Indexes
      /\ next.entries = index.entries \o SubSeq(a, keep + 1, Len(a))
      /\ Len(next.active) = Len(w)
      /\ \A i \in 1..Len(w) : next.active[i] =
            RecordSample(IF i <= keep THEN a[i] ELSE Entry(SubSeq(w, 1, i)), value)
  BY <1>0, <1>6
<1>8. \A i \in 1..Len(w) : next.active[i] = after[SubSeq(w, 1, i)]
  <2>1. TAKE i \in 1..Len(w)
  <2>. DEFINE p == SubSeq(w, 1, i)
  <2>2. p \in Seq(Byte) \ {<<>>} /\ IsPrefix(p, w) /\ Len(p) = i
    BY PrefixIsCut
  <2>. HIDE DEF p
  <2>3. after[p] = RecordSample(before[p], value)
    BY <1>23, <2>2
  <2>4. CASE i <= keep
    <3>1. i \in 1..keep /\ i \in 1..n
      BY <1>1, <1>3, <2>4
    <3>2. a[i] = before[p]
      BY <1>5, <1>21, <3>1 DEF p
    <3>. QED  BY <1>7, <2>3, <2>4, <3>2 DEF p
  <2>5. CASE ~(i <= keep)
    <3>1. p \notin opened
      <4>1. SUFFICES ASSUME IsPrefix(p, v)
                     PROVE  FALSE
        BY <1>24, <2>2
      <4>2. i \in 1..n /\ p = SubSeq(v, 1, i)
        BY <2>2, <4>1, PrefixIsCut
      <4>. QED  BY <1>4, <2>2, <2>5, <4>2
    <3>2. before[p] = Entry(p)
      BY <1>20, <2>2, <3>1
    <3>. QED  BY <1>7, <2>3, <2>5, <3>2 DEF p
  <2>. QED  BY <2>4, <2>5
<1>9. ASSUME NEW e
      PROVE  e \in ToSet(next.entries) <=>
                \/ e \in ToSet(index.entries)
                \/ \E i \in 1..n : keep < i /\ e = a[i]
  <2>. DEFINE t == SubSeq(a, keep + 1, n)
  <2>1. t \in Seq(Entries) /\ Len(t) = n - keep /\ \A j \in 1..(n - keep) : t[j] =
          a[keep + j]
    <3>1. a \in Seq(Entries) /\ keep \in 0..Len(a) /\ n = Len(a)
      BY <1>1, <1>3
    <3>. HIDE DEF n
    <3>. QED  BY <3>1, RestOfEntries, Zenon
  <2>2. ToSet(next.entries) = ToSet(index.entries) \cup ToSet(t)
    <3>1. t = SubSeq(a, keep + 1, Len(a))
      BY <1>1
    <3>. HIDE DEF t
    <3>2. next.entries = index.entries \o t
      BY <1>7, <3>1, Zenon
    <3>3. ToSet(index.entries \o t) = ToSet(index.entries) \cup ToSet(t)
      BY <1>1, <2>1, ToSetJoined
    <3>. QED  BY <3>2, <3>3
  <2>. HIDE DEF t
  <2>3. ASSUME e \in ToSet(t)
        PROVE  \E i \in 1..n : keep < i /\ e = a[i]
    <3>1. PICK j \in 1..(n - keep) : e = t[j]
      BY <2>1, <2>3 DEF ToSet
    <3>2. keep + j \in 1..n /\ keep < keep + j
      BY <1>1, <1>3
    <3>. QED  BY <2>1, <3>1, <3>2
  <2>4. ASSUME NEW i \in 1..n, keep < i, e = a[i]
        PROVE  e \in ToSet(t)
    <3>1. i - keep \in 1..(n - keep) /\ keep + (i - keep) = i
      BY <1>1, <1>3, <2>4
    <3>2. t[i - keep] = a[i] /\ i - keep \in DOMAIN t
      BY <2>1, <3>1
    <3>. QED  BY <2>4, <3>2 DEF ToSet
  <2>. QED  BY <2>2, <2>3, <2>4
<1>10. ASSUME NEW e, e \in ToSet(next.entries)
       PROVE  \E p \in opened : ~IsPrefix(p, w) /\ e = after[p]
  <2>1. CASE e \in ToSet(index.entries)
    <3>1. PICK p \in opened : ~IsPrefix(p, v) /\ e = before[p]
      BY <1>22, <2>1
    <3>2. ~IsPrefix(p, w) /\ after[p] = before[p]
      BY <1>23, <1>24, <3>1
    <3>. QED  BY <3>1, <3>2
  <2>2. ASSUME NEW i \in 1..n, keep < i, e = a[i]
        PROVE  \E p \in opened : ~IsPrefix(p, w) /\ e = after[p]
    <3>. DEFINE p == SubSeq(v, 1, i)
    <3>1. p \in Seq(Byte) \ {<<>>} /\ IsPrefix(p, v)
      BY PrefixIsCut
    <3>2. ~IsPrefix(p, w)
      BY <1>1, <1>3, <1>4, <2>2
    <3>3. e = before[p]
      BY <1>21, <2>2
    <3>. HIDE DEF p
    <3>4. p \in opened /\ after[p] = before[p]
      BY <1>20, <1>23, <3>1, <3>2
    <3>. QED  BY <3>2, <3>3, <3>4
  <2>. QED  BY <1>9, <1>10, <2>1, <2>2
<1>11. ASSUME NEW p \in opened, ~IsPrefix(p, w)
       PROVE  after[p] \in ToSet(next.entries)
  <2>1. after[p] = before[p] /\ p \in Seq(Byte) \ {<<>>}
    BY <1>11, <1>23
  <2>2. CASE ~IsPrefix(p, v)
    <3>1. before[p] \in ToSet(index.entries)
      BY <1>22, <2>2
    <3>. QED  BY <1>9, <2>1, <3>1
  <2>3. CASE IsPrefix(p, v)
    <3>1. Len(p) \in 1..n /\ p = SubSeq(v, 1, Len(p))
      BY <2>1, <2>3, PrefixIsCut
    <3>2. keep < Len(p)
      <4>. DEFINE k == Len(p)
      <4>1. k \in 1..n /\ p = SubSeq(v, 1, k)
        BY <3>1
      <4>. HIDE DEF k
      <4>2. ~(k <= keep)
        BY <1>4, <1>11, <4>1, Zenon
      <4>3. keep < k
        BY <1>1, <1>3, <4>1, <4>2
      <4>. QED  BY <4>3 DEF k
    <3>3. a[Len(p)] = before[p]
      BY <1>21, <3>1
    <3>. QED  BY <1>9, <2>1, <3>1, <3>2, <3>3
  <2>. QED  BY <2>2, <2>3
<1>12. ToSet(next.entries) = {after[p] : p \in {q \in Opens(opened, w) : ~IsPrefix(q, w)}}
  <2>. DEFINE closed == {q \in Opens(opened, w) : ~IsPrefix(q, w)}
  <2>1. \A p : p \in closed <=> p \in opened /\ ~IsPrefix(p, w)
    BY DEF Opens
  <2>. HIDE DEF closed
  <2>2. \A e : e \in ToSet(next.entries) <=> \E p \in closed : e = after[p]
    BY <1>10, <1>11, <2>1
  <2>3. ToSet(next.entries) = {after[p] : p \in closed}
    BY <2>2
  <2>. QED  BY <2>3 DEF closed
<1>13. \A p \in Seq(Byte) : after[p].prefix = p
  <2>1. TAKE p \in Seq(Byte)
  <2>2. before[p] \in Entries /\ before[p].prefix = p
    BY <1>20
  <2>3. CASE IsPrefix(p, w)
    BY <1>23, <2>2, <2>3, RecordTyped
  <2>4. CASE ~IsPrefix(p, w)
    BY <1>23, <2>2, <2>4
  <2>. QED  BY <2>3, <2>4
<1>14. \A p \in Seq(Byte) \ {<<>>} : IsPrefix(p, w) => p \in Opens(opened, w)
  BY DEF Opens
<1>15. \A p \in Seq(Byte) \ {<<>>} : p \notin Opens(opened, w) => after[p] = Entry(p)
  BY <1>20, <1>23 DEF Opens
<1>. QED  BY <1>7, <1>8, <1>12, <1>13, <1>14, <1>15, Zenon DEF Indexed, next
-----------------------------------------------------------------------------
(* The walks                                                                *)

OnNumbers(N, e) == e = [n \in 0..N |-> e[n]]

\* What follows from one number to the next is of the type its steps keep.
LEMMA RecursionTyped ==
    ASSUME NEW N \in Nat, NEW S, NEW base \in S, NEW step \in Steps(N, S), NEW e,
           OnNumbers(N, e), e[0] = base,
           \A n \in 1..N : e[n - 1] \in S => e[n] = step[<<n, e[n - 1]>>]
    PROVE  e \in [0..N -> S] /\ Follows(N, base, step, e)
<1>. DEFINE Bad == {n \in 0..N : e[n] \notin S}
<1>1. Bad = {}
  <2>1. SUFFICES ASSUME Bad # {}
                 PROVE  FALSE
    OBVIOUS
  <2>2. PICK k \in Bad : \A j \in Bad : k <= j
    <3>1. Bad \in SUBSET Nat
      OBVIOUS
    <3>. HIDE DEF Bad
    <3>. QED  BY <2>1, <3>1, LeastNatural
  <2>3. k \in 0..N /\ k # 0 /\ e[k] \notin S
    BY <2>2
  <2>4. k \in 1..N /\ k - 1 \in 0..N /\ ~(k <= k - 1)
    BY <2>3
  <2>5. e[k - 1] \in S
    BY <2>2, <2>4
  <2>6. <<k, e[k - 1]>> \in (1..N) \X S
    BY <2>4, <2>5, Zenon
  <2>7. step[<<k, e[k - 1]>>] \in S
    BY <2>6, Zenon DEF Steps
  <2>. QED  BY <2>3, <2>4, <2>5, <2>7
<1>2. \A n \in 0..N : e[n] \in S
  BY <1>1
<1>3. \A n \in 1..N : n - 1 \in 0..N
  OBVIOUS
<1>4. e \in [0..N -> S]
  BY <1>2 DEF OnNumbers
<1>. QED  BY <1>2, <1>3, <1>4, Zenon DEF Follows

Walks == [sum : Nat, count : Nat]

\* The index after n words, the walk of a lookup after n words.
IndexAfter(dict) ==
    LET words == Stream(dict)
        index[n \in 0..Len(words)] ==
            IF n = 0 THEN [active |-> <<>>, entries |-> <<>>]
            ELSE Walk(index[n - 1], words[n], dict[words[n]])
    IN  index

LookupStep(token, word, value, walk) ==
    IF ~InRange(word, token) \/ walk.count >= SampleCap THEN walk
    ELSE [sum |-> SaturatingAdd(walk.sum, value), count |-> walk.count + 1]

LookupAfter(token, dict) ==
    LET words == Stream(dict)
        walk[n \in 0..Len(words)] ==
            IF n = 0 THEN [sum |-> 0, count |-> 0]
            ELSE LookupStep(token, words[n], dict[words[n]], walk[n - 1])
    IN  walk

\* The entry a prefix would have if it had been open from the start.
CountedAfter(dict, prefix) ==
    LET words == Stream(dict)
        entry[n \in 0..Len(words)] ==
            IF n = 0 THEN Entry(prefix)
            ELSE CountIf(prefix, words[n], dict[words[n]], entry[n - 1])
    IN  entry

\* The words in order, each once.
LEMMA WordsTyped ==
    ASSUME NEW dict, IsDictionary(dict)
    PROVE  LET words == Stream(dict)
               N == Len(words)
           IN  /\ N \in Nat
               /\ \A n \in 1..N : /\ words[n] \in DOMAIN dict
                                  /\ words[n] \in Seq(Byte) \ {<<>>}
                                  /\ dict[words[n]] \in Nat
               /\ \A m, n \in 1..N : m < n => Before(words[m], words[n])
<1>1. /\ Cardinality(DOMAIN dict) \in Nat
      /\ Stream(dict) \in [1..Cardinality(DOMAIN dict) -> DOMAIN dict]
      /\ \A m, n \in 1..Cardinality(DOMAIN dict) :
            m < n => Before(Stream(dict)[m], Stream(dict)[n])
  BY WalkInOrder DEF IsDictionary
<1>2. Len(Stream(dict)) = Cardinality(DOMAIN dict)
  <2>1. DOMAIN Stream(dict) = 1..Cardinality(DOMAIN dict)
    BY <1>1
  <2>2. Stream(dict) \in Seq(DOMAIN dict)
    BY <1>1
  <2>. QED  BY <1>1, <2>1, <2>2
<1>3. \A w \in DOMAIN dict : w \in Seq(Byte) \ {<<>>} /\ dict[w] \in Nat
  BY DEF IsDictionary
<1>. QED  BY <1>1, <1>2, <1>3

\* The index is built word by word.
LEMMA IndexFollows ==
    ASSUME NEW dict, IsDictionary(dict)
    PROVE  LET words == Stream(dict)
               e == IndexAfter(dict)
           IN  /\ e \in [0..Len(words) -> Indexes]
               /\ e[0] = [active |-> <<>>, entries |-> <<>>]
               /\ \A n \in 1..Len(words) : e[n] = Walk(e[n - 1], words[n], dict[words[n]])
<1>. DEFINE words == Stream(dict)
            N == Len(words)
            base == [active |-> <<>>, entries |-> <<>>]
            Step == [a \in (1..N) \X Indexes |-> Walk(a[2], words[a[1]], dict[words[a[1]]])]
            Is(f) == f = [n \in 0..N |->
                             IF n = 0 THEN base
                               ELSE Walk(f[n - 1], words[n], dict[words[n]])]
            e == IndexAfter(dict)
<1>1. N \in Nat /\ \A n \in 1..N : words[n] \in Seq(Byte) \ {<<>>} /\ dict[words[n]] \in Nat
  BY WordsTyped
<1>2. e = CHOOSE f : Is(f)
  BY DEF IndexAfter
<1>. HIDE DEF words, N, e
<1>3. base \in Indexes
  BY DEF Indexes
<1>. HIDE DEF base
<1>4. Step \in Steps(N, Indexes)
  <2>1. \A a \in (1..N) \X Indexes : Walk(a[2], words[a[1]], dict[words[a[1]]]) \in Indexes
    <3>1. TAKE a \in (1..N) \X Indexes
    <3>2. a[1] \in 1..N /\ a[2] \in Indexes
      OBVIOUS
    <3>. QED  BY <1>1, <3>2, WalkActive
  <2>. QED  BY <2>1, Zenon DEF Steps
<1>5. PICK f \in [0..N -> Indexes] : Follows(N, base, Step, f)
  <2>. HIDE DEF Step
  <2>. QED  BY <1>1, <1>3, <1>4, RecursiveFunction, Zenon
<1>6. f[0] = base /\ \A n \in 1..N : f[n] = Walk(f[n - 1], words[n], dict[words[n]])
  <2>1. \A n \in 1..N : <<n, f[n - 1]>> \in (1..N) \X Indexes
    BY <1>1
  <2>2. \A n \in 1..N : Step[<<n, f[n - 1]>>] = Walk(f[n - 1], words[n], dict[words[n]])
    BY <2>1
  <2>. HIDE DEF Step
  <2>. QED  BY <1>5, <2>2 DEF Follows
<1>7. Is(f)
  <2>. DEFINE body(n) == IF n = 0 THEN base ELSE Walk(f[n - 1], words[n], dict[words[n]])
  <2>1. \A n \in 0..N : f[n] = body(n)
    <3>1. \A n \in 0..N : n = 0 \/ n \in 1..N
      BY <1>1
    <3>. QED  BY <1>6, <3>1, Zenon
  <2>. HIDE DEF body
  <2>2. f = [n \in 0..N |-> body(n)]
    BY <2>1
  <2>. QED  BY <2>2 DEF body
<1>8. Is(e)
  <2>. HIDE DEF Is
  <2>. QED  BY <1>2, <1>7, Zenon
<1>9. /\ OnNumbers(N, e) /\ e[0] = base
      /\ \A n \in 1..N : e[n] = Walk(e[n - 1], words[n], dict[words[n]])
  <2>1. \A n \in 0..N : e[n] = IF n = 0 THEN base
          ELSE Walk(e[n - 1], words[n], dict[words[n]])
    BY <1>8, Zenon
  <2>2. 0 \in 0..N /\ \A n \in 1..N : n \in 0..N /\ n # 0
    BY <1>1
  <2>3. OnNumbers(N, e)
    BY <1>8, Zenon DEF OnNumbers
  <2>. QED  BY <2>1, <2>2, <2>3, Zenon
<1>10. \A n \in 1..N : e[n - 1] \in Indexes => e[n] = Step[<<n, e[n - 1]>>]
  <2>1. TAKE n \in 1..N
  <2>2. HAVE e[n - 1] \in Indexes
  <2>3. <<n, e[n - 1]>> \in (1..N) \X Indexes
    BY <2>2
  <2>4. Step[<<n, e[n - 1]>>] = Walk(e[n - 1], words[n], dict[words[n]])
    BY <2>3
  <2>. QED  BY <1>9, <2>4
<1>11. e \in [0..N -> Indexes]
  <2>. HIDE DEF Step
  <2>. QED  BY <1>1, <1>3, <1>4, <1>9, <1>10, RecursionTyped, Zenon
<1>. QED  BY <1>9, <1>11, Zenon DEF e, N, words, base

\* The words with a prefix are counted one after another.
LEMMA CountedFollows ==
    ASSUME NEW dict, IsDictionary(dict), NEW prefix \in Seq(Byte)
    PROVE  LET words == Stream(dict)
               e == CountedAfter(dict, prefix)
           IN  /\ e \in [0..Len(words) -> Entries]
               /\ e[0] = Entry(prefix)
               /\ \A n \in 1..Len(words) : e[n] =
                    CountIf(prefix, words[n], dict[words[n]], e[n - 1])
<1>. DEFINE words == Stream(dict)
            N == Len(words)
            base == Entry(prefix)
            Step == [a \in (1..N) \X Entries |-> CountIf(prefix, words[a[1]],
            dict[words[a[1]]], a[2])]
            Is(f) == f = [n \in 0..N |->
                             IF n = 0 THEN base
                               ELSE CountIf(prefix, words[n], dict[words[n]], f[n - 1])]
            e == CountedAfter(dict, prefix)
<1>1. N \in Nat /\ \A n \in 1..N : words[n] \in Seq(Byte) \ {<<>>} /\ dict[words[n]] \in Nat
  BY WordsTyped
<1>2. e = CHOOSE f : Is(f)
  BY DEF CountedAfter
<1>. HIDE DEF words, N, e
<1>3. base \in Entries
  BY OpenEntryTyped
<1>. HIDE DEF base
<1>4. Step \in Steps(N, Entries)
  <2>1. \A a \in (1..N) \X Entries : CountIf(prefix, words[a[1]], dict[words[a[1]]],
        a[2]) \in Entries
    <3>1. TAKE a \in (1..N) \X Entries
    <3>2. a[1] \in 1..N /\ a[2] \in Entries
      OBVIOUS
    <3>3. RecordSample(a[2], dict[words[a[1]]]) \in Entries
      BY <1>1, <3>2, RecordTyped
    <3>. QED  BY <3>2, <3>3 DEF CountIf
  <2>. QED  BY <2>1, Zenon DEF Steps
<1>5. PICK f \in [0..N -> Entries] : Follows(N, base, Step, f)
  <2>. HIDE DEF Step
  <2>. QED  BY <1>1, <1>3, <1>4, RecursiveFunction, Zenon
<1>6. f[0] = base /\ \A n \in 1..N : f[n] =
        CountIf(prefix, words[n], dict[words[n]], f[n - 1])
  <2>1. \A n \in 1..N : <<n, f[n - 1]>> \in (1..N) \X Entries
    BY <1>1
  <2>2. \A n \in 1..N : Step[<<n, f[n - 1]>>] =
          CountIf(prefix, words[n], dict[words[n]], f[n - 1])
    BY <2>1
  <2>. HIDE DEF Step
  <2>. QED  BY <1>5, <2>2 DEF Follows
<1>7. Is(f)
  <2>. DEFINE body(n) == IF n = 0 THEN base
         ELSE CountIf(prefix, words[n], dict[words[n]], f[n - 1])
  <2>1. \A n \in 0..N : f[n] = body(n)
    <3>1. \A n \in 0..N : n = 0 \/ n \in 1..N
      BY <1>1
    <3>. QED  BY <1>6, <3>1, Zenon
  <2>. HIDE DEF body
  <2>2. f = [n \in 0..N |-> body(n)]
    BY <2>1
  <2>. QED  BY <2>2 DEF body
<1>8. Is(e)
  <2>. HIDE DEF Is
  <2>. QED  BY <1>2, <1>7, Zenon
<1>9. /\ OnNumbers(N, e) /\ e[0] = base
      /\ \A n \in 1..N : e[n] = CountIf(prefix, words[n], dict[words[n]], e[n - 1])
  <2>1. \A n \in 0..N : e[n] = IF n = 0 THEN base
          ELSE CountIf(prefix, words[n], dict[words[n]], e[n - 1])
    BY <1>8, Zenon
  <2>2. 0 \in 0..N /\ \A n \in 1..N : n \in 0..N /\ n # 0
    BY <1>1
  <2>3. OnNumbers(N, e)
    BY <1>8, Zenon DEF OnNumbers
  <2>. QED  BY <2>1, <2>2, <2>3, Zenon
<1>10. \A n \in 1..N : e[n - 1] \in Entries => e[n] = Step[<<n, e[n - 1]>>]
  <2>1. TAKE n \in 1..N
  <2>2. HAVE e[n - 1] \in Entries
  <2>3. <<n, e[n - 1]>> \in (1..N) \X Entries
    BY <2>2
  <2>4. Step[<<n, e[n - 1]>>] = CountIf(prefix, words[n], dict[words[n]], e[n - 1])
    BY <2>3
  <2>. QED  BY <1>9, <2>4
<1>11. e \in [0..N -> Entries]
  <2>. HIDE DEF Step
  <2>. QED  BY <1>1, <1>3, <1>4, <1>9, <1>10, RecursionTyped, Zenon
<1>. QED  BY <1>9, <1>11, Zenon DEF e, N, words, base

\* A lookup walks word by word.
LEMMA LookupFollows ==
    ASSUME NEW dict, IsDictionary(dict), NEW token \in Seq(Byte)
    PROVE  LET words == Stream(dict)
               e == LookupAfter(token, dict)
           IN  /\ e \in [0..Len(words) -> Walks]
               /\ e[0] = [sum |-> 0, count |-> 0]
               /\ \A n \in 1..Len(words) : e[n] =
                    LookupStep(token, words[n], dict[words[n]], e[n - 1])
<1>. DEFINE words == Stream(dict)
            N == Len(words)
            base == [sum |-> 0, count |-> 0]
            Step == [a \in (1..N) \X Walks |-> LookupStep(token, words[a[1]],
            dict[words[a[1]]], a[2])]
            Is(f) == f = [n \in 0..N |->
                             IF n = 0 THEN base
                               ELSE LookupStep(token, words[n], dict[words[n]], f[n - 1])]
            e == LookupAfter(token, dict)
<1>1. N \in Nat /\ \A n \in 1..N : words[n] \in Seq(Byte) \ {<<>>} /\ dict[words[n]] \in Nat
  BY WordsTyped
<1>2. e = CHOOSE f : Is(f)
  BY DEF LookupAfter
<1>. HIDE DEF words, N, e
<1>3. base \in Walks
  BY DEF Walks
<1>. HIDE DEF base
<1>4. Step \in Steps(N, Walks)
  <2>1. \A a \in (1..N) \X Walks : LookupStep(token, words[a[1]], dict[words[a[1]]],
        a[2]) \in Walks
    <3>1. TAKE a \in (1..N) \X Walks
    <3>2. a[1] \in 1..N /\ a[2] \in Walks
      OBVIOUS
    <3>3. a[2].count + 1 \in Nat /\ SaturatingAdd(a[2].sum, dict[words[a[1]]]) \in Nat
      BY <1>1, <3>2, DictionaryAssumption DEF SaturatingAdd, Walks
    <3>. QED  BY <3>2, <3>3 DEF Walks, LookupStep
  <2>. QED  BY <2>1, Zenon DEF Steps
<1>5. PICK f \in [0..N -> Walks] : Follows(N, base, Step, f)
  <2>. HIDE DEF Step
  <2>. QED  BY <1>1, <1>3, <1>4, RecursiveFunction, Zenon
<1>6. f[0] = base /\ \A n \in 1..N : f[n] =
        LookupStep(token, words[n], dict[words[n]], f[n - 1])
  <2>1. \A n \in 1..N : <<n, f[n - 1]>> \in (1..N) \X Walks
    BY <1>1
  <2>2. \A n \in 1..N : Step[<<n, f[n - 1]>>] =
          LookupStep(token, words[n], dict[words[n]], f[n - 1])
    BY <2>1
  <2>. HIDE DEF Step
  <2>. QED  BY <1>5, <2>2 DEF Follows
<1>7. Is(f)
  <2>. DEFINE body(n) == IF n = 0 THEN base
         ELSE LookupStep(token, words[n], dict[words[n]], f[n - 1])
  <2>1. \A n \in 0..N : f[n] = body(n)
    <3>1. \A n \in 0..N : n = 0 \/ n \in 1..N
      BY <1>1
    <3>. QED  BY <1>6, <3>1, Zenon
  <2>. HIDE DEF body
  <2>2. f = [n \in 0..N |-> body(n)]
    BY <2>1
  <2>. QED  BY <2>2 DEF body
<1>8. Is(e)
  <2>. HIDE DEF Is
  <2>. QED  BY <1>2, <1>7, Zenon
<1>9. /\ OnNumbers(N, e) /\ e[0] = base
      /\ \A n \in 1..N : e[n] = LookupStep(token, words[n], dict[words[n]], e[n - 1])
  <2>1. \A n \in 0..N : e[n] = IF n = 0 THEN base
          ELSE LookupStep(token, words[n], dict[words[n]], e[n - 1])
    BY <1>8, Zenon
  <2>2. 0 \in 0..N /\ \A n \in 1..N : n \in 0..N /\ n # 0
    BY <1>1
  <2>3. OnNumbers(N, e)
    BY <1>8, Zenon DEF OnNumbers
  <2>. QED  BY <2>1, <2>2, <2>3, Zenon
<1>10. \A n \in 1..N : e[n - 1] \in Walks => e[n] = Step[<<n, e[n - 1]>>]
  <2>1. TAKE n \in 1..N
  <2>2. HAVE e[n - 1] \in Walks
  <2>3. <<n, e[n - 1]>> \in (1..N) \X Walks
    BY <2>2
  <2>4. Step[<<n, e[n - 1]>>] = LookupStep(token, words[n], dict[words[n]], e[n - 1])
    BY <2>3
  <2>. QED  BY <1>9, <2>4
<1>11. e \in [0..N -> Walks]
  <2>. HIDE DEF Step
  <2>. QED  BY <1>1, <1>3, <1>4, <1>9, <1>10, RecursionTyped, Zenon
<1>. QED  BY <1>9, <1>11, Zenon DEF e, N, words, base

-----------------------------------------------------------------------------
(* The index is exact                                                       *)

KnownAfter(dict, n) == [p \in Seq(Byte) |-> CountedAfter(dict, p)[n]]
LastAfter(dict, n) == IF n = 0 THEN <<>> ELSE Stream(dict)[n]
OpenedAfter(dict, n) ==
    {p \in Seq(Byte) \ {<<>>} : \E m \in 1..n : IsPrefix(p, Stream(dict)[m])}

\* One more word changes the entries of its prefixes only.
LEMMA KnownFollows ==
    ASSUME NEW dict, IsDictionary(dict)
    PROVE  LET words == Stream(dict)
               N == Len(words)
           IN  /\ \A n \in 0..N : KnownAfter(dict, n) \in [Seq(Byte) -> Entries]
               /\ \A p \in Seq(Byte) : KnownAfter(dict, 0)[p] = Entry(p)
               /\ \A n \in 1..N : CountsWord(KnownAfter(dict, n - 1), KnownAfter(dict, n),
                                             words[n], dict[words[n]])
<1>. DEFINE words == Stream(dict)
            N == Len(words)
<1>1. N \in Nat
  BY WordsTyped
<1>. HIDE DEF words, N
<1>2. \A p \in Seq(Byte) :
         /\ CountedAfter(dict, p) \in [0..N -> Entries]
         /\ CountedAfter(dict, p)[0] = Entry(p)
         /\ \A n \in 1..N : CountedAfter(dict, p)[n] =
               CountIf(p, words[n], dict[words[n]], CountedAfter(dict, p)[n - 1])
  BY CountedFollows, Zenon DEF words, N
<1>3. \A n \in 0..N : KnownAfter(dict, n) \in [Seq(Byte) -> Entries]
  <2>1. \A n \in 0..N, p \in Seq(Byte) : CountedAfter(dict, p)[n] \in Entries
    BY <1>2
  <2>. QED  BY <2>1 DEF KnownAfter
<1>4. \A p \in Seq(Byte) : KnownAfter(dict, 0)[p] = Entry(p)
  BY <1>2 DEF KnownAfter
<1>5. \A n \in 1..N : CountsWord(KnownAfter(dict, n - 1), KnownAfter(dict, n),
                                 words[n], dict[words[n]])
  BY <1>2 DEF KnownAfter, CountsWord
<1>. QED  BY <1>3, <1>4, <1>5 DEF words, N

\* Before the first word the index is empty.
LEMMA IndexedFromTheStart ==
    ASSUME NEW dict, IsDictionary(dict)
    PROVE  Indexed(IndexAfter(dict)[0], LastAfter(dict, 0), KnownAfter(dict, 0),
                   OpenedAfter(dict, 0))
<1>. DEFINE index == IndexAfter(dict)[0]
            known == KnownAfter(dict, 0)
<1>1. index = [active |-> <<>>, entries |-> <<>>]
  BY IndexFollows
<1>2. \A p \in Seq(Byte) : known[p] = Entry(p)
  BY KnownFollows
<1>3. OpenedAfter(dict, 0) = {} /\ LastAfter(dict, 0) = <<>>
  BY DEF OpenedAfter, LastAfter
<1>. HIDE DEF index, known
<1>4. \A p \in Seq(Byte) \ {<<>>} : ~IsPrefix(p, <<>>)
  <2>1. \A p \in Seq(Byte) \ {<<>>} : ~(Len(p) <= Len(<<>>))
    OBVIOUS
  <2>. QED  BY <2>1, Zenon DEF IsPrefix
<1>5. \A p \in Seq(Byte) : known[p].prefix = p
  BY <1>2, OpenEntryTyped
<1>6. ToSet(index.entries) = {} /\ Len(index.active) = 0
  BY <1>1 DEF ToSet
<1>7. Len(<<>>) = 0
  OBVIOUS
<1>. QED  BY <1>2, <1>3, <1>4, <1>5, <1>6, <1>7 DEF Indexed, index, known

\* Each word keeps the index what it should be.
LEMMA IndexedByEachWord ==
    ASSUME NEW dict, IsDictionary(dict), NEW n \in 1..Len(Stream(dict)),
           Indexed(IndexAfter(dict)[n - 1], LastAfter(dict, n - 1), KnownAfter(dict, n - 1),
                   OpenedAfter(dict, n - 1))
    PROVE  Indexed(IndexAfter(dict)[n], LastAfter(dict, n), KnownAfter(dict, n),
                   OpenedAfter(dict, n))
<1>. DEFINE words == Stream(dict)
            N == Len(words)
            v == LastAfter(dict, n - 1)
            w == words[n]
            value == dict[w]
            before == KnownAfter(dict, n - 1)
            after == KnownAfter(dict, n)
            opened == OpenedAfter(dict, n - 1)
            index == IndexAfter(dict)[n - 1]
<1>1. /\ N \in Nat
      /\ \A m \in 1..N : words[m] \in Seq(Byte) \ {<<>>} /\ dict[words[m]] \in Nat
      /\ \A m, k \in 1..N : m < k => Before(words[m], words[k])
  BY WordsTyped
<1>2. n \in 1..N /\ n \in 0..N /\ n - 1 \in 0..N /\ n # 0 /\ (n - 1 # 0 => n - 1 \in 1..N)
  BY <1>1
<1>3. /\ index \in Indexes
      /\ IndexAfter(dict)[n] = Walk(index, w, value)
  <2>1. /\ IndexAfter(dict) \in [0..N -> Indexes]
        /\ \A m \in 1..N : IndexAfter(dict)[m] =
              Walk(IndexAfter(dict)[m - 1], words[m], dict[words[m]])
    BY IndexFollows
  <2>. QED  BY <1>2, <2>1
<1>4. /\ before \in [Seq(Byte) -> Entries] /\ after \in [Seq(Byte) -> Entries]
      /\ CountsWord(before, after, w, value)
  <2>1. /\ \A m \in 0..N : KnownAfter(dict, m) \in [Seq(Byte) -> Entries]
        /\ \A m \in 1..N : CountsWord(KnownAfter(dict, m - 1), KnownAfter(dict, m),
                                      words[m], dict[words[m]])
    BY KnownFollows
  <2>. QED  BY <1>2, <2>1
<1>5. LastAfter(dict, n) = w
  BY <1>2 DEF LastAfter
<1>6. w \in Seq(Byte) \ {<<>>} /\ value \in Nat
  BY <1>1, <1>2
<1>7. v = IF n - 1 = 0 THEN <<>> ELSE words[n - 1]
  BY DEF LastAfter
<1>. HIDE DEF v, words, N, w, before, after, index
<1>8. v \in Seq(Byte)
  BY <1>1, <1>2, <1>7
<1>9. opened \in SUBSET (Seq(Byte) \ {<<>>})
  BY DEF OpenedAfter
<1>10. StaysClosed(opened, v, w)
  <2>1. SUFFICES ASSUME NEW p \in opened, IsPrefix(p, w)
                 PROVE  IsPrefix(p, v)
    BY DEF StaysClosed
  <2>2. PICK m \in 1..(n - 1) : IsPrefix(p, words[m])
    BY DEF OpenedAfter, words
  <2>3. n - 1 \in 1..N /\ m \in 1..N /\ v = words[n - 1]
    <3>1. n - 1 # 0 /\ m <= n - 1 /\ 1 <= m /\ m \in Int
      BY <1>1, <1>2, <2>2
    <3>2. n - 1 \in 1..N
      BY <1>2, <3>1
    <3>3. m \in 1..N
      BY <1>1, <3>1, <3>2
    <3>. QED  BY <1>7, <3>1, <3>2, <3>3
  <2>4. CASE m = n - 1
    BY <2>2, <2>3, <2>4
  <2>5. CASE m # n - 1
    <3>1. m < n - 1 /\ n - 1 < n
      BY <1>2, <2>2, <2>5
    <3>2. Before(words[m], v) /\ Before(v, w)
      BY <1>1, <1>2, <2>3, <3>1 DEF w
    <3>3. words[m] \in Seq(Byte) /\ p \in Seq(Byte)
      BY <1>1, <1>9, <2>3
    <3>. QED  BY <1>6, <1>8, <2>1, <2>2, <3>2, <3>3, PrefixesStandTogether
  <2>. QED  BY <2>4, <2>5
<1>11. OpenedAfter(dict, n) = Opens(opened, w)
  <2>1. \A p : (\E m \in 1..n : IsPrefix(p, words[m])) <=>
                  (\E m \in 1..(n - 1) : IsPrefix(p, words[m])) \/ IsPrefix(p, w)
    <3>1. \A m : m \in 1..n <=> m \in 1..(n - 1) \/ m = n
      BY <1>1, <1>2
    <3>. QED  BY <3>1, Zenon DEF w
  <2>. QED  BY <2>1 DEF OpenedAfter, Opens, words
<1>12. Indexed(index, v, before, opened)
  BY DEF index, v, before
<1>. HIDE DEF opened, value
<1>13. Indexed(Walk(index, w, value), w, after, Opens(opened, w))
  BY <1>3, <1>4, <1>6, <1>8, <1>9, <1>10, <1>12, WalkStep
<1>. QED  BY <1>3, <1>5, <1>11, <1>13 DEF after

\* After the last word it still is.
LEMMA IndexedAtTheEnd ==
    ASSUME NEW dict, IsDictionary(dict)
    PROVE  LET N == Len(Stream(dict))
           IN  Indexed(IndexAfter(dict)[N], LastAfter(dict, N), KnownAfter(dict, N),
                       OpenedAfter(dict, N))
<1>. DEFINE N == Len(Stream(dict))
            good(n) == Indexed(IndexAfter(dict)[n], LastAfter(dict, n), KnownAfter(dict, n),
                               OpenedAfter(dict, n))
            Bad == {n \in 0..N : ~good(n)}
<1>1. N \in Nat
  BY WordsTyped
<1>2. good(0)
  BY IndexedFromTheStart
<1>3. \A n \in 1..N : good(n - 1) => good(n)
  BY IndexedByEachWord
<1>. HIDE DEF good, N
<1>4. SUFFICES ASSUME Bad # {}
               PROVE  FALSE
  <2>1. N \in 0..N
    BY <1>1
  <2>2. Bad = {} => good(N)
    BY <2>1
  <2>. HIDE DEF Bad
  <2>. QED  BY <2>2 DEF good, N
<1>5. PICK k \in Bad : \A j \in Bad : k <= j
  <2>1. Bad \in SUBSET Nat
    BY <1>1
  <2>. HIDE DEF Bad
  <2>. QED  BY <1>4, <2>1, LeastNatural
<1>6. k \in 1..N /\ ~good(k) /\ k - 1 \in 0..N /\ ~(k <= k - 1)
  BY <1>1, <1>2, <1>5
<1>7. good(k - 1)
  BY <1>5, <1>6
<1>. QED  BY <1>3, <1>6, <1>7

\* The walk of a lookup counts what an entry of the index would.
LEMMA LookupCounts ==
    ASSUME NEW dict, IsDictionary(dict), NEW token \in Seq(Byte)
    PROVE  LET N == Len(Stream(dict))
           IN  /\ LookupAfter(token, dict)[N].sum = CountedAfter(dict, token)[N].sum
               /\ LookupAfter(token, dict)[N].count = CountedAfter(dict, token)[N].sample
<1>. DEFINE words == Stream(dict)
            N == Len(words)
            walk == LookupAfter(token, dict)
            entry == CountedAfter(dict, token)
            Bad == {n \in 0..N : ~(walk[n].sum = entry[n].sum /\ walk[n].count =
              entry[n].sample)}
<1>1. N \in Nat /\ \A n \in 1..N : words[n] \in Seq(Byte)
  BY WordsTyped
<1>2. /\ walk[0] = [sum |-> 0, count |-> 0]
      /\ \A n \in 1..N : walk[n] = LookupStep(token, words[n], dict[words[n]], walk[n - 1])
  BY LookupFollows
<1>3. /\ entry \in [0..N -> Entries] /\ entry[0] = Entry(token)
      /\ \A n \in 1..N : entry[n] = CountIf(token, words[n], dict[words[n]], entry[n - 1])
  BY CountedFollows
<1>. HIDE DEF words, N, walk, entry
<1>4. walk[0].sum = entry[0].sum /\ walk[0].count = entry[0].sample
  BY <1>2, <1>3 DEF Entry
<1>5. ASSUME NEW n \in 1..N, NEW w, w = words[n], NEW before, before = walk[n - 1],
             NEW known, known = entry[n - 1],
             before.sum = known.sum, before.count = known.sample
      PROVE  walk[n].sum = entry[n].sum /\ walk[n].count = entry[n].sample
  <2>1. InRange(w, token) <=> IsPrefix(token, w)
    BY <1>1, <1>5, RangeIsThePrefix
  <2>2. walk[n] = LookupStep(token, w, dict[w], before)
    BY <1>2, <1>5
  <2>3. entry[n] = CountIf(token, w, dict[w], known)
    BY <1>3, <1>5
  <2>4. CASE ~IsPrefix(token, w) \/ before.count >= SampleCap
    <3>1. walk[n] = before /\ entry[n] = known
      BY <1>5, <2>1, <2>2, <2>3, <2>4 DEF LookupStep, CountIf, RecordSample
    <3>. QED  BY <1>5, <3>1
  <2>5. CASE ~(~IsPrefix(token, w) \/ before.count >= SampleCap)
    <3>1. walk[n] = [sum |-> SaturatingAdd(before.sum, dict[w]), count |-> before.count + 1]
      BY <2>1, <2>2, <2>5 DEF LookupStep
    <3>2. entry[n] = [known EXCEPT !.sum = SaturatingAdd(@, dict[w]), !.sample = @ + 1]
      BY <1>5, <2>3, <2>5 DEF CountIf, RecordSample
    <3>3. known \in Entries
      <4>1. n - 1 \in 0..N
        BY <1>1
      <4>. QED  BY <1>3, <1>5, <4>1
    <3>4. /\ entry[n].sum = SaturatingAdd(known.sum, dict[w])
          /\ entry[n].sample = known.sample + 1
      BY <3>2, <3>3 DEF Entries
    <3>. QED  BY <1>5, <3>1, <3>4
  <2>. QED  BY <2>4, <2>5
<1>6. Bad = {}
  <2>1. SUFFICES ASSUME Bad # {}
                 PROVE  FALSE
    OBVIOUS
  <2>2. PICK k \in Bad : \A j \in Bad : k <= j
    <3>1. Bad \in SUBSET Nat
      BY <1>1
    <3>. HIDE DEF Bad
    <3>. QED  BY <2>1, <3>1, LeastNatural
  <2>3. k \in 1..N /\ k - 1 \in 0..N /\ ~(k <= k - 1)
    BY <1>1, <1>4, <2>2
  <2>4. walk[k - 1].sum = entry[k - 1].sum /\ walk[k - 1].count = entry[k - 1].sample
    BY <2>2, <2>3
  <2>. QED  BY <1>5, <2>2, <2>3, <2>4
<1>7. N \in 0..N
  BY <1>1
<1>. QED  BY <1>6, <1>7 DEF N, walk, entry, words

\* The index that is built has one entry for each prefix of a word.
LEMMA BuiltEntries ==
    ASSUME NEW dict, IsDictionary(dict)
    PROVE  LET N == Len(Stream(dict))
           IN  BuildPrefixIndex(dict) =
                  {KnownAfter(dict, N)[p] : p \in OpenedAfter(dict, N)}
<1>. DEFINE N == Len(Stream(dict))
            end == IndexAfter(dict)[N]
            last == LastAfter(dict, N)
            known == KnownAfter(dict, N)
            opened == OpenedAfter(dict, N)
<1>1. N \in Nat /\ end \in Indexes
  BY WordsTyped, IndexFollows
<1>2. BuildPrefixIndex(dict) = ToSet(end.entries \o end.active)
  BY Zenon DEF BuildPrefixIndex, IndexAfter
<1>3. Indexed(end, last, known, opened)
  BY IndexedAtTheEnd
<1>4. last \in Seq(Byte)
  BY <1>1, WordsTyped DEF LastAfter
<1>5. opened \in SUBSET (Seq(Byte) \ {<<>>})
  BY DEF OpenedAfter
<1>. HIDE DEF N, end, last, known, opened
<1>6. ToSet(end.entries \o end.active) = ToSet(end.entries) \cup ToSet(end.active)
  BY <1>1, ToSetJoined DEF Indexes
<1>7. /\ \A p \in Seq(Byte) \ {<<>>} : IsPrefix(p, last) => p \in opened
      /\ DOMAIN end.active = 1..Len(last)
      /\ \A i \in 1..Len(last) : end.active[i] = known[SubSeq(last, 1, i)]
      /\ ToSet(end.entries) = {known[p] : p \in {q \in opened : ~IsPrefix(q, last)}}
  <2>1. end.active \in Seq(Entries) /\ Len(end.active) = Len(last)
    BY <1>1, <1>3, Zenon DEF Indexed, Indexes
  <2>2. DOMAIN end.active = 1..Len(last)
    BY <2>1
  <2>. QED  BY <1>3, <2>2, Zenon DEF Indexed
<1>8. ASSUME NEW e \in ToSet(end.active)
      PROVE  \E p \in opened : e = known[p]
  <2>1. PICK i \in 1..Len(last) : e = end.active[i]
    BY <1>7 DEF ToSet
  <2>2. SubSeq(last, 1, i) \in opened
    BY <1>4, <1>7, PrefixIsCut
  <2>. QED  BY <1>7, <2>1, <2>2
<1>9. ASSUME NEW p \in opened
      PROVE  known[p] \in ToSet(end.entries) \cup ToSet(end.active)
  <2>1. CASE ~IsPrefix(p, last)
    BY <1>7, <2>1
  <2>2. CASE IsPrefix(p, last)
    <3>1. Len(p) \in 1..Len(last) /\ p = SubSeq(last, 1, Len(p))
      BY <1>4, <1>5, <2>2, PrefixIsCut
    <3>2. end.active[Len(p)] = known[p] /\ Len(p) \in DOMAIN end.active
      BY <1>7, <3>1
    <3>. QED  BY <3>2 DEF ToSet
  <2>. QED  BY <2>1, <2>2
<1>10. \A e \in ToSet(end.entries) : \E p \in opened : e = known[p]
  BY <1>7
<1>11. ToSet(end.entries) \cup ToSet(end.active) = {known[p] : p \in opened}
  BY <1>8, <1>9, <1>10
<1>. QED  BY <1>2, <1>6, <1>11 DEF N, known, opened

\* build_prefix_index_entries and DictionaryIndex::lookup against dict_lookup:
\* for any dictionary of words that are not empty and any token that is not
\* empty, the index that was built in one walk, closing and opening prefixes as
\* they come, answers what a walk of the dictionary for that token answers: the
\* same count, and the same sum and size of the sample, cut off at the cap.
THEOREM IndexIsExact ==
    ASSUME NEW dict, IsDictionary(dict), NEW token \in Seq(Byte) \ {<<>>}
    PROVE  IndexLookup(BuildPrefixIndex(dict), token, dict) = DictLookup(token, dict)
<1>. DEFINE N == Len(Stream(dict))
            known == KnownAfter(dict, N)
            opened == OpenedAfter(dict, N)
            entries == BuildPrefixIndex(dict)
            found == {e \in entries : e.prefix = token}
            entry == CHOOSE e \in found : TRUE
            sum == IF found = {} THEN 0 ELSE entry.sum
            samples == IF found = {} THEN 0 ELSE entry.sample
<1>1. entries = {known[p] : p \in opened}
  BY BuiltEntries
<1>2. /\ \A p \in Seq(Byte) : known[p].prefix = p
      /\ \A p \in Seq(Byte) \ {<<>>} : p \notin opened => known[p] = Entry(p)
  BY IndexedAtTheEnd, Zenon DEF Indexed
<1>3. opened \in SUBSET (Seq(Byte) \ {<<>>})
  BY DEF OpenedAfter
<1>4. known[token] = CountedAfter(dict, token)[N]
  BY DEF KnownAfter
<1>. HIDE DEF known, opened, entries, N
<1>5. sum = known[token].sum /\ samples = known[token].sample
  <2>1. CASE token \in opened
    <3>1. found = {known[token]}
      BY <1>1, <1>2, <1>3, <2>1
    <3>2. found # {} /\ entry = known[token]
      <4>. HIDE DEF found
      <4>. QED  BY <3>1
    <3>. HIDE DEF found, entry
    <3>. QED  BY <3>2
  <2>2. CASE token \notin opened
    <3>1. found = {}
      BY <1>1, <1>2, <1>3, <2>2
    <3>2. known[token] = Entry(token)
      BY <1>2, <2>2
    <3>. HIDE DEF found, entry
    <3>. QED  BY <3>1, <3>2 DEF Entry
  <2>. QED  BY <2>1, <2>2
<1>6. IndexLookup(entries, token, dict) =
         [exact_count |-> Exact(dict, token), prefix_sum |-> sum, prefix_sample |-> samples]
  BY Zenon DEF IndexLookup
<1>. HIDE DEF sum, samples
<1>. DEFINE end == LookupAfter(token, dict)[N]
<1>7. end.sum = CountedAfter(dict, token)[N].sum /\ end.count =
        CountedAfter(dict, token)[N].sample
  BY LookupCounts DEF N
<1>8. DictLookup(token, dict) =
         [exact_count |-> Exact(dict, token), prefix_sum |-> end.sum,
          prefix_sample |-> end.count]
  BY Zenon DEF DictLookup, LookupAfter, LookupStep, N
<1>. HIDE DEF end
<1>. QED  BY <1>4, <1>5, <1>6, <1>7, <1>8 DEF entries

FrequencyLine == [word : Seq(Byte), count : Nat]

\* What the builder makes of a frequency list is a dictionary, whatever is in it.
LEMMA BuiltIsDictionary ==
    ASSUME NEW lines \in Seq(FrequencyLine), NEW topK
    PROVE  IsDictionary(BuildFst(lines, topK))
<1>. DEFINE N == Len(lines)
            kept == {i \in DOMAIN lines : lines[i].word # <<>>}
            words == {lines[i].word : i \in kept}
            counts == BuildCounts(lines)
            dict == BuildFst(lines, topK)
<1>1. N \in Nat /\ DOMAIN lines = 1..N
      /\ \A i \in 1..N : lines[i].word \in Seq(Byte) /\ lines[i].count \in Nat
  <2>1. \A line \in FrequencyLine : line.word \in Seq(Byte) /\ line.count \in Nat
    BY DEF FrequencyLine
  <2>2. N \in Nat /\ DOMAIN lines = 1..N /\ \A i \in 1..N : lines[i] \in FrequencyLine
    OBVIOUS
  <2>. HIDE DEF N
  <2>. QED  BY <2>1, <2>2
<1>. HIDE DEF N
<1>2. words \in SUBSET (Seq(Byte) \ {<<>>})
  BY <1>1
<1>3. IsFiniteSet(words)
  <2>. DEFINE f == [i \in kept |-> lines[i].word]
  <2>1. IsFiniteSet(1..N) /\ kept \in SUBSET (1..N)
    <3>1. IsFiniteSet(1..N)
      BY <1>1, FS_Interval
    <3>. QED  BY <1>1, <3>1
  <2>2. IsFiniteSet(kept)
    <3>. HIDE DEF kept
    <3>. QED  BY <2>1, FS_Subset
  <2>. HIDE DEF kept
  <2>3. f \in Surjection(kept, words)
    BY DEF Surjection
  <2>. HIDE DEF f, words
  <2>. QED  BY <2>2, <2>3, FS_Surjection
<1>. DEFINE Total(word) ==
                LET sum[n \in 0..Len(lines)] ==
                        IF n = 0 THEN 0
                        ELSE IF lines[n].word = word THEN sum[n - 1] + lines[n].count
                        ELSE sum[n - 1]
                IN  sum[Len(lines)]
<1>4. ASSUME NEW word
      PROVE  Total(word) \in Nat
  <2>. DEFINE next(n, total) == IF lines[n].word = word THEN total + lines[n].count ELSE total
              Step == [a \in (1..N) \X Nat |-> next(a[1], a[2])]
              Is(f) == f = [n \in 0..N |->
                               IF n = 0 THEN 0
                               ELSE IF lines[n].word = word THEN f[n - 1] + lines[n].count
                               ELSE f[n - 1]]
              e == CHOOSE f : Is(f)
  <2>1. Total(word) = e[N]
    BY DEF N
  <2>. HIDE DEF Total
  <2>2. Step \in Steps(N, Nat)
    <3>1. \A n \in 1..N, total \in Nat : next(n, total) \in Nat
      BY <1>1
    <3>2. \A a \in (1..N) \X Nat : a[1] \in 1..N /\ a[2] \in Nat
      OBVIOUS
    <3>. HIDE DEF next
    <3>. QED  BY <3>1, <3>2 DEF Steps
  <2>3. PICK f \in [0..N -> Nat] : Follows(N, 0, Step, f)
    <3>. HIDE DEF Step
    <3>1. 0 \in Nat
      OBVIOUS
    <3>. QED  BY <1>1, <2>2, <3>1, RecursiveFunction, Zenon
  <2>4. f[0] = 0 /\ \A n \in 1..N : f[n] = next(n, f[n - 1])
    <3>. HIDE DEF next
    <3>1. \A n \in 1..N : <<n, f[n - 1]>> \in (1..N) \X Nat
      BY <1>1
    <3>2. \A n \in 1..N : Step[<<n, f[n - 1]>>] = next(n, f[n - 1])
      BY <3>1
    <3>. HIDE DEF Step
    <3>. QED  BY <2>3, <3>2 DEF Follows
  <2>5. Is(f)
    <3>. DEFINE body(n) == IF n = 0 THEN 0
                           ELSE IF lines[n].word = word THEN f[n - 1] + lines[n].count
                           ELSE f[n - 1]
    <3>1. \A n \in 0..N : f[n] = body(n)
      <4>1. \A n \in 0..N : n = 0 \/ n \in 1..N
        BY <1>1
      <4>. QED  BY <2>4, <4>1, Zenon
    <3>. HIDE DEF body
    <3>2. f = [n \in 0..N |-> body(n)]
      BY <3>1
    <3>. QED  BY <3>2 DEF body
  <2>6. Is(e)
    <3>. HIDE DEF Is
    <3>. QED  BY <2>5, Zenon
  <2>. HIDE DEF e
  <2>7. /\ OnNumbers(N, e) /\ e[0] = 0
        /\ \A n \in 1..N : e[n] = next(n, e[n - 1])
    <3>1. \A n \in 0..N : e[n] = IF n = 0 THEN 0 ELSE next(n, e[n - 1])
      BY <2>6, Zenon
    <3>2. 0 \in 0..N /\ \A n \in 1..N : n \in 0..N /\ n # 0
      BY <1>1
    <3>3. OnNumbers(N, e)
      BY <2>6, Zenon DEF OnNumbers
    <3>. QED  BY <3>1, <3>2, <3>3, Zenon
  <2>. HIDE DEF next, Is
  <2>8. \A n \in 1..N : e[n - 1] \in Nat => e[n] = Step[<<n, e[n - 1]>>]
    <3>1. TAKE n \in 1..N
    <3>2. HAVE e[n - 1] \in Nat
    <3>3. <<n, e[n - 1]>> \in (1..N) \X Nat
      BY <3>2
    <3>4. Step[<<n, e[n - 1]>>] = next(n, e[n - 1])
      BY <3>3
    <3>. QED  BY <2>7, <3>4
  <2>9. e \in [0..N -> Nat]
    <3>. DEFINE base == 0
    <3>1. N \in Nat /\ base \in Nat /\ e[0] = base
      BY <1>1, <2>7
    <3>. HIDE DEF Step, base
    <3>. QED  BY <2>2, <2>7, <2>8, <3>1, RecursionTyped, Zenon
  <2>10. N \in 0..N
    BY <1>1
  <2>11. e[N] \in Nat
    BY <2>9, <2>10
  <2>. QED  BY <2>1, <2>11, Zenon
<1>5. counts = [w \in words |-> Total(w)]
  BY Zenon DEF BuildCounts
<1>. HIDE DEF Total, words
<1>6. DOMAIN counts = words /\ \A w \in words : counts[w] \in Nat
  BY <1>4, <1>5
<1>. HIDE DEF counts
<1>7. PICK top \in SUBSET words : dict = [w \in top |-> counts[w]]
  BY <1>6, Zenon DEF BuildFst, counts
<1>8. IsFiniteSet(top)
  BY <1>3, FS_Subset
<1>. HIDE DEF dict
<1>9. /\ DOMAIN dict = top /\ dict \in [top -> Nat] /\ IsFiniteSet(DOMAIN dict)
      /\ DOMAIN dict \subseteq Seq(Byte) \ {<<>>}
  BY <1>2, <1>6, <1>7, <1>8
<1>. QED  BY <1>9, Zenon DEF IsDictionary, dict

\* The words and tokens of the run.
LEMMA MCWordsTyped ==
    /\ MCWords \subseteq Seq(Byte) \ {<<>>} /\ MCTokens \subseteq Seq(Byte) \ {<<>>}
    /\ IsFiniteSet(MCWords)
<1>1. 1 \in Byte /\ 2 \in Byte
  BY SampleBytes, DictionaryAssumption DEF Byte
<1>2. \A a, b, c, d \in Byte : /\ <<a>> \in Seq(Byte) \ {<<>>}
                               /\ <<a, b>> \in Seq(Byte) \ {<<>>}
                               /\ <<a, b, c>> \in Seq(Byte) \ {<<>>}
                               /\ <<a, b, c, d>> \in Seq(Byte) \ {<<>>}
  OBVIOUS
<1>3. MCWords \subseteq Seq(Byte) \ {<<>>}
  BY <1>1, <1>2 DEF MCWords
<1>4. MCTokens \subseteq Seq(Byte) \ {<<>>}
  BY <1>1, <1>2, <1>3 DEF MCTokens
<1>5. IsFiniteSet(MCWords)
  <2>. DEFINE f == <<<<1>>, <<2>>, <<1, 1>>, <<1, 2>>, <<2, 2>>, <<1, 1, 2>>, <<1, 2, 1>>>>
  <2>1. IsFiniteSet(1..7)
    <3>1. 1 \in Int /\ 7 \in Int
      OBVIOUS
    <3>. QED  BY <3>1, FS_Interval, Zenon
  <2>2. f \in Surjection(1..7, MCWords)
    BY DEF Surjection, MCWords
  <2>. HIDE DEF f
  <2>. QED  BY <2>1, <2>2, FS_Surjection
<1>. QED  BY <1>3, <1>4, <1>5

\* The frequency lists of the run.
LEMMA SampleLinesTyped ==
    ASSUME NEW words \in SUBSET MCWords, NEW more
    PROVE  MCLines(words, more) \in Seq(FrequencyLine)
<1>. DEFINE ones == [w \in words |-> 1]
            size == Cardinality(words)
            all == [i \in 1..size |-> Stream(ones)[i]]
            Heavy(w) == IF w \in more THEN 3 ELSE 1
            line(w, n) == [word |-> w, count |-> n]
            first == [i \in DOMAIN all |-> line(all[i], Heavy(all[i]))]
            rest == <<line(<<>>, 9), line(<<1, 2>>, 2)>>
<1>1. MCLines(words, more) = first \o rest
  BY Zenon DEF MCLines
<1>2. DOMAIN ones = words
  OBVIOUS
<1>3. words \subseteq Seq(Byte) /\ IsFiniteSet(words)
  BY MCWordsTyped, FS_Subset
<1>. HIDE DEF ones
<1>4. size \in Nat /\ Stream(ones) \in [1..size -> words]
  BY <1>2, <1>3, WalkInOrder
<1>. HIDE DEF size
<1>5. DOMAIN all = 1..size /\ \A i \in 1..size : all[i] \in Seq(Byte)
  BY <1>3, <1>4
<1>. HIDE DEF all
<1>6. \A i \in 1..size : line(all[i], Heavy(all[i])) \in FrequencyLine
  BY <1>5 DEF FrequencyLine
<1>7. first \in Seq(FrequencyLine)
  <2>. DEFINE at(i) == line(all[i], Heavy(all[i]))
  <2>1. \A i \in 1..size : at(i) \in FrequencyLine
    BY <1>6
  <2>. HIDE DEF at
  <2>2. [i \in 1..size |-> at(i)] \in Seq(FrequencyLine)
    BY <1>4, <2>1
  <2>3. first = [i \in 1..size |-> at(i)]
    BY <1>5 DEF at
  <2>. QED  BY <2>2, <2>3
<1>8. rest \in Seq(FrequencyLine)
  <2>1. <<1, 2>> \in Seq(Byte) /\ <<>> \in Seq(Byte)
    BY MCWordsTyped DEF MCWords
  <2>2. line(<<>>, 9) \in FrequencyLine /\ line(<<1, 2>>, 2) \in FrequencyLine
    BY <2>1 DEF FrequencyLine
  <2>3. \A a, b \in FrequencyLine : <<a, b>> \in Seq(FrequencyLine)
    OBVIOUS
  <2>. HIDE DEF line
  <2>. QED  BY <2>2, <2>3
<1>9. \A a, b \in Seq(FrequencyLine) : a \o b \in Seq(FrequencyLine)
  OBVIOUS
<1>. HIDE DEF first, rest
<1>. QED  BY <1>1, <1>7, <1>8, <1>9

\* The samples of the run are dictionaries.
LEMMA DictionarySampleIsIndexed == DictionarySample => PrefixIndexIsExact
<1>. SUFFICES ASSUME DictionarySample
              PROVE  PrefixIndexIsExact
  OBVIOUS
<1>1. PICK words \in SUBSET MCWords, more \in {{}, {<<1, 1>>, <<2>>}, {<<1, 2, 1>>}},
           topK \in {2, 5, 9} :
          sample = [topic |-> "dictionary", dict |-> BuildFst(MCLines(words, more), topK)]
  BY Zenon DEF DictionarySample
<1>2. sample.dict = BuildFst(MCLines(words, more), topK)
  BY <1>1
<1>3. IsDictionary(sample.dict)
  BY <1>2, SampleLinesTyped, BuiltIsDictionary, Zenon
<1>4. \A token \in MCTokens :
         IndexLookup(BuildPrefixIndex(sample.dict), token, sample.dict) =
            DictLookup(token, sample.dict)
  <2>1. \A token \in MCTokens : token \in Seq(Byte) \ {<<>>}
    BY MCWordsTyped
  <2>. QED  BY <1>3, <2>1, IndexIsExact, Zenon
<1>. QED  BY <1>4, Zenon DEF PrefixIndexIsExact

\* Hence the samples of PrefixIndexIsExact: for every dictionary of the run and
\* every token, the index that was built in one pass answers as the walk does.
THEOREM PrefixIndexIsAlwaysExact == Spec => []PrefixIndexIsExact
<1>1. Init => KeepsTopic /\ PrefixIndexIsExact
  BY SampleStarts, DictionarySampleIsIndexed DEF PrefixIndexIsExact
<1>2. KeepsTopic /\ PrefixIndexIsExact /\ [Next]_sample =>
          (KeepsTopic /\ PrefixIndexIsExact)'
  <2>1. PrefixIndexIsExact /\ sample' = sample => PrefixIndexIsExact'
    BY DEF PrefixIndexIsExact
  <2>2. sample'.topic = "rolling" => PrefixIndexIsExact'
    BY DEF PrefixIndexIsExact
  <2>. QED  BY <2>1, <2>2, SampleStays
<1>. QED  BY <1>1, <1>2, PTL DEF Spec

-----------------------------------------------------------------------------
(* Tables of counts                                                         *)

\* The n-grams that are counted, and tables of them.
Grams == {g \in Seq(Alphabet) : Len(g) = 2 \/ Len(g) = 3}

Tables == UNION {[S -> Nat \ {0}] : S \in SUBSET Grams}

\* A table has counts of n-grams, none of them zero.
LEMMA CountsTyped ==
    ASSUME NEW table
    PROVE  table \in Tables <=> /\ table = [g \in DOMAIN table |-> table[g]]
                                /\ DOMAIN table \subseteq Grams
                                /\ \A g \in DOMAIN table : table[g] \in Nat \ {0}
<1>1. ASSUME table \in Tables
      PROVE  /\ table = [g \in DOMAIN table |-> table[g]]
             /\ DOMAIN table \subseteq Grams
             /\ \A g \in DOMAIN table : table[g] \in Nat \ {0}
  <2>1. PICK S \in SUBSET Grams : table \in [S -> Nat \ {0}]
    BY <1>1 DEF Tables
  <2>. QED  BY <2>1
<1>2. ASSUME table = [g \in DOMAIN table |-> table[g]], DOMAIN table \subseteq Grams,
             \A g \in DOMAIN table : table[g] \in Nat \ {0}
      PROVE  table \in Tables
  <2>1. table \in [DOMAIN table -> Nat \ {0}]
    BY <1>2
  <2>. QED  BY <1>2, <2>1, Zenon DEF Tables
<1>. QED  BY <1>1, <1>2

\* What is added up is counted as often as in both.
LEMMA CountsAddUp ==
    ASSUME NEW a \in Tables, NEW b \in Tables
    PROVE  /\ a (+) b \in Tables
           /\ \A g : Count(a (+) b, g) = Count(a, g) + Count(b, g)
<1>. DEFINE both == a (+) b
            of(t, g) == IF g \in DOMAIN t THEN t[g] ELSE 0
<1>1. /\ DOMAIN a \subseteq Grams /\ \A g \in DOMAIN a : a[g] \in Nat \ {0}
      /\ DOMAIN b \subseteq Grams /\ \A g \in DOMAIN b : b[g] \in Nat \ {0}
  BY CountsTyped
<1>2. both = [g \in (DOMAIN a) \cup (DOMAIN b) |-> of(a, g) + of(b, g)]
  BY Zenon DEF (+)
<1>. HIDE DEF both
<1>3. \A g \in (DOMAIN a) \cup (DOMAIN b) : of(a, g) + of(b, g) \in Nat \ {0}
  BY <1>1
<1>4. \A g : /\ Count(a, g) = of(a, g) /\ Count(b, g) = of(b, g)
             /\ Count(both, g) = of(both, g)
  BY Zenon DEF Count, BagIn, BagToSet
<1>5. both \in Tables
  <2>. HIDE DEF of
  <2>1. both \in [(DOMAIN a) \cup (DOMAIN b) -> Nat \ {0}]
    BY <1>2, <1>3
  <2>. QED  BY <1>1, <2>1 DEF Tables
<1>6. ASSUME NEW g
      PROVE  of(both, g) = of(a, g) + of(b, g)
  <2>1. CASE g \in (DOMAIN a) \cup (DOMAIN b)
    BY <1>2, <2>1
  <2>2. CASE g \notin (DOMAIN a) \cup (DOMAIN b)
    BY <1>2, <2>2
  <2>. QED  BY <2>1, <2>2
<1>. HIDE DEF of
<1>. QED  BY <1>4, <1>5, <1>6, Zenon DEF both

\* The empty table counts nothing.
LEMMA NothingCounted == EmptyBag \in Tables /\ \A g : Count(EmptyBag, g) = 0
BY CountsTyped DEF EmptyBag, SetToBag, Count, BagIn, BagToSet

\* An n-gram that is counted once.
LEMMA OneCounted ==
    ASSUME NEW g \in Grams
    PROVE  /\ SetToBag({g}) \in Tables
           /\ \A h : Count(SetToBag({g}), h) = IF h = g THEN 1 ELSE 0
<1>. DEFINE one == SetToBag({g})
<1>1. one = [e \in {g} |-> 1]
  BY DEF SetToBag
<1>. HIDE DEF one
<1>2. one \in [{g} -> Nat \ {0}] /\ DOMAIN one = {g} /\ one[g] = 1
  BY <1>1
<1>3. one \in Tables
  BY <1>2, Zenon DEF Tables
<1>4. \A h : Count(one, h) = IF h = g THEN 1 ELSE 0
  BY <1>2, Zenon DEF Count, BagIn, BagToSet
<1>. QED  BY <1>3, <1>4 DEF one

LEMMA CountsAreNumbers == \A table \in Tables : \A g : Count(table, g) \in Nat
BY CountsTyped DEF Count, BagIn, BagToSet
-----------------------------------------------------------------------------
(* Counting a line                                                          *)

LetterAt(line, i) == i \in 1..Len(line) /\ IsLetter(line[i])

\* The letters of the run that ends at place n, at most two.
PreviousAt(line, n) ==
    IF ~LetterAt(line, n) THEN <<>>
    ELSE IF ~LetterAt(line, n - 1) THEN <<Normalize(line[n])>>
    ELSE <<Normalize(line[n - 1]), Normalize(line[n])>>

\* An n-gram is its letters.
LEMMA Pairs == \A g \in Seq(Alphabet) : Len(g) = 2 => g = <<g[1], g[2]>>
OBVIOUS

LEMMA Triples == \A g \in Seq(Alphabet) : Len(g) = 3 => g = <<g[1], g[2], g[3]>>
OBVIOUS

\* A run of letters and one more.
LEMMA LetterAppended ==
    ASSUME NEW s \in Seq(Alphabet), NEW c \in Alphabet
    PROVE  /\ Append(s, c) \in Seq(Alphabet) /\ Len(Append(s, c)) = Len(s) + 1
           /\ Append(s, c)[Len(s) + 1] = c
           /\ \A i \in 1..Len(s) : Append(s, c)[i] = s[i]
OBVIOUS

LEMMA RunOfOne == \A c \in Alphabet : Append(<<>>, c) = <<c>> /\ Len(<<c>>) = 1
OBVIOUS

\* The last two letters of a run of two.
LEMMA RunOfTwo ==
    ASSUME NEW b \in Alphabet, NEW c \in Alphabet
    PROVE  /\ Append(<<b>>, c) = <<b, c>> /\ Len(<<b, c>>) = 2 /\ <<b, c>> \in Grams
           /\ SubSeq(<<b, c>>, 2 - 2 + 1, 2) = <<b, c>>
<1>. DEFINE s == <<b>>
            t == Append(s, c)
<1>1. s \in Seq(Alphabet) /\ Len(s) = 1 /\ s[1] = b
  OBVIOUS
<1>2. <<b, c>> \in Grams /\ Len(<<b, c>>) = 2
  BY DEF Grams
<1>3. SubSeq(<<b, c>>, 2 - 2 + 1, 2) = <<b, c>>
  <2>1. SubSeq(<<b, c>>, 1, 2) = [i \in 1..2 |-> IF i = 1 THEN b ELSE c]
    OBVIOUS
  <2>2. [i \in 1..2 |-> IF i = 1 THEN b ELSE c] = <<b, c>>
    OBVIOUS
  <2>3. 2 - 2 + 1 = 1
    OBVIOUS
  <2>. QED  BY <2>1, <2>2, <2>3
<1>. HIDE DEF s
<1>4. /\ t \in Seq(Alphabet) /\ Len(t) = Len(s) + 1 /\ t[Len(s) + 1] = c
      /\ \A i \in 1..Len(s) : t[i] = s[i]
  BY ONLY <1>1, LetterAppended, c \in Alphabet, Zenon
<1>. HIDE DEF t
<1>5. Len(t) = 2 /\ t[1] = b /\ t[2] = c
  BY <1>1, <1>4
<1>6. t = <<b, c>>
  BY <1>4, <1>5, Pairs
<1>. QED  BY <1>2, <1>3, <1>6 DEF s, t

\* The last two and the last three letters of a run of three.
LEMMA RunOfThree ==
    ASSUME NEW a \in Alphabet, NEW b \in Alphabet, NEW c \in Alphabet
    PROVE  /\ Append(<<a, b>>, c) = <<a, b, c>> /\ Len(<<a, b, c>>) = 3
           /\ <<a, b, c>> \in Grams /\ Tail(<<a, b, c>>) = <<b, c>>
           /\ SubSeq(<<a, b, c>>, 3 - 2 + 1, 3) = <<b, c>>
           /\ SubSeq(<<a, b, c>>, 3 - 3 + 1, 3) = <<a, b, c>>
<1>. DEFINE s == <<a, b>>
            t == Append(s, c)
<1>1. s \in Seq(Alphabet) /\ Len(s) = 2 /\ s[1] = a /\ s[2] = b
  OBVIOUS
<1>2. <<a, b, c>> \in Grams /\ Len(<<a, b, c>>) = 3
  BY DEF Grams
<1>3. Tail(<<a, b, c>>) = <<b, c>>
  OBVIOUS
<1>4. SubSeq(<<a, b, c>>, 3 - 2 + 1, 3) = <<b, c>>
  <2>1. SubSeq(<<a, b, c>>, 2, 3) = [i \in 1..2 |-> IF i = 1 THEN b ELSE c]
    OBVIOUS
  <2>2. [i \in 1..2 |-> IF i = 1 THEN b ELSE c] = <<b, c>>
    OBVIOUS
  <2>3. 3 - 2 + 1 = 2
    OBVIOUS
  <2>. QED  BY <2>1, <2>2, <2>3
<1>5. SubSeq(<<a, b, c>>, 3 - 3 + 1, 3) = <<a, b, c>>
  <2>1. SubSeq(<<a, b, c>>, 1, 3) =
           [i \in 1..3 |-> IF i = 1 THEN a ELSE IF i = 2 THEN b ELSE c]
    OBVIOUS
  <2>2. [i \in 1..3 |-> IF i = 1 THEN a ELSE IF i = 2 THEN b ELSE c] = <<a, b, c>>
    OBVIOUS
  <2>3. 3 - 3 + 1 = 1
    OBVIOUS
  <2>. QED  BY <2>1, <2>2, <2>3
<1>. HIDE DEF s
<1>6. /\ t \in Seq(Alphabet) /\ Len(t) = Len(s) + 1 /\ t[Len(s) + 1] = c
      /\ \A i \in 1..Len(s) : t[i] = s[i]
  BY ONLY <1>1, LetterAppended, c \in Alphabet, Zenon
<1>. HIDE DEF t
<1>7. Len(t) = 3 /\ t[1] = a /\ t[2] = b /\ t[3] = c
  BY <1>1, <1>6
<1>8. t = <<a, b, c>>
  BY <1>6, <1>7, Triples
<1>. QED  BY <1>2, <1>3, <1>4, <1>5, <1>8 DEF s, t

LEMMA GramLetters ==
    ASSUME NEW g \in Grams
    PROVE  \/ /\ Len(g) = 2 /\ g = <<g[1], g[2]>>
              /\ g[1] \in Alphabet /\ g[2] \in Alphabet
           \/ /\ Len(g) = 3 /\ g = <<g[1], g[2], g[3]>>
              /\ g[1] \in Alphabet /\ g[2] \in Alphabet /\ g[3] \in Alphabet
<1>1. g \in Seq(Alphabet) /\ (Len(g) = 2 \/ Len(g) = 3)
  BY DEF Grams
<1>2. \A i \in 1..Len(g) : g[i] \in Alphabet
  BY <1>1
<1>3. CASE Len(g) = 2
  <2>1. 1 \in 1..Len(g) /\ 2 \in 1..Len(g)
    BY <1>3
  <2>. QED  BY <1>1, <1>2, <1>3, <2>1, Pairs, Zenon
<1>4. CASE Len(g) = 3
  <2>1. 1 \in 1..Len(g) /\ 2 \in 1..Len(g) /\ 3 \in 1..Len(g)
    BY <1>4
  <2>. QED  BY <1>1, <1>2, <1>4, <2>1, Triples, Zenon
<1>. QED  BY <1>1, <1>3, <1>4

\* An n-gram that ends at a place is made of the letters of the run there.
LEMMA EndsAtLetters ==
    ASSUME NEW line \in Seq(Chars), NEW n \in 1..Len(line), NEW g \in Grams
    PROVE  /\ Len(g) = 2 =>
                 (EndsAt(line, g, n) <=>
                     /\ LetterAt(line, n - 1) /\ LetterAt(line, n)
                     /\ g = <<Normalize(line[n - 1]), Normalize(line[n])>>)
           /\ Len(g) = 3 =>
                 (EndsAt(line, g, n) <=>
                     /\ LetterAt(line, n - 2) /\ LetterAt(line, n - 1) /\ LetterAt(line, n)
                     /\ g = <<Normalize(line[n - 2]), Normalize(line[n - 1]),
                              Normalize(line[n])>>)
<1>1. n \in Nat /\ 1 <= n /\ n <= Len(line) /\ Len(line) \in Nat
  OBVIOUS
<1>. DEFINE at(i) == Normalize(line[i])
<1>2. \A i \in 1..Len(line) : LetterAt(line, i) <=> at(i) \in Alphabet
  BY DEF LetterAt, IsLetter
<1>3. \A i : LetterAt(line, i) => i \in 1..Len(line)
  BY DEF LetterAt
<1>4. EndsAt(line, g, n) <=> Len(g) <= n /\ \A k \in 1..Len(g) : at(n - Len(g) + k) = g[k]
  BY DEF EndsAt
<1>. HIDE DEF at
<1>5. CASE Len(g) = 2
  <2>1. g = <<g[1], g[2]>> /\ g[1] \in Alphabet /\ g[2] \in Alphabet
    BY <1>5, GramLetters
  <2>2. EndsAt(line, g, n) <=> 2 <= n /\ at(n - 1) = g[1] /\ at(n) = g[2]
    <3>1. \A k \in 1..2 : k = 1 \/ k = 2
      OBVIOUS
    <3>2. n - 2 + 1 = n - 1 /\ n - 2 + 2 = n /\ 1 \in 1..2 /\ 2 \in 1..2
      BY <1>1
    <3>. QED  BY <1>4, <1>5, <3>1, <3>2
  <2>3. EndsAt(line, g, n) => /\ LetterAt(line, n - 1) /\ LetterAt(line, n)
                              /\ g = <<at(n - 1), at(n)>>
    <3>1. SUFFICES ASSUME 2 <= n, at(n - 1) = g[1], at(n) = g[2]
                   PROVE  /\ LetterAt(line, n - 1) /\ LetterAt(line, n)
                          /\ g = <<at(n - 1), at(n)>>
      BY <2>2
    <3>2. n - 1 \in 1..Len(line) /\ n \in 1..Len(line)
      BY <1>1, <3>1
    <3>. QED  BY <1>2, <2>1, <3>1, <3>2
  <2>4. LetterAt(line, n - 1) /\ g = <<at(n - 1), at(n)>> => EndsAt(line, g, n)
    <3>1. LetterAt(line, n - 1) => 2 <= n
      BY <1>1, <1>3
    <3>2. g = <<at(n - 1), at(n)>> => at(n - 1) = g[1] /\ at(n) = g[2]
      OBVIOUS
    <3>. QED  BY <2>2, <3>1, <3>2
  <2>. QED  BY <1>5, <2>3, <2>4 DEF at
<1>6. CASE Len(g) = 3
  <2>1. /\ g = <<g[1], g[2], g[3]>>
        /\ g[1] \in Alphabet /\ g[2] \in Alphabet /\ g[3] \in Alphabet
    BY <1>6, GramLetters
  <2>2. EndsAt(line, g, n) <=>
           3 <= n /\ at(n - 2) = g[1] /\ at(n - 1) = g[2] /\ at(n) = g[3]
    <3>1. \A k \in 1..3 : k = 1 \/ k = 2 \/ k = 3
      OBVIOUS
    <3>2. /\ n - 3 + 1 = n - 2 /\ n - 3 + 2 = n - 1 /\ n - 3 + 3 = n
          /\ 1 \in 1..3 /\ 2 \in 1..3 /\ 3 \in 1..3
      BY <1>1
    <3>. QED  BY <1>4, <1>6, <3>1, <3>2
  <2>3. EndsAt(line, g, n) =>
           /\ LetterAt(line, n - 2) /\ LetterAt(line, n - 1) /\ LetterAt(line, n)
           /\ g = <<at(n - 2), at(n - 1), at(n)>>
    <3>1. SUFFICES ASSUME 3 <= n, at(n - 2) = g[1], at(n - 1) = g[2], at(n) = g[3]
                   PROVE  /\ LetterAt(line, n - 2) /\ LetterAt(line, n - 1)
                          /\ LetterAt(line, n) /\ g = <<at(n - 2), at(n - 1), at(n)>>
      BY <2>2
    <3>2. n - 2 \in 1..Len(line) /\ n - 1 \in 1..Len(line) /\ n \in 1..Len(line)
      BY <1>1, <3>1
    <3>. QED  BY <1>2, <2>1, <3>1, <3>2
  <2>4. LetterAt(line, n - 2) /\ g = <<at(n - 2), at(n - 1), at(n)>> => EndsAt(line, g, n)
    <3>1. LetterAt(line, n - 2) => 3 <= n
      BY <1>1, <1>3
    <3>2. g = <<at(n - 2), at(n - 1), at(n)>> =>
             at(n - 2) = g[1] /\ at(n - 1) = g[2] /\ at(n) = g[3]
      OBVIOUS
    <3>. QED  BY <2>2, <3>1, <3>2
  <2>. QED  BY <1>6, <2>3, <2>4 DEF at
<1>. QED  BY <1>5, <1>6, GramLetters

\* What a letter adds to the counts, given those before it.
LEMMA LetterIsCounted ==
    ASSUME NEW line \in Seq(Chars), NEW n \in 1..Len(line), NEW t \in Tables
    PROVE  LET after == CountLetter([previous |-> PreviousAt(line, n - 1), counts |-> t],
                                    line[n])
           IN  /\ after.previous = PreviousAt(line, n)
               /\ after.counts \in Tables
               /\ \A g \in Grams : Count(after.counts, g) =
                     Count(t, g) + (IF EndsAt(line, g, n) THEN 1 ELSE 0)
<1>. DEFINE at(i) == Normalize(line[i])
            before == PreviousAt(line, n - 1)
            state == [previous |-> before, counts |-> t]
            after == CountLetter(state, line[n])
            two == <<at(n - 1), at(n)>>
            three == <<at(n - 2), at(n - 1), at(n)>>
            run == Append(before, at(n))
            last(k) == SubSeq(run, Len(run) - k + 1, Len(run))
<1>1. n \in Nat /\ n \in 1..Len(line) /\ (n - 1) - 1 = n - 2
  OBVIOUS
<1>2. LetterAt(line, n) <=> IsLetter(line[n])
  BY DEF LetterAt
<1>3. \A i : LetterAt(line, i) => at(i) \in Alphabet
  BY DEF LetterAt, IsLetter
<1>4. \A g \in Grams : (EndsAt(line, g, n) <=>
         /\ LetterAt(line, n) /\ LetterAt(line, n - 1)
         /\ g = two \/ (LetterAt(line, n - 2) /\ g = three))
  <2>1. TAKE g \in Grams
  <2>2. (g = two => Len(g) = 2) /\ (g = three => Len(g) = 3)
    BY DEF two, three
  <2>3. Len(g) = 2 \/ Len(g) = 3
    BY GramLetters
  <2>. QED  BY <2>2, <2>3, EndsAtLetters
<1>5. \A g \in Grams : Count(t, g) \in Nat
  BY CountsAreNumbers
<1>6. CASE ~LetterAt(line, n)
  <2>1. after = AfterNonLetter(state)
    BY <1>2, <1>6 DEF CountLetter
  <2>2. after.previous = <<>> /\ after.counts = t
    BY <2>1 DEF AfterNonLetter
  <2>3. PreviousAt(line, n) = <<>>
    BY <1>6 DEF PreviousAt
  <2>4. \A g \in Grams : ~EndsAt(line, g, n)
    BY <1>4, <1>6
  <2>. HIDE DEF after
  <2>5. \A g \in Grams : Count(after.counts, g) =
           Count(t, g) + (IF EndsAt(line, g, n) THEN 1 ELSE 0)
    BY <1>5, <2>2, <2>4
  <2>. QED  BY <2>2, <2>3, <2>5 DEF after
<1>7. CASE LetterAt(line, n)
  <2>. DEFINE bigram == IF Len(run) >= 2 THEN SetToBag({last(2)}) ELSE EmptyBag
              trigram == IF Len(run) >= 3 THEN SetToBag({last(3)}) ELSE EmptyBag
              counts == t (+) bigram (+) trigram
  <2>1. /\ after.previous = IF Len(run) > 2 THEN Tail(run) ELSE run
        /\ after.counts = counts
    <3>1. state.previous = before /\ state.counts = t
      OBVIOUS
    <3>. HIDE DEF state, before
    <3>2. after = [previous |-> IF Len(run) > 2 THEN Tail(run) ELSE run, counts |-> counts]
      BY <1>2, <1>7, <3>1, Zenon DEF CountLetter
    <3>. QED  BY <3>2
  <2>. HIDE DEF after, counts
  <2>2. CASE ~LetterAt(line, n - 1)
    <3>1. before = <<>>
      BY <2>2 DEF PreviousAt
    <3>2. run = <<at(n)>> /\ Len(run) = 1
      BY <1>3, <1>7, <3>1, RunOfOne, Zenon
    <3>3. PreviousAt(line, n) = <<at(n)>>
      BY <1>7, <2>2 DEF PreviousAt
    <3>. HIDE DEF run
    <3>4. bigram = EmptyBag /\ trigram = EmptyBag
      BY <3>2
    <3>. HIDE DEF bigram, trigram
    <3>5. counts \in Tables /\ \A g : Count(counts, g) = Count(t, g)
      BY <3>4, CountsAddUp, NothingCounted, CountsAreNumbers DEF counts
    <3>6. \A g \in Grams : ~EndsAt(line, g, n)
      BY <1>4, <2>2
    <3>7. \A g \in Grams : Count(after.counts, g) =
             Count(t, g) + (IF EndsAt(line, g, n) THEN 1 ELSE 0)
      BY <1>5, <2>1, <3>5, <3>6
    <3>. QED  BY <2>1, <3>2, <3>3, <3>5, <3>7 DEF after
  <2>3. CASE LetterAt(line, n - 1) /\ ~LetterAt(line, n - 2)
    <3>1. before = <<at(n - 1)>>
      BY <1>1, <2>3 DEF PreviousAt
    <3>2. run = two /\ Len(run) = 2
      BY <1>3, <1>7, <2>3, <3>1, RunOfTwo, Zenon
    <3>3. PreviousAt(line, n) = two
      BY <1>7, <2>3 DEF PreviousAt
    <3>4. two \in Grams
      BY <1>3, <1>7, <2>3, RunOfTwo, Zenon
    <3>5. last(2) = two
      <4>1. SubSeq(two, 2 - 2 + 1, 2) = two
        BY <1>3, <1>7, <2>3, RunOfTwo, Zenon
      <4>. HIDE DEF run, two
      <4>. QED  BY <3>2, <4>1
    <3>. HIDE DEF run, last, two
    <3>6. bigram = SetToBag({two}) /\ trigram = EmptyBag
      <4>1. {last(2)} = {two} /\ Len(run) >= 2 /\ ~(Len(run) >= 3)
        BY <3>2, <3>5
      <4>. QED  BY <4>1, Zenon
    <3>. HIDE DEF bigram, trigram
    <3>7. counts \in Tables /\ \A g : Count(counts, g) = Count(t, g) + Count(bigram, g)
      BY <3>4, <3>6, CountsAddUp, OneCounted, NothingCounted, CountsAreNumbers DEF counts
    <3>8. \A g \in Grams : EndsAt(line, g, n) <=> g = two
      BY <1>4, <1>7, <2>3
    <3>9. \A g \in Grams : Count(bigram, g) = IF EndsAt(line, g, n) THEN 1 ELSE 0
      BY <3>4, <3>6, <3>8, OneCounted
    <3>10. \A g \in Grams : Count(after.counts, g) =
             Count(t, g) + (IF EndsAt(line, g, n) THEN 1 ELSE 0)
      BY <2>1, <3>7, <3>9
    <3>. QED  BY <2>1, <3>2, <3>3, <3>7, <3>10 DEF after
  <2>4. CASE LetterAt(line, n - 1) /\ LetterAt(line, n - 2)
    <3>1. before = <<at(n - 2), at(n - 1)>>
      BY <1>1, <2>4 DEF PreviousAt
    <3>2. run = three /\ Len(run) = 3
      <4>1. at(n - 2) \in Alphabet /\ at(n - 1) \in Alphabet /\ at(n) \in Alphabet
        BY <1>3, <1>7, <2>4
      <4>. HIDE DEF at, before
      <4>2. run = Append(<<at(n - 2), at(n - 1)>>, at(n))
        BY <3>1
      <4>3. Append(<<at(n - 2), at(n - 1)>>, at(n)) = three /\ Len(three) = 3
        BY <4>1, RunOfThree, Zenon
      <4>. QED  BY <4>2, <4>3, Zenon
    <3>3. PreviousAt(line, n) = two
      BY <1>7, <2>4 DEF PreviousAt
    <3>4. two \in Grams /\ three \in Grams /\ two # three
      <4>1. /\ two \in Grams /\ Len(two) = 2
            /\ three \in Grams /\ Len(three) = 3
        BY <1>3, <1>7, <2>4, RunOfTwo, RunOfThree, Zenon
      <4>. HIDE DEF two, three
      <4>2. Len(two) # Len(three)
        BY <4>1
      <4>. QED  BY <4>1, <4>2, Zenon
    <3>5. last(2) = two /\ last(3) = three /\ Tail(run) = two
      <4>1. /\ SubSeq(three, 3 - 2 + 1, 3) = two /\ SubSeq(three, 3 - 3 + 1, 3) = three
            /\ Tail(three) = two
        BY <1>3, <1>7, <2>4, RunOfThree, Zenon
      <4>. HIDE DEF run, two, three
      <4>. QED  BY <3>2, <4>1
    <3>. HIDE DEF run, last, two, three
    <3>6. bigram = SetToBag({two}) /\ trigram = SetToBag({three})
      <4>1. {last(2)} = {two} /\ {last(3)} = {three} /\ Len(run) >= 2 /\ Len(run) >= 3
        BY <3>2, <3>5
      <4>. QED  BY <4>1, Zenon
    <3>. HIDE DEF bigram, trigram
    <3>7. bigram \in Tables /\ trigram \in Tables
      BY <3>4, <3>6, OneCounted
    <3>8. counts \in Tables
          /\ \A g : Count(counts, g) = Count(t, g) + Count(bigram, g) + Count(trigram, g)
      BY <3>7, CountsAddUp, CountsAreNumbers DEF counts
    <3>9. \A g \in Grams : EndsAt(line, g, n) <=> g = two \/ g = three
      BY <1>4, <1>7, <2>4
    <3>10. \A g : /\ Count(bigram, g) = IF g = two THEN 1 ELSE 0
                  /\ Count(trigram, g) = IF g = three THEN 1 ELSE 0
      BY <3>4, <3>6, OneCounted
    <3>11. \A g \in Grams : Count(after.counts, g) =
             Count(t, g) + (IF EndsAt(line, g, n) THEN 1 ELSE 0)
      BY <1>5, <2>1, <3>4, <3>8, <3>9, <3>10
    <3>12. after.previous = two
      <4>1. Len(run) > 2
        BY <3>2
      <4>. QED  BY <2>1, <3>5, <4>1, Zenon
    <3>. QED  BY <2>1, <3>3, <3>8, <3>11, <3>12, Zenon DEF after
  <2>. QED  BY <2>2, <2>3, <2>4
<1>. QED  BY <1>6, <1>7
\* What holds at 0 and goes on from each number to the next holds up to N.
LEMMA UpTo ==
    ASSUME NEW N \in Nat, NEW Good, 0 \in Good,
           \A n \in 1..N : n - 1 \in Good => n \in Good
    PROVE  \A n \in 0..N : n \in Good
<1>. DEFINE Bad == {n \in 0..N : n \notin Good}
<1>1. SUFFICES ASSUME Bad # {}
               PROVE  FALSE
  OBVIOUS
<1>2. PICK k \in Bad : \A j \in Bad : k <= j
  <2>1. Bad \in SUBSET Nat
    OBVIOUS
  <2>. HIDE DEF Bad
  <2>. QED  BY <1>1, <2>1, LeastNatural
<1>3. k \in 1..N /\ k \notin Good /\ k - 1 \in 0..N /\ ~(k <= k - 1)
  BY <1>2
<1>4. k - 1 \in Good
  BY <1>2, <1>3
<1>. QED  BY <1>3, <1>4

LineStates == [previous : Seq(Alphabet), counts : Tables]

\* The counts after n letters of a line.
LineAfter(line) ==
    LET after[n \in 0..Len(line)] ==
            IF n = 0 THEN [previous |-> <<>>, counts |-> EmptyBag]
            ELSE CountLetter(after[n - 1], line[n])
    IN  after

\* A letter is counted into a table.
LEMMA CountLetterTyped ==
    ASSUME NEW state \in LineStates, NEW char
    PROVE  CountLetter(state, char) \in LineStates
<1>. DEFINE run == Append(state.previous, Normalize(char))
            last(n) == SubSeq(run, Len(run) - n + 1, Len(run))
            bigram == IF Len(run) >= 2 THEN SetToBag({last(2)}) ELSE EmptyBag
            trigram == IF Len(run) >= 3 THEN SetToBag({last(3)}) ELSE EmptyBag
<1>1. state.previous \in Seq(Alphabet) /\ state.counts \in Tables
  BY DEF LineStates
<1>2. CASE ~IsLetter(char)
  <2>1. CountLetter(state, char) = AfterNonLetter(state)
    BY <1>2, Zenon DEF CountLetter
  <2>2. <<>> \in Seq(Alphabet)
    OBVIOUS
  <2>3. AfterNonLetter(state) = [previous |-> <<>>, counts |-> state.counts]
    BY DEF AfterNonLetter, LineStates
  <2>. QED  BY <1>1, <2>1, <2>2, <2>3 DEF LineStates
<1>3. CASE IsLetter(char)
  <2>1. run \in Seq(Alphabet) /\ Tail(run) \in Seq(Alphabet)
    <3>1. run \in Seq(Alphabet) /\ Len(run) = Len(state.previous) + 1
      BY <1>1, <1>3 DEF IsLetter
    <3>2. \A s \in Seq(Alphabet) : Len(s) # 0 => Tail(s) \in Seq(Alphabet)
      OBVIOUS
    <3>3. Len(run) # 0
      BY <1>1, <3>1
    <3>. HIDE DEF run
    <3>. QED  BY <3>1, <3>2, <3>3
  <2>2. CountLetter(state, char) =
           [previous |-> IF Len(run) > 2 THEN Tail(run) ELSE run,
            counts |-> state.counts (+) bigram (+) trigram]
    BY <1>3, Zenon DEF CountLetter
  <2>. HIDE DEF run
  <2>3. \A n \in {2, 3} : Len(run) >= n => last(n) \in Grams
    <3>1. \A s \in Seq(Alphabet), n \in {2, 3} : Len(s) >= n =>
             /\ SubSeq(s, Len(s) - n + 1, Len(s)) \in Seq(Alphabet)
             /\ Len(SubSeq(s, Len(s) - n + 1, Len(s))) = n
      OBVIOUS
    <3>. QED  BY <2>1, <3>1 DEF Grams
  <2>. HIDE DEF last
  <2>4. bigram \in Tables /\ trigram \in Tables
    BY <2>3, OneCounted, NothingCounted
  <2>. HIDE DEF bigram, trigram
  <2>5. state.counts (+) bigram (+) trigram \in Tables
    BY <1>1, <2>4, CountsAddUp, Zenon
  <2>. QED  BY <2>1, <2>2, <2>5 DEF LineStates
<1>. QED  BY <1>2, <1>3

\* A line is counted letter by letter.
LEMMA LineFollows ==
    ASSUME NEW line \in Seq(Chars)
    PROVE  LET N == Len(line)
               e == LineAfter(line)
           IN  /\ e \in [0..N -> LineStates]
               /\ e[0] = [previous |-> <<>>, counts |-> EmptyBag]
               /\ \A n \in 1..N : e[n] = CountLetter(e[n - 1], line[n])
<1>. DEFINE N == Len(line)
            base == [previous |-> <<>>, counts |-> EmptyBag]
            next(n, x) == CountLetter(x, line[n])
            Step == [a \in (1..N) \X LineStates |-> next(a[1], a[2])]
            Is(f) == f = [n \in 0..N |-> IF n = 0 THEN base ELSE next(n, f[n - 1])]
            e == LineAfter(line)
<1>1. /\ N \in Nat /\ base \in LineStates
      /\ \A n \in 1..N, x \in LineStates : next(n, x) \in LineStates
  <2>1. base \in LineStates
    <3>1. <<>> \in Seq(Alphabet)
      OBVIOUS
    <3>. QED  BY <3>1, NothingCounted DEF LineStates
  <2>. HIDE DEF base
  <2>. QED  BY <2>1, CountLetterTyped
<1>2. e = CHOOSE f : Is(f)
  BY Zenon DEF LineAfter
<1>. HIDE DEF N, e, next, base
<1>3. Step \in Steps(N, LineStates)
  <2>1. \A a \in (1..N) \X LineStates : a[1] \in 1..N /\ a[2] \in LineStates
    OBVIOUS
  <2>2. \A a \in (1..N) \X LineStates : next(a[1], a[2]) \in LineStates
    BY <1>1, <2>1
  <2>. QED  BY <2>2, Zenon DEF Steps
<1>4. PICK f \in [0..N -> LineStates] : Follows(N, base, Step, f)
  <2>. HIDE DEF Step
  <2>. QED  BY <1>1, <1>3, RecursiveFunction, Zenon
<1>5. f[0] = base /\ \A n \in 1..N : f[n] = next(n, f[n - 1])
  <2>1. \A n \in 1..N : <<n, f[n - 1]>> \in (1..N) \X LineStates
    <3>1. \A n \in 1..N : n - 1 \in 0..N
      BY <1>1
    <3>2. \A n \in 1..N : f[n - 1] \in LineStates
      BY <3>1, Zenon
    <3>. QED  BY <3>2
  <2>2. \A n \in 1..N : Step[<<n, f[n - 1]>>] = next(n, f[n - 1])
    BY <2>1
  <2>. HIDE DEF Step
  <2>. QED  BY <1>4, <2>2 DEF Follows
<1>6. Is(f)
  <2>. DEFINE body(n) == IF n = 0 THEN base ELSE next(n, f[n - 1])
  <2>1. \A n \in 0..N : f[n] = body(n)
    <3>1. \A n \in 0..N : n = 0 \/ n \in 1..N
      BY <1>1
    <3>. QED  BY <1>5, <3>1, Zenon
  <2>. HIDE DEF body
  <2>2. f = [n \in 0..N |-> body(n)]
    BY <2>1
  <2>. QED  BY <2>2 DEF body
<1>7. Is(e)
  <2>. HIDE DEF Is
  <2>. QED  BY <1>2, <1>6, Zenon
<1>8. /\ OnNumbers(N, e) /\ e[0] = base
      /\ \A n \in 1..N : e[n] = next(n, e[n - 1])
  <2>1. \A n \in 0..N : e[n] = IF n = 0 THEN base ELSE next(n, e[n - 1])
    BY <1>7, Zenon
  <2>2. 0 \in 0..N /\ \A n \in 1..N : n \in 0..N /\ n # 0
    BY <1>1
  <2>3. OnNumbers(N, e)
    BY <1>7, Zenon DEF OnNumbers
  <2>. QED  BY <2>1, <2>2, <2>3, Zenon
<1>9. \A n \in 1..N : e[n - 1] \in LineStates => e[n] = Step[<<n, e[n - 1]>>]
  <2>1. TAKE n \in 1..N
  <2>2. HAVE e[n - 1] \in LineStates
  <2>3. <<n, e[n - 1]>> \in (1..N) \X LineStates
    BY <2>2
  <2>4. Step[<<n, e[n - 1]>>] = next(n, e[n - 1])
    BY <2>3
  <2>. QED  BY <1>8, <2>4
<1>10. e \in [0..N -> LineStates]
  <2>. HIDE DEF Step, Is
  <2>. QED  BY <1>1, <1>3, <1>8, <1>9, RecursionTyped, Zenon
<1>. QED  BY <1>8, <1>10, Zenon DEF e, N, next, base

EndsUpTo(line, g, n) == {i \in 1..n : EndsAt(line, g, i)}

Tally(line, g) == Cardinality(EndsUpTo(line, g, Len(line)))

\* Where an n-gram ends in a line, place by place.
LEMMA EndsGrow ==
    ASSUME NEW line, NEW g, NEW n \in Nat
    PROVE  /\ IsFiniteSet(EndsUpTo(line, g, n)) /\ Cardinality(EndsUpTo(line, g, n)) \in Nat
           /\ n = 0 => Cardinality(EndsUpTo(line, g, n)) = 0
           /\ n # 0 => Cardinality(EndsUpTo(line, g, n)) =
                 Cardinality(EndsUpTo(line, g, n - 1))
                    + (IF EndsAt(line, g, n) THEN 1 ELSE 0)
<1>1. \A m \in Nat : IsFiniteSet(EndsUpTo(line, g, m))
  <2>1. TAKE m \in Nat
  <2>2. IsFiniteSet(1..m)
    <3>1. 1 \in Int /\ m \in Int
      OBVIOUS
    <3>. QED  BY <3>1, FS_Interval, Zenon
  <2>3. EndsUpTo(line, g, m) \in SUBSET (1..m)
    BY DEF EndsUpTo
  <2>. QED  BY <2>2, <2>3, FS_Subset, Zenon
<1>2. ASSUME n = 0
      PROVE  Cardinality(EndsUpTo(line, g, n)) = 0
  <2>1. EndsUpTo(line, g, n) = {}
    BY <1>2 DEF EndsUpTo
  <2>. QED  BY <2>1, FS_EmptySet
<1>3. ASSUME n # 0, EndsAt(line, g, n)
      PROVE  Cardinality(EndsUpTo(line, g, n)) = Cardinality(EndsUpTo(line, g, n - 1)) + 1
  <2>. DEFINE before == EndsUpTo(line, g, n - 1)
  <2>1. EndsUpTo(line, g, n) = before \cup {n} /\ n \notin before /\ n - 1 \in Nat
    BY <1>3 DEF EndsUpTo
  <2>. HIDE DEF before
  <2>2. IsFiniteSet(before)
    BY <1>1, <2>1 DEF before
  <2>3. Cardinality(before \cup {n}) = Cardinality(before) + 1
    BY <2>1, <2>2, FS_AddElement
  <2>. QED  BY <2>1, <2>3 DEF before
<1>4. ASSUME n # 0, ~EndsAt(line, g, n)
      PROVE  Cardinality(EndsUpTo(line, g, n)) = Cardinality(EndsUpTo(line, g, n - 1))
  <2>1. EndsUpTo(line, g, n) = EndsUpTo(line, g, n - 1)
    BY <1>4 DEF EndsUpTo
  <2>. QED  BY <2>1
<1>5. /\ IsFiniteSet(EndsUpTo(line, g, n)) /\ Cardinality(EndsUpTo(line, g, n)) \in Nat
      /\ n # 0 => Cardinality(EndsUpTo(line, g, n - 1)) \in Nat
  <2>1. n # 0 => n - 1 \in Nat
    OBVIOUS
  <2>. QED  BY <1>1, <2>1, FS_CardinalityType
<1>. DEFINE here == Cardinality(EndsUpTo(line, g, n))
            before == Cardinality(EndsUpTo(line, g, n - 1))
<1>. HIDE DEF here, before
<1>. QED  BY <1>2, <1>3, <1>4, <1>5 DEF here, before

\* A line is counted as often as n-grams end in it.
LEMMA LineIsCounted ==
    ASSUME NEW line \in Seq(Chars)
    PROVE  /\ CountLine(line) \in Tables
           /\ \A g \in Grams : Count(CountLine(line), g) = Tally(line, g)
<1>. DEFINE N == Len(line)
            e == LineAfter(line)
            ends(g, n) == Cardinality(EndsUpTo(line, g, n))
            Good == {n \in 0..N :
                        /\ e[n].previous = PreviousAt(line, n)
                        /\ \A g \in Grams : Count(e[n].counts, g) = ends(g, n)}
<1>1. /\ N \in Nat /\ e \in [0..N -> LineStates]
      /\ e[0] = [previous |-> <<>>, counts |-> EmptyBag]
      /\ \A n \in 1..N : e[n] = CountLetter(e[n - 1], line[n])
  BY LineFollows
<1>2. CountLine(line) = e[N].counts
  BY Zenon DEF CountLine, LineAfter
<1>. HIDE DEF e
<1>3. 0 \in Good
  <2>1. e[0].previous = <<>> /\ e[0].counts = EmptyBag
    BY <1>1
  <2>2. PreviousAt(line, 0) = <<>>
    BY DEF PreviousAt, LetterAt
  <2>3. \A g \in Grams : ends(g, 0) = 0
    BY EndsGrow
  <2>4. 0 \in 0..N
    BY <1>1
  <2>. HIDE DEF ends, N
  <2>. QED  BY <2>1, <2>2, <2>3, <2>4, NothingCounted
<1>4. ASSUME NEW n \in 1..N, n - 1 \in Good
      PROVE  n \in Good
  <2>. DEFINE t == e[n - 1].counts
  <2>1. e[n - 1] \in LineStates
    BY <1>1
  <2>2. t \in Tables /\ e[n - 1] = [previous |-> PreviousAt(line, n - 1), counts |-> t]
    BY <1>4, <2>1 DEF LineStates
  <2>3. \A g \in Grams : Count(t, g) = ends(g, n - 1)
    BY <1>4
  <2>. HIDE DEF t
  <2>4. e[n] = CountLetter([previous |-> PreviousAt(line, n - 1), counts |-> t], line[n])
    BY <1>1, <2>2
  <2>5. /\ e[n].previous = PreviousAt(line, n)
        /\ \A g \in Grams : Count(e[n].counts, g) =
              Count(t, g) + (IF EndsAt(line, g, n) THEN 1 ELSE 0)
    <3>. DEFINE after == CountLetter([previous |-> PreviousAt(line, n - 1), counts |-> t],
                                     line[n])
    <3>1. n \in 1..Len(line) /\ e[n] = after
      BY <2>4
    <3>2. /\ after.previous = PreviousAt(line, n)
          /\ \A g \in Grams : Count(after.counts, g) =
                Count(t, g) + (IF EndsAt(line, g, n) THEN 1 ELSE 0)
      BY <2>2, <3>1, LetterIsCounted
    <3>. HIDE DEF after
    <3>. QED  BY <3>1, <3>2
  <2>6. \A g \in Grams : ends(g, n) = ends(g, n - 1) + (IF EndsAt(line, g, n) THEN 1 ELSE 0)
    <3>1. n \in Nat /\ n # 0
      OBVIOUS
    <3>. QED  BY <3>1, EndsGrow
  <2>7. n \in 0..N
    BY <1>1
  <2>. HIDE DEF ends, N
  <2>. QED  BY <2>3, <2>5, <2>6, <2>7
<1>5. \A n \in 0..N : n \in Good
  <2>1. N \in Nat /\ 0 \in Good /\ \A n \in 1..N : n - 1 \in Good => n \in Good
    BY <1>1, <1>3, <1>4
  <2>. HIDE DEF Good, N
  <2>. QED  BY <2>1, UpTo, Zenon
<1>6. N \in 0..N /\ N \in Good
  BY <1>1, <1>5
<1>7. e[N] \in LineStates
  BY <1>1, <1>6
<1>8. e[N].counts \in Tables
  BY <1>7 DEF LineStates
<1>9. \A g \in Grams : Count(e[N].counts, g) = ends(g, N)
  BY <1>6
<1>. QED  BY <1>2, <1>8, <1>9 DEF Tally
-----------------------------------------------------------------------------
(* Counting a corpus                                                        *)

Corpora == Seq(Seq(Chars))

\* The accepted ones of the first m lines, and how often an n-gram stands there.
Accepted(corpus, markers, m) == {l \in 1..m : Accepts(corpus[l], markers)}

Tallied(corpus, markers, g, m) ==
    Cardinality(Occurrences(corpus, Accepted(corpus, markers, m), g))

\* Each accepted line adds its own places, and these only.
LEMMA TalliesGrow ==
    ASSUME NEW corpus \in Corpora, NEW markers, NEW g, NEW m \in 0..Len(corpus)
    PROVE  /\ Tallied(corpus, markers, g, m) \in Nat
           /\ m = 0 => Tallied(corpus, markers, g, m) = 0
           /\ m # 0 => Tallied(corpus, markers, g, m) =
                 Tallied(corpus, markers, g, m - 1)
                    + (IF Accepts(corpus[m], markers) THEN Tally(corpus[m], g) ELSE 0)
<1>. DEFINE N == Len(corpus)
            places(l) == {l} \X {i \in DOMAIN corpus[l] : EndsAt(corpus[l], g, i)}
            ends(l) == EndsUpTo(corpus[l], g, Len(corpus[l]))
            all(k) == Occurrences(corpus, Accepted(corpus, markers, k), g)
            Good == {k \in 0..N : IsFiniteSet(all(k))}
<1>1. N \in Nat /\ \A l \in 1..N : corpus[l] \in Seq(Chars) /\ Len(corpus[l]) \in Nat
  BY DEF Corpora
<1>2. \A k : all(k) = UNION {places(l) : l \in Accepted(corpus, markers, k)}
  BY Zenon DEF Occurrences
<1>3. ASSUME NEW l \in 1..N
      PROVE  places(l) = {l} \X ends(l) /\ IsFiniteSet(places(l))
             /\ Cardinality(places(l)) = Tally(corpus[l], g)
  <2>1. DOMAIN corpus[l] = 1..Len(corpus[l])
    BY <1>1
  <2>2. places(l) = {l} \X ends(l)
    BY <2>1, Zenon DEF EndsUpTo
  <2>3. IsFiniteSet(ends(l)) /\ Cardinality(ends(l)) \in Nat
    BY <1>1, EndsGrow
  <2>4. IsFiniteSet({l}) /\ Cardinality({l}) = 1
    BY FS_Singleton
  <2>. HIDE DEF ends, places
  <2>5. /\ IsFiniteSet({l} \X ends(l))
        /\ Cardinality({l} \X ends(l)) = Cardinality({l}) * Cardinality(ends(l))
    BY <2>3, <2>4, FS_Product
  <2>6. Cardinality({l} \X ends(l)) = Cardinality(ends(l))
    BY <2>3, <2>4, <2>5
  <2>. QED  BY <2>2, <2>5, <2>6 DEF Tally, ends
<1>4. \A k \in 1..N : all(k) =
         all(k - 1) \cup (IF Accepts(corpus[k], markers) THEN places(k) ELSE {})
  <2>1. TAKE k \in 1..N
  <2>2. Accepted(corpus, markers, k) =
           Accepted(corpus, markers, k - 1)
              \cup (IF Accepts(corpus[k], markers) THEN {k} ELSE {})
    BY DEF Accepted
  <2>. HIDE DEF all, places
  <2>3. CASE Accepts(corpus[k], markers)
    <3>1. Accepted(corpus, markers, k) = Accepted(corpus, markers, k - 1) \cup {k}
      BY <2>2, <2>3
    <3>2. all(k) = all(k - 1) \cup places(k)
      BY <1>2, <3>1
    <3>. QED  BY <2>3, <3>2
  <2>4. CASE ~Accepts(corpus[k], markers)
    <3>1. Accepted(corpus, markers, k) = Accepted(corpus, markers, k - 1)
      BY <2>2, <2>4
    <3>2. all(k) = all(k - 1) \cup {}
      BY <1>2, <3>1
    <3>. QED  BY <2>4, <3>2
  <2>. QED  BY <2>3, <2>4
<1>5. \A k \in 1..N : all(k - 1) \cap places(k) = {}
  <2>1. TAKE k \in 1..N
  <2>2. \A at \in all(k - 1) : at[1] \in 1..(k - 1)
    <3>1. \A l : \A at \in places(l) : at[1] = l
      OBVIOUS
    <3>. HIDE DEF all, places
    <3>2. \A l \in Accepted(corpus, markers, k - 1) : l \in 1..(k - 1)
      BY DEF Accepted
    <3>. QED  BY <1>2, <3>1, <3>2
  <2>3. \A at \in places(k) : at[1] = k
    OBVIOUS
  <2>4. k \notin 1..(k - 1)
    BY <1>1
  <2>. HIDE DEF all, places
  <2>. QED  BY <2>2, <2>3, <2>4
<1>6. all(0) = {}
  <2>1. Accepted(corpus, markers, 0) = {}
    BY DEF Accepted
  <2>. HIDE DEF all
  <2>. QED  BY <1>2, <2>1
<1>. HIDE DEF all, places
<1>7. \A k \in 0..N : IsFiniteSet(all(k))
  <2>1. 0 \in Good
    <3>1. 0 \in 0..N
      BY <1>1
    <3>2. IsFiniteSet(all(0))
      BY <1>6, FS_EmptySet, Zenon
    <3>. QED  BY <3>1, <3>2, Zenon
  <2>2. ASSUME NEW k \in 1..N, k - 1 \in Good
        PROVE  k \in Good
    <3>1. IsFiniteSet(all(k - 1)) /\ IsFiniteSet(places(k)) /\ k \in 0..N
      BY <1>1, <1>3, <2>2
    <3>2. IsFiniteSet(all(k - 1) \cup places(k)) /\ IsFiniteSet(all(k - 1) \cup {})
      <4>1. all(k - 1) \cup {} = all(k - 1)
        OBVIOUS
      <4>. QED  BY <3>1, <4>1, FS_Union
    <3>3. all(k) = all(k - 1) \cup places(k) \/ all(k) = all(k - 1) \cup {}
      BY <1>4
    <3>. QED  BY <3>1, <3>2, <3>3
  <2>. HIDE DEF N
  <2>3. \A k \in 0..N : k \in Good
    <3>1. N \in Nat /\ \A k \in 1..N : k - 1 \in Good => k \in Good
      BY <1>1, <2>2
    <3>. HIDE DEF Good
    <3>. QED  BY <2>1, <3>1, UpTo, Zenon
  <2>. QED  BY <2>3
<1>8. Cardinality(all(m)) \in Nat
  BY <1>7, FS_CardinalityType
<1>9. m = 0 => Cardinality(all(m)) = 0
  BY <1>6, FS_EmptySet
<1>10. ASSUME m # 0
       PROVE  Cardinality(all(m)) = Cardinality(all(m - 1))
                 + (IF Accepts(corpus[m], markers) THEN Tally(corpus[m], g) ELSE 0)
  <2>1. m \in 1..N /\ m - 1 \in 0..N
    BY <1>1, <1>10
  <2>2. IsFiniteSet(all(m - 1)) /\ Cardinality(all(m - 1)) \in Nat
    BY <1>7, <2>1, FS_CardinalityType
  <2>3. CASE Accepts(corpus[m], markers)
    <3>1. all(m) = all(m - 1) \cup places(m) /\ all(m - 1) \cap places(m) = {}
      BY <1>4, <1>5, <2>1, <2>3
    <3>2. IsFiniteSet(places(m)) /\ Cardinality(places(m)) = Tally(corpus[m], g)
      BY <1>3, <2>1
    <3>3. Cardinality(all(m - 1) \cup places(m)) = Cardinality(all(m - 1))
             + Cardinality(places(m)) - Cardinality(all(m - 1) \cap places(m))
      BY <2>2, <3>2, FS_Union
    <3>4. Cardinality(all(m - 1) \cap places(m)) = 0 /\ Cardinality(places(m)) \in Nat
      BY <3>1, <3>2, FS_EmptySet, FS_CardinalityType
    <3>. QED  BY <2>2, <2>3, <3>1, <3>2, <3>3, <3>4
  <2>4. CASE ~Accepts(corpus[m], markers)
    <3>1. all(m) = all(m - 1)
      BY <1>4, <2>1, <2>4
    <3>. QED  BY <2>2, <2>4, <3>1
  <2>. QED  BY <2>3, <2>4
<1>. QED  BY <1>8, <1>9, <1>10, Zenon DEF Tallied, all

\* The counts after n lines of a chunk.
ChunkAfter(lines, markers) ==
    LET after[n \in 0..Len(lines)] ==
            IF n = 0 THEN EmptyBag
            ELSE IF Accepts(lines[n], markers) THEN after[n - 1] (+) CountLine(lines[n])
            ELSE after[n - 1]
    IN  after

\* A chunk is counted line by line.
LEMMA ChunkFollows ==
    ASSUME NEW lines \in Corpora, NEW markers
    PROVE  LET N == Len(lines)
               e == ChunkAfter(lines, markers)
           IN  /\ e \in [0..N -> Tables]
               /\ e[0] = EmptyBag
               /\ \A n \in 1..N : e[n] =
                     IF Accepts(lines[n], markers) THEN e[n - 1] (+) CountLine(lines[n])
                     ELSE e[n - 1]
<1>. DEFINE N == Len(lines)
            base == EmptyBag
            next(n, x) == IF Accepts(lines[n], markers) THEN x (+) CountLine(lines[n])
                          ELSE x
            Step == [a \in (1..N) \X Tables |-> next(a[1], a[2])]
            Is(f) == f = [n \in 0..N |-> IF n = 0 THEN base ELSE next(n, f[n - 1])]
            e == ChunkAfter(lines, markers)
<1>1. /\ N \in Nat /\ base \in Tables
      /\ \A n \in 1..N, x \in Tables : next(n, x) \in Tables
  <2>1. N \in Nat /\ \A n \in 1..N : lines[n] \in Seq(Chars)
    BY DEF Corpora
  <2>2. \A n \in 1..N : CountLine(lines[n]) \in Tables
    BY <2>1, LineIsCounted
  <2>. QED  BY <2>1, <2>2, CountsAddUp, NothingCounted, Zenon
<1>2. e = CHOOSE f : Is(f)
  BY Zenon DEF ChunkAfter
<1>. HIDE DEF N, e, next, base
<1>3. Step \in Steps(N, Tables)
  <2>1. \A a \in (1..N) \X Tables : a[1] \in 1..N /\ a[2] \in Tables
    OBVIOUS
  <2>2. \A a \in (1..N) \X Tables : next(a[1], a[2]) \in Tables
    BY <1>1, <2>1
  <2>. QED  BY <2>2, Zenon DEF Steps
<1>4. PICK f \in [0..N -> Tables] : Follows(N, base, Step, f)
  <2>. HIDE DEF Step
  <2>. QED  BY <1>1, <1>3, RecursiveFunction, Zenon
<1>5. f[0] = base /\ \A n \in 1..N : f[n] = next(n, f[n - 1])
  <2>1. \A n \in 1..N : <<n, f[n - 1]>> \in (1..N) \X Tables
    <3>1. \A n \in 1..N : n - 1 \in 0..N
      BY <1>1
    <3>2. \A n \in 1..N : f[n - 1] \in Tables
      BY <3>1, Zenon
    <3>. QED  BY <3>2
  <2>2. \A n \in 1..N : Step[<<n, f[n - 1]>>] = next(n, f[n - 1])
    BY <2>1
  <2>. HIDE DEF Step
  <2>. QED  BY <1>4, <2>2 DEF Follows
<1>6. Is(f)
  <2>. DEFINE body(n) == IF n = 0 THEN base ELSE next(n, f[n - 1])
  <2>1. \A n \in 0..N : f[n] = body(n)
    <3>1. \A n \in 0..N : n = 0 \/ n \in 1..N
      BY <1>1
    <3>. QED  BY <1>5, <3>1, Zenon
  <2>. HIDE DEF body
  <2>2. f = [n \in 0..N |-> body(n)]
    BY <2>1
  <2>. QED  BY <2>2 DEF body
<1>7. Is(e)
  <2>. HIDE DEF Is
  <2>. QED  BY <1>2, <1>6, Zenon
<1>8. /\ OnNumbers(N, e) /\ e[0] = base
      /\ \A n \in 1..N : e[n] = next(n, e[n - 1])
  <2>1. \A n \in 0..N : e[n] = IF n = 0 THEN base ELSE next(n, e[n - 1])
    BY <1>7, Zenon
  <2>2. 0 \in 0..N /\ \A n \in 1..N : n \in 0..N /\ n # 0
    BY <1>1
  <2>3. OnNumbers(N, e)
    BY <1>7, Zenon DEF OnNumbers
  <2>. QED  BY <2>1, <2>2, <2>3, Zenon
<1>9. \A n \in 1..N : e[n - 1] \in Tables => e[n] = Step[<<n, e[n - 1]>>]
  <2>1. TAKE n \in 1..N
  <2>2. HAVE e[n - 1] \in Tables
  <2>3. <<n, e[n - 1]>> \in (1..N) \X Tables
    BY <2>2
  <2>4. Step[<<n, e[n - 1]>>] = next(n, e[n - 1])
    BY <2>3
  <2>. QED  BY <1>8, <2>4
<1>10. e \in [0..N -> Tables]
  <2>. HIDE DEF Step, Is
  <2>. QED  BY <1>1, <1>3, <1>8, <1>9, RecursionTyped, Zenon
<1>. QED  BY <1>8, <1>10, Zenon DEF e, N, next, base

\* A chunk counts what stands between its first and its last line.
LEMMA ChunkIsCounted ==
    ASSUME NEW corpus \in Corpora, NEW markers, NEW m \in 0..Len(corpus),
           NEW n \in 0..Len(corpus), m <= n
    PROVE  LET counts == CountChunk(SubSeq(corpus, m + 1, n), markers)
           IN  /\ counts \in Tables
               /\ \A g \in Grams : Tallied(corpus, markers, g, n) =
                     Tallied(corpus, markers, g, m) + Count(counts, g)
<1>. DEFINE chunk == SubSeq(corpus, m + 1, n)
            e == ChunkAfter(chunk, markers)
            N == n - m
            tally(g, k) == Tallied(corpus, markers, g, k)
            Good == {k \in 0..N : \A g \in Grams :
                        tally(g, m + k) = tally(g, m) + Count(e[k], g)}
<1>1. /\ chunk \in Corpora /\ Len(chunk) = N /\ N \in Nat
      /\ \A k \in 1..N : chunk[k] = corpus[m + k] /\ corpus[m + k] \in Seq(Chars)
  BY DEF Corpora
<1>2. CountChunk(chunk, markers) = e[Len(chunk)]
  BY Zenon DEF CountChunk, ChunkAfter
<1>. HIDE DEF chunk
<1>3. /\ e \in [0..N -> Tables] /\ e[0] = EmptyBag
      /\ \A k \in 1..N :
            e[k] = IF Accepts(chunk[k], markers) THEN e[k - 1] (+) CountLine(chunk[k])
                   ELSE e[k - 1]
  <2>1. /\ e \in [0..Len(chunk) -> Tables] /\ e[0] = EmptyBag
        /\ \A k \in 1..Len(chunk) :
              e[k] = IF Accepts(chunk[k], markers) THEN e[k - 1] (+) CountLine(chunk[k])
                     ELSE e[k - 1]
    BY <1>1, ChunkFollows
  <2>. HIDE DEF e
  <2>. QED  BY <1>1, <2>1
<1>. HIDE DEF e
<1>4. \A g, k \in 0..Len(corpus) : tally(g, k) \in Nat
  BY TalliesGrow
<1>5. 0 \in Good
  <2>1. m + 0 = m /\ 0 \in 0..N /\ m \in 0..Len(corpus)
    BY <1>1
  <2>2. \A g : tally(g, m) \in Nat
    BY TalliesGrow
  <2>3. \A g : tally(g, m + 0) = tally(g, m) + Count(e[0], g)
    <3>. HIDE DEF tally
    <3>. QED  BY <1>3, <2>1, <2>2, NothingCounted
  <2>. HIDE DEF tally
  <2>. QED  BY <2>1, <2>3
<1>6. ASSUME NEW k \in 1..N, k - 1 \in Good
      PROVE  k \in Good
  <2>. DEFINE line == corpus[m + k]
  <2>1. /\ k \in 0..N /\ m + k \in 0..Len(corpus) /\ m + k # 0 /\ m + k - 1 = m + (k - 1)
        /\ m + (k - 1) \in 0..Len(corpus)
    BY <1>1
  <2>2. \A g : tally(g, m + k) = tally(g, m + (k - 1))
                  + (IF Accepts(line, markers) THEN Tally(line, g) ELSE 0)
    BY <2>1, TalliesGrow
  <2>3. line \in Seq(Chars) /\ chunk[k] = line
    BY <1>1
  <2>. HIDE DEF line
  <2>4. e[k - 1] \in Tables /\ CountLine(line) \in Tables
    <3>1. k - 1 \in 0..N
      BY <1>1
    <3>. QED  BY <1>3, <2>3, <3>1, LineIsCounted
  <2>5. \A g \in Grams : Count(e[k], g) = Count(e[k - 1], g)
                  + (IF Accepts(line, markers) THEN Tally(line, g) ELSE 0)
    <3>1. CASE Accepts(line, markers)
      <4>1. e[k] = e[k - 1] (+) CountLine(line)
        BY <1>3, <2>3, <3>1
      <4>2. \A g \in Grams : Count(CountLine(line), g) = Tally(line, g)
        BY <2>3, LineIsCounted
      <4>3. \A g \in Grams : Count(e[k], g) = Count(e[k - 1], g) + Count(CountLine(line), g)
        BY <2>4, <4>1, CountsAddUp
      <4>. QED  BY <3>1, <4>2, <4>3
    <3>2. CASE ~Accepts(line, markers)
      <4>1. e[k] = e[k - 1]
        BY <1>3, <2>3, <3>2
      <4>. QED  BY <2>4, <3>2, <4>1, CountsAreNumbers
    <3>. QED  BY <3>1, <3>2
  <2>6. \A g \in Grams : tally(g, m + (k - 1)) = tally(g, m) + Count(e[k - 1], g)
    BY <1>6
  <2>7. \A g : tally(g, m) \in Nat
    BY TalliesGrow
  <2>8. \A g : Count(e[k - 1], g) \in Nat
    BY <2>4, CountsAreNumbers
  <2>9. \A g : Tally(line, g) \in Nat
    BY <2>3, EndsGrow DEF Tally
  <2>. HIDE DEF tally
  <2>10. \A g \in Grams : tally(g, m + k) = tally(g, m) + Count(e[k], g)
    BY <2>2, <2>5, <2>6, <2>7, <2>8, <2>9
  <2>. QED  BY <2>1, <2>10
<1>7. \A k \in 0..N : k \in Good
  <2>1. N \in Nat /\ \A k \in 1..N : k - 1 \in Good => k \in Good
    BY <1>1, <1>6
  <2>. HIDE DEF Good, N
  <2>. QED  BY <1>5, <2>1, UpTo, Zenon
<1>8. N \in 0..N /\ m + N = n
  BY <1>1
<1>9. e[N] \in Tables /\ \A g \in Grams : tally(g, n) = tally(g, m) + Count(e[N], g)
  <2>1. N \in Good
    BY <1>7, <1>8
  <2>2. \A g \in Grams : tally(g, m + N) = tally(g, m) + Count(e[N], g)
    BY <2>1
  <2>. HIDE DEF N, tally, Good
  <2>. QED  BY <1>3, <1>8, <2>2
<1>10. CountChunk(chunk, markers) = e[N]
  BY <1>1, <1>2
<1>. HIDE DEF N
<1>. QED  BY <1>9, <1>10, Zenon DEF chunk

\* What is counted of a part of a corpus is what the part adds.
LEMMA PartsAddUp ==
    ASSUME NEW corpus \in Corpora, NEW markers, NEW m \in 0..Len(corpus),
           NEW n \in 0..Len(corpus), m <= n
    PROVE  \A g \in Grams : Tallied(corpus, markers, g, n) =
              Tallied(corpus, markers, g, m)
                 + Tallied(SubSeq(corpus, m + 1, n), markers, g, n - m)
<1>. DEFINE part == SubSeq(corpus, m + 1, n)
            counts == CountChunk(part, markers)
<1>1. part \in Corpora /\ Len(part) = n - m /\ n - m \in Nat
  BY DEF Corpora
<1>2. \A g \in Grams : Tallied(corpus, markers, g, n) =
         Tallied(corpus, markers, g, m) + Count(counts, g)
  BY ChunkIsCounted
<1>. HIDE DEF part
<1>3. SubSeq(part, 0 + 1, Len(part)) = part
  BY <1>1 DEF Corpora
<1>4. counts \in Tables
      /\ \A g \in Grams : Tallied(part, markers, g, Len(part)) =
            Tallied(part, markers, g, 0) + Count(counts, g)
  <2>1. 0 \in 0..Len(part) /\ Len(part) \in 0..Len(part) /\ 0 <= Len(part)
    BY <1>1
  <2>. HIDE DEF counts
  <2>2. CountChunk(SubSeq(part, 0 + 1, Len(part)), markers) = counts
    BY <1>3 DEF counts
  <2>. QED  BY <1>1, <2>1, <2>2, ChunkIsCounted
<1>5. \A g \in Grams : Tallied(part, markers, g, 0) = 0
  <2>1. 0 \in 0..Len(part)
    BY <1>1
  <2>. QED  BY <1>1, <2>1, TalliesGrow
<1>6. \A g \in Grams : Count(counts, g) \in Nat
  BY <1>4, CountsAreNumbers
<1>. HIDE DEF counts
<1>7. \A g \in Grams : Tallied(part, markers, g, n - m) = Count(counts, g)
  BY <1>1, <1>4, <1>5, <1>6
<1>. QED  BY <1>2, <1>7 DEF part
-----------------------------------------------------------------------------
(* Counting with several workers                                            *)

ChunkSize(lines, workers) ==
    LET active == IF workers > Len(lines) THEN Len(lines) ELSE workers
    IN  IF active = 0 THEN 1 ELSE (Len(lines) + active - 1) \div active

ChunkCount(lines, workers) ==
    (Len(lines) + ChunkSize(lines, workers) - 1) \div ChunkSize(lines, workers)

\* How many lines the first n chunks have.
ChunkEnd(lines, workers, n) ==
    IF n * ChunkSize(lines, workers) > Len(lines) THEN Len(lines)
    ELSE n * ChunkSize(lines, workers)

ChunkOf(lines, workers, n) ==
    SubSeq(lines, (n - 1) * ChunkSize(lines, workers) + 1, ChunkEnd(lines, workers, n))

\* The counts of the first n chunks.
LinesAfter(lines, workers, markers) ==
    LET merged[n \in 0..ChunkCount(lines, workers)] ==
            IF n = 0 THEN EmptyBag
            ELSE merged[n - 1] (+) CountChunk(ChunkOf(lines, workers, n), markers)
    IN  merged

\* Division that rounds up.
LEMMA Quotients ==
    ASSUME NEW a \in Nat, NEW b \in Nat \ {0}
    PROVE  LET q == (a + b - 1) \div b
           IN  q \in Nat /\ a <= q * b /\ q * b <= a + b - 1
<1>. DEFINE c == a + b - 1
            q == c \div b
<1>1. c \in Nat
  OBVIOUS
<1>. HIDE DEF c
<1>2. q \in Nat /\ b * q <= c /\ c < b * q + b
  BY <1>1
<1>3. b * q = q * b
  BY <1>2
<1>. HIDE DEF q
<1>4. q * b \in Nat
  BY <1>2, <1>3
<1>. QED  BY <1>2, <1>3, <1>4 DEF c, q

\* The chunks are the lines: one ends where the next begins.
LEMMA ChunksCover ==
    ASSUME NEW lines \in Corpora, NEW workers \in Nat
    PROVE  LET N == ChunkCount(lines, workers)
               end(n) == ChunkEnd(lines, workers, n)
           IN  /\ N \in Nat /\ end(0) = 0 /\ end(N) = Len(lines)
               /\ \A n \in 1..N :
                     /\ end(n - 1) \in 0..Len(lines) /\ end(n) \in 0..Len(lines)
                     /\ end(n - 1) <= end(n)
                     /\ ChunkOf(lines, workers, n) = SubSeq(lines, end(n - 1) + 1, end(n))
<1>. DEFINE L == Len(lines)
            active == IF workers > L THEN L ELSE workers
            size == ChunkSize(lines, workers)
            N == ChunkCount(lines, workers)
            end(n) == ChunkEnd(lines, workers, n)
<1>1. L \in Nat
  BY DEF Corpora
<1>2. size \in Nat \ {0}
  <2>1. size = IF active = 0 THEN 1 ELSE (L + active - 1) \div active
    BY Zenon DEF ChunkSize
  <2>2. active \in Nat /\ active <= L
    BY <1>1
  <2>. HIDE DEF active, size, L
  <2>3. CASE active = 0
    BY <2>1, <2>3
  <2>4. CASE active # 0
    <3>. DEFINE q == (L + active - 1) \div active
    <3>1. q \in Nat /\ L <= q * active
      BY <1>1, <2>2, <2>4, Quotients
    <3>2. q # 0
      <4>1. 0 * active = 0 /\ L > 0
        BY <1>1, <2>2, <2>4
      <4>. HIDE DEF q
      <4>. QED  BY <1>1, <3>1, <4>1
    <3>3. size = q
      BY <2>1, <2>4
    <3>. HIDE DEF q
    <3>. QED  BY <3>1, <3>2, <3>3
  <2>. QED  BY <2>3, <2>4
<1>. HIDE DEF L, size
<1>3. N = (L + size - 1) \div size
  BY Zenon DEF ChunkCount, L, size
<1>. HIDE DEF N
<1>4. N \in Nat /\ L <= N * size /\ N * size <= L + size - 1
  BY <1>1, <1>2, <1>3, Quotients
<1>5. \A n : end(n) = IF n * size > L THEN L ELSE n * size
  BY Zenon DEF ChunkEnd, L, size
<1>6. \A n : ChunkOf(lines, workers, n) = SubSeq(lines, (n - 1) * size + 1, end(n))
  BY Zenon DEF ChunkOf, size
<1>. HIDE DEF end
<1>7. end(0) = 0
  <2>1. 0 * size = 0
    BY <1>2
  <2>. QED  BY <1>1, <1>5, <2>1
<1>8. end(N) = L
  <2>1. N * size \in Nat
    BY <1>2, <1>4
  <2>. QED  BY <1>1, <1>4, <1>5, <2>1
<1>9. ASSUME NEW n \in 1..N
      PROVE  /\ end(n - 1) \in 0..L /\ end(n) \in 0..L /\ end(n - 1) <= end(n)
             /\ ChunkOf(lines, workers, n) = SubSeq(lines, end(n - 1) + 1, end(n))
  <2>1. n \in Nat /\ n - 1 \in Nat /\ N - n \in Nat
    BY <1>4
  <2>2. (n - 1) * size + size = n * size /\ (n - 1) * size \in Nat /\ n * size \in Nat
    BY <1>2, <2>1
  <2>3. n * size + (N - n) * size = N * size /\ (N - n) * size \in Nat
    BY <1>2, <1>4, <2>1
  <2>4. n * size <= N * size /\ N * size \in Nat
    BY <2>2, <2>3
  <2>5. (n - 1) * size <= L
    BY <1>1, <1>2, <1>4, <2>2, <2>4
  <2>6. end(n - 1) = (n - 1) * size
    BY <1>1, <1>5, <2>2, <2>5
  <2>7. end(n) \in 0..L /\ (n - 1) * size <= end(n)
    <3>1. end(n) = IF n * size > L THEN L ELSE n * size
      BY <1>5
    <3>. QED  BY <1>1, <1>2, <2>2, <2>5, <3>1
  <2>8. ChunkOf(lines, workers, n) = SubSeq(lines, end(n - 1) + 1, end(n))
    BY <1>6, <2>6
  <2>. QED  BY <2>2, <2>5, <2>6, <2>7, <2>8
<1>. QED  BY <1>4, <1>7, <1>8, <1>9, Zenon DEF N, end, L

\* The counts of the chunks are added one after another.
LEMMA LinesFollow ==
    ASSUME NEW lines \in Corpora, NEW workers \in Nat, NEW markers
    PROVE  LET N == ChunkCount(lines, workers)
               e == LinesAfter(lines, workers, markers)
           IN  /\ e \in [0..N -> Tables]
               /\ e[0] = EmptyBag
               /\ \A n \in 1..N : e[n] =
                     e[n - 1] (+) CountChunk(ChunkOf(lines, workers, n), markers)
<1>. DEFINE N == ChunkCount(lines, workers)
            base == EmptyBag
            next(n, x) == x (+) CountChunk(ChunkOf(lines, workers, n), markers)
            Step == [a \in (1..N) \X Tables |-> next(a[1], a[2])]
            Is(f) == f = [n \in 0..N |-> IF n = 0 THEN base ELSE next(n, f[n - 1])]
            e == LinesAfter(lines, workers, markers)
<1>1. /\ N \in Nat /\ base \in Tables
      /\ \A n \in 1..N, x \in Tables : next(n, x) \in Tables
  <2>1. /\ N \in Nat
        /\ \A n \in 1..N :
              /\ ChunkEnd(lines, workers, n - 1) \in 0..Len(lines)
              /\ ChunkEnd(lines, workers, n) \in 0..Len(lines)
              /\ ChunkEnd(lines, workers, n - 1) <= ChunkEnd(lines, workers, n)
              /\ ChunkOf(lines, workers, n) = SubSeq(lines,
                    ChunkEnd(lines, workers, n - 1) + 1, ChunkEnd(lines, workers, n))
    BY ChunksCover
  <2>. HIDE DEF N
  <2>2. \A n \in 1..N : CountChunk(ChunkOf(lines, workers, n), markers) \in Tables
    <3>1. TAKE n \in 1..N
    <3>. DEFINE m == ChunkEnd(lines, workers, n - 1)
                k == ChunkEnd(lines, workers, n)
    <3>2. m \in 0..Len(lines) /\ k \in 0..Len(lines) /\ m <= k
      BY <2>1
    <3>3. ChunkOf(lines, workers, n) = SubSeq(lines, m + 1, k)
      BY <2>1
    <3>. HIDE DEF m, k
    <3>4. CountChunk(SubSeq(lines, m + 1, k), markers) \in Tables
      BY <3>2, ChunkIsCounted
    <3>. QED  BY <3>3, <3>4
  <2>. QED  BY <2>1, <2>2, CountsAddUp, NothingCounted, Zenon
<1>2. e = CHOOSE f : Is(f)
  BY Zenon DEF LinesAfter
<1>. HIDE DEF N, e, next, base
<1>3. Step \in Steps(N, Tables)
  <2>1. \A a \in (1..N) \X Tables : a[1] \in 1..N /\ a[2] \in Tables
    OBVIOUS
  <2>2. \A a \in (1..N) \X Tables : next(a[1], a[2]) \in Tables
    BY <1>1, <2>1
  <2>. QED  BY <2>2, Zenon DEF Steps
<1>4. PICK f \in [0..N -> Tables] : Follows(N, base, Step, f)
  <2>. HIDE DEF Step
  <2>. QED  BY <1>1, <1>3, RecursiveFunction, Zenon
<1>5. f[0] = base /\ \A n \in 1..N : f[n] = next(n, f[n - 1])
  <2>1. \A n \in 1..N : <<n, f[n - 1]>> \in (1..N) \X Tables
    <3>1. \A n \in 1..N : n - 1 \in 0..N
      BY <1>1
    <3>2. \A n \in 1..N : f[n - 1] \in Tables
      BY <3>1, Zenon
    <3>. QED  BY <3>2
  <2>2. \A n \in 1..N : Step[<<n, f[n - 1]>>] = next(n, f[n - 1])
    BY <2>1
  <2>. HIDE DEF Step
  <2>. QED  BY <1>4, <2>2 DEF Follows
<1>6. Is(f)
  <2>. DEFINE body(n) == IF n = 0 THEN base ELSE next(n, f[n - 1])
  <2>1. \A n \in 0..N : f[n] = body(n)
    <3>1. \A n \in 0..N : n = 0 \/ n \in 1..N
      BY <1>1
    <3>. QED  BY <1>5, <3>1, Zenon
  <2>. HIDE DEF body
  <2>2. f = [n \in 0..N |-> body(n)]
    BY <2>1
  <2>. QED  BY <2>2 DEF body
<1>7. Is(e)
  <2>. HIDE DEF Is
  <2>. QED  BY <1>2, <1>6, Zenon
<1>8. /\ OnNumbers(N, e) /\ e[0] = base
      /\ \A n \in 1..N : e[n] = next(n, e[n - 1])
  <2>1. \A n \in 0..N : e[n] = IF n = 0 THEN base ELSE next(n, e[n - 1])
    BY <1>7, Zenon
  <2>2. 0 \in 0..N /\ \A n \in 1..N : n \in 0..N /\ n # 0
    BY <1>1
  <2>3. OnNumbers(N, e)
    BY <1>7, Zenon DEF OnNumbers
  <2>. QED  BY <2>1, <2>2, <2>3, Zenon
<1>9. \A n \in 1..N : e[n - 1] \in Tables => e[n] = Step[<<n, e[n - 1]>>]
  <2>1. TAKE n \in 1..N
  <2>2. HAVE e[n - 1] \in Tables
  <2>3. <<n, e[n - 1]>> \in (1..N) \X Tables
    BY <2>2
  <2>4. Step[<<n, e[n - 1]>>] = next(n, e[n - 1])
    BY <2>3
  <2>. QED  BY <1>8, <2>4
<1>10. e \in [0..N -> Tables]
  <2>. HIDE DEF Step, Is
  <2>. QED  BY <1>1, <1>3, <1>8, <1>9, RecursionTyped, Zenon
<1>. QED  BY <1>8, <1>10, Zenon DEF e, N, next, base

\* However many workers there are, the counts are those of all the lines.
LEMMA WholeIsCounted ==
    ASSUME NEW lines \in Corpora, NEW workers \in Nat, NEW markers
    PROVE  LET counts == CountLines(lines, workers, markers)
           IN  /\ counts \in Tables
               /\ \A g \in Grams : Count(counts, g) = Tallied(lines, markers, g, Len(lines))
<1>. DEFINE N == ChunkCount(lines, workers)
            e == LinesAfter(lines, workers, markers)
            end(n) == ChunkEnd(lines, workers, n)
            part(n) == CountChunk(ChunkOf(lines, workers, n), markers)
            tally(g, k) == Tallied(lines, markers, g, k)
            Good == {n \in 0..N : \A g \in Grams : Count(e[n], g) = tally(g, end(n))}
<1>1. CountLines(lines, workers, markers) = e[N]
  BY Zenon DEF CountLines, LinesAfter, ChunkCount, ChunkEnd, ChunkOf, ChunkSize
<1>2. /\ e \in [0..N -> Tables] /\ e[0] = EmptyBag
      /\ \A n \in 1..N : e[n] = e[n - 1] (+) part(n)
  BY LinesFollow
<1>3. /\ N \in Nat /\ end(0) = 0 /\ end(N) = Len(lines)
      /\ \A n \in 1..N :
            /\ end(n - 1) \in 0..Len(lines) /\ end(n) \in 0..Len(lines)
            /\ end(n - 1) <= end(n)
            /\ ChunkOf(lines, workers, n) = SubSeq(lines, end(n - 1) + 1, end(n))
  BY ChunksCover
<1>. HIDE DEF e, N, end
<1>4. \A g, k \in 0..Len(lines) : tally(g, k) \in Nat
  BY TalliesGrow
<1>5. ASSUME NEW n \in 1..N
      PROVE  part(n) \in Tables
             /\ \A g \in Grams : tally(g, end(n)) = tally(g, end(n - 1)) + Count(part(n), g)
  <2>. DEFINE m == end(n - 1)
              k == end(n)
  <2>1. /\ m \in 0..Len(lines) /\ k \in 0..Len(lines) /\ m <= k
        /\ ChunkOf(lines, workers, n) = SubSeq(lines, m + 1, k)
    BY <1>3
  <2>. HIDE DEF m, k
  <2>2. part(n) = CountChunk(SubSeq(lines, m + 1, k), markers)
    BY <2>1
  <2>. HIDE DEF part
  <2>3. part(n) \in Tables
        /\ \A g \in Grams : tally(g, k) = tally(g, m) + Count(part(n), g)
    BY <2>1, <2>2, ChunkIsCounted
  <2>. QED  BY <2>3 DEF m, k
<1>. HIDE DEF part
<1>6. 0 \in Good
  <2>1. 0 \in 0..N /\ 0 \in 0..Len(lines)
    BY <1>3 DEF Corpora
  <2>2. \A g : tally(g, 0) = 0
    BY <2>1, TalliesGrow
  <2>3. \A g : Count(e[0], g) = 0
    BY <1>2, NothingCounted
  <2>. HIDE DEF tally
  <2>. QED  BY <1>3, <2>1, <2>2, <2>3
<1>7. ASSUME NEW n \in 1..N, n - 1 \in Good
      PROVE  n \in Good
  <2>1. n \in 0..N /\ n - 1 \in 0..N
    BY <1>3
  <2>2. part(n) \in Tables /\ e[n - 1] \in Tables /\ e[n] = e[n - 1] (+) part(n)
    BY <1>2, <1>5, <2>1
  <2>3. \A g : Count(e[n], g) = Count(e[n - 1], g) + Count(part(n), g)
    BY <2>2, CountsAddUp
  <2>4. \A g \in Grams : Count(e[n - 1], g) = tally(g, end(n - 1))
    BY <1>7
  <2>. HIDE DEF tally
  <2>5. \A g \in Grams : Count(e[n], g) = tally(g, end(n))
    BY <1>5, <2>3, <2>4
  <2>. QED  BY <2>1, <2>5
<1>8. N \in Good
  <2>1. N \in Nat /\ \A n \in 1..N : n - 1 \in Good => n \in Good
    BY <1>3, <1>7
  <2>. HIDE DEF Good
  <2>2. \A n \in 0..N : n \in Good
    BY <1>6, <2>1, UpTo, Zenon
  <2>. QED  BY <1>3, <2>2
<1>9. e[N] \in Tables
  BY <1>2, <1>3
<1>10. \A g \in Grams : Count(e[N], g) = tally(g, Len(lines))
  <2>1. \A g \in Grams : Count(e[N], g) = tally(g, end(N))
    BY <1>8
  <2>. HIDE DEF tally
  <2>. QED  BY <1>3, <2>1
<1>. QED  BY <1>1, <1>9, <1>10, Zenon
-----------------------------------------------------------------------------
(* Reading a corpus                                                         *)


\* The bytes of the first lines, one line after another.
LEMMA BytesFollow ==
    ASSUME NEW corpus \in Corpora
    PROVE  LET N == Len(corpus)
               e == BytesOf(corpus)
           IN  /\ e \in [0..N -> Nat]
               /\ e[0] = 0
               /\ \A n \in 1..N : e[n] = e[n - 1] + Bytes(corpus[n])
<1>. DEFINE N == Len(corpus)
            base == 0
            next(n, x) == x + Bytes(corpus[n])
            Step == [a \in (1..N) \X Nat |-> next(a[1], a[2])]
            Is(f) == f = [n \in 0..N |-> IF n = 0 THEN base ELSE next(n, f[n - 1])]
            e == BytesOf(corpus)
<1>1. /\ N \in Nat /\ base \in Nat
      /\ \A n \in 1..N, x \in Nat : next(n, x) \in Nat
  BY DEF Corpora, Bytes
<1>2. e = CHOOSE f : Is(f)
  BY Zenon DEF BytesOf
<1>. HIDE DEF N, e, next, base
<1>3. Step \in Steps(N, Nat)
  <2>1. \A a \in (1..N) \X Nat : a[1] \in 1..N /\ a[2] \in Nat
    OBVIOUS
  <2>2. \A a \in (1..N) \X Nat : next(a[1], a[2]) \in Nat
    BY <1>1, <2>1
  <2>. QED  BY <2>2, Zenon DEF Steps
<1>4. PICK f \in [0..N -> Nat] : Follows(N, base, Step, f)
  <2>. HIDE DEF Step
  <2>. QED  BY <1>1, <1>3, RecursiveFunction, Zenon
<1>5. f[0] = base /\ \A n \in 1..N : f[n] = next(n, f[n - 1])
  <2>1. \A n \in 1..N : <<n, f[n - 1]>> \in (1..N) \X Nat
    <3>1. \A n \in 1..N : n - 1 \in 0..N
      BY <1>1
    <3>2. \A n \in 1..N : f[n - 1] \in Nat
      BY <3>1, Zenon
    <3>. QED  BY <3>2
  <2>2. \A n \in 1..N : Step[<<n, f[n - 1]>>] = next(n, f[n - 1])
    BY <2>1
  <2>. HIDE DEF Step
  <2>. QED  BY <1>4, <2>2 DEF Follows
<1>6. Is(f)
  <2>. DEFINE body(n) == IF n = 0 THEN base ELSE next(n, f[n - 1])
  <2>1. \A n \in 0..N : f[n] = body(n)
    <3>1. \A n \in 0..N : n = 0 \/ n \in 1..N
      BY <1>1
    <3>. QED  BY <1>5, <3>1, Zenon
  <2>. HIDE DEF body
  <2>2. f = [n \in 0..N |-> body(n)]
    BY <2>1
  <2>. QED  BY <2>2 DEF body
<1>7. Is(e)
  <2>. HIDE DEF Is
  <2>. QED  BY <1>2, <1>6, Zenon
<1>8. /\ OnNumbers(N, e) /\ e[0] = base
      /\ \A n \in 1..N : e[n] = next(n, e[n - 1])
  <2>1. \A n \in 0..N : e[n] = IF n = 0 THEN base ELSE next(n, e[n - 1])
    BY <1>7, Zenon
  <2>2. 0 \in 0..N /\ \A n \in 1..N : n \in 0..N /\ n # 0
    BY <1>1
  <2>3. OnNumbers(N, e)
    BY <1>7, Zenon DEF OnNumbers
  <2>. QED  BY <2>1, <2>2, <2>3, Zenon
<1>9. \A n \in 1..N : e[n - 1] \in Nat => e[n] = Step[<<n, e[n - 1]>>]
  <2>1. TAKE n \in 1..N
  <2>2. HAVE e[n - 1] \in Nat
  <2>3. <<n, e[n - 1]>> \in (1..N) \X Nat
    BY <2>2
  <2>4. Step[<<n, e[n - 1]>>] = next(n, e[n - 1])
    BY <2>3
  <2>. QED  BY <1>8, <2>4
<1>10. e \in [0..N -> Nat]
  <2>. HIDE DEF Step, Is
  <2>. QED  BY <1>1, <1>3, <1>8, <1>9, RecursionTyped, Zenon
<1>. QED  BY <1>8, <1>10, Zenon DEF e, N, next, base

\* Every line has a byte at least, so what is read grows with each.
LEMMA BytesGrow ==
    ASSUME NEW corpus \in Corpora
    PROVE  /\ \A n \in 0..Len(corpus) : BytesOf(corpus)[n] \in Nat
           /\ BytesOf(corpus)[0] = 0
           /\ \A n \in 1..Len(corpus) :
                 /\ BytesOf(corpus)[n] = BytesOf(corpus)[n - 1] + Bytes(corpus[n])
                 /\ BytesOf(corpus)[n] > 0
           /\ \A n \in 0..Len(corpus) : \A m \in 0..n :
                 BytesOf(corpus)[m] <= BytesOf(corpus)[n]
<1>. DEFINE N == Len(corpus)
            W == BytesOf(corpus)
            Good == {n \in 0..N : \A m \in 0..n : W[m] <= W[n]}
<1>1. N \in Nat /\ \A n \in 1..N : Bytes(corpus[n]) \in Nat /\ Bytes(corpus[n]) > 0
  BY DEF Corpora, Bytes
<1>2. /\ W \in [0..N -> Nat] /\ W[0] = 0
      /\ \A n \in 1..N : W[n] = W[n - 1] + Bytes(corpus[n])
  BY BytesFollow
<1>. HIDE DEF N, W
<1>3. \A n \in 1..N : n - 1 \in 0..N /\ W[n - 1] \in Nat /\ W[n] \in Nat
  BY <1>1, <1>2
<1>4. \A n \in 1..N : W[n] > 0
  BY <1>1, <1>2, <1>3
<1>5. 0 \in Good
  <2>1. 0 \in 0..N /\ W[0] \in Nat /\ \A m \in 0..0 : m = 0
    BY <1>1, <1>2
  <2>. QED  BY <2>1
<1>6. ASSUME NEW n \in 1..N, n - 1 \in Good
      PROVE  n \in Good
  <2>1. W[n - 1] <= W[n]
    BY <1>1, <1>2, <1>3
  <2>2. \A m \in 0..n : m = n \/ m \in 0..(n - 1)
    BY <1>1
  <2>3. \A m \in 0..(n - 1) : W[m] <= W[n - 1] /\ W[m] \in Nat
    <3>1. \A m \in 0..(n - 1) : m \in 0..N
      BY <1>1
    <3>. QED  BY <1>2, <1>6, <3>1
  <2>4. n \in 0..N
    BY <1>1
  <2>5. \A m \in 0..n : W[m] <= W[n]
    BY <1>3, <2>1, <2>2, <2>3
  <2>. QED  BY <2>4, <2>5
<1>7. \A n \in 0..N : n \in Good
  <2>1. N \in Nat /\ \A n \in 1..N : n - 1 \in Good => n \in Good
    BY <1>1, <1>6
  <2>. HIDE DEF Good
  <2>. QED  BY <1>5, <2>1, UpTo, Zenon
<1>8. \A n \in 0..N : \A m \in 0..n : W[m] <= W[n]
  BY <1>7
<1>. QED  BY <1>2, <1>4, <1>8 DEF N, W

ReadStates == [batch : Corpora, bytes : Nat, seen : Nat, counts : Tables]

NothingRead == [batch |-> <<>>, bytes |-> 0, seen |-> 0, counts |-> EmptyBag]

\* What is read after n lines of a corpus.
ReadAfter(corpus, workers, markers, budget) ==
    LET after[n \in 0..Len(corpus)] ==
            IF n = 0 THEN NothingRead
            ELSE ReadLine(after[n - 1], corpus[n], workers, markers, budget)
    IN  after

\* Reading a line: it is ignored, ends a batch that is counted, or is kept.
LEMMA ReadLineCases ==
    ASSUME NEW state \in ReadStates, NEW line \in Seq(Chars), NEW workers \in Nat,
           NEW markers, NEW budget \in Nat
    PROVE  LET after == ReadLine(state, line, workers, markers, budget)
               batch == Append(state.batch, line)
           IN  /\ after \in ReadStates
               /\ state.seen > 0 /\ state.seen >= budget => after = state
               /\ ~(state.seen > 0 /\ state.seen >= budget) =>
                     /\ after.seen = state.seen + Bytes(line)
                     /\ \/ /\ after.batch = <<>>
                           /\ after.counts =
                                 state.counts (+) CountLines(batch, workers, markers)
                        \/ after.batch = batch /\ after.counts = state.counts
<1>. DEFINE batch == Append(state.batch, line)
            bytes == state.bytes + Bytes(line)
            seen == state.seen + Bytes(line)
            counts == state.counts (+) CountLines(batch, workers, markers)
            after == ReadLine(state, line, workers, markers, budget)
            full == \/ Len(batch) >= BatchLines \/ bytes >= BatchBytes \/ seen >= budget
            done == state.seen > 0 /\ state.seen >= budget
            flushed == [batch |-> <<>>, bytes |-> 0, seen |-> seen, counts |-> counts]
            kept == [batch |-> batch, bytes |-> bytes, seen |-> seen,
                     counts |-> state.counts]
<1>1. after = IF done THEN state ELSE IF full THEN flushed ELSE kept
  BY Zenon DEF ReadLine
<1>2. /\ batch \in Corpora /\ bytes \in Nat /\ seen \in Nat /\ state.counts \in Tables
      /\ <<>> \in Corpora
  BY DEF ReadStates, Corpora, Bytes
<1>. HIDE DEF batch, bytes, seen
<1>3. counts \in Tables
  <2>1. CountLines(batch, workers, markers) \in Tables
    BY <1>2, WholeIsCounted
  <2>. QED  BY <1>2, <2>1, CountsAddUp
<1>. HIDE DEF counts
<1>4. flushed \in ReadStates /\ kept \in ReadStates
  BY <1>2, <1>3 DEF ReadStates
<1>5. /\ flushed.seen = seen /\ flushed.batch = <<>> /\ flushed.counts = counts
      /\ kept.seen = seen /\ kept.batch = batch /\ kept.counts = state.counts
  OBVIOUS
<1>. HIDE DEF flushed, kept, full
<1>6. /\ after \in ReadStates
      /\ done => after = state
      /\ ~done => /\ after.seen = seen
                  /\ \/ after.batch = <<>> /\ after.counts = counts
                     \/ after.batch = batch /\ after.counts = state.counts
  <2>. HIDE DEF after
  <2>1. CASE done
    BY <1>1, <2>1
  <2>2. CASE ~done /\ full
    BY <1>1, <1>4, <1>5, <2>2
  <2>3. CASE ~done /\ ~full
    BY <1>1, <1>4, <1>5, <2>3
  <2>. QED  BY <2>1, <2>2, <2>3
<1>. QED  BY <1>6, Zenon DEF batch, seen, counts

\* Reading goes on line by line from nothing.
LEMMA ReadFollows ==
    ASSUME NEW corpus \in Corpora, NEW workers \in Nat, NEW markers, NEW budget \in Nat
    PROVE  LET N == Len(corpus)
               e == ReadAfter(corpus, workers, markers, budget)
           IN  /\ e \in [0..N -> ReadStates]
               /\ e[0] = NothingRead
               /\ \A n \in 1..N :
                     e[n] = ReadLine(e[n - 1], corpus[n], workers, markers, budget)
<1>. DEFINE N == Len(corpus)
            base == NothingRead
            next(n, x) == ReadLine(x, corpus[n], workers, markers, budget)
            Step == [a \in (1..N) \X ReadStates |-> next(a[1], a[2])]
            Is(f) == f = [n \in 0..N |-> IF n = 0 THEN base ELSE next(n, f[n - 1])]
            e == ReadAfter(corpus, workers, markers, budget)
<1>1. /\ N \in Nat /\ base \in ReadStates
      /\ \A n \in 1..N, x \in ReadStates : next(n, x) \in ReadStates
  <2>1. N \in Nat /\ \A n \in 1..N : corpus[n] \in Seq(Chars)
    BY DEF Corpora
  <2>2. base \in ReadStates
    <3>1. EmptyBag \in Tables
      BY NothingCounted
    <3>. QED  BY <3>1 DEF ReadStates, NothingRead, Corpora
  <2>3. \A n \in 1..N, x \in ReadStates : next(n, x) \in ReadStates
    BY <2>1, ReadLineCases
  <2>. QED  BY <2>1, <2>2, <2>3, Zenon
<1>2. e = CHOOSE f : Is(f)
  BY Zenon DEF ReadAfter
<1>. HIDE DEF N, e, next, base
<1>3. Step \in Steps(N, ReadStates)
  <2>1. \A a \in (1..N) \X ReadStates : a[1] \in 1..N /\ a[2] \in ReadStates
    OBVIOUS
  <2>2. \A a \in (1..N) \X ReadStates : next(a[1], a[2]) \in ReadStates
    BY <1>1, <2>1
  <2>. QED  BY <2>2, Zenon DEF Steps
<1>4. PICK f \in [0..N -> ReadStates] : Follows(N, base, Step, f)
  <2>. HIDE DEF Step
  <2>. QED  BY <1>1, <1>3, RecursiveFunction, Zenon
<1>5. f[0] = base /\ \A n \in 1..N : f[n] = next(n, f[n - 1])
  <2>1. \A n \in 1..N : <<n, f[n - 1]>> \in (1..N) \X ReadStates
    <3>1. \A n \in 1..N : n - 1 \in 0..N
      BY <1>1
    <3>2. \A n \in 1..N : f[n - 1] \in ReadStates
      BY <3>1, Zenon
    <3>. QED  BY <3>2
  <2>2. \A n \in 1..N : Step[<<n, f[n - 1]>>] = next(n, f[n - 1])
    BY <2>1
  <2>. HIDE DEF Step
  <2>. QED  BY <1>4, <2>2 DEF Follows
<1>6. Is(f)
  <2>. DEFINE body(n) == IF n = 0 THEN base ELSE next(n, f[n - 1])
  <2>1. \A n \in 0..N : f[n] = body(n)
    <3>1. \A n \in 0..N : n = 0 \/ n \in 1..N
      BY <1>1
    <3>. QED  BY <1>5, <3>1, Zenon
  <2>. HIDE DEF body
  <2>2. f = [n \in 0..N |-> body(n)]
    BY <2>1
  <2>. QED  BY <2>2 DEF body
<1>7. Is(e)
  <2>. HIDE DEF Is
  <2>. QED  BY <1>2, <1>6, Zenon
<1>8. /\ OnNumbers(N, e) /\ e[0] = base
      /\ \A n \in 1..N : e[n] = next(n, e[n - 1])
  <2>1. \A n \in 0..N : e[n] = IF n = 0 THEN base ELSE next(n, e[n - 1])
    BY <1>7, Zenon
  <2>2. 0 \in 0..N /\ \A n \in 1..N : n \in 0..N /\ n # 0
    BY <1>1
  <2>3. OnNumbers(N, e)
    BY <1>7, Zenon DEF OnNumbers
  <2>. QED  BY <2>1, <2>2, <2>3, Zenon
<1>9. \A n \in 1..N : e[n - 1] \in ReadStates => e[n] = Step[<<n, e[n - 1]>>]
  <2>1. TAKE n \in 1..N
  <2>2. HAVE e[n - 1] \in ReadStates
  <2>3. <<n, e[n - 1]>> \in (1..N) \X ReadStates
    BY <2>2
  <2>4. Step[<<n, e[n - 1]>>] = next(n, e[n - 1])
    BY <2>3
  <2>. QED  BY <1>8, <2>4
<1>10. e \in [0..N -> ReadStates]
  <2>. HIDE DEF Step, Is
  <2>. QED  BY <1>1, <1>3, <1>8, <1>9, RecursionTyped, Zenon
<1>. QED  BY <1>8, <1>10, Zenon DEF e, N, next, base

\* How much of a corpus is read in n steps: r lines, m of them counted, the
\* others in the batch; reading is ahead of the budget or has just reached it.
HasRead(corpus, markers, budget, state, n, r, m) ==
    /\ state.batch = SubSeq(corpus, m + 1, r)
    /\ state.seen = BytesOf(corpus)[r]
    /\ \A g \in Grams : Count(state.counts, g) = Tallied(corpus, markers, g, m)
    /\ r = n \/ (r >= 1 /\ BytesOf(corpus)[r] >= budget)
    /\ r <= 1 \/ BytesOf(corpus)[r - 1] < budget

\* What is counted of the batch is what was not counted before.
LEMMA BatchIsCounted ==
    ASSUME NEW corpus \in Corpora, NEW workers \in Nat, NEW markers,
           NEW r \in 0..Len(corpus), NEW m \in 0..r, NEW counts \in Tables,
           \A g \in Grams : Count(counts, g) = Tallied(corpus, markers, g, m)
    PROVE  LET all == counts (+) CountLines(SubSeq(corpus, m + 1, r), workers, markers)
           IN  /\ all \in Tables
               /\ \A g \in Grams : Count(all, g) = Tallied(corpus, markers, g, r)
<1>. DEFINE part == SubSeq(corpus, m + 1, r)
            more == CountLines(part, workers, markers)
            all == counts (+) more
<1>1. part \in Corpora /\ Len(part) = r - m /\ m \in 0..Len(corpus) /\ m <= r
  BY DEF Corpora
<1>2. \A g \in Grams : Tallied(corpus, markers, g, r) =
         Tallied(corpus, markers, g, m) + Tallied(part, markers, g, r - m)
  BY <1>1, PartsAddUp
<1>. HIDE DEF part
<1>3. more \in Tables
      /\ \A g \in Grams : Count(more, g) = Tallied(part, markers, g, Len(part))
  BY <1>1, WholeIsCounted
<1>. HIDE DEF more
<1>4. all \in Tables /\ \A g : Count(all, g) = Count(counts, g) + Count(more, g)
  BY <1>3, CountsAddUp
<1>. HIDE DEF all
<1>5. \A g \in Grams : Count(all, g) = Tallied(corpus, markers, g, r)
  BY <1>1, <1>2, <1>3, <1>4
<1>. QED  BY <1>4, <1>5, Zenon DEF all, more, part

\* A batch is the lines since the last that was counted.
LEMMA BatchGrows ==
    ASSUME NEW corpus \in Corpora, NEW n \in 1..Len(corpus), NEW m \in 0..(n - 1)
    PROVE  /\ Append(SubSeq(corpus, m + 1, n - 1), corpus[n]) = SubSeq(corpus, m + 1, n)
           /\ <<>> = SubSeq(corpus, n + 1, n)
BY DEF Corpora

\* One more line: it is ignored, read into the batch, or ends the batch.
LEMMA ReadingGoesOn ==
    ASSUME NEW corpus \in Corpora, NEW workers \in Nat, NEW markers, NEW budget \in Nat,
           NEW n \in 1..Len(corpus), NEW state \in ReadStates,
           NEW r \in 0..(n - 1), NEW m \in 0..r,
           HasRead(corpus, markers, budget, state, n - 1, r, m)
    PROVE  LET after == ReadLine(state, corpus[n], workers, markers, budget)
           IN  \E q \in 0..n : \E k \in 0..q :
                  HasRead(corpus, markers, budget, after, n, q, k)
<1>. DEFINE W == BytesOf(corpus)
            line == corpus[n]
            after == ReadLine(state, line, workers, markers, budget)
            batch == Append(state.batch, line)
            read(x, k, q, p) == HasRead(corpus, markers, budget, x, k, q, p)
            tally(g, k) == Tallied(corpus, markers, g, k)
<1>1. /\ Len(corpus) \in Nat /\ line \in Seq(Chars) /\ n \in 0..n
      /\ r \in 0..n /\ m \in 0..n /\ n \in 0..Len(corpus) /\ r \in 0..Len(corpus)
      /\ n - 1 \in 0..Len(corpus)
  BY DEF Corpora
<1>2. /\ \A k \in 0..Len(corpus) : W[k] \in Nat
      /\ W[0] = 0 /\ W[n] = W[n - 1] + Bytes(line)
      /\ \A k \in 1..Len(corpus) : W[k] > 0
  BY BytesGrow
<1>3. /\ state.batch = SubSeq(corpus, m + 1, r) /\ state.seen = W[r]
      /\ \A g \in Grams : Count(state.counts, g) = tally(g, m)
      /\ r = n - 1 \/ (r >= 1 /\ W[r] >= budget)
      /\ r <= 1 \/ W[r - 1] < budget
  BY DEF HasRead
<1>. HIDE DEF W
<1>4. /\ state.seen > 0 /\ state.seen >= budget => after = state
      /\ ~(state.seen > 0 /\ state.seen >= budget) =>
            /\ after.seen = state.seen + Bytes(line)
            /\ \/ /\ after.batch = <<>>
                  /\ after.counts = state.counts (+) CountLines(batch, workers, markers)
               \/ after.batch = batch /\ after.counts = state.counts
  <2>. HIDE DEF line
  <2>. QED  BY <1>1, ReadLineCases
<1>. HIDE DEF after, batch, line, tally
<1>5. CASE state.seen > 0 /\ state.seen >= budget
  <2>1. after = state
    BY <1>4, <1>5
  <2>2. r >= 1
    <3>1. r = 0 => W[r] = 0
      BY <1>2
    <3>. QED  BY <1>3, <1>5, <3>1
  <2>3. read(after, n, r, m)
    <3>1. r >= 1 /\ W[r] >= budget
      BY <1>3, <1>5, <2>2
    <3>. QED  BY <1>3, <2>1, <3>1 DEF HasRead, W, tally
  <2>. HIDE DEF read
  <2>4. \E q \in 0..n : \E k \in 0..q : read(after, n, q, k)
    BY <1>1, <2>3, Zenon
  <2>. QED  BY <2>4, Zenon DEF read, after, line
<1>6. CASE ~(state.seen > 0 /\ state.seen >= budget)
  <2>1. r = n - 1
    <3>1. r >= 1 => W[r] > 0
      BY <1>1, <1>2
    <3>. QED  BY <1>3, <1>6, <3>1
  <2>2. n <= 1 \/ W[n - 1] < budget
    <3>1. n > 1 => W[n - 1] > 0 /\ W[n - 1] \in Nat
      BY <1>1, <1>2
    <3>. QED  BY <1>3, <1>6, <2>1, <3>1
  <2>3. after.seen = W[n]
    BY <1>2, <1>3, <1>4, <1>6, <2>1
  <2>4. batch = SubSeq(corpus, m + 1, n) /\ <<>> = SubSeq(corpus, n + 1, n)
    <3>1. m \in 0..(n - 1)
      BY <2>1
    <3>2. batch = Append(SubSeq(corpus, m + 1, n - 1), corpus[n])
      BY <1>3, <2>1 DEF batch, line
    <3>. QED  BY <3>1, <3>2, BatchGrows
  <2>5. CASE /\ after.batch = <<>>
             /\ after.counts = state.counts (+) CountLines(batch, workers, markers)
    <3>1. after.counts =
             state.counts (+) CountLines(SubSeq(corpus, m + 1, n), workers, markers)
      BY <2>4, <2>5
    <3>2. \A g \in Grams : Count(after.counts, g) = tally(g, n)
      <4>1. state.counts \in Tables
        BY DEF ReadStates
      <4>2. \A g \in Grams : Count(state.counts, g) = Tallied(corpus, markers, g, m)
        BY <1>3, Zenon DEF tally
      <4>3. n \in 0..Len(corpus) /\ m \in 0..n
        BY <1>1
      <4>4. \A g \in Grams : Count(state.counts (+) CountLines(SubSeq(corpus, m + 1, n),
               workers, markers), g) = Tallied(corpus, markers, g, n)
        BY <4>1, <4>2, <4>3, BatchIsCounted
      <4>. QED  BY <3>1, <4>4 DEF tally
    <3>3. read(after, n, n, n)
      BY <2>2, <2>3, <2>4, <2>5, <3>2 DEF HasRead, W, tally
    <3>. HIDE DEF read
    <3>4. \E q \in 0..n : \E k \in 0..q : read(after, n, q, k)
      BY <1>1, <3>3, Zenon
    <3>. QED  BY <3>4, Zenon DEF read, after, line
  <2>6. CASE after.batch = batch /\ after.counts = state.counts
    <3>1. read(after, n, n, m)
      BY <1>3, <2>2, <2>3, <2>4, <2>6 DEF HasRead, W, tally
    <3>. HIDE DEF read
    <3>2. \E q \in 0..n : \E k \in 0..q : read(after, n, q, k)
      BY <1>1, <3>1, Zenon
    <3>. QED  BY <3>2, Zenon DEF read, after, line
  <2>. QED  BY <1>4, <1>6, <2>5, <2>6
<1>. QED  BY <1>5, <1>6

\* When reading ends, every line that was read is counted or in the batch.
LEMMA ReadingEnds ==
    ASSUME NEW corpus \in Corpora, NEW workers \in Nat, NEW markers, NEW budget \in Nat
    PROVE  LET end == ReadAfter(corpus, workers, markers, budget)[Len(corpus)]
           IN  /\ end \in ReadStates
               /\ \E r \in 0..Len(corpus) : \E m \in 0..r :
                     HasRead(corpus, markers, budget, end, Len(corpus), r, m)
<1>. DEFINE N == Len(corpus)
            e == ReadAfter(corpus, workers, markers, budget)
            has(n) == \E r \in 0..n : \E m \in 0..r :
                         HasRead(corpus, markers, budget, e[n], n, r, m)
            Good == {n \in 0..N : has(n)}
<1>1. N \in Nat
  BY DEF Corpora
<1>2. /\ e \in [0..N -> ReadStates] /\ e[0] = NothingRead
      /\ \A n \in 1..N : e[n] = ReadLine(e[n - 1], corpus[n], workers, markers, budget)
  BY ReadFollows
<1>. HIDE DEF e
<1>3. 0 \in Good
  <2>1. 0 \in 0..N /\ 0 \in 0..0 /\ 0 \in 0..Len(corpus)
    BY <1>1
  <2>2. /\ NothingRead.batch = <<>> /\ NothingRead.seen = 0
        /\ NothingRead.counts = EmptyBag
    BY DEF NothingRead
  <2>3. <<>> = SubSeq(corpus, 0 + 1, 0)
    BY DEF Corpora
  <2>4. BytesOf(corpus)[0] = 0
    BY BytesGrow
  <2>5. \A g \in Grams : Count(EmptyBag, g) = Tallied(corpus, markers, g, 0)
    <3>1. \A g : Tallied(corpus, markers, g, 0) = 0
      BY <2>1, TalliesGrow
    <3>. QED  BY <3>1, NothingCounted
  <2>6. HasRead(corpus, markers, budget, e[0], 0, 0, 0)
    BY <1>2, <2>2, <2>3, <2>4, <2>5 DEF HasRead
  <2>7. has(0)
    BY <2>1, <2>6, Zenon
  <2>. QED  BY <2>1, <2>7
<1>4. ASSUME NEW n \in 1..N, n - 1 \in Good
      PROVE  n \in Good
  <2>0. PICK r \in 0..(n - 1) : \E m \in 0..r :
           HasRead(corpus, markers, budget, e[n - 1], n - 1, r, m)
    BY <1>4
  <2>1. PICK m \in 0..r : HasRead(corpus, markers, budget, e[n - 1], n - 1, r, m)
    BY <2>0
  <2>2. n \in 0..N /\ n - 1 \in 0..N /\ n \in 1..Len(corpus)
    BY <1>1
  <2>3. e[n - 1] \in ReadStates
    BY <1>2, <2>2
  <2>4. \E q \in 0..n : \E k \in 0..q : HasRead(corpus, markers, budget,
           ReadLine(e[n - 1], corpus[n], workers, markers, budget), n, q, k)
    BY <2>1, <2>2, <2>3, ReadingGoesOn
  <2>5. e[n] = ReadLine(e[n - 1], corpus[n], workers, markers, budget)
    BY <1>2
  <2>6. has(n)
    BY <2>4, <2>5
  <2>. QED  BY <2>2, <2>6
<1>5. \A n \in 0..N : n \in Good
  <2>1. \A n \in 1..N : n - 1 \in Good => n \in Good
    BY <1>4
  <2>. HIDE DEF Good, N
  <2>. QED  BY <1>1, <1>3, <2>1, UpTo, Zenon
<1>6. N \in 0..N
  BY <1>1
<1>7. has(N) /\ e[N] \in ReadStates
  BY <1>2, <1>5, <1>6
<1>. QED  BY <1>7, Zenon DEF e, N

\* What was read when reading ended are the lines within the budget.
LEMMA ReadWithinBudget ==
    ASSUME NEW corpus \in Corpora, NEW budget \in Nat, NEW markers,
           NEW state, NEW r \in 0..Len(corpus), NEW m \in 0..r,
           HasRead(corpus, markers, budget, state, Len(corpus), r, m)
    PROVE  {l \in WithinBudget(corpus, budget) : Accepts(corpus[l], markers)} =
              Accepted(corpus, markers, r)
<1>. DEFINE N == Len(corpus)
            W == BytesOf(corpus)
<1>1. N \in Nat /\ DOMAIN corpus = 1..N /\ r \in 0..N
  BY DEF Corpora
<1>2. /\ \A n \in 0..N : W[n] \in Nat
      /\ \A n \in 0..N : \A k \in 0..n : W[k] <= W[n]
  BY BytesGrow
<1>3. /\ r = N \/ (r >= 1 /\ W[r] >= budget)
      /\ r <= 1 \/ W[r - 1] < budget
  BY DEF HasRead
<1>4. WithinBudget(corpus, budget) = {l \in 1..N : l = 1 \/ W[l - 1] < budget}
  BY <1>1, Zenon DEF WithinBudget
<1>. HIDE DEF W, N
<1>5. ASSUME NEW l \in 1..r
      PROVE  l \in 1..N /\ (l = 1 \/ W[l - 1] < budget)
  <2>1. l - 1 \in 0..(r - 1) /\ l - 1 \in 0..N /\ r - 1 \in 0..N
    BY <1>1
  <2>2. l # 1 => r - 1 \in 0..N /\ W[r - 1] < budget
    <3>1. l # 1 => ~(r <= 1)
      BY <1>1
    <3>. QED  BY <1>3, <2>1, <3>1
  <2>3. l # 1 => W[l - 1] <= W[r - 1]
    BY <1>2, <2>1, <2>2
  <2>. QED  BY <1>1, <1>2, <2>1, <2>2, <2>3
<1>6. ASSUME NEW l \in 1..N, l \notin 1..r
      PROVE  l # 1 /\ ~(W[l - 1] < budget)
  <2>1. l > r
    BY <1>1, <1>6
  <2>0. l - 1 \in 0..N /\ r \in 0..(l - 1) /\ r # N
    BY <1>1, <2>1
  <2>2. W[r] <= W[l - 1] /\ W[r] \in Nat /\ W[l - 1] \in Nat
    BY <1>1, <1>2, <2>0, Zenon
  <2>. QED  BY <1>3, <2>0, <2>1, <2>2
<1>7. WithinBudget(corpus, budget) = 1..r
  <2>1. \A l \in 1..r : l \in WithinBudget(corpus, budget)
    BY <1>4, <1>5
  <2>2. \A l \in WithinBudget(corpus, budget) : l \in 1..r
    BY <1>4, <1>6
  <2>. QED  BY <2>1, <2>2
<1>. QED  BY <1>7, Zenon DEF Accepted

\* For every corpus, any number of workers, any markers and any budget: each
\* occurrence of an n-gram in the accepted lines within the budget is counted
\* once, nothing else is, and what is compiled of the counts is above the floor.
THEOREM EveryOccurrenceIsCounted ==
    ASSUME NEW corpus \in Seq(Seq(Chars)), NEW workers \in Nat, NEW markers,
           NEW budget \in Nat
    PROVE  LET counts == CountNgrams(corpus, workers, markers, budget)
               lines == {l \in WithinBudget(corpus, budget) :
                            Accepts(corpus[l], markers)}
           IN  /\ BagToSet(counts) \subseteq Grams
               /\ \A g \in Grams :
                     Count(counts, g) = Cardinality(Occurrences(corpus, lines, g))
               /\ \A n : LET compiled == CompileTable(counts, n)
                         IN  \A g \in DOMAIN compiled.table :
                                compiled.table[g][1] > compiled.floor[1]
<1>. DEFINE e == ReadAfter(corpus, workers, markers, budget)
            end == e[Len(corpus)]
            counts == CountNgrams(corpus, workers, markers, budget)
            lines == {l \in WithinBudget(corpus, budget) : Accepts(corpus[l], markers)}
<1>1. corpus \in Corpora
  BY DEF Corpora
<1>2. counts = end.counts (+) CountLines(end.batch, workers, markers)
  BY Zenon DEF CountNgrams, ReadAfter, NothingRead
<1>3. end \in ReadStates /\ \E r \in 0..Len(corpus) : \E m \in 0..r :
         HasRead(corpus, markers, budget, end, Len(corpus), r, m)
  BY <1>1, ReadingEnds
<1>. HIDE DEF end, counts
<1>0. PICK r \in 0..Len(corpus) : \E m \in 0..r :
         HasRead(corpus, markers, budget, end, Len(corpus), r, m)
  BY <1>3
<1>4. PICK m \in 0..r : HasRead(corpus, markers, budget, end, Len(corpus), r, m)
  BY <1>0
<1>5. lines = Accepted(corpus, markers, r)
  BY <1>1, <1>4, ReadWithinBudget
<1>. HIDE DEF lines
<1>6. /\ end.batch = SubSeq(corpus, m + 1, r)
      /\ \A g \in Grams : Count(end.counts, g) = Tallied(corpus, markers, g, m)
      /\ end.counts \in Tables
  BY <1>3, <1>4 DEF HasRead, ReadStates
<1>7. counts \in Tables
      /\ \A g \in Grams : Count(counts, g) = Tallied(corpus, markers, g, r)
  <2>. DEFINE before == end.counts
              all == before (+) CountLines(SubSeq(corpus, m + 1, r), workers, markers)
  <2>1. counts = all
    BY <1>2, <1>6
  <2>2. before \in Tables
        /\ \A g \in Grams : Count(before, g) = Tallied(corpus, markers, g, m)
    BY <1>6
  <2>. HIDE DEF before
  <2>3. all \in Tables
        /\ \A g \in Grams : Count(all, g) = Tallied(corpus, markers, g, r)
    BY <1>1, <2>2, BatchIsCounted
  <2>. HIDE DEF all
  <2>. QED  BY <2>1, <2>3
<1>8. DOMAIN counts \subseteq Grams /\ \A g \in DOMAIN counts : counts[g] \in Nat \ {0}
  BY <1>7, CountsTyped
<1>9. BagToSet(counts) = DOMAIN counts
  BY Zenon DEF BagToSet
<1>10. \A g \in Grams : Count(counts, g) = Cardinality(Occurrences(corpus, lines, g))
  BY <1>5, <1>7 DEF Tallied
<1>11. ASSUME NEW n
       PROVE  LET compiled == CompileTable(counts, n)
              IN  \A g \in DOMAIN compiled.table :
                     compiled.table[g][1] > compiled.floor[1]
  <2>. DEFINE of == OfOrder(counts, n)
              whole == SumFunctionOnSet(counts, of) + Cardinality(Alphabet) ^ n
              table == [g \in of |-> <<counts[g] + 1, whole>>]
              compiled == CompileTable(counts, n)
  <2>1. compiled = [floor |-> <<1, whole>>, table |-> table]
    BY Zenon DEF CompileTable
  <2>2. of \subseteq DOMAIN counts
    BY <1>9 DEF OfOrder
  <2>. HIDE DEF whole, of
  <2>3. DOMAIN table = of /\ \A g \in of : table[g][1] = counts[g] + 1
    OBVIOUS
  <2>. HIDE DEF table, compiled
  <2>4. compiled.table = table /\ compiled.floor[1] = 1
    BY <2>1
  <2>5. \A g \in of : counts[g] + 1 > 1
    BY <1>8, <2>2
  <2>6. \A g \in DOMAIN compiled.table : compiled.table[g][1] > compiled.floor[1]
    BY <2>3, <2>4, <2>5
  <2>. QED  BY <2>6, Zenon DEF compiled
<1>. QED  BY <1>8, <1>9, <1>10, <1>11, Zenon DEF counts, lines

\* The corpora and the n-grams of the run.
LEMMA MCCorpusTyped ==
    /\ \A corpus \in BoundedSeq(MCCorpusLines, 3) : corpus \in Seq(Seq(Chars))
    /\ MCNgrams \subseteq Grams
<1>1. 0 \in Chars /\ 1 \in Chars /\ 2 \in Chars /\ 3 \in Chars
  BY SampleLetters
<1>2. \A a, b, c, d \in Chars : /\ <<a, b>> \in Seq(Chars)
                                /\ <<a, b, c, d>> \in Seq(Chars)
                                /\ <<>> \in Seq(Chars)
  OBVIOUS
<1>3. MCCorpusLines \subseteq Seq(Chars)
  BY <1>1, <1>2 DEF MCCorpusLines
<1>4. ASSUME NEW corpus \in BoundedSeq(MCCorpusLines, 3)
      PROVE  corpus \in Seq(Seq(Chars))
  <2>1. PICK m \in 0..3 : corpus \in [1..m -> MCCorpusLines]
    BY Zenon DEF BoundedSeq, SeqOf
  <2>2. corpus \in [1..m -> Seq(Chars)] /\ m \in Nat
    BY <1>3, <2>1
  <2>. QED  BY <2>2
<1>5. ASSUME NEW g \in MCNgrams
      PROVE  g \in Grams
  <2>1. g \in SeqOf(Alphabet, 3) /\ Len(g) >= 2
    BY DEF MCNgrams
  <2>2. PICK m \in 0..3 : g \in [1..m -> Alphabet]
    BY <2>1, Zenon DEF SeqOf
  <2>3. g \in Seq(Alphabet) /\ Len(g) = m /\ m \in Nat /\ m <= 3
    BY <2>2
  <2>. QED  BY <2>1, <2>3 DEF Grams
<1>. QED  BY <1>4, <1>5

LEMMA GramsOfTheRun == Grams = MCNgrams
<1>1. ASSUME NEW g \in Grams
      PROVE  g \in MCNgrams
  <2>1. g \in Seq(Alphabet) /\ (Len(g) = 2 \/ Len(g) = 3)
    BY DEF Grams
  <2>2. PICK m \in 0..3 : m = Len(g) /\ m >= 2
    BY <2>1
  <2>3. g \in [1..m -> Alphabet]
    BY <2>1, <2>2
  <2>4. g \in SeqOf(Alphabet, 3)
    BY <2>3, Zenon DEF SeqOf
  <2>. QED  BY <2>2, <2>4 DEF MCNgrams
<1>. QED  BY <1>1, MCCorpusTyped

\* The samples of the run are corpora.
LEMMA CountSampleIsCounted == CountSample => CountsAreOccurrences
<1>. SUFFICES ASSUME CountSample
              PROVE  CountsAreOccurrences
  OBVIOUS
<1>1. PICK corpus \in BoundedSeq(MCCorpusLines, 3), workers \in 1..3,
           budget \in {1, 4, 8, 100}, markers \in {{}, {2}} :
         sample = [topic |-> "counts", corpus |-> corpus, workers |-> workers,
                   budget |-> budget, markers |-> markers]
  BY Zenon DEF CountSample
<1>2. /\ sample.corpus = corpus /\ sample.workers = workers
      /\ sample.budget = budget /\ sample.markers = markers
  BY <1>1
<1>3. corpus \in Seq(Seq(Chars)) /\ workers \in Nat /\ budget \in Nat
  <2>1. workers \in Nat /\ budget \in Nat
    OBVIOUS
  <2>. QED  BY <2>1, MCCorpusTyped
<1>. DEFINE counts == CountNgrams(corpus, workers, markers, budget)
            lines == {l \in WithinBudget(corpus, budget) : Accepts(corpus[l], markers)}
<1>4. /\ BagToSet(counts) \subseteq Grams
      /\ \A g \in Grams : Count(counts, g) = Cardinality(Occurrences(corpus, lines, g))
      /\ \A n : LET compiled == CompileTable(counts, n)
                IN  \A g \in DOMAIN compiled.table :
                       compiled.table[g][1] > compiled.floor[1]
  BY <1>3, EveryOccurrenceIsCounted
<1>. QED  BY <1>2, <1>4, GramsOfTheRun, Zenon DEF CountsAreOccurrences

\* Hence the samples of CountsAreOccurrences: for every corpus of the run,
\* however it is batched and spread over workers, the counts are the occurrences.
THEOREM CountsAreAlwaysOccurrences == Spec => []CountsAreOccurrences
<1>1. Init => KeepsTopic /\ CountsAreOccurrences
  BY SampleStarts, CountSampleIsCounted DEF CountsAreOccurrences
<1>2. KeepsTopic /\ CountsAreOccurrences /\ [Next]_sample =>
          (KeepsTopic /\ CountsAreOccurrences)'
  <2>1. CountsAreOccurrences /\ sample' = sample => CountsAreOccurrences'
    BY DEF CountsAreOccurrences
  <2>2. sample'.topic = "rolling" => CountsAreOccurrences'
    BY DEF CountsAreOccurrences
  <2>. QED  BY <2>1, <2>2, SampleStays
<1>. QED  BY <1>1, <1>2, PTL DEF Spec

-----------------------------------------------------------------------------
(* Rolling totals                                                           *)

Orders == [floor : Int, table : UNION {[S -> Int] : S \in SUBSET Seq(Chars)}]

Models == [bigram : Orders, trigram : Orders]

\* What the letter at i adds to the sum of an order.
Contribution(order, n, text, i) ==
    IF i < n THEN 0 ELSE LogProb(order, SubSeq(text, i - n + 1, i))

Contributions(order, n, text) == [i \in 1..Len(text) |-> Contribution(order, n, text, i)]

\* What the engine keeps for a token of these letters.
Rolled(model, letters, lens) ==
    [raw_bigram |-> Sums(model.bigram, 2, letters)[Len(letters)],
     raw_trigram |-> Sums(model.trigram, 3, letters)[Len(letters)],
     normalized |-> letters, chunk_lens |-> lens,
     bigram_contribs |-> Contributions(model.bigram, 2, letters),
     trigram_contribs |-> Contributions(model.trigram, 3, letters)]

LEMMA ContributionTyped ==
    ASSUME NEW order \in Orders, NEW n \in Nat, NEW text, NEW i
    PROVE  Contribution(order, n, text, i) \in Int
<1>. DEFINE gram == SubSeq(text, i - n + 1, i)
<1>1. order.floor \in Int
  BY DEF Orders
<1>2. gram \in DOMAIN order.table => order.table[gram] \in Int
  <2>1. PICK S \in SUBSET Seq(Chars) : order.table \in [S -> Int]
    BY DEF Orders
  <2>. HIDE DEF gram
  <2>. QED  BY <2>1
<1>3. LogProb(order, gram) \in Int
  <2>. HIDE DEF gram
  <2>. QED  BY <1>1, <1>2 DEF LogProb
<1>4. 0 \in Int
  OBVIOUS
<1>. QED  BY <1>3, <1>4, Zenon DEF Contribution

LEMMA SumsFollow ==
    ASSUME NEW order \in Orders, NEW n \in Nat, 0 < n, NEW text \in Seq(Chars)
    PROVE  /\ Sums(order, n, text) \in [0..Len(text) -> Int]
           /\ Sums(order, n, text)[0] = 0
           /\ \A k \in 1..Len(text) :
                 Sums(order, n, text)[k] =
                    Sums(order, n, text)[k - 1] + Contribution(order, n, text, k)
<1>. DEFINE N == Len(text)
            Step == [a \in (1..N) \X Int |-> a[2] + Contribution(order, n, text, a[1])]
            Is(f) == f = [k \in 0..N |->
                             IF k = 0 THEN 0
                             ELSE IF k < n THEN f[k - 1]
                             ELSE f[k - 1] + LogProb(order, SubSeq(text, k - n + 1, k))]
            e == Sums(order, n, text)
<1>1. N \in Nat
  OBVIOUS
<1>2. e = CHOOSE f : Is(f)
  BY DEF Sums
<1>. HIDE DEF N, e
<1>3. Step \in Steps(N, Int)
  <2>1. \A k \in 1..N : Contribution(order, n, text, k) \in Int
    BY ContributionTyped
  <2>. QED  BY <2>1 DEF Steps
<1>4. PICK f \in [0..N -> Int] : Follows(N, 0, Step, f)
  <2>. HIDE DEF Step
  <2>1. 0 \in Int
    OBVIOUS
  <2>. QED  BY <1>1, <1>3, <2>1, RecursiveFunction, Zenon
<1>5. \A k \in 1..N : f[k] = f[k - 1] + Contribution(order, n, text, k)
  <2>1. \A k \in 1..N : <<k, f[k - 1]>> \in (1..N) \X Int
    BY <1>1
  <2>2. \A k \in 1..N : Step[<<k, f[k - 1]>>] = f[k - 1] + Contribution(order, n, text, k)
    BY <2>1
  <2>. HIDE DEF Step
  <2>. QED  BY <1>4, <2>2 DEF Follows
<1>6. \A k \in 1..N :
         Contribution(order, n, text, k) =
            IF k < n THEN 0 ELSE LogProb(order, SubSeq(text, k - n + 1, k))
  BY Zenon DEF Contribution
<1>7. \A k \in 0..N : f[k] = IF k = 0 THEN 0
                             ELSE IF k < n THEN f[k - 1]
                             ELSE f[k - 1] + LogProb(order, SubSeq(text, k - n + 1, k))
  <2>1. TAKE k \in 0..N
  <2>2. CASE k = 0
    BY <1>4, <2>2 DEF Follows
  <2>3. CASE k # 0
    <3>1. k \in 1..N /\ k - 1 \in 0..N
      BY <1>1, <2>3
    <3>2. f[k] = f[k - 1] + Contribution(order, n, text, k) /\ f[k - 1] \in Int
      BY <1>5, <3>1
    <3>3. CASE k < n
      <4>1. Contribution(order, n, text, k) = 0
        BY <1>6, <3>1, <3>3
      <4>. QED  BY <2>3, <3>2, <3>3, <4>1
    <3>4. CASE ~(k < n)
      <4>1. Contribution(order, n, text, k) = LogProb(order, SubSeq(text, k - n + 1, k))
        BY <1>6, <3>1, <3>4
      <4>. QED  BY <2>3, <3>2, <3>4, <4>1
    <3>. QED  BY <3>3, <3>4
  <2>. QED  BY <2>2, <2>3
<1>8. Is(f)
  <2>. DEFINE body(k) == IF k = 0 THEN 0
                         ELSE IF k < n THEN f[k - 1]
                         ELSE f[k - 1] + LogProb(order, SubSeq(text, k - n + 1, k))
  <2>1. \A k \in 0..N : f[k] = body(k)
    BY <1>7, Zenon
  <2>. HIDE DEF body
  <2>2. f = [k \in 0..N |-> body(k)]
    BY <2>1
  <2>. QED  BY <2>2 DEF body
<1>9. Is(e)
  <2>. HIDE DEF Is
  <2>. QED  BY <1>2, <1>8, Zenon
<1>10. /\ e[0] = 0
       /\ \A k \in 1..N : e[k] = IF k < n THEN e[k - 1]
                                 ELSE e[k - 1] + LogProb(order, SubSeq(text, k - n + 1, k))
  <2>1. \A k \in 0..N : e[k] = IF k = 0 THEN 0
                               ELSE IF k < n THEN e[k - 1]
                               ELSE e[k - 1] + LogProb(order, SubSeq(text, k - n + 1, k))
    BY <1>9, Zenon
  <2>2. 0 \in 0..N /\ \A k \in 1..N : k \in 0..N /\ k # 0
    BY <1>1
  <2>. QED  BY <2>1, <2>2, Zenon
<1>11. \A k \in 0..N : e[k] = f[k]
  <2>. DEFINE Bad == {k \in 0..N : e[k] # f[k]}
  <2>1. SUFFICES ASSUME Bad # {}
                 PROVE  FALSE
    OBVIOUS
  <2>2. PICK k \in Bad : \A j \in Bad : k <= j
    <3>1. Bad \in SUBSET Nat
      BY <1>1
    <3>. HIDE DEF Bad
    <3>. QED  BY <2>1, <3>1, LeastNatural
  <2>3. k \in 0..N /\ e[k] # f[k] /\ k # 0
    <3>1. f[0] = 0
      BY <1>4 DEF Follows
    <3>. QED  BY <1>10, <2>2, <3>1
  <2>4. k \in 1..N /\ k - 1 \in 0..N /\ ~(k <= k - 1)
    BY <1>1, <2>3
  <2>5. e[k - 1] = f[k - 1]
    BY <2>2, <2>4
  <2>6. f[k] = IF k < n THEN f[k - 1]
               ELSE f[k - 1] + LogProb(order, SubSeq(text, k - n + 1, k))
    BY <1>7, <2>3, Zenon
  <2>7. e[k] = IF k < n THEN e[k - 1]
               ELSE e[k - 1] + LogProb(order, SubSeq(text, k - n + 1, k))
    BY <1>10, <2>4, Zenon
  <2>. QED  BY <2>3, <2>5, <2>6, <2>7
<1>12. e = f
  <2>1. e = [k \in 0..N |-> e[k]]
    BY <1>9, Zenon
  <2>2. f = [k \in 0..N |-> f[k]]
    OBVIOUS
  <2>. QED  BY <1>11, <2>1, <2>2
<1>. QED  BY <1>4, <1>5, <1>12 DEF Follows, e, N

\* Sums of a text are those of what it begins with.
LEMMA SumsOfPrefix ==
    ASSUME NEW order \in Orders, NEW n \in Nat, 0 < n,
           NEW text \in Seq(Chars), NEW x \in Chars
    PROVE  /\ \A k \in 0..Len(text) :
                 Sums(order, n, Append(text, x))[k] = Sums(order, n, text)[k]
           /\ \A k \in 1..Len(text) :
                 Contribution(order, n, Append(text, x), k) = Contribution(order, n, text, k)
<1>. DEFINE more == Append(text, x)
            N == Len(text)
            e == Sums(order, n, text)
            f == Sums(order, n, more)
<1>1. /\ more \in Seq(Chars) /\ Len(more) = N + 1 /\ N \in Nat
      /\ \A k \in 1..N : more[k] = text[k]
  OBVIOUS
<1>2. \A k \in 1..N : Contribution(order, n, more, k) = Contribution(order, n, text, k)
  <2>1. TAKE k \in 1..N
  <2>2. CASE k < n
    BY <2>2 DEF Contribution
  <2>3. CASE ~(k < n)
    <3>1. SubSeq(more, k - n + 1, k) = SubSeq(text, k - n + 1, k)
      <4>. HIDE DEF more, N
      <4>1. k - n + 1 \in 1..N /\ k \in 1..N
        BY <1>1, <2>3
      <4>2. \A i \in (k - n + 1)..k : more[i] = text[i]
        BY <1>1, <4>1
      <4>3. SubSeq(more, k - n + 1, k) = [i \in 1..(k - (k - n + 1) + 1) |-> more[i + (k - n + 1) - 1]]
        BY <1>1, <4>1
      <4>4. SubSeq(text, k - n + 1, k) = [i \in 1..(k - (k - n + 1) + 1) |-> text[i + (k - n + 1) - 1]]
        BY <1>1, <4>1
      <4>5. \A i \in 1..(k - (k - n + 1) + 1) :
               more[i + (k - n + 1) - 1] = text[i + (k - n + 1) - 1]
        BY <1>1, <4>1, <4>2
      <4>. QED  BY <4>3, <4>4, <4>5
    <3>. QED  BY <3>1, Zenon DEF Contribution
  <2>. QED  BY <2>2, <2>3
<1>3. /\ e[0] = 0 /\ \A k \in 1..N : e[k] = e[k - 1] + Contribution(order, n, text, k)
  BY SumsFollow
<1>4. /\ f[0] = 0
      /\ \A k \in 1..Len(more) : f[k] = f[k - 1] + Contribution(order, n, more, k)
  <2>. HIDE DEF more
  <2>. QED  BY <1>1, SumsFollow
<1>. HIDE DEF e, f, more, N
<1>5. \A k \in 0..N : f[k] = e[k]
  <2>. DEFINE Bad == {k \in 0..N : f[k] # e[k]}
  <2>1. SUFFICES ASSUME Bad # {}
                 PROVE  FALSE
    OBVIOUS
  <2>2. PICK k \in Bad : \A j \in Bad : k <= j
    <3>1. Bad \in SUBSET Nat
      BY <1>1
    <3>. HIDE DEF Bad
    <3>. QED  BY <2>1, <3>1, LeastNatural
  <2>3. k \in 1..N /\ f[k] # e[k]
    BY <1>1, <1>3, <1>4, <2>2
  <2>4. f[k - 1] = e[k - 1]
    BY <1>1, <2>2, <2>3
  <2>5. k \in 1..Len(more)
    BY <1>1, <2>3
  <2>6. f[k] = f[k - 1] + Contribution(order, n, more, k)
    BY <1>4, <2>5
  <2>7. e[k] = e[k - 1] + Contribution(order, n, text, k)
    BY <1>3, <2>3
  <2>8. Contribution(order, n, more, k) = Contribution(order, n, text, k)
    BY <1>2, <2>3
  <2>. QED  BY <2>3, <2>4, <2>6, <2>7, <2>8
<1>. QED  BY <1>2, <1>5 DEF e, f, more, N

\* A sum is the one before it and its letter's own.
LEMMA LastSum ==
    ASSUME NEW order \in Orders, NEW n \in Nat, 0 < n,
           NEW more \in Seq(Chars), NEW N \in Nat, Len(more) = N + 1
    PROVE  Sums(order, n, more)[N + 1] =
              Sums(order, n, more)[N] + Contribution(order, n, more, N + 1)
<1>1. \A k \in 1..Len(more) :
         Sums(order, n, more)[k] = Sums(order, n, more)[k - 1] + Contribution(order, n, more, k)
  BY SumsFollow
<1>2. N + 1 \in 1..Len(more) /\ (N + 1) - 1 = N
  OBVIOUS
<1>. QED  BY <1>1, <1>2

\* A letter more: the sums and the contributions grow by its own.
LEMMA RolledGrows ==
    ASSUME NEW order \in Orders, NEW n \in Nat, 0 < n,
           NEW text \in Seq(Chars), NEW x \in Chars
    PROVE  /\ Sums(order, n, text)[Len(text)] \in Int
           /\ Contribution(order, n, Append(text, x), Len(text) + 1) \in Int
           /\ Sums(order, n, Append(text, x))[Len(Append(text, x))] =
                 Sums(order, n, text)[Len(text)]
                    + Contribution(order, n, Append(text, x), Len(text) + 1)
           /\ Contributions(order, n, text) \in Seq(Int)
           /\ Contributions(order, n, Append(text, x)) =
                 Append(Contributions(order, n, text),
                        Contribution(order, n, Append(text, x), Len(text) + 1))
<1>. DEFINE more == Append(text, x)
            N == Len(text)
            last == Contribution(order, n, more, N + 1)
<1>1. more \in Seq(Chars) /\ Len(more) = N + 1 /\ N \in Nat
  OBVIOUS
<1>2. last \in Int
  BY ContributionTyped
<1>3. /\ \A k \in 0..N : Sums(order, n, more)[k] = Sums(order, n, text)[k]
      /\ \A k \in 1..N : Contribution(order, n, more, k) = Contribution(order, n, text, k)
  BY SumsOfPrefix
<1>4. Sums(order, n, text)[N] \in Int
  <2>1. Sums(order, n, text) \in [0..N -> Int] /\ N \in 0..N
    BY <1>1, SumsFollow
  <2>. QED  BY <2>1
<1>5. Sums(order, n, more)[Len(more)] = Sums(order, n, text)[N] + last
  <2>1. N \in 0..N
    BY <1>1
  <2>2. Sums(order, n, more)[N] = Sums(order, n, text)[N]
    BY <1>3, <2>1
  <2>3. Sums(order, n, more)[N + 1] = Sums(order, n, more)[N] + last
    <3>. HIDE DEF more, N
    <3>. QED  BY <1>1, LastSum DEF last
  <2>. QED  BY <1>1, <2>2, <2>3
<1>6. Contributions(order, n, text) \in Seq(Int)
  <2>1. \A k \in 1..N : Contribution(order, n, text, k) \in Int
    BY ContributionTyped
  <2>. QED  BY <1>1, <2>1 DEF Contributions
<1>7. Contributions(order, n, more) = Append(Contributions(order, n, text), last)
  <2>. DEFINE c == Contributions(order, n, text)
              d == Contributions(order, n, more)
  <2>1. Len(c) = N /\ \A k \in 1..N : c[k] = Contribution(order, n, text, k)
    BY <1>1 DEF Contributions
  <2>2. /\ Len(d) = N + 1 /\ d \in Seq(Int)
        /\ \A k \in 1..(N + 1) : d[k] = Contribution(order, n, more, k)
    <3>1. \A k \in 1..(N + 1) : Contribution(order, n, more, k) \in Int
      BY ContributionTyped
    <3>. HIDE DEF more, N
    <3>. QED  BY <1>1, <3>1 DEF Contributions
  <2>. HIDE DEF c, d, last
  <2>3. /\ Append(c, last) \in Seq(Int) /\ Len(Append(c, last)) = N + 1
        /\ Append(c, last)[N + 1] = last
        /\ \A k \in 1..N : Append(c, last)[k] = c[k]
    BY <1>2, <1>6, <2>1 DEF c
  <2>4. \A k \in 1..(N + 1) : d[k] = Append(c, last)[k]
    <3>1. TAKE k \in 1..(N + 1)
    <3>2. CASE k = N + 1
      BY <2>2, <2>3, <3>2 DEF last
    <3>3. CASE k # N + 1
      <4>1. k \in 1..N
        BY <1>1, <3>3
      <4>. QED  BY <1>3, <2>1, <2>2, <2>3, <4>1
    <3>. QED  BY <3>2, <3>3
  <2>5. d = Append(c, last)
    BY <1>1, <2>2, <2>3, <2>4
  <2>. QED  BY <2>5 DEF c, d
<1>. QED  BY <1>2, <1>4, <1>5, <1>6, <1>7

\* What is pushed is what would have been kept; what is popped is what was.
LEMMA PushRolled ==
    ASSUME NEW model \in Models, NEW letters \in Seq(Chars), NEW lens, NEW x \in Chars
    PROVE  /\ PushNormalized(model, Rolled(model, letters, lens), x) =
                 Rolled(model, Append(letters, x), lens)
           /\ PopNormalized(Rolled(model, Append(letters, x), lens)) =
                 Rolled(model, letters, lens)
<1>. DEFINE more == Append(letters, x)
            N == Len(letters)
            two == model.bigram
            three == model.trigram
            b == Contribution(two, 2, more, N + 1)
            t == Contribution(three, 3, more, N + 1)
            r == Rolled(model, letters, lens)
            s == Rolled(model, more, lens)
<1>1. /\ more \in Seq(Chars) /\ Len(more) = N + 1 /\ N \in Nat
      /\ two \in Orders /\ three \in Orders
  BY DEF Models
<1>2. /\ r.raw_bigram \in Int /\ b \in Int /\ s.raw_bigram = r.raw_bigram + b
      /\ r.bigram_contribs \in Seq(Int)
      /\ s.bigram_contribs = Append(r.bigram_contribs, b)
  <2>1. 2 \in Nat /\ 0 < 2
    OBVIOUS
  <2>. QED  BY <1>1, <2>1, RolledGrows DEF Rolled
<1>3. /\ r.raw_trigram \in Int /\ t \in Int /\ s.raw_trigram = r.raw_trigram + t
      /\ r.trigram_contribs \in Seq(Int)
      /\ s.trigram_contribs = Append(r.trigram_contribs, t)
  <2>1. 3 \in Nat /\ 0 < 3
    OBVIOUS
  <2>. QED  BY <1>1, <2>1, RolledGrows DEF Rolled
<1>4. /\ r.normalized = letters /\ s.normalized = more
      /\ r.chunk_lens = lens /\ s.chunk_lens = lens
  BY DEF Rolled
<1>5. /\ r = [raw_bigram |-> r.raw_bigram, raw_trigram |-> r.raw_trigram,
              normalized |-> r.normalized, chunk_lens |-> r.chunk_lens,
              bigram_contribs |-> r.bigram_contribs,
              trigram_contribs |-> r.trigram_contribs]
      /\ s = [raw_bigram |-> s.raw_bigram, raw_trigram |-> s.raw_trigram,
              normalized |-> s.normalized, chunk_lens |-> s.chunk_lens,
              bigram_contribs |-> s.bigram_contribs,
              trigram_contribs |-> s.trigram_contribs]
  BY DEF Rolled
<1>6. PushNormalized(model, r, x) =
         [r EXCEPT !.raw_bigram = @ + b, !.raw_trigram = @ + t, !.normalized = more,
                   !.bigram_contribs = Append(@, b), !.trigram_contribs = Append(@, t)]
  <2>1. b = IF Len(more) >= 2
            THEN LogProb(model.bigram, SubSeq(more, Len(more) - 1, Len(more))) ELSE 0
    <3>1. N + 1 < 2 <=> ~(Len(more) >= 2)
      BY <1>1
    <3>2. N + 1 - 2 + 1 = Len(more) - 1
      BY <1>1
    <3>3. b = IF N + 1 < 2 THEN 0 ELSE LogProb(two, SubSeq(more, N + 1 - 2 + 1, N + 1))
      BY DEF Contribution
    <3>. HIDE DEF b, more, N
    <3>. QED  BY <1>1, <3>1, <3>2, <3>3
  <2>2. t = IF Len(more) >= 3
            THEN LogProb(model.trigram, SubSeq(more, Len(more) - 2, Len(more))) ELSE 0
    <3>1. N + 1 < 3 <=> ~(Len(more) >= 3)
      BY <1>1
    <3>2. N + 1 - 3 + 1 = Len(more) - 2
      BY <1>1
    <3>3. t = IF N + 1 < 3 THEN 0 ELSE LogProb(three, SubSeq(more, N + 1 - 3 + 1, N + 1))
      BY DEF Contribution
    <3>. HIDE DEF t, more, N
    <3>. QED  BY <1>1, <3>1, <3>2, <3>3
  <2>. HIDE DEF b, t, r
  <2>. QED  BY <1>4, <2>1, <2>2, Zenon DEF PushNormalized
<1>7. PopNormalized(s) =
         [s EXCEPT !.normalized = Front(@),
                   !.raw_bigram = @ - Last(s.bigram_contribs),
                   !.raw_trigram = @ - Last(s.trigram_contribs),
                   !.bigram_contribs = Front(@), !.trigram_contribs = Front(@)]
  BY DEF PopNormalized
<1>8. Front(more) = letters
  BY DEF Front
<1>. HIDE DEF b, t, r, s, more
<1>9. PushNormalized(model, r, x) = s
  BY <1>2, <1>3, <1>4, <1>5, <1>6
<1>10. /\ Front(s.bigram_contribs) = r.bigram_contribs /\ Last(s.bigram_contribs) = b
       /\ Front(s.trigram_contribs) = r.trigram_contribs /\ Last(s.trigram_contribs) = t
  BY <1>2, <1>3 DEF Front, Last
<1>11. s.raw_bigram - b = r.raw_bigram /\ s.raw_trigram - t = r.raw_trigram
  BY <1>2, <1>3
<1>12. PopNormalized(s) = r
  BY <1>4, <1>5, <1>7, <1>8, <1>10, <1>11
<1>. QED  BY <1>9, <1>12 DEF r, s, more
\* What a text begins with, one letter longer.
LEMMA PrefixGrows ==
    ASSUME NEW S, NEW text \in Seq(S), NEW k \in Nat, k < Len(text)
    PROVE  /\ SubSeq(text, 1, k) \in Seq(S)
           /\ SubSeq(text, 1, k + 1) = Append(SubSeq(text, 1, k), text[k + 1])
           /\ text[k + 1] \in S
OBVIOUS

LEMMA WholePrefix ==
    ASSUME NEW S, NEW text \in Seq(S)
    PROVE  SubSeq(text, 1, 0) = <<>> /\ SubSeq(text, 1, Len(text)) = text
OBVIOUS

LEMMA JoinedGrows ==
    ASSUME NEW S, NEW base \in Seq(S), NEW text \in Seq(S), NEW k \in Nat, k < Len(text)
    PROVE  /\ base \o SubSeq(text, 1, k) \in Seq(S)
           /\ base \o SubSeq(text, 1, k + 1) =
                 Append(base \o SubSeq(text, 1, k), text[k + 1])
           /\ text[k + 1] \in S
<1>1. /\ SubSeq(text, 1, k) \in Seq(S)
      /\ SubSeq(text, 1, k + 1) = Append(SubSeq(text, 1, k), text[k + 1])
      /\ text[k + 1] \in S
  BY PrefixGrows
<1>2. \A t \in Seq(S) : base \o Append(t, text[k + 1]) = Append(base \o t, text[k + 1])
  <2>1. \A t \in Seq(S), x \in S : base \o Append(t, x) = Append(base \o t, x)
    OBVIOUS
  <2>. QED  BY <1>1, <2>1
<1>3. base \o SubSeq(text, 1, k) \in Seq(S)
  BY <1>1
<1>. QED  BY <1>1, <1>2, <1>3

\* The letters after the first k are pushed.
LEMMA PushLettersRolled ==
    ASSUME NEW model \in Models, NEW text \in Seq(Chars), NEW more \in Seq(Chars), NEW lens
    PROVE  PushLetters(model, Rolled(model, text, lens), more) =
              Rolled(model, text \o more, lens)
<1>. DEFINE N == Len(more)
            start == Rolled(model, text, lens)
            KeptAt(n) == Rolled(model, text \o SubSeq(more, 1, n), lens)
            Is(f) == f = [n \in 0..N |->
                             IF n = 0 THEN start
                             ELSE PushNormalized(model, f[n - 1], more[n])]
            w == [n \in 0..N |-> KeptAt(n)]
            e == CHOOSE f : Is(f)
<1>1. N \in Nat
  OBVIOUS
<1>2. PushLetters(model, start, more) = e[N]
  BY Zenon DEF PushLetters
<1>3. KeptAt(0) = start /\ KeptAt(N) = Rolled(model, text \o more, lens)
  <2>1. text \o SubSeq(more, 1, 0) = text
    BY WholePrefix
  <2>2. SubSeq(more, 1, N) = more
    BY WholePrefix
  <2>. QED  BY <2>1, <2>2, Zenon
<1>4. \A n \in 1..N : KeptAt(n) = PushNormalized(model, KeptAt(n - 1), more[n])
  <2>1. TAKE n \in 1..N
  <2>2. /\ n - 1 \in Nat /\ n - 1 < Len(more) /\ (n - 1) + 1 = n
    BY <1>1
  <2>3. /\ text \o SubSeq(more, 1, n - 1) \in Seq(Chars) /\ more[n] \in Chars
        /\ text \o SubSeq(more, 1, n) = Append(text \o SubSeq(more, 1, n - 1), more[n])
    BY <2>2, JoinedGrows
  <2>4. PushNormalized(model, Rolled(model, text \o SubSeq(more, 1, n - 1), lens), more[n])
           = Rolled(model, Append(text \o SubSeq(more, 1, n - 1), more[n]), lens)
    BY <2>3, PushRolled, Zenon
  <2>. QED  BY <2>3, <2>4, Zenon
<1>. HIDE DEF KeptAt, start, N
<1>5. Is(w)
  <2>1. \A n \in 0..N : KeptAt(n) = IF n = 0 THEN start
                                  ELSE PushNormalized(model, w[n - 1], more[n])
    <3>1. \A n \in 1..N : w[n - 1] = KeptAt(n - 1)
      BY <1>1
    <3>2. \A n \in 0..N : n = 0 \/ n \in 1..N
      BY <1>1
    <3>3. \A n \in 1..N : n # 0
      BY <1>1
    <3>. HIDE DEF w
    <3>. QED  BY <1>3, <1>4, <3>1, <3>2, <3>3, Zenon
  <2>. DEFINE body(n) == IF n = 0 THEN start
                         ELSE PushNormalized(model, w[n - 1], more[n])
  <2>2. \A n \in 0..N : KeptAt(n) = body(n)
    BY <2>1, Zenon
  <2>. HIDE DEF body
  <2>3. w = [n \in 0..N |-> body(n)]
    BY <2>2
  <2>. QED  BY <2>3 DEF body
<1>6. Is(e)
  <2>. HIDE DEF Is
  <2>. QED  BY <1>5, Zenon
<1>. HIDE DEF e, w
<1>7. \A n \in 0..N : e[n] = IF n = 0 THEN start
                             ELSE PushNormalized(model, e[n - 1], more[n])
  BY <1>6, Zenon
<1>8. \A n \in 0..N : e[n] = KeptAt(n)
  <2>. DEFINE Bad == {n \in 0..N : e[n] # KeptAt(n)}
  <2>1. SUFFICES ASSUME Bad # {}
                 PROVE  FALSE
    OBVIOUS
  <2>2. PICK n \in Bad : \A j \in Bad : n <= j
    <3>1. Bad \in SUBSET Nat
      BY <1>1
    <3>. HIDE DEF Bad
    <3>. QED  BY <2>1, <3>1, LeastNatural
  <2>3. n # 0
    <3>1. 0 \in 0..N
      BY <1>1
    <3>. QED  BY <1>3, <1>7, <2>2, <3>1, Zenon
  <2>4. n \in 1..N /\ n - 1 \in 0..N /\ ~(n <= n - 1) /\ n \in 0..N
    BY <1>1, <2>2, <2>3
  <2>5. e[n - 1] = KeptAt(n - 1)
    BY <2>2, <2>4, Zenon
  <2>6. e[n] = KeptAt(n)
    BY <1>4, <1>7, <2>3, <2>4, <2>5, Zenon
  <2>. QED  BY <2>2, <2>6
<1>9. N \in 0..N
  BY <1>1
<1>. QED  BY <1>2, <1>3, <1>8, <1>9, Zenon DEF start

\* As many letters are popped as were pushed.
LEMMA PopLettersRolled ==
    ASSUME NEW model \in Models, NEW text \in Seq(Chars), NEW more \in Seq(Chars), NEW lens
    PROVE  PopLetters(Rolled(model, text \o more, lens), Len(more)) =
              Rolled(model, text, lens)
<1>. DEFINE N == Len(more)
            start == Rolled(model, text \o more, lens)
            KeptAt(n) == Rolled(model, text \o SubSeq(more, 1, N - n), lens)
            Is(f) == f = [n \in 0..N |->
                             IF n = 0 THEN start ELSE PopNormalized(f[n - 1])]
            w == [n \in 0..N |-> KeptAt(n)]
            e == CHOOSE f : Is(f)
<1>1. N \in Nat
  OBVIOUS
<1>2. PopLetters(start, N) = e[N]
  BY Zenon DEF PopLetters
<1>3. KeptAt(0) = start /\ KeptAt(N) = Rolled(model, text, lens)
  <2>1. text \o SubSeq(more, 1, N - N) = text
    BY WholePrefix
  <2>2. SubSeq(more, 1, N - 0) = more
    BY WholePrefix
  <2>. QED  BY <2>1, <2>2, Zenon
<1>4. \A n \in 1..N : KeptAt(n) = PopNormalized(KeptAt(n - 1))
  <2>1. TAKE n \in 1..N
  <2>2. /\ N - n \in Nat /\ N - n < Len(more) /\ (N - n) + 1 = N - (n - 1)
    BY <1>1
  <2>3. /\ text \o SubSeq(more, 1, N - n) \in Seq(Chars) /\ more[(N - n) + 1] \in Chars
        /\ text \o SubSeq(more, 1, N - (n - 1)) =
              Append(text \o SubSeq(more, 1, N - n), more[(N - n) + 1])
    <3>. HIDE DEF N
    <3>1. /\ text \o SubSeq(more, 1, N - n) \in Seq(Chars) /\ more[(N - n) + 1] \in Chars
          /\ text \o SubSeq(more, 1, (N - n) + 1) =
                Append(text \o SubSeq(more, 1, N - n), more[(N - n) + 1])
      BY <2>2, JoinedGrows
    <3>. QED  BY <2>2, <3>1
  <2>4. PopNormalized(Rolled(model, Append(text \o SubSeq(more, 1, N - n),
                                           more[(N - n) + 1]), lens))
           = Rolled(model, text \o SubSeq(more, 1, N - n), lens)
    BY <2>3, PushRolled, Zenon
  <2>. QED  BY <2>3, <2>4, Zenon
<1>. HIDE DEF KeptAt, start, N
<1>5. Is(w)
  <2>1. \A n \in 0..N : KeptAt(n) = IF n = 0 THEN start ELSE PopNormalized(w[n - 1])
    <3>1. \A n \in 1..N : w[n - 1] = KeptAt(n - 1)
      BY <1>1
    <3>2. \A n \in 0..N : n = 0 \/ n \in 1..N
      BY <1>1
    <3>3. \A n \in 1..N : n # 0
      BY <1>1
    <3>. HIDE DEF w
    <3>. QED  BY <1>3, <1>4, <3>1, <3>2, <3>3, Zenon
  <2>. DEFINE body(n) == IF n = 0 THEN start ELSE PopNormalized(w[n - 1])
  <2>2. \A n \in 0..N : KeptAt(n) = body(n)
    BY <2>1, Zenon
  <2>. HIDE DEF body
  <2>3. w = [n \in 0..N |-> body(n)]
    BY <2>2
  <2>. QED  BY <2>3 DEF body
<1>6. Is(e)
  <2>. HIDE DEF Is
  <2>. QED  BY <1>5, Zenon
<1>. HIDE DEF e, w
<1>7. \A n \in 0..N : e[n] = IF n = 0 THEN start ELSE PopNormalized(e[n - 1])
  BY <1>6, Zenon
<1>8. \A n \in 0..N : e[n] = KeptAt(n)
  <2>. DEFINE Bad == {n \in 0..N : e[n] # KeptAt(n)}
  <2>1. SUFFICES ASSUME Bad # {}
                 PROVE  FALSE
    OBVIOUS
  <2>2. PICK n \in Bad : \A j \in Bad : n <= j
    <3>1. Bad \in SUBSET Nat
      BY <1>1
    <3>. HIDE DEF Bad
    <3>. QED  BY <2>1, <3>1, LeastNatural
  <2>3. n # 0
    <3>1. 0 \in 0..N
      BY <1>1
    <3>. QED  BY <1>3, <1>7, <2>2, <3>1, Zenon
  <2>4. n \in 1..N /\ n - 1 \in 0..N /\ ~(n <= n - 1) /\ n \in 0..N
    BY <1>1, <2>2, <2>3
  <2>5. e[n - 1] = KeptAt(n - 1)
    BY <2>2, <2>4, Zenon
  <2>6. e[n] = KeptAt(n)
    BY <1>4, <1>7, <2>3, <2>4, <2>5, Zenon
  <2>. QED  BY <2>2, <2>6
<1>9. N \in 0..N
  BY <1>1
<1>. QED  BY <1>2, <1>3, <1>8, <1>9, Zenon DEF start, N

-----------------------------------------------------------------------------
(* The lower case                                                           *)

LowerCase(text) == Lowered(text)[Len(text)]

LEMMA LoweredFollows ==
    ASSUME NEW text \in Seq(Chars)
    PROVE  /\ Lowered(text) \in [0..Len(text) -> Seq(Chars)]
           /\ Lowered(text)[0] = <<>>
           /\ \A k \in 1..Len(text) :
                 Lowered(text)[k] = Lowered(text)[k - 1] \o Lowercase(text[k])
<1>. DEFINE N == Len(text)
            Step == [a \in (1..N) \X Seq(Chars) |-> a[2] \o Lowercase(text[a[1]])]
            Is(f) == f = [k \in 0..N |->
                             IF k = 0 THEN <<>> ELSE f[k - 1] \o Lowercase(text[k])]
            e == Lowered(text)
<1>1. N \in Nat
  OBVIOUS
<1>2. e = CHOOSE f : Is(f)
  BY DEF Lowered
<1>3. \A k \in 1..N : Lowercase(text[k]) \in Seq(Chars)
  BY LowercaseAssumption
<1>. HIDE DEF N, e
<1>4. Step \in Steps(N, Seq(Chars))
  <2>1. \A a \in (1..N) \X Seq(Chars) : a[2] \o Lowercase(text[a[1]]) \in Seq(Chars)
    BY <1>3
  <2>. QED  BY <2>1, Zenon DEF Steps
<1>5. PICK f \in [0..N -> Seq(Chars)] : Follows(N, <<>>, Step, f)
  <2>. HIDE DEF Step
  <2>1. <<>> \in Seq(Chars)
    OBVIOUS
  <2>. QED  BY <1>1, <1>4, <2>1, RecursiveFunction, Zenon
<1>6. f[0] = <<>> /\ \A k \in 1..N : f[k] = f[k - 1] \o Lowercase(text[k])
  <2>1. \A k \in 1..N : <<k, f[k - 1]>> \in (1..N) \X Seq(Chars)
    BY <1>1
  <2>2. \A k \in 1..N : Step[<<k, f[k - 1]>>] = f[k - 1] \o Lowercase(text[k])
    BY <2>1
  <2>. HIDE DEF Step
  <2>. QED  BY <1>5, <2>2 DEF Follows
<1>7. Is(f)
  <2>. DEFINE body(k) == IF k = 0 THEN <<>> ELSE f[k - 1] \o Lowercase(text[k])
  <2>1. \A k \in 0..N : f[k] = body(k)
    <3>1. \A k \in 0..N : k = 0 \/ k \in 1..N
      BY <1>1
    <3>. QED  BY <1>6, <3>1, Zenon
  <2>. HIDE DEF body
  <2>2. f = [k \in 0..N |-> body(k)]
    BY <2>1
  <2>. QED  BY <2>2 DEF body
<1>8. Is(e)
  <2>. HIDE DEF Is
  <2>. QED  BY <1>2, <1>7, Zenon
<1>9. \A k \in 0..N : e[k] = IF k = 0 THEN <<>> ELSE e[k - 1] \o Lowercase(text[k])
  BY <1>8, Zenon
<1>10. \A k \in 0..N : e[k] = f[k]
  <2>. DEFINE Bad == {k \in 0..N : e[k] # f[k]}
  <2>1. SUFFICES ASSUME Bad # {}
                 PROVE  FALSE
    OBVIOUS
  <2>2. PICK k \in Bad : \A j \in Bad : k <= j
    <3>1. Bad \in SUBSET Nat
      BY <1>1
    <3>. HIDE DEF Bad
    <3>. QED  BY <2>1, <3>1, LeastNatural
  <2>3. k # 0
    <3>1. 0 \in 0..N
      BY <1>1
    <3>. QED  BY <1>6, <1>9, <2>2, <3>1, Zenon
  <2>4. k \in 1..N /\ k - 1 \in 0..N /\ ~(k <= k - 1) /\ k \in 0..N
    BY <1>1, <2>2, <2>3
  <2>5. e[k - 1] = f[k - 1]
    BY <2>2, <2>4, Zenon
  <2>6. e[k] = f[k]
    BY <1>6, <1>9, <2>3, <2>4, <2>5, Zenon
  <2>. QED  BY <2>2, <2>6
<1>11. e = f
  <2>1. e = [k \in 0..N |-> e[k]]
    BY <1>8, Zenon
  <2>2. f = [k \in 0..N |-> f[k]]
    OBVIOUS
  <2>. QED  BY <1>10, <2>1, <2>2
<1>. QED  BY <1>5, <1>6, <1>11 DEF e, N

LEMMA JoinsAssociate ==
    \A a, b, c \in Seq(Chars) : (a \o b) \o c = a \o (b \o c)
<1>1. TAKE a, b, c \in Seq(Chars)
<1>2. /\ Len(a) \in Nat /\ Len(b) \in Nat /\ Len(c) \in Nat
      /\ a \o b \in Seq(Chars) /\ b \o c \in Seq(Chars)
      /\ Len(a \o b) = Len(a) + Len(b) /\ Len(b \o c) = Len(b) + Len(c)
  OBVIOUS
<1>. QED  BY <1>2

LEMMA EmptyJoins ==
    ASSUME NEW S, NEW s \in Seq(S)
    PROVE  s \o <<>> = s /\ <<>> \o s = s
OBVIOUS

LEMMA AppendedEnds ==
    ASSUME NEW S, NEW s \in Seq(S), NEW x \in S
    PROVE  Append(s, x) # <<>> /\ Last(Append(s, x)) = x /\ Front(Append(s, x)) = s
BY DEF Last, Front

\* What follows in a text is lowered as if it stood alone.
LEMMA LoweredAfter ==
    ASSUME NEW text \in Seq(Chars), NEW k \in 0..Len(text), NEW rest \in Seq(Chars),
           k + Len(rest) <= Len(text),
           \A j \in 1..Len(rest) : rest[j] = text[k + j]
    PROVE  \A j \in 0..Len(rest) :
              Lowered(text)[k + j] = Lowered(text)[k] \o Lowered(rest)[j]
<1>. DEFINE N == Len(text)
            M == Len(rest)
            e == Lowered(text)
            f == Lowered(rest)
            Bad == {j \in 0..M : e[k + j] # e[k] \o f[j]}
<1>1. N \in Nat /\ M \in Nat /\ k \in 0..N /\ k + M <= N
  OBVIOUS
<1>2. /\ e \in [0..N -> Seq(Chars)]
      /\ \A i \in 1..N : e[i] = e[i - 1] \o Lowercase(text[i])
  BY LoweredFollows
<1>3. /\ f \in [0..M -> Seq(Chars)] /\ f[0] = <<>>
      /\ \A i \in 1..M : f[i] = f[i - 1] \o Lowercase(rest[i])
  BY LoweredFollows
<1>4. \A j \in 1..M : Lowercase(rest[j]) \in Seq(Chars)
  <2>1. \A j \in 1..M : rest[j] \in Chars
    BY <1>1
  <2>. QED  BY <2>1, LowercaseAssumption
<1>. HIDE DEF N, M, e, f
<1>5. Bad = {}
  <2>1. SUFFICES ASSUME Bad # {}
                 PROVE  FALSE
    OBVIOUS
  <2>2. PICK j \in Bad : \A i \in Bad : j <= i
    <3>1. Bad \subseteq 0..M
      OBVIOUS
    <3>. HIDE DEF Bad
    <3>2. Bad \in SUBSET Nat
      BY <1>1, <3>1
    <3>. QED  BY <2>1, <3>2, LeastNatural
  <2>3. j # 0
    <3>1. k + 0 = k /\ k \in 0..N
      BY <1>1
    <3>2. e[k] \in Seq(Chars)
      BY <1>2, <3>1, Zenon
    <3>3. e[k] \o <<>> = e[k]
      BY <3>2, EmptyJoins, Zenon
    <3>. QED  BY <1>3, <2>2, <3>1, <3>3
  <2>4. /\ j \in 1..M /\ j - 1 \in 0..M /\ ~(j <= j - 1) /\ j \in 0..M
        /\ k + j \in 1..N /\ (k + j) - 1 = k + (j - 1) /\ k + (j - 1) \in 0..N
    BY <1>1, <2>2, <2>3
  <2>5. e[k + (j - 1)] = e[k] \o f[j - 1]
    BY <2>2, <2>4, Zenon
  <2>6. e[k + j] = (e[k] \o f[j - 1]) \o Lowercase(rest[j])
    <3>1. e[k + j] = e[(k + j) - 1] \o Lowercase(text[k + j])
      BY <1>2, <2>4, Zenon
    <3>2. rest[j] = text[k + j]
      BY <2>4 DEF M
    <3>. QED  BY <2>4, <2>5, <3>1, <3>2
  <2>7. f[j] = f[j - 1] \o Lowercase(rest[j])
    BY <1>3, <2>4
  <2>8. /\ e[k] \in Seq(Chars) /\ f[j - 1] \in Seq(Chars)
         /\ Lowercase(rest[j]) \in Seq(Chars)
    BY <1>1, <1>2, <1>3, <1>4, <2>4
  <2>9. (e[k] \o f[j - 1]) \o Lowercase(rest[j]) = e[k] \o (f[j - 1] \o Lowercase(rest[j]))
    BY <2>8, JoinsAssociate, Zenon
  <2>. QED  BY <2>2, <2>6, <2>7, <2>9
<1>. QED  BY <1>5 DEF e, f, M

LEMMA LowerGrows ==
    ASSUME NEW text \in Seq(Chars), NEW x \in Chars
    PROVE  /\ LowerCase(text) \in Seq(Chars) /\ Lowercase(x) \in Seq(Chars)
           /\ LowerCase(Append(text, x)) = LowerCase(text) \o Lowercase(x)
<1>. DEFINE more == Append(text, x)
            N == Len(text)
<1>1. /\ more \in Seq(Chars) /\ Len(more) = N + 1 /\ N \in Nat /\ more[N + 1] = x
      /\ \A j \in 1..N : text[j] = more[0 + j]
  OBVIOUS
<1>2. N + 1 \in 1..Len(more) /\ (N + 1) - 1 = N /\ N \in 0..N /\ 0 + N = N
      /\ 0 \in 0..Len(more) /\ 0 + N <= Len(more)
  BY <1>1
<1>3. LowerCase(text) \in Seq(Chars)
  BY <1>2, LoweredFollows DEF LowerCase
<1>. HIDE DEF more
<1>4. /\ Lowered(more)[0] = <<>>
      /\ Lowered(more)[N + 1] = Lowered(more)[N] \o Lowercase(x)
  BY <1>1, <1>2, LoweredFollows
<1>5. Lowered(more)[0 + N] = Lowered(more)[0] \o Lowered(text)[N]
  BY <1>1, <1>2, LoweredAfter
<1>6. <<>> \o LowerCase(text) = LowerCase(text)
  BY <1>3
<1>7. Lowercase(x) \in Seq(Chars)
  BY LowercaseAssumption
<1>. QED  BY <1>1, <1>2, <1>3, <1>4, <1>5, <1>6, <1>7 DEF LowerCase, more

\* What does not change is what the text begins with.
LEMMA LoweredUnchanged ==
    ASSUME NEW text \in Seq(Chars), NEW k \in 0..Len(text),
           \A i \in 1..k : Lowercase(text[i]) = <<text[i]>>
    PROVE  Lowered(text)[k] = SubSeq(text, 1, k)
<1>. DEFINE N == Len(text)
            e == Lowered(text)
            Bad == {j \in 0..k : e[j] # SubSeq(text, 1, j)}
<1>1. N \in Nat /\ k \in 0..N
  OBVIOUS
<1>2. e[0] = <<>> /\ \A i \in 1..N : e[i] = e[i - 1] \o Lowercase(text[i])
  BY LoweredFollows
<1>3. SUFFICES ASSUME Bad # {}
               PROVE  FALSE
  BY <1>1
<1>4. PICK j \in Bad : \A i \in Bad : j <= i
  <2>1. Bad \in SUBSET Nat
    BY <1>1
  <2>. HIDE DEF Bad
  <2>. QED  BY <1>3, <2>1, LeastNatural
<1>. HIDE DEF e
<1>5. j # 0
  BY <1>2, <1>4, WholePrefix
<1>6. /\ j \in 1..N /\ j \in 1..k /\ j - 1 \in 0..k /\ ~(j <= j - 1)
      /\ j - 1 \in Nat /\ j - 1 < Len(text) /\ (j - 1) + 1 = j
  BY <1>1, <1>4, <1>5
<1>7. e[j - 1] = SubSeq(text, 1, j - 1)
  BY <1>4, <1>6
<1>8. e[j] = SubSeq(text, 1, j - 1) \o <<text[j]>>
  BY <1>2, <1>6, <1>7
<1>9. /\ SubSeq(text, 1, j - 1) \in Seq(Chars) /\ text[j] \in Chars
      /\ SubSeq(text, 1, j) = Append(SubSeq(text, 1, j - 1), text[j])
  BY <1>6, PrefixGrows
<1>10. \A s \in Seq(Chars), y \in Chars : s \o <<y>> = Append(s, y)
  OBVIOUS
<1>. QED  BY <1>4, <1>8, <1>9, <1>10

\* The short way that copies what precedes the first change lowers the same.
LEMMA LowercaseIfNeededLowers ==
    ASSUME NEW text \in Seq(Chars)
    PROVE  LowercaseIfNeeded(text) = LowerCase(text)
<1>. DEFINE N == Len(text)
            changed == {i \in DOMAIN text : Lowercase(text[i]) # <<text[i]>>}
            first == CHOOSE i \in changed : \A j \in changed : i <= j
            rest == SubSeq(text, first, Len(text))
<1>1. N \in Nat /\ DOMAIN text = 1..N /\ N \in 0..N
  OBVIOUS
<1>2. CASE changed = {}
  <2>1. \A i \in 1..N : Lowercase(text[i]) = <<text[i]>>
    BY <1>1, <1>2
  <2>2. LowerCase(text) = SubSeq(text, 1, N)
    BY <1>1, <2>1, LoweredUnchanged DEF LowerCase
  <2>3. LowercaseIfNeeded(text) = text
    BY <1>2 DEF LowercaseIfNeeded
  <2>. QED  BY <2>2, <2>3, WholePrefix
<1>3. CASE changed # {}
  <2>1. first \in changed /\ \A j \in changed : first <= j
    <3>1. changed \in SUBSET Nat
      BY <1>1
    <3>2. \E i \in changed : \A j \in changed : i <= j
      <4>. HIDE DEF changed
      <4>. QED  BY <1>3, <3>1, LeastNatural
    <3>. HIDE DEF changed
    <3>. QED  BY <3>2
  <2>2. LowercaseIfNeeded(text) = SubSeq(text, 1, first - 1) \o Lowered(rest)[Len(rest)]
    BY <1>3 DEF LowercaseIfNeeded
  <2>3. first \in 1..N /\ \A i \in 1..(first - 1) : Lowercase(text[i]) = <<text[i]>>
    BY <1>1, <2>1
  <2>. HIDE DEF first
  <2>4. /\ rest \in Seq(Chars) /\ Len(rest) = N - (first - 1)
        /\ \A j \in 1..Len(rest) : rest[j] = text[(first - 1) + j]
        /\ first - 1 \in 0..N
    BY <1>1, <2>3
  <2>. HIDE DEF rest
  <2>5. (first - 1) + Len(rest) = N /\ Len(rest) \in 0..Len(rest) /\ Len(rest) \in Nat
    BY <1>1, <2>3, <2>4
  <2>6. Lowered(text)[first - 1] = SubSeq(text, 1, first - 1)
    BY <2>3, <2>4, LoweredUnchanged
  <2>7. (first - 1) + Len(rest) <= N
    BY <1>1, <2>5
  <2>8. Lowered(text)[(first - 1) + Len(rest)] =
           Lowered(text)[first - 1] \o Lowered(rest)[Len(rest)]
    BY <2>4, <2>5, <2>7, LoweredAfter
  <2>. QED  BY <2>2, <2>5, <2>6, <2>8 DEF LowerCase
<1>. QED  BY <1>2, <1>3

-----------------------------------------------------------------------------
(* The totals of a token                                                    *)

ChunkLens(text) == [i \in 1..Len(text) |-> Len(Lowercase(text[i]))]

\* What the engine keeps for a token of these characters.
TotalsOf(model, text) == Rolled(model, LowerCase(text), ChunkLens(text))

LEMMA ChunkLensGrow ==
    ASSUME NEW text \in Seq(Chars), NEW x \in Chars
    PROVE  /\ ChunkLens(text) \in Seq(Nat) /\ Len(Lowercase(x)) \in Nat
           /\ ChunkLens(Append(text, x)) = Append(ChunkLens(text), Len(Lowercase(x)))
<1>. DEFINE more == Append(text, x)
            N == Len(text)
            c == ChunkLens(text)
            d == ChunkLens(more)
            n == Len(Lowercase(x))
<1>1. /\ more \in Seq(Chars) /\ Len(more) = N + 1 /\ N \in Nat /\ more[N + 1] = x
      /\ \A j \in 1..N : more[j] = text[j]
  OBVIOUS
<1>2. \A y \in Chars : Len(Lowercase(y)) \in Nat
  BY LowercaseAssumption
<1>3. /\ c \in Seq(Nat) /\ Len(c) = N
      /\ \A j \in 1..N : c[j] = Len(Lowercase(text[j]))
  <2>1. \A j \in 1..N : Len(Lowercase(text[j])) \in Nat
    BY <1>2
  <2>. QED  BY <1>1, <2>1 DEF ChunkLens
<1>. HIDE DEF more, N
<1>4. /\ d \in Seq(Nat) /\ Len(d) = N + 1
      /\ \A j \in 1..(N + 1) : d[j] = Len(Lowercase(more[j]))
  <2>1. \A j \in 1..(N + 1) : Len(Lowercase(more[j])) \in Nat
    BY <1>1, <1>2
  <2>. QED  BY <1>1, <2>1 DEF ChunkLens
<1>. HIDE DEF c, d, n
<1>5. n \in Nat
  BY <1>2 DEF n
<1>6. /\ Append(c, n) \in Seq(Nat) /\ Len(Append(c, n)) = N + 1
      /\ Append(c, n)[N + 1] = n /\ \A j \in 1..N : Append(c, n)[j] = c[j]
  BY <1>3, <1>5
<1>7. \A j \in 1..(N + 1) : d[j] = Append(c, n)[j]
  <2>1. TAKE j \in 1..(N + 1)
  <2>2. CASE j = N + 1
    BY <1>1, <1>4, <1>6, <2>2 DEF n
  <2>3. CASE j # N + 1
    <3>1. j \in 1..N
      BY <1>1, <2>3
    <3>. QED  BY <1>1, <1>3, <1>4, <1>6, <3>1
  <2>. QED  BY <2>2, <2>3
<1>8. d = Append(c, n)
  BY <1>4, <1>6, <1>7, <1>1
<1>. QED  BY <1>3, <1>5, <1>8 DEF c, d, n, more

LEMMA LensReplaced ==
    ASSUME NEW model, NEW letters, NEW lens, NEW other
    PROVE  [Rolled(model, letters, lens) EXCEPT !.chunk_lens = other] =
              Rolled(model, letters, other)
BY DEF Rolled

\* PushCharacter and PopCharacter, for every model, token and character: typing
\* a character turns the totals of the token into those of the longer one, and
\* erasing one, whatever it was lowered to, turns them back; what the engine
\* starts from are the totals of no characters; and the totals of a token are
\* those of scoring its lower case from scratch.
THEOREM TotalsFollowTheToken ==
    ASSUME NEW model \in Models, NEW text \in Seq(Chars), NEW x \in Chars
    PROVE  /\ NoTotals = TotalsOf(model, <<>>)
           /\ PushCharacter(model, TotalsOf(model, text), x) =
                 TotalsOf(model, Append(text, x))
           /\ PopCharacter(TotalsOf(model, Append(text, x))) = TotalsOf(model, text)
           /\ Totals(TotalsOf(model, text)) = ScoreNgrams(model, LowercaseIfNeeded(text))
<1>. DEFINE lower == Lowercase(x)
            n == Len(lower)
            lens == ChunkLens(text)
            more == Append(text, x)
<1>1. /\ LowerCase(text) \in Seq(Chars) /\ lower \in Seq(Chars)
      /\ LowerCase(more) = LowerCase(text) \o lower
  BY LowerGrows
<1>2. lens \in Seq(Nat) /\ n \in Nat /\ ChunkLens(more) = Append(lens, n)
  BY ChunkLensGrow
<1>. HIDE DEF more, lens, lower, n
<1>3. NoTotals = TotalsOf(model, <<>>)
  <2>1. <<>> \in Seq(Chars) /\ Len(<<>>) = 0
    OBVIOUS
  <2>2. LowerCase(<<>>) = <<>>
    BY <2>1, LoweredFollows DEF LowerCase
  <2>3. ChunkLens(<<>>) = <<>>
    BY DEF ChunkLens
  <2>4. model.bigram \in Orders /\ model.trigram \in Orders /\ 2 \in Nat /\ 3 \in Nat
        /\ 0 < 2 /\ 0 < 3
    BY DEF Models
  <2>5. Sums(model.bigram, 2, <<>>)[0] = 0
    BY <2>1, <2>4, SumsFollow
  <2>6. Sums(model.trigram, 3, <<>>)[0] = 0
    BY <2>1, <2>4, SumsFollow
  <2>7. /\ Contributions(model.bigram, 2, <<>>) = <<>>
        /\ Contributions(model.trigram, 3, <<>>) = <<>>
    BY DEF Contributions
  <2>. QED  BY <2>1, <2>2, <2>3, <2>5, <2>6, <2>7 DEF TotalsOf, Rolled, NoTotals
<1>4. PushCharacter(model, TotalsOf(model, text), x) = TotalsOf(model, more)
  <2>1. PushLetters(model, Rolled(model, LowerCase(text), lens), lower) =
           Rolled(model, LowerCase(more), lens)
    BY <1>1, PushLettersRolled
  <2>2. PushCharacter(model, Rolled(model, LowerCase(text), lens), x) =
           [Rolled(model, LowerCase(more), lens) EXCEPT !.chunk_lens = Append(@, n)]
    <3>1. PushCharacter(model, Rolled(model, LowerCase(text), lens), x) =
             [PushLetters(model, Rolled(model, LowerCase(text), lens), lower)
                 EXCEPT !.chunk_lens = Append(@, n)]
      BY DEF PushCharacter, lower, n
    <3>. QED  BY <2>1, <3>1
  <2>3. Rolled(model, LowerCase(more), lens).chunk_lens = lens
    BY DEF Rolled
  <2>4. PushCharacter(model, Rolled(model, LowerCase(text), lens), x) =
           [Rolled(model, LowerCase(more), lens) EXCEPT !.chunk_lens = ChunkLens(more)]
    BY <1>2, <2>2, <2>3
  <2>5. PushCharacter(model, Rolled(model, LowerCase(text), lens), x) =
           Rolled(model, LowerCase(more), ChunkLens(more))
    BY <2>4, LensReplaced, Zenon
  <2>. QED  BY <2>5 DEF TotalsOf, lens
<1>5. PopCharacter(TotalsOf(model, more)) = TotalsOf(model, text)
  <2>. DEFINE r == Rolled(model, LowerCase(more), ChunkLens(more))
  <2>1. r.chunk_lens = ChunkLens(more)
    BY DEF Rolled
  <2>2. ChunkLens(more) # <<>> /\ Last(ChunkLens(more)) = n /\ Front(ChunkLens(more)) = lens
    BY <1>2, AppendedEnds
  <2>3. PopLetters(r, n) = Rolled(model, LowerCase(text), ChunkLens(more))
    BY <1>1, PopLettersRolled DEF n
  <2>. HIDE DEF r
  <2>4. LettersToPop(r) = n
    BY <2>1, <2>2 DEF LettersToPop
  <2>5. PopCharacter(r) =
           [Rolled(model, LowerCase(text), ChunkLens(more)) EXCEPT !.chunk_lens = Front(@)]
    BY <2>1, <2>2, <2>3, <2>4 DEF PopCharacter
  <2>6. Rolled(model, LowerCase(text), ChunkLens(more)).chunk_lens = ChunkLens(more)
    BY DEF Rolled
  <2>. QED  BY <2>2, <2>5, <2>6, LensReplaced DEF TotalsOf, r, lens
<1>6. Totals(TotalsOf(model, text)) = ScoreNgrams(model, LowercaseIfNeeded(text))
  BY LowercaseIfNeededLowers DEF Totals, TotalsOf, Rolled, ScoreNgrams
<1>. QED  BY <1>3, <1>4, <1>5, <1>6 DEF more

LEMMA SampleModel == MCModel \in Models
<1>1. <<1, 2>> \in Seq(Chars) /\ <<2, 1>> \in Seq(Chars) /\ <<1, 1, 2>> \in Seq(Chars)
  <2>1. 1 \in Chars /\ 2 \in Chars
    BY SampleLetters DEF MCAlphabet
  <2>. QED  BY <2>1
<1>2. MCModel.bigram \in Orders
  <2>. DEFINE S == {<<1, 2>>, <<2, 1>>}
              t == [g \in S |-> IF g = <<1, 2>> THEN -2 ELSE -3]
  <2>1. t \in [S -> Int]
    OBVIOUS
  <2>2. S \in SUBSET Seq(Chars)
    BY <1>1
  <2>3. MCModel.bigram = [floor |-> -9, table |-> t]
    BY DEF MCModel
  <2>. HIDE DEF S, t
  <2>4. t \in UNION {[X -> Int] : X \in SUBSET Seq(Chars)}
    BY <2>1, <2>2
  <2>. QED  BY <2>3, <2>4 DEF Orders
<1>3. MCModel.trigram \in Orders
  <2>. DEFINE S == {<<1, 1, 2>>}
              t == [g \in S |-> -5]
  <2>1. t \in [S -> Int]
    OBVIOUS
  <2>2. S \in SUBSET Seq(Chars)
    BY <1>1
  <2>3. MCModel.trigram = [floor |-> -20, table |-> t]
    BY DEF MCModel
  <2>. HIDE DEF S, t
  <2>4. t \in UNION {[X -> Int] : X \in SUBSET Seq(Chars)}
    BY <2>1, <2>2
  <2>. QED  BY <2>3, <2>4 DEF Orders
<1>4. MCModel = [bigram |-> MCModel.bigram, trigram |-> MCModel.trigram]
  BY DEF MCModel
<1>. QED  BY <1>2, <1>3, <1>4 DEF Models

\* What the run types and erases, with the totals of what is left.
RollingState(text) ==
    [topic |-> "rolling", text |-> text, rolling |-> TotalsOf(MCModel, text)]

RollingInv ==
    sample.topic = "rolling" =>
        /\ sample.text \in Seq(Chars)
        /\ sample = RollingState(sample.text)

LEMMA RollingStarts == Init => RollingInv
<1>. SUFFICES ASSUME Init, sample.topic = "rolling"
              PROVE  sample.text \in Seq(Chars) /\ sample = RollingState(sample.text)
  BY DEF RollingInv
<1>1. sample = [topic |-> "rolling", text |-> <<>>, rolling |-> NoTotals]
  BY SampleStarts DEF RollingSample
<1>2. NoTotals = TotalsOf(MCModel, <<>>)
  <2>1. <<>> \in Seq(Chars) /\ 1 \in Chars
    BY SampleLetters DEF MCAlphabet
  <2>. QED  BY <2>1, SampleModel, TotalsFollowTheToken, Zenon
<1>3. sample.text = <<>> /\ <<>> \in Seq(Chars)
  BY <1>1
<1>. QED  BY <1>1, <1>2, <1>3 DEF RollingState

LEMMA FrontAndLast ==
    ASSUME NEW S, NEW s \in Seq(S), s # <<>>
    PROVE  Front(s) \in Seq(S) /\ Last(s) \in S /\ s = Append(Front(s), Last(s))
BY DEF Front, Last

LEMMA RollingGoesOn == RollingInv /\ [Next]_sample => RollingInv'
<1>. SUFFICES ASSUME RollingInv, [Next]_sample
              PROVE  RollingInv'
  OBVIOUS
<1>1. ASSUME NEW char \in Chars, TypeCharacter(char)
      PROVE  RollingInv'
  <2>. DEFINE text == sample.text
  <2>1. /\ text \in Seq(Chars) /\ sample = RollingState(text)
        /\ sample' = [sample EXCEPT !.text = Append(@, char),
                                    !.rolling = PushCharacter(MCModel, @, char)]
    BY <1>1 DEF TypeCharacter, RollingInv
  <2>. HIDE DEF text
  <2>2. PushCharacter(MCModel, TotalsOf(MCModel, text), char) =
           TotalsOf(MCModel, Append(text, char))
    BY <2>1, SampleModel, TotalsFollowTheToken, Zenon
  <2>3. sample' = RollingState(Append(text, char))
    BY <2>1, <2>2 DEF RollingState
  <2>4. Append(text, char) \in Seq(Chars)
    BY <2>1
  <2>5. sample'.text = Append(text, char)
    BY <2>3 DEF RollingState
  <2>. QED  BY <2>3, <2>4, <2>5 DEF RollingInv
<1>2. ASSUME EraseCharacter
      PROVE  RollingInv'
  <2>. DEFINE text == sample.text
              rest == Front(text)
              char == Last(text)
  <2>1. /\ text \in Seq(Chars) /\ text # <<>> /\ sample = RollingState(text)
        /\ sample' = [sample EXCEPT !.text = Front(@), !.rolling = PopCharacter(@)]
    BY <1>2 DEF EraseCharacter, RollingInv
  <2>. HIDE DEF text
  <2>2. rest \in Seq(Chars) /\ char \in Chars /\ text = Append(rest, char)
    BY <2>1, FrontAndLast, Zenon
  <2>3. PopCharacter(TotalsOf(MCModel, Append(rest, char))) = TotalsOf(MCModel, rest)
    <3>. HIDE DEF rest, char
    <3>. QED  BY <2>2, SampleModel, TotalsFollowTheToken, Zenon
  <2>4. sample' = RollingState(rest)
    BY <2>1, <2>2, <2>3 DEF RollingState
  <2>5. sample'.text = rest
    BY <2>4 DEF RollingState
  <2>. QED  BY <2>2, <2>4, <2>5 DEF RollingInv
<1>3. CASE sample' = sample
  BY <1>3 DEF RollingInv
<1>. QED  BY <1>1, <1>2, <1>3 DEF Next

\* The samples of RollingTotalsAreFresh: whatever is typed and erased, also past
\* the bound of the run, the totals kept are those of scoring from scratch.
THEOREM RollingTotalsAreAlwaysFresh == Spec => []RollingTotalsAreFresh
<1>1. RollingInv => RollingTotalsAreFresh
  <2>. SUFFICES ASSUME RollingInv, sample.topic = "rolling"
                PROVE  Totals(sample.rolling) = ScoreNgrams(MCModel, LowercaseIfNeeded(sample.text))
    BY DEF RollingTotalsAreFresh
  <2>1. sample.text \in Seq(Chars) /\ 1 \in Chars
    BY SampleLetters DEF RollingInv, MCAlphabet
  <2>2. sample.rolling = TotalsOf(MCModel, sample.text)
    BY DEF RollingInv, RollingState
  <2>3. Totals(TotalsOf(MCModel, sample.text)) =
           ScoreNgrams(MCModel, LowercaseIfNeeded(sample.text))
    BY <2>1, SampleModel, TotalsFollowTheToken, Zenon
  <2>. QED  BY <2>2, <2>3
<1>. QED  BY <1>1, RollingStarts, RollingGoesOn, PTL DEF Spec

=============================================================================
