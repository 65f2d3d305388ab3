----------------------------- MODULE HostConfig -----------------------------
(***************************************************************************)
(* Host configuration: how a config file and the environment are resolved,  *)
(* which language data an engine is built from, how the policy for the      *)
(* surface that is typed into is decided, and what `typeclaw pack use` and  *)
(* `typeclaw config init` write.                                            *)
(*                                                                         *)
(* Abstracted data: an identifier is a word with its case and the blanks    *)
(* around it, a described field is the set of lower-case words and phrases  *)
(* it contains, a path is a value.  None is a missing option and a null     *)
(* pointer, and Failed the error of whatever is read or built.              *)
(***************************************************************************)
EXTENDS Integers, FiniteSets

CONSTANTS
    TerminalWords,      \* TERMINAL_BUNDLE_IDS, in lower case
    SurfaceMarkers,     \* TERMINAL_SURFACE_MARKERS
    NoWord,             \* the empty string
    UnsupportedWords,   \* words not of ASCII letters, digits, '-' and '_' alone
    None, Failed

-----------------------------------------------------------------------------
(* Data                                                                     *)

Option(S) == S \cup {None}

Identifier == [word : STRING, upper : BOOLEAN, padded : BOOLEAN]
Path == STRING \X STRING

Apps == [disable : SUBSET Identifier, disableAuto : SUBSET Identifier]

\* The file, the environment, and what both are resolved to.
Config == [engineValid : BOOLEAN, secondary : Identifier, packs : Option(Path),
           data : Option(Path), source : Option(Identifier), apps : Apps]

Environment == [home : Option(STRING), config : Option(Path), data : Option(Path),
                packs : Option(Path)]

HostConfig == [engineValid : BOOLEAN, secondary : Identifier,
               pack_directory : Option(Path), data_directory : Option(Path),
               app_policy : Apps, source_path : Option(Path)]

\* Where the language data of an engine comes from.
Bundle == ({"pack", "embedded"} \X Identifier) \cup ({"data_dir"} \X Path)

ASSUME OptionAssumption ==
    /\ \A no \in {None, Failed} :
          no \notin STRING \cup Identifier \cup Path \cup Config \cup HostConfig \cup Bundle
    /\ NoWord \in STRING \ {"uk", "en"}

ASSUME WordAssumption == {NoWord, "uk"} \cap UnsupportedWords = {}

\* Of strings the provers know by themselves only which differ.
ASSUME StringAssumption ==
    {"uk", "en", "config.toml", "packs", "pack", "embedded", "data_dir"} \subseteq STRING

-----------------------------------------------------------------------------
(* Identifiers                                                              *)

Id(word) == [word |-> word, upper |-> FALSE, padded |-> FALSE]

Trimmed(id) == [id EXCEPT !.padded = FALSE]

NormalizedOptional(id) ==
    IF id = None \/ id.word = NoWord THEN None ELSE Trimmed(id)

SupportedCharacters(id) == ~id.padded /\ id.word \notin UnsupportedWords

NormalizedBundleIds(ids) == {NormalizedOptional(id) : id \in ids} \ {None}

-----------------------------------------------------------------------------
(* The input policy                                                         *)

\* A bundle in both lists is fully disabled.
AppPolicy(apps) ==
    LET disabled == NormalizedBundleIds(apps.disable)
    IN  [disable |-> disabled,
         disableAuto |-> NormalizedBundleIds(apps.disableAuto) \ disabled]

DisablesBundle(policy, bundle) == bundle \in policy.disable

DisablesAutomaticProcessing(policy, bundle) ==
    bundle \in policy.disable \/ bundle \in policy.disableAuto

\* Unlike the user's lists, those of the terminals ignore case.
IsTerminalBundle(bundle) == ~bundle.padded /\ bundle.word \in TerminalWords

\* Mistake: only the first field that says anything is looked at.
SaysTerminalFirst(fields) ==
    LET said == {i \in DOMAIN fields : fields[i] # None}
    IN  \E i \in said : /\ \A j \in said : i <= j
                        /\ fields[i] \cap SurfaceMarkers # {}

SaysTerminal(fields) ==
    \E i \in DOMAIN fields : fields[i] # None /\ fields[i] \cap SurfaceMarkers # {}

Policy(auto, manual, terminal, reason) ==
    [disable_automatic_processing |-> auto, disable_manual_switch |-> manual,
     terminal_surface |-> terminal, reason |-> reason]

Allowing == Policy(FALSE, FALSE, FALSE, "Normal")

\* The title of the window and the name of the application are not consulted.
ResolveInputPolicy(policy, facts) ==
    LET bundle == facts.bundle IN
    CASE facts.secure -> Policy(TRUE, TRUE, FALSE, "SecureInput")
      [] ~facts.secure /\ bundle # None /\ IsTerminalBundle(bundle) ->
            Policy(TRUE, TRUE, TRUE, "TerminalBundle")
      [] OTHER ->
         IF SaysTerminal(facts.fields) THEN Policy(TRUE, TRUE, TRUE, "TerminalSurface")
         ELSE IF bundle = None THEN Allowing
         ELSE IF DisablesBundle(policy, bundle)
              THEN Policy(TRUE, TRUE, FALSE, "DisabledBundle")
         ELSE IF DisablesAutomaticProcessing(policy, bundle)
              THEN Policy(TRUE, FALSE, FALSE, "AutomaticProcessingDisabledBundle")
         ELSE Allowing

\* What crosses the C ABI is trimmed, and what is blank is missing.
FactsFromFfi(facts) ==
    [facts EXCEPT !.bundle = NormalizedOptional(@),
                  !.fields = [i \in DOMAIN @ |-> IF @[i] = {} THEN None ELSE @[i]]]

Unavailable == Policy(TRUE, TRUE, FALSE, "UnavailableHostConfig")

HostPolicy(config, facts) ==
    IF config = None THEN Unavailable
    ELSE ResolveInputPolicy(config.app_policy, FactsFromFfi(facts))

-----------------------------------------------------------------------------
(* Resolving a config                                                       *)

DefaultConfig ==
    [engineValid |-> TRUE, secondary |-> Id("uk"), packs |-> None, data |-> None,
     source |-> None, apps |-> [disable |-> {}, disableAuto |-> {}]]

HomeDefault(env) == IF env.home = None THEN None ELSE <<env.home, "config.toml">>

ReadPath(files, path) == IF path \in DOMAIN files THEN files[path] ELSE Failed

\* The path the config is loaded from, None for the defaults.
ConfigPath(explicit, env, files) ==
    IF explicit # None THEN explicit
    ELSE IF env.config # None THEN env.config
    ELSE IF HomeDefault(env) \in DOMAIN files THEN HomeDefault(env) ELSE None

Load(explicit, env, files) ==
    LET path == ConfigPath(explicit, env, files)
    IN  IF path = None THEN DefaultConfig ELSE ReadPath(files, path)

SecondaryId(config) ==
    IF NormalizedOptional(config.secondary) = None THEN Id("uk")
    ELSE Trimmed(config.secondary)

FirstOf(option, other) == IF option # None THEN option ELSE other

DefaultPackDir(env) == IF env.home = None THEN None ELSE <<env.home, "packs">>
PackDir(config, env) == FirstOf(env.packs, FirstOf(config.packs, DefaultPackDir(env)))
DataDir(config, env) == FirstOf(env.data, config.data)

\* FromSource refuses a config that one of these finds fault with.
DataMatchesSecondary(secondary, data) == data # None => secondary = Id("uk")

SourceMatchesSecondary(secondary, source) ==
    secondary = Id("uk") /\ source # None => source.word = "ukrainian"

FromSource(config, env, path) ==
    LET secondary == SecondaryId(config)
        source == NormalizedOptional(config.source)
        data == DataDir(config, env)
    IN  IF /\ config.engineValid
           /\ secondary # Id("en") /\ SupportedCharacters(secondary)
           /\ SourceMatchesSecondary(secondary, source)
           /\ DataMatchesSecondary(secondary, data)
        THEN [engineValid |-> TRUE, secondary |-> secondary,
              pack_directory |-> PackDir(config, env), data_directory |-> data,
              app_policy |-> AppPolicy(config.apps), source_path |-> path]
        ELSE Failed

\* A disk holds packs, each under a directory and a name and with the identifier
\* its manifest gives it, and data directories; of both those that load.
LoadPack(disk, directory, name) ==
    IF directory # None /\ <<directory, name>> \in DOMAIN disk.packs
    THEN <<"pack", disk.packs[<<directory, name>>]>> ELSE Failed

LoadData(disk, directory) ==
    IF directory \in disk.data THEN <<"data_dir", directory>> ELSE Failed

\* The language of a pack is the one of its manifest; nothing compares it with
\* the secondary language that names the directory.
LanguageBundle(resolved, disk) ==
    IF resolved.data_directory # None THEN LoadData(disk, resolved.data_directory)
    ELSE IF resolved.secondary = Id("uk") THEN <<"embedded", Id("uk")>>
    ELSE LoadPack(disk, resolved.pack_directory, resolved.secondary)

-----------------------------------------------------------------------------
(* The C ABI: a host loads its config and builds an engine from it; a call   *)
(* that fails returns null and leaves a message, one that succeeds clears it *)

Returned(value) == [value |-> value, error |-> FALSE]
ReturnedNull == [value |-> None, error |-> TRUE]

Resolved(resolved) == IF resolved = Failed THEN ReturnedNull ELSE Returned(resolved)

HostConfigLoad(explicit, env, files) ==
    LET config == Load(explicit, env, files)
    IN  IF config = Failed THEN ReturnedNull
        ELSE Resolved(FromSource(config, env, ConfigPath(explicit, env, files)))

\* The environment still overrides the defaults; no file is looked for.
HostConfigLoadDefaults(env) == Resolved(FromSource(DefaultConfig, env, None))

NewEngine(bundle, engineValid) ==
    IF bundle = Failed \/ ~engineValid THEN ReturnedNull ELSE Returned(bundle)

NewFromHostConfig(config, disk) ==
    IF config = None THEN ReturnedNull
    ELSE NewEngine(LanguageBundle(config, disk), config.engineValid)

\* What a host reads back; without a config, null pointers and zeros.
Described(config) ==
    IF config = None
    THEN [source |-> None, secondary |-> None, packs |-> None, data |-> None,
          engine |-> None, disabled |-> 0, autoDisabled |-> 0]
    ELSE [source |-> config.source_path, secondary |-> config.secondary,
          packs |-> config.pack_directory, data |-> config.data_directory,
          engine |-> IF config.data_directory # None THEN "data_dir"
                     ELSE IF config.secondary = Id("uk") THEN "embedded" ELSE "pack",
          disabled |-> Cardinality(config.app_policy.disable),
          autoDisabled |-> Cardinality(config.app_policy.disableAuto)]

-----------------------------------------------------------------------------
(* The command line; the result of a command is the files it leaves, or      *)
(* Failed when it changed none                                              *)

Written(files, path, config) ==
    [p \in DOMAIN files \cup {path} |-> IF p = path THEN config ELSE files[p]]

WritableConfigPath(explicit, env) == FirstOf(explicit, HomeDefault(env))

\* Mistake: the new config is made from the defaults.
ConfigToChangeFresh(files, path) == DefaultConfig

ConfigToChange(files, path) ==
    IF path \in DOMAIN files THEN ReadPath(files, path) ELSE DefaultConfig

\* The config is parsed but not resolved, before and after: nothing asks
\* whether what is written can be loaded.
UsePack(id, explicit, env, files, disk) ==
    LET path == WritableConfigPath(explicit, env)
        config == ConfigToChange(files, path)
    IN  IF \/ id.word = NoWord \/ ~SupportedCharacters(id)
           \/ path = None \/ config = Failed
           \/ id # Id("uk") /\ LoadPack(disk, PackDir(config, env), id) = Failed
        THEN Failed
        ELSE Written(files, path, [config EXCEPT !.secondary = id])

ConfigInit(target, env, files) ==
    LET path == FirstOf(target, HomeDefault(env))
    IN  IF path = None \/ path \in DOMAIN files THEN Failed
        ELSE Written(files, path, DefaultConfig)

-----------------------------------------------------------------------------
(* What the rules promise                                                   *)

\* One policy forbids whatever the other forbids.
AtLeastAsStrict(strict, lax) ==
    /\ lax.disable_automatic_processing => strict.disable_automatic_processing
    /\ lax.disable_manual_switch => strict.disable_manual_switch

\* One description of a surface says all the other says.
KnowsMore(facts, fewer) ==
    /\ fewer.secure => facts.secure
    /\ fewer.bundle # None => fewer.bundle = facts.bundle
    /\ \A i \in DOMAIN fewer.fields :
          fewer.fields[i] # None =>
             facts.fields[i] # None /\ fewer.fields[i] \subseteq facts.fields[i]

\* One pair of lists disables all that the other disables.
DisablesMore(apps, fewer) ==
    /\ fewer.disable \subseteq apps.disable
    /\ fewer.disableAuto \subseteq apps.disable \cup apps.disableAuto

\* The engine a host gets that loads its config afresh.
EngineAfter(explicit, env, files, disk) ==
    NewFromHostConfig(HostConfigLoad(explicit, env, files).value, disk)

\* Nothing outranks the config file a `pack use` writes.
FileDecides(explicit, env) == explicit # None \/ env.config = None

=============================================================================
