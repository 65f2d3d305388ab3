---------------------------- MODULE PackManifest ----------------------------
(***************************************************************************)
(* A language pack as a directory: the manifest and the three artifacts it   *)
(* names, what is checked when a pack is loaded, how `typeclaw-data          *)
(* build-pack` makes one from a specification, and what `typeclaw pack       *)
(* install` makes of it in the directory of packs.                          *)
(*                                                                         *)
(* Abstracted data: names and identifiers are words with a validity of their *)
(* own (script and display name are alike), a path is standard, relative, or *)
(* one that leaves the directory, and an artifact is known by what it holds. *)
(* Crashes and failing writes between the files of an install are            *)
(* PackStore's matter.                                                      *)
(***************************************************************************)
EXTENDS KeyboardMaps, FiniteSets

CONSTANTS
    English,            \* KeyboardMap::english_us
    NamedLayouts,       \* the maps KeyboardMap::named knows, by name
    Blank,              \* a text of blanks only, or none
    Missing             \* a missing option, file or directory

ArtifactField == {"ngrams", "dict", "dict_prefix"}

-----------------------------------------------------------------------------
(* Data                                                                     *)

Character == [sign : STRING, script : STRING, upper : BOOLEAN]
KeyboardRows == [unshifted : Seq(Character), shifted : Seq(Character)]

Manifest == [current_format : BOOLEAN, id : STRING, display_name : STRING, layout : STRING,
             keyboard : KeyboardRows \cup {Missing},
             punctuation_letter_keys : Seq(Character),
             paths : [ArtifactField -> STRING],
             source : STRING \cup {Missing}, build_id : STRING \cup {Missing}]

File == [holds : STRING, tag : STRING, symlink : BOOLEAN]

Directory == [symlink : BOOLEAN, manifest : Manifest \cup {Missing},
              files : UNION {[names -> File] : names \in SUBSET STRING}]

\* A loaded pack.
Pack == [id : STRING, display_name : STRING, layout : STRING, keyboard : KeyboardRows,
         punctuation_letter_keys : Seq(Character), artifacts : [ArtifactField -> File],
         source : STRING, build_id : STRING]

PackBuildSpec ==
    [id : STRING, display_name : STRING, layout : STRING, alphabet : STRING, top_k : Nat,
     keys : Seq(Character) \cup {Missing}, keyboard : KeyboardRows \cup {Missing},
     source : STRING \cup {Missing}, build_id : STRING \cup {Missing}]

ASSUME PackAssumption ==
    /\ Missing \notin Manifest \cup File \cup Pack
    /\ {Blank, "ngrams.bin", "dict.fst", "dict-prefix.bin", "ngrams", "dict", "dict_prefix",
        "external pack", "external", "build-pack"} \subseteq STRING
    /\ English \in KeyboardRows /\ RowsAreValid(English)
    /\ \A name \in DOMAIN NamedLayouts : NamedLayouts[name] \in KeyboardRows

-----------------------------------------------------------------------------
(* The manifest                                                             *)

\* Letters, digits, hyphens and underscores; the two built-in languages are
\* reserved.
ValidId(id) == id # Blank /\ id \notin {"en", "uk"} /\ id # "with/slash"

\* Each key once, and only positions of English punctuation.
ValidPunctuationKeys(keys) ==
    /\ \A i, j \in DOMAIN keys : keys[i] = keys[j] => i = j
    /\ \A i \in DOMAIN keys : keys[i] \in CharsOf(English) /\ ~IsAsciiAlphabetic(keys[i])

StaysInside(path) == path \notin {"", "/absolute", "../parent"}

ValidManifest(m) ==
    /\ m.current_format
    /\ ValidId(m.id)
    /\ m.display_name # Blank /\ m.layout # Blank
    /\ ValidPunctuationKeys(m.punctuation_letter_keys)
    /\ \A f \in ArtifactField : StaysInside(m.paths[f])

\* Rows of its own come before the name of a layout.
KeyboardOf(layout, rows) ==
    IF rows # Missing THEN (IF RowsAreValid(rows) THEN rows ELSE Missing)
    ELSE IF layout \in DOMAIN NamedLayouts THEN NamedLayouts[layout] ELSE Missing

\* The keys in the order of the keyboard.
InKeyOrder(keys) ==
    LET at(char) == CHOOSE n \in 1..(2 * KeyCount) :
                       /\ Render(English, EventAt(n)) = char
                       /\ \A m \in 1..(n - 1) : Render(English, EventAt(m)) # char
    IN  [i \in 1..Cardinality(keys) |->
            CHOOSE c \in keys : Cardinality({d \in keys : at(d) < at(c)}) = i - 1]

DerivedKeys(keyboard) == InKeyOrder(PunctuationLetterKeysAgainst(keyboard, English))

PunctuationKeys(keys, keyboard) == IF keys # <<>> THEN keys ELSE DerivedKeys(keyboard)

-----------------------------------------------------------------------------
(* Loading a pack                                                           *)

Artifact(holds, tag) == [holds |-> holds, tag |-> tag, symlink |-> FALSE]

At(dir, path) == IF path \in DOMAIN dir.files THEN dir.files[path] ELSE Missing

Readable(dir, path, holds) ==
    LET file == At(dir, path)
    IN  file # Missing /\ ~file.symlink /\ file.holds = holds

\* from_pack_dir; the n-grams must be those of the language in the manifest.
FromPackDir(dir) ==
    LET m == dir.manifest
        keyboard == KeyboardOf(m.layout, m.keyboard)
    IN  IF /\ ~dir.symlink
           /\ m # Missing
           /\ ValidManifest(m)
           /\ keyboard # Missing
           /\ \A f \in ArtifactField : Readable(dir, m.paths[f], f)
           /\ At(dir, m.paths["ngrams"]).tag = m.id
           /\ ValidPunctuationKeys(PunctuationKeys(m.punctuation_letter_keys, keyboard))
        THEN [id |-> m.id, display_name |-> m.display_name, layout |-> m.layout,
              keyboard |-> keyboard,
              punctuation_letter_keys |-> PunctuationKeys(m.punctuation_letter_keys, keyboard),
              artifacts |-> [f \in ArtifactField |-> At(dir, m.paths[f])],
              source |-> IF m.source = Missing THEN "external pack" ELSE m.source,
              build_id |-> IF m.build_id = Missing THEN "external" ELSE m.build_id]
        ELSE Missing

-----------------------------------------------------------------------------
(* build-pack                                                               *)

StandardPath == [ngrams |-> "ngrams.bin", dict |-> "dict.fst",
                 dict_prefix |-> "dict-prefix.bin"]

ValidSpec(spec) ==
    /\ ValidId(spec.id)
    /\ spec.display_name # Blank /\ spec.layout # Blank
    /\ spec.alphabet # Blank
    /\ spec.top_k # 0
    /\ spec.keys = Missing \/ (spec.keys # Missing /\ ValidPunctuationKeys(spec.keys))
    /\ KeyboardOf(spec.layout, spec.keyboard) # Missing

\* Without --force only an empty or a new directory is written to.
CanPrepare(dir, force) ==
    ~dir.symlink /\ (force \/ (dir.manifest = Missing /\ DOMAIN dir.files = {}))

With(files, path, file) ==
    [p \in DOMAIN files \cup {path} |-> IF p = path THEN file ELSE files[p]]

ManifestFor(spec) ==
    [current_format |-> TRUE, id |-> spec.id, display_name |-> spec.display_name,
     layout |-> spec.layout, keyboard |-> spec.keyboard,
     punctuation_letter_keys |->
        IF spec.keys # Missing THEN spec.keys
        ELSE DerivedKeys(KeyboardOf(spec.layout, spec.keyboard)),
     paths |-> StandardPath, source |-> spec.source,
     build_id |-> IF spec.build_id = Missing THEN "build-pack" ELSE spec.build_id]

Linked(dir, path) == At(dir, path) # Missing /\ At(dir, path).symlink

\* The directory after the build, and whether the builder reports success.  A
\* corpus without trigrams or an empty dictionary ends it half way.  An artifact
\* that is a symbolic link is written through it and stays a link, so that the
\* pack is refused in the end.
BuildPack(spec, dir, force, inputs) ==
    LET artifact(f) == [Artifact(f, spec.id) EXCEPT !.symlink = Linked(dir, StandardPath[f])]
        write(d, f) == [d EXCEPT !.files = With(@, StandardPath[f], artifact(f))]
        ngrams == write(dir, "ngrams")
        dict == write(write(ngrams, "dict"), "dict_prefix")
        built == [dict EXCEPT !.manifest = ManifestFor(spec)]
    IN  CASE ~(ValidSpec(spec) /\ CanPrepare(dir, force) /\ inputs # "no corpus") ->
                [dir |-> dir, ok |-> FALSE]
          [] ValidSpec(spec) /\ CanPrepare(dir, force) /\ inputs = "no words" ->
                [dir |-> ngrams, ok |-> FALSE]
          [] OTHER ->
                IF ValidManifest(built.manifest)
                THEN [dir |-> built, ok |-> FromPackDir(built) # Missing]
                ELSE [dir |-> dict, ok |-> FALSE]

-----------------------------------------------------------------------------
(* pack install, undisturbed                                                *)

\* Mistake: the manifest goes on naming the files of the source.
NormalizedForInstallAsIs(m) == m

NormalizedForInstall(m) == [m EXCEPT !.paths = StandardPath]

InstallPack(source, target) ==
    LET m == source.manifest
        pack == FromPackDir(source)
        manifest == [NormalizedForInstall(m) EXCEPT
            !.punctuation_letter_keys = IF @ = <<>> THEN pack.punctuation_letter_keys ELSE @]
        files == [p \in DOMAIN target.files \cup {StandardPath[f] : f \in ArtifactField} |->
            IF \E f \in ArtifactField : StandardPath[f] = p
            THEN At(source, m.paths[CHOOSE f \in ArtifactField : StandardPath[f] = p])
            ELSE target.files[p]]
    IN  IF pack = Missing THEN target
        ELSE [target EXCEPT !.files = files, !.manifest = manifest]

=============================================================================
