# TypeClaw: TLA+ models and proofs

TypeClaw watches the physical keys a user types, keeps one active *token*, renders it
under two keyboard layouts (English and a secondary one), scores both renderings, and
when the other layout wins tells the host to switch the keyboard input source and to
replace the token on screen. This directory models

* the path of a key, where a wrong order of steps destroys a user's text: the token
  engine, the C ABI in front of it, and the macOS agent that reacts to it through a run
  loop;
* the files behind it: language packs that are installed, replaced and read at once, the
  cache of what was read, and the downloads packs are built from;
* the pure rules both rest on: policy and configuration, keyboard maps, the dictionary
  index, artifact formats, n-gram counting and totals, the checks of a pack.

Source paths are relative to `src/`. `PROJECT.json` maps every definition to its lines.

## 1. Inventory

| Component | State it keeps | Operations | Interacts with |
|---|---|---|---|
| Layout engine (`crates/typeclaw-core/src/engine.rs`) | token, two candidate texts, rolling n-gram totals, score cache, layout, token start layout, over-long flag, host context | `observe` (letter, literal, backspace, end of token, host bypass), `force_switch_layout`, `reset_token`, `reset_layout`, `set_host_context`, `token_score` | called by the C ABI, serially |
| Scoring (`score.rs`) and rolling totals (`RollingNgrams` in `engine.rs`) | running totals, the last letters, the letters each character was lowered to | clear, push, pop, totals; score | the engine's cache |
| Dictionary, n-gram tables and packs (`data.rs`) | immutable tables | exact and prefix lookup, prefix index, encoding, decoding, validation, loading of a pack | scoring, CLI, builder |
| Keyboard maps (`keyboard.rs`) | immutable tables | validation, a key and Shift to a character, a character to a key | the engine's candidates |
| C ABI (`crates/typeclaw-ffi/src/lib.rs`) | one engine and at most one pending replacement per handle; the last error | one exported function per engine call; constructors; pending-replacement getters and take | called by the Swift wrapper |
| Language bundle cache (same file) | a process-wide map of loaded bundles behind a lock | look up, load, insert | constructors, the file system |
| Host configuration (`crates/typeclaw-host-config`) | resolved configuration | load, language pack resolution, `resolve_input_policy` | C ABI, CLI |
| Swift wrapper (`macos/Sources/TypeClawKit`) | the engine handle | decoding of observations, two-call copy of the replacement | agent |
| Agent (`macos/Sources/TypeClawAgent/main.swift`) | cached policy, replacement focus, accessibility observer and generation, pending selection and replacement with their generations, manual toggle, Option-tap state, synced input source, readiness | event-tap callback, accessibility and workspace notifications, input-source notification, work queued on the main queue, a background accessibility queue, timers | engine, window server, input sources |
| Event tap and permissions (same file) | timeouts, re-enable item, probe timer, revocation | disable by timeout, delayed re-enable, polling | agent |
| CLI (`crates/typeclaw-cli`) | files: packs and the user's configuration | pack install and use, config init; atomic file writes | file system |
| Data builder (`crates/typeclaw-data`) | download cache, partial files, counts | resumable download with checksum, counting by workers, dictionary, build-pack | network, file system |
| Evaluation and streams, smoke app, benches, fuzz targets, packaging | none | - | - |

What is hard about it, and what makes each part correct:

* **Engine.** Four copies of the token are updated in step by every path, a cache sits
  between them and the decision, and layout, start layout, length limits, context and
  roll-back interact. Correct when the copies always agree, every layout held is one
  the present token earned, nothing is retained where it must not be, and the returned
  action is exactly what happened.
* **C ABI.** The snapshot for a replacement is captured before or after the engine's
  step, depending on the call. Correct when a pending replacement always belongs to the
  very last call and covers exactly the token.
* **Agent.** A decision is carried out in up to two later turns of the run loop;
  meanwhile keys, clicks, focus notifications, results of background refreshes, source
  notifications and timers arrive. Three generations and two validity checks decide
  what is stale. Correct when only text that was typed is deleted, at most once, under
  the policy of the surface; and when engine and input source end up in agreement.
* **Packs.** A pack is four files, each replaced atomically on its own, by processes that
  may run at once, fail, die, or lose power with the directory unsynced, or not yet in its
  parent for good. Correct when every pack that is listed loads, and an install that was
  reported stays, or of a new directory is gone as a whole.
* **Bundle cache.** The lock is not held while a bundle is loaded. Correct when all
  engines of a process share one bundle, and a load that no install disturbs reads one
  version.
* **Downloads.** What an earlier run left is continued, also when the file on the server
  has changed or the connection closed early. Correct when only the pinned file is
  accepted, and a pinned one completes in the end if the server kept the file.
* **Rules.** Early returns over facts that may be missing, walks with a stack and a cap,
  batches and workers, two copies of one validation. Correct when they agree with a plain
  definition on every input.

## 2. Modules

| Module | What it is |
|---|---|
| `TypeClawEngine` | The engine, one action per public call, one sub-action per path of `step_letter` and `step_backspace`. `Render`, `ScoreLayout` and the configuration are constants with assumptions (`ConfigAssumption` is `EngineConfig::validate`). |
| `EngineFfi` | Extends it with `TcEvent` decoding and the pending replacement: one action per exported function. |
| `TokenContract` | The abstract specification: what an engine behind the ABI promises, without keys, languages or scores. Written as operators from an engine state to its next states, so that a host's handler can make several calls in one step. |
| `SynchronousHost` | The ABI driven by a host that carries out each switch at once, with the text field and the input source. |
| `Agent` | The macOS agent around an engine that keeps `TokenContract`: each callback one action, queued work, notifications, the accessibility queue, failure of the selection, degradation and backoff. |
| `EventTap` | The agent's event tap around an engine that keeps `TokenContract`: events under way in its port, disabling by the system, the re-enable item and its backoff, the access probe. |
| `PackStore` | The directory of one pack and the install processes that replace its files, through failures, deaths and losses of power. |
| `LanguageBundles` | Extends it with the threads of a host that load the pack and keep the bundle. |
| `Download` | One cached source file, its partial file, and a server whose file changes and whose connection breaks. |
| `HostConfig` | Where a configuration comes from and what it resolves to, the policy of a surface, the constructors of an engine, `pack use` and `config init`. |
| `KeyboardMaps` | Validation of rows, rendering, and the key a typed character stands for. |
| `PackManifest` | Extends it with manifests: loading a pack, building one, and what install makes of it. |
| `Dictionary` | Building the dictionary, the prefix walk, and the index that replaces the walk. |
| `Artifacts` | The two binary formats, encoded and decoded field by field. |
| `Ngrams` | Counting, compiling, scoring from scratch, and the rolling totals. |
| `SmallKeyboard`, `MC*` | Keyboards, languages, fields, applications and inputs for TLC; `MCRules` states what the rules are compared with. |
| `TypeClawEngineProofs`, `AgentProofs`, `DownloadProofs` | Theorems about the module of that name. |
| `SynchronousHostProofs` | Theorems about `EngineFfi` and `SynchronousHost`. |
| `EventTapProofs` | Theorems about `TokenContract` and `EventTap`. |
| `AgentTextProofs` | What the agent may delete, on top of `AgentProofs`. |
| `LanguageBundlesProofs` | Theorems about `PackStore` and `LanguageBundles`. |
| `RulesProofs` | Theorems about the rules, and about the samples of `MCRules`. |

`EngineFfi` EXTENDS `TypeClawEngine`; `SynchronousHost` EXTENDS `EngineFfi`; `EngineFfi`
implements `TokenContract` (`ImplementsContract`, an INSTANCE with a refinement
mapping); `Agent` and `EventTap` use the operators of `TokenContract` as their engine.
So what their runs rely on is what the `ffi` run shows of the engine, and what
`SynchronousHostProofs` proves of it. `LanguageBundles` EXTENDS `PackStore`: a load runs
concurrently with installs. `MCRules` EXTENDS the five modules of rules. `HostConfig`
decides the policy that `Agent` takes as a constant per field.

Correspondence to the code:

* *Engine.* The variables are the fields of `LayoutEngine`. `ngrams` holds the
  characters the rolling totals stand for. `output` is what the last call returned;
  `snapshot` recomputes the score, so every `observe` leaves the cache filled.
  `Discard`, `Ignore`, `LetterOverLimit`, `LetterAppended`, `BackspaceShortens` are the
  return paths. A separator is pushed and judged before it resets the token, as in
  `step_letter`; the pushed state is not visible outside the call, so it is one action.
* *Agent.* `agent` is a record of the properties of `TypeClawAgent`; each method is an
  operator on that record and each callback their composition in the order of the
  code. `work` is the main queue. `notices` are notifications posted but not
  delivered. `capturing` is the refresh the background queue is busy with. Cancelling
  a `DispatchWorkItem` is represented by the generation check next to it, which has
  the same effect. Texts are lengths; `run` is the number of characters typed in one
  piece before the caret, which is what a replacement may delete.
* *Event tap.* `port` is the mach port of the tap: an event is in it from delivery to
  `handleEvent`, and stays in it when the tap is disabled meanwhile, which is why
  `handleEvent` asks `inputMonitoringAccessRevoked`. `reenable` is
  `tapReenableWorkItem`: setting it cancels the earlier item. `timeouts` counts
  `tapTimeouts`; the ten-second window ends in `WindowPasses`, the backoff in
  `BackoffEnds`.
* *Packs.* `file` is what a name shows, `durable` what it is sure to show after a loss of
  power that leaves the directory, `leftover` the temporary files. `directory` says whether
  the pack's own directory is new: `create_dir_all` puts its name into the install root,
  which the code never syncs, so a loss of power may take it with all that is in it. A sync of
  the directory may be refused (`SyncParent`); the code prints a warning and goes on. Two
  variables only observe: `unsynced`, that the last sync was refused, and `spoiled`, that
  power was lost then and no install alone has succeeded since. An install takes one step per temporary file
  written and synced, rename, and sync of the directory, in the order n-grams,
  dictionary, prefix index, manifest, and then loads the pack. A load takes one step per
  file, manifest first, between looking into the map and inserting, each under the lock.
* *Downloads.* `dest`, `partial` and `body` are sequences of blocks, each of a version;
  `DownloadWithCache` is everything up to the request, `Respond` the server's answer to
  it, `EndOfBody` the checks and the rename.
* *Rules.* They are operators, and an initial state of the run is one input. Only rolling
  totals have steps, a character typed or erased. A `disk` maps the directory of a pack to the
  identifier in its manifest, as nothing compares the two, and holds the data directories
  that load. A build writes through an artifact that is a symbolic link, which stays one.

## 3. Runs

| Run | Question | Bounds, and why they are enough |
|---|---|---|
| `engine` | All safety properties of the engine | 3 keys, one with Shift; tokens up to 5 letters, `min_token_len` 2. The languages contain a dictionary win, an n-gram-only win, a win taken back by the next letter, a comma that ends a word and one inside a word, acronyms and internal capitals. 5 letters pass every threshold and the limit. |
| `ffi` | The ABI keeps the contract, with what the contract promises; the pending replacement is the last switch's | the same keyboard, limit 4, `min_token_len` 2 |
| `host` | The token is the text before the caret, and exactly it is replaced | limit 3, a field of 5 characters: a token, a separator and another one |
| `agent` | Safety of the agent with an observer attached | an editor with a text field and a terminal pane, a mail program with a password field; 4 user or clock events, tokens up to 2. A decision, its two queued steps and two disturbing events fit in 4. |
| `agent_settled` | Agreement of engine and input source if the user waits between events | 4 fields in 2 applications, observer attached or not, refreshes that degrade, 4 events |
| `agent_context` | The cached policy becomes the focused field's | an editor with a terminal pane and a password field, and a mail program; 3 events at any time: to another application, from there onto the password field, and from that to the pane, which is how an application stays without an observer. Tokens of 1 letter: the text has no part in it. |
| `event_tap` | A revoked agent is silent; a disabled tap comes back | 6 events of the user and the system: two timeouts in one window with the events that cause them, and access lost and restored around them |
| `packs` | A listed pack is whole, a reported install lasts, engines share one bundle | 2 versions, 2 install processes, 2 threads, 2 temporary names, 2 installs, 2 accidents (deaths, host restarts, losses of power, refused syncs). Two installs are an old and a new pack or two that race; one accident leaves a mixture and a temporary file, which the next install finds; two are a refused sync and the loss of power that shows it, or a loss that takes a new directory and another after it. Symmetric in versions, processes and threads. |
| `download` | Only the pinned file is accepted, an unpinned one is whole, a pinned one completes | 4 versions of 2 to 4 blocks, so that a changed file is shorter, longer or of equal length; 1 change, 2 faults: an interruption while resuming from one |
| `rules` | The pure rules agree with their definitions | 2 keys, words of up to 3 letters over 2, a sample cap and a top byte of 2, a top count of 5, strings and tables of up to 1, batches of 2 lines or 6 bytes, identifiers that are empty, blank, unsupported or known, packs whose manifest has another identifier than their directory, a data directory that loads and one that does not, 5 typed characters out of two letters, one that is lowered to both and one that is no letter: the limits of the code are reached and exceeded |
| `dropped_switch`, `stale_policy` | Violations, see section 6 | 3 events |

Every bound is a constant: `MaxTokenLen` (the code's own limit, small here),
`MaxDocument`, `MaxEvents`, `MaxInstalls`, `MaxAccidents`, `MaxChanges`, `MaxFaults`,
`MaxTyped`. `Undisturbed` makes the user wait until nothing is queued.
`CHECK_DEADLOCK FALSE` where the system may stop: agent and tap when the user does, packs
when no install is started any more, downloads when they are done, rules at once.

The `agent` run has a `VIEW`: the agent's generations are only compared for equality and
only grow, so states that differ in the numbers, and not in which of them are current,
have the same future. Its mail program has a single, secure field because an application
that is activated on a secure field gets no observer, and without one
`OnlyTypedTextIsReplaced` is false (section 6).

**Fairness** is assumed only of the agent: its main queue runs the item at its head,
each pending notification is delivered, a requested refresh is started and finished.
That is what the main run loop, the distributed and workspace notification centres and
a serial dispatch queue do. `EventTap` also assumes that its timers fire, the repeating
probe among them. `Download` assumes that a build that was started goes on and one that
failed is run again. Nothing is assumed of the user, nor of the agent's backoff timer,
nor of installs: an install that was started may never go on.

**Abstraction to keep in mind.** The tap hands a user event to the agent as it
happens, before the next step. In the system the window server delivers the key to the
application and to the listen-only tap independently, so a key can reach the field a
moment before the agent has seen it. What the models show of replacements is up to
that latency. Selecting the old text and typing the new one is one step.

## 4. Properties worth reading

* `CopiesAgree`, `SwitchIsEarned`: the first is the representation invariant that a
  unit test samples and every decision depends on; the second says whatever was typed,
  erased and retyped, being away from the start layout is justified by a prefix of the
  letters there *now*.
* `PendingIsTheLastSwitch`, `ReplacementDeletesItsInverse`, `ScreenShowsToken`: what
  the host deletes is what is there.
* `ImplementsContract`: refinement.
* `OnlyTypedTextIsReplaced`: of the token, the manual toggle and everything queued that
  would still run, the number of characters to delete is at most what was typed in one
  piece before the caret. Only a focus change whose notification is still in flight is
  exempt.
* `RevokedIsSilent`: once the probe has found access revoked, no event under way and no
  work item of an earlier timeout brings the tap, a token or a decision back.
* `ListedPackLoads`, `ReportedInstallLasts`: a pack whose manifest is there loads, though
  perhaps a mixture of versions; of an install that ran alone and reported success a loss of
  power leaves all, or, if no earlier install had left the directory, nothing. Neither holds when a
  refused sync came before it.
* `OneBundlePerKey`, `QuietLoadIsOneVersion`: about a check, an unlocked load and an
  insert, with files replaced in between.
* `AcceptedFileMatchesPin`, `CachedFileIsWhole`: what a build may use of a file that was
  put together from several answers.
* `PolicyFailsClosed`: knowing more of a surface never allows what was forbidden before.
* `ConfigCommandsTakeEffect`: after a successful `pack use`, a host that loads that
  configuration gets an engine from the embedded language, the data directory or the very pack
  the command found, or an error if a setting contradicts the choice or the data does not
  load, and never an engine from anything else. That the pack is of the language it is
  filed under is not claimed (section 6).
* `ContextSettles`: when the user leaves the focus alone, the cached policy becomes that of
  the focused field. The one exception is spelled out (`KnownAsApplicationOnly`): an
  application with a field where nothing may be processed can be left without an
  observer, and with the secure policy or its base policy.
* `PrefixIndexIsExact`, `RollingTotalsAreFresh`, `CountsAreOccurrences`,
  `DamagedArtifactsAreRefused`, `TypedCharacterRoundTrips`, `PacksSurviveBuildAndInstall`:
  an algorithm against the plain definition of what it computes.
* `SwitchIsCarriedOut`, `TapFollowsAccess`, `PinnedDownloadCompletes`: liveness. The last is
  about a source pinned by size and checksum; without a size a complete partial file is
  asked to be continued, and the build fails each time (section 6).

## 5. Proofs

`TypeClawEngineProofs` proves for every keyboard, scoring, language and configuration
that satisfy `ConfigAssumption` and `RenderAssumption`:

| Theorem | States |
|---|---|
| `TypeCorrect` | `Spec => []TypeOK` |
| `Invariance` | `Spec => []IInv` |
| `CopiesAlwaysAgree`, `SwitchesAreEarned`, `DisabledSwitchingKeepsLayout`, `NothingIsRetained` | the engine's safety properties |
| `ActionsAlwaysTell` | `Spec => ActionsTellTheChange` |

The inductive invariant `IInv` is the type invariant, `CopiesAgree`,
`SwitchIsEarned`, `SwitchingDisabledKeepsLayout` and `Shape` (an empty token is in its
start layout, a bypassing or ignoring engine has none, and the context explains it).
`CopiesAgree` is needed for `SwitchIsEarned`: the decision is taken from the cached
score, and says something of the token only because the cache is a scoring of it.
`SwitchIsEarned` in turn speaks of prefixes, so its steps rest on the lemmas that a
prefix survives appending and dropping a letter, and on the roll-back: a layout kept
by a backspace is one the shortened token itself wins. The lemmas about renderings
(`RenderedAppend`, `RenderedShorter`) say that pushing and popping a character is
rendering the longer or shorter token. There is one step per action.

`EventTapProofs` proves first of the contract, for every `MinTokenLen` and `MaxTokenLen`
that satisfy `LengthAssumption`:

| Theorem | States |
|---|---|
| `ContractInvariance` | `Spec => []Sound(engine)` |
| `ContractTypeCorrect`, `ShortTokensNeverSwitch`, `ReplacementsAreAuthorised` | the contract's three properties |

The invariant `Sound` adds that an engine that bypasses, or ignores an over-long run,
has no token. The calls are operators, so there is one lemma per operator: the
agent, whose handlers compose them, can use the same lemmas. `InferringSound` is the
heart: a token that may not switch is inferred to be in its start layout, which is
also why a backspace rolls a switch back.

Of the tap it proves `RevokedStaysSilent` and `TapTypeCorrect`, whatever the bound on the
events. The first is inductive together with `Sound(engine)`, which says that resetting
the engine's token empties it.

`SynchronousHostProofs` proves of the ABI `FfiTypeCorrect`, `PendingIsOfTheLastSwitch`,
`ShortTokensAlwaysKeepTheirLayout`, `OnlyTheLastCallAuthorises` and `FfiImplementsContract`:
`FfiSpec => ImplementsContract`, so the contract's theorems hold of the engine behind the
ABI. The invariant `FfiInv` is `IInv` together with what is pending; a step of the ABI is a step
of the engine together with a change of `pending`, so the lemmas about the engine's
actions are used as they are. The refinement has one lemma per call: each return path of
the engine is one alternative of the contract's operator.

Of the host it proves `HostTypeCorrect`, `ScreenAlwaysShowsToken` and
`ReplacementsDeleteTheirInverse`, for a field of any length. The invariant `HostInv` is
`FfiInv` and `ScreenInv`: the properties themselves, with the types, and what relates a
switch that is under way to the engine's last answer, without which a step that ends the
switch could not restore the first property. That the text ends with a rendering is
said character by character there (`EndsWith`), as appending and erasing are easier to
follow so than with sub-sequences.

`AgentProofs` proves, for any fields, applications and policies, with or without an
observer, with refreshes that degrade, and for any number of events:

| Theorem | States |
|---|---|
| `AgentInvariance` | `Spec => []AgentInv` |
| `AgentTypeCorrect` | `Spec => []TypeOK` |
| `ReplacementsHappenOnce` | `Spec => []OneReplacementAtMost` |
| `EngineFollowsPolicy` | `Spec => []EngineObeysCachedPolicy` |
| `InputSourceStaysKnown` | `Spec => []InputSourceIsKnown` |
| `LayoutsAlwaysAgree` | `Spec => []LayoutsAgree`, if the user waits between events |

`AgentInv` is the type invariant, that the engine obeys the cached policy, that the input
source is known, and what the generations are for: those of queued items are distinct
and not beyond the agent's, and a replacement is pending only while no queued selection
is current; `Surroundings` types the rest. Without the order among generations, two queued
items could both replace. A callback is a chain of methods, and its proof a chain too: the relations *what lapses*, *what goes on* and
*what is kept* between the agent before and after a method are transitive, each method
is in them, and each callback follows.

`LayoutsAlwaysAgree` assumes `Undisturbed`, the condition of the `agent_settled` run: without
it the engine and the input source differ while work is queued, and a switch that is
disturbed leaves them different (section 6). Its invariant `LayoutsFollow` says which of
three things is going on when nothing else is: they agree; a decision is queued that
will carry the one over to the other; or the agent is about to be told of a source that
was selected.

`AgentTextProofs` proves `OnlyTypedTextIsReplaced` in two parts, as it is not true of every
agent:

| Theorem | States |
|---|---|
| `WatchedTextIsTyped` | `Spec /\ []Watched => []OnlyTypedTextIsReplaced` |
| `ProcessingIsWatched` | `Attended => (Spec /\ [][SecureFocusStays]_vars => []Watched)` |
| `OnlyTypedTextIsEverReplaced` | `Attended => (Spec /\ [][SecureFocusStays]_vars => []OnlyTypedTextIsReplaced)` |

`Watched` is what the agent relies on: it processes text only where an observer tells it
of changes of focus. `TextInv` then bounds the token, the toggle and all queued work that
is still current by the letters typed before the caret, and says that no backoff timer can
still attach an observer to an application that was left. `Attended` is a condition on the
constants: observers can be attached and no refresh degrades. Fields and applications may be
any, browsers and mail programs with a password field beside others among them.
`SecureFocusStays` is a condition on the run: an application that was activated with
the focus on a password field, to which no observer was attached for that reason, keeps the
focus on such fields until another application is activated. It is needed: without it
both conclusions are false, and so they are in the code (`main.swift:837-858`, `1006-1017`;
section 6). The `agent` run satisfies both conditions. `WatchInv` keeps the refreshes on their way within the agent's generation, so that
none of an earlier application is installed into the next, and says that an application
without an observer is one where nothing is processed.

`LanguageBundlesProofs` proves of the store `ListedPacksLoad` and `ReportedInstallsLast` for any number of
processes, versions, installs and accidents. The invariant `StoreInv` says that an install
finds every file it is past there, durably unless a sync was refused (`Progressing`); that once
the manifest is there the artifacts would survive a loss of power which the directory
survives, which is what writing it last is for (`Ordered`); that an install which runs alone
has left its own version in every file it is past (`Alone`), and that after one which was
reported nobody is at work (`Reported`). A loss that takes the directory leaves no file, hence
no manifest. What a refused sync undoes is excluded by `spoiled` in the properties.
Of the threads it proves `EnginesShareTheBundle` and `QuietLoadsAreWhole`: an entry of
the map stays, every engine has it, and while no install runs, what a thread has read
is what the files hold.

`DownloadProofs` proves `OnlyPinnedFilesAreAccepted` and `CachedFilesAreWhole`, for any versions,
sizes, changes and faults. The first is a matter of the step that accepts. The second
needs `PartialInv`: while the file on the server stays the same, what is on the disk is
the beginning of it, a resumed request asks for the rest, and the blocks written and those
to come make up the announced length.

`RulesProofs` proves each rule for inputs of any size, and as a corollary that the property
of the `rules` run holds of its samples:

| General theorem | For any | Corollary for the samples |
|---|---|---|
| `MoreForbidsMore` | two surfaces and lists of which one says more | `PolicyAlwaysFailsClosed` |
| `UsedPackTakesEffect`, `CreatedConfigChangesNothing` | environment, files, disk, identifier | `ConfigCommandsAlwaysTakeEffect` |
| `TypedTextRoundTrips` | two keyboards and a character on one of them | `TypedCharactersRoundTrip` |
| `BuiltPacksLoad`, `InstalledPacksStayTheSame` | specification, inputs, directories | `PacksAlwaysSurvive` |
| `WholeIndexesAreRead`, `WholeTablesAreRead` | index, or tables, and a file that agrees with them as far as it goes | `DamagedArtifactsAreAlwaysRefused` |
| `IndexIsExact` | dictionary and nonempty token | `PrefixIndexIsAlwaysExact` |
| `EveryOccurrenceIsCounted` | corpus, number of workers, markers and budget | `CountsAreAlwaysOccurrences` |
| `TotalsFollowTheToken` | model, token and character | `RollingTotalsAreAlwaysFresh` |

* *Packs.* That a built pack loads rests on the punctuation keys it derives: their number and
  order come from a rank, and that no two share one is a pigeonhole argument. A build succeeds
  exactly when the specification is valid, the directory may be written to, the sources are
  usable and no artifact there is a symbolic link (`ArtifactsAreFiles`).
* *Artifacts.* `Holds(o, p, u)` says that the file `o` has the units `u` at place `p`, as far as
  it goes; `Reads(r, o, p)` that the reader `r` of `o` stands there, or failed because the file
  is too short. Each field that is read takes one to the other, so a whole file is read
  field by field as it was written, and one that was cut, wherever, fails at the field it
  was cut in. Tables go entry by entry, until the first that would be read differently.
* *Dictionary.* The index is built in one walk of the words in order, which opens an entry for
  every new prefix and closes those the next word does not have. `Indexed` says that after
  any number of words, the entries are those of the prefixes met so far, each as if the words
  with that prefix had been counted on their own, and that the active ones are exactly
  the prefixes of the last word. As the order of the words keeps those with a prefix together,
  no closed prefix comes back; and the range a lookup walks is the words with that prefix
  (`PrefixUpperBound`). The theorem asks for words and tokens that are not empty; the builder
  makes no empty word (`BuiltIsDictionary`), and an empty token is not looked up (`score.rs:57`).
* *Counting.* The places where an n-gram ends are a finite set that grows by one line, and
  within a line by one place, at a time (`TalliesGrow`, `EndsGrow`). The two letters a worker
  remembers are those before the place it is at, if they are letters, so that a letter adds
  exactly the n-grams that end with it (`LetterIsCounted`). The chunks of the workers join
  without gap (`ChunksCover`); and while the corpus is read, every line so far is counted or
  in the batch, until the budget is reached (`HasRead`). So neither the number of
  workers, nor the limits of a batch, nor the place of its end is seen in the counts.
* *Rolling totals.* `TotalsOf(model, text)` is what the engine should keep for a token, given
  outright: the sums over its lower case, each letter's contribution, and how many letters
  each character was lowered to. Pushing and popping a letter keep it, hence a character
  of any number of letters does. That lowering a text from its first change on is
  lowering it whole (`LowercaseIfNeededLowers`) makes it the scoring from scratch.

Where a rule is recursive it is defined as a recursive function over numbers. The prover
has no induction for these, nor does it know that such a function exists. `RecursiveFunction`
proves that one does, by the least length for which none would; and what holds of it is
proved by the least number at which it would not (`LeastNatural`).

**Assumptions.** `ConfigAssumption` (`EngineConfig::validate`), `RenderAssumption` (a key
has one character per layout), `ReplacementAssumption`, `LengthAssumption` and
`TokenLengthAssumption`, `SurfaceAssumption` (a field belongs to an application and has a
policy), `StoreAssumption`, `BundlesAssumption`, `OptionAssumption`, `PackAssumption` (values that
stand for nothing are none of the others), `StringAssumption` (the identifiers and file names
in the code), `WordAssumption` (the empty word and `uk` have supported characters), `SizeAssumption` (a file has a size), `KeyCountAssumption`, `UnitAssumption` (the
magic numbers and limits of the formats), `LowercaseAssumption` (a character is lowered to one
letter or several), `DictionaryAssumption` (the cap of a sample is not zero, bytes and counts have
a greatest value). `SampleKeys`, `SampleSigns`, `SampleStrings`, `SampleBytes` and `SampleLetters` are about the
constants of `MCRules`, and only its corollaries use them. TLC evaluates each of them.

**Only model-checked.** Liveness (`SwitchIsCarriedOut`, `ContextSettles`, `TapFollowsAccess`,
`PinnedDownloadCompletes`), and what needs ENABLED, which are out of the prover's reach. Every
other property of a passing run is stated by a theorem.

## 6. Where code and documents disagree

Shown by a run:

* `dropped_switch`: a key typed before the queued selection runs drops it
  (`main.swift:598`); the engine stays in a layout the input source never took,
  against `docs/host-test-matrix.md:44-45`.
* `stale_policy`: after an application is activated its base policy is in force until
  the refresh completes (`main.swift:327`), and a refresh that was in flight may
  install another field's policy; `docs/invariants.md:108-110` wants a bypass.

Met while modelling, and described only:

* With `min_token_len = 1` (accepted by `validate`), a backspace over the token's only
  letter keeps the layout that letter had switched to (`engine.rs:335`), while
  `docs/invariants.md:87-88` restores the start layout. The branch of
  `reconcile_layout_after_token_change` for an empty token is dead code.
* Without an accessibility observer a click resets nothing (`main.swift:749`), against
  `docs/invariants.md:54-55`. That is so when attaching fails, and also after an
  application was activated on a secure field: no observer is attached then
  (`main.swift:837-858`, `1006-1017`), and when secure input ends the context of the
  application is installed without attaching one.
* `pack use` without `--config` changes the default file whatever `TYPECLAW_CONFIG` says
  (`typeclaw-cli/src/main.rs:1136`), which hosts do not load then.
* `config show` prints the file's values, not those the environment overrides
  (`typeclaw-cli/src/main.rs:1304-1318`).

Behaviour that no document speaks of, which the properties therefore allow:

* `pack install` syncs the pack's directory but never the install root it may just have
  created it in (`typeclaw-cli/src/main.rs:996`, `atomic.rs:43`): a first install that was
  reported may be gone as a whole after a loss of power. A refused sync is a warning, and
  the install still reports success (`atomic.rs:90-107`): a loss of power may then leave a
  mixture, or a manifest without its files.
* Nothing compares the identifier in a manifest with the name of the directory it is in
  (`typeclaw-core/src/data.rs:870-910`, `typeclaw-cli/src/main.rs:1080-1087`): a pack directory
  that was renamed or copied gives an engine of its manifest's language under another name.
* `build-pack --force` over artifacts that are symbolic links writes through the links
  (`typeclaw-data/src/main.rs:1363`, `1372`, `1426`) and then refuses the pack it has built.
* A download without a pinned size whose partial file is complete asks for the bytes
  beyond its end, is answered 416, and fails, each time (`typeclaw-data/src/main.rs:697`).
* An application that was activated on a field where nothing may be processed has no observer:
  when the focus then moves to another of its fields no notice comes, and the secure policy
  stays until a key or an Option tap asks, which then installs that of the application alone.

A remark that is no finding: `docs/invariants.md:79` says short tokens never switch,
yet a backspace that makes a token short may return `SwitchFutureLayout` for the
start layout. Lines 87-88 ask for exactly that; `ShortTokensKeepTheirLayout` states
what the two say together.

## 7. Not modelled, and what is left

Not modelled, as no property here would tell it apart: SHA-256, gzip and HTTP beyond
ranges and lengths; the bytes of the FST and of numbers, UTF-8 validity; f32 rounding and
the weighted sum of scores (`ScoreLayout` is a constant, totals are integers); TOML parsing;
null pointers, buffer sizes and the panic guard of the ABI, and with it a poisoned lock;
printing (`list`, `inspect`, `show`, `eval`, `stream`, the REPL); key codes and the table of
input source identifiers; the agent's start and its alerts. The smoke app, benches, fuzz
targets, evaluation tools and packaging keep no state whose order matters.

Left, in this order:

1. `EventTap` composed with the field: keys and clicks are missed while the tap is off,
   and neither the disabling nor the re-enabling resets the token.
2. Fields of equal identity, whose `ReplacementFocus` is equal too.
3. The observer after a backoff: nothing attaches it when the timer's generation is stale.
4. `build-pack --force`, which overwrites a pack in place, as an accident of `PackStore`.
