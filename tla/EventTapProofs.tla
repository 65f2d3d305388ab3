--------------------------- MODULE EventTapProofs ---------------------------
(***************************************************************************)
(* What TokenContract promises, for every token length the configuration   *)
(* allows: an implementation of the contract inherits it.  And the tap that*)
(* feeds an engine of the contract: its state is type-correct and a revoked*)
(* agent silent, however many events there are.                            *)
(***************************************************************************)
EXTENDS EventTap, TLAPS

-----------------------------------------------------------------------------
(* The inductive invariant, of any engine                                   *)

Action == {None, Reset} \cup {Switch(l) : l \in Layout}

EngineType == [token_len : 0..MaxTokenLen, layout : Layout, start : Layout,
               ignoring : BOOLEAN, context : Context, action : Action,
               pending : 0..MaxTokenLen]

LEMMA Members ==
    /\ None \in Action
    /\ Reset \in Action
    /\ \A l \in Layout : Switch(l) \in Action
    /\ 0 \in 0..MaxTokenLen
  BY LengthAssumption DEF Action

\* Besides the properties: an engine that bypasses, or ignores an over-long run,
\* has no token.
Sound(en) ==
    /\ en \in EngineType
    /\ \/ en.token_len < MinTokenLen
       \/ en.context.automatic_switching_disabled
       => en.layout = en.start
    /\ en.pending # 0 => /\ en.action = Switch(en.layout)
                         /\ ~Bypassing(en)
                         /\ en.token_len \in {0, en.pending}
    /\ en.ignoring \/ Bypassing(en) => en.token_len = 0

\* An engine between the change of its token and the inference from it.
Observing(en) ==
    /\ en \in EngineType
    /\ en.token_len > 0
    /\ ~en.ignoring
    /\ ~Bypassing(en)
    /\ en.context.automatic_switching_disabled => en.layout = en.start

-----------------------------------------------------------------------------
(* What the calls preserve                                                  *)

LEMMA ResetLayoutFields ==
    ASSUME NEW en \in EngineType, NEW l \in Layout
    PROVE  /\ ResetLayout(en, l) \in EngineType
           /\ ResetLayout(en, l).token_len = 0
           /\ ResetLayout(en, l).layout = l
           /\ ResetLayout(en, l).start = l
           /\ ResetLayout(en, l).ignoring = FALSE
           /\ ResetLayout(en, l).context = en.context
           /\ ResetLayout(en, l).pending = 0
<1>1. ResetLayout(en, l) \in EngineType
  BY Members, Zenon DEF EngineType, ResetLayout
<1>. QED  BY <1>1, Members, SMT DEF EngineType, ResetLayout

LEMMA ResetLayoutSound ==
    ASSUME NEW en \in EngineType, NEW l \in Layout
    PROVE  Sound(ResetLayout(en, l))
<1>. DEFINE reset == ResetLayout(en, l)
<1>1. /\ reset \in EngineType
      /\ reset.token_len = 0 /\ reset.layout = l /\ reset.start = l
      /\ reset.pending = 0
  BY ResetLayoutFields
<1>. HIDE DEF reset
<1>2. Sound(reset)
  BY <1>1 DEF Sound
<1>. QED  BY <1>2 DEF reset

LEMMA DiscardedSound ==
    ASSUME NEW en, Sound(en)
    PROVE  /\ Sound(Discarded(en))
           /\ Discarded(en).token_len = 0
           /\ Discarded(en).layout = Discarded(en).start
<1>. DEFINE reset == ResetLayout(en, en.layout)
            said  == IF en.token_len = 0 THEN None ELSE Reset
<1>1. en.layout \in Layout /\ en \in EngineType
  BY DEF Sound, EngineType
<1>2. said \in Action
  BY Members
<1>3. /\ reset \in EngineType
      /\ reset.token_len = 0 /\ reset.layout = en.layout
      /\ reset.start = en.layout /\ reset.pending = 0
  BY <1>1, ResetLayoutFields
<1>4. Discarded(en) = [reset EXCEPT !.action = said]
  BY DEF Discarded, ResetToken
<1>5. ASSUME NEW r \in EngineType, NEW a \in Action
      PROVE  /\ [r EXCEPT !.action = a] \in EngineType
             /\ [r EXCEPT !.action = a].token_len = r.token_len
             /\ [r EXCEPT !.action = a].layout = r.layout
             /\ [r EXCEPT !.action = a].start = r.start
             /\ [r EXCEPT !.action = a].pending = r.pending
  BY DEF EngineType
<1>. HIDE DEF reset, said
<1>. QED  BY <1>2, <1>3, <1>4, <1>5 DEF Sound

LEMMA IgnoredFields ==
    ASSUME NEW en \in EngineType
    PROVE  /\ Ignored(en) \in EngineType
           /\ Ignored(en).token_len = en.token_len
           /\ Ignored(en).layout = en.layout
           /\ Ignored(en).start = en.start
           /\ Ignored(en).ignoring = en.ignoring
           /\ Ignored(en).context = en.context
           /\ Ignored(en).pending = 0
<1>1. Ignored(en) \in EngineType
  BY Members, Zenon DEF EngineType, Ignored
<1>. QED  BY <1>1, Members, SMT DEF EngineType, Ignored

LEMMA IgnoredSound ==
    ASSUME NEW en, Sound(en)
    PROVE  Sound(Ignored(en))
  BY IgnoredFields DEF Sound, Bypassing

\* The heart of the contract: what may be inferred keeps a short token, and one
\* typed while switching is disabled, in the layout it began in.
LEMMA InferringSound ==
    ASSUME NEW en, Observing(en), NEW l \in Inferable(en)
    PROVE  Sound(Inferring(en, l))
<1>1. l \in Layout
  BY DEF Observing, EngineType, Inferable
<1>2. CASE l = en.layout
  <2>1. \/ en.token_len < MinTokenLen
        \/ en.context.automatic_switching_disabled
        => en.layout = en.start
    <3>1. CASE en.context.automatic_switching_disabled
      BY <3>1 DEF Observing
    <3>2. CASE ~en.context.automatic_switching_disabled
      BY <1>2, <3>2, LengthAssumption DEF Observing, EngineType, Inferable
    <3>. QED  BY <3>1, <3>2
  <2>. QED  BY <1>2, <2>1, IgnoredFields DEF Inferring, Observing, Sound, Bypassing
<1>3. CASE l # en.layout
  <2>1. ~en.context.automatic_switching_disabled
    BY <1>3 DEF Inferable
  <2>2. en.token_len < MinTokenLen => l = en.start
    BY <2>1, LengthAssumption DEF Inferable, Observing, EngineType
  <2>. QED  BY <1>1, <1>3, <2>1, <2>2, LengthAssumption, Members
            DEF Inferring, Observing, Sound, EngineType, Bypassing
<1>. QED  BY <1>2, <1>3

LEMMA GrownObserving ==
    ASSUME NEW en, Sound(en), ~Bypassing(en), ~en.ignoring, ~AtLimit(en)
    PROVE  Observing(Grown(en))
<1>. DEFINE start == IF en.token_len = 0 THEN en.layout ELSE en.start
            len == en.token_len + 1
            grown == Grown(en)
<1>1. en \in EngineType /\ start \in Layout
  BY DEF Sound, EngineType
<1>2. len \in 0..MaxTokenLen /\ len > 0
  BY LengthAssumption DEF Sound, EngineType, AtLimit
<1>3. grown = [en EXCEPT !.token_len = len, !.start = start]
  BY DEF Grown
<1>4. en.context.automatic_switching_disabled => en.layout = start
  BY DEF Sound
<1>5. ASSUME NEW n \in 0..MaxTokenLen, NEW l \in Layout
      PROVE  /\ [en EXCEPT !.token_len = n, !.start = l] \in EngineType
             /\ [en EXCEPT !.token_len = n, !.start = l].token_len = n
             /\ [en EXCEPT !.token_len = n, !.start = l].layout = en.layout
             /\ [en EXCEPT !.token_len = n, !.start = l].start = l
             /\ [en EXCEPT !.token_len = n, !.start = l].ignoring = en.ignoring
             /\ [en EXCEPT !.token_len = n, !.start = l].context = en.context
  <2>1. [en EXCEPT !.token_len = n, !.start = l] \in EngineType
    BY <1>1, <1>5, Zenon DEF EngineType
  <2>. QED  BY <1>1, <1>5, <2>1, SMT DEF EngineType
<1>. HIDE DEF start, len, grown
<1>6. /\ grown \in EngineType
      /\ grown.token_len = len
      /\ grown.layout = en.layout
      /\ grown.start = start
      /\ grown.ignoring = en.ignoring
      /\ grown.context = en.context
  BY <1>1, <1>2, <1>3, <1>5, Zenon
<1>7. Observing(grown)
  BY <1>2, <1>4, <1>6, Zenon DEF Observing, Bypassing
<1>. QED  BY <1>7 DEF grown

LEMMA ShrunkObserving ==
    ASSUME NEW en, Sound(en), ~Bypassing(en), ~en.ignoring,
           en.token_len # 0, en.token_len # 1
    PROVE  Observing(Shrunk(en))
  BY LengthAssumption, Members DEF Sound, EngineType, Observing, Shrunk, Bypassing

LEMMA OverflownSound ==
    ASSUME NEW en, Sound(en)
    PROVE  Sound(Overflown(en))
  BY DiscardedSound DEF Overflown, Sound, EngineType, Bypassing

LEMMA AfterLetterSound ==
    ASSUME NEW en, Sound(en), NEW next \in AfterLetter(en)
    PROVE  Sound(next)
<1>1. CASE next \in {Discarded(en), Ignored(en), Overflown(en)}
  BY <1>1, DiscardedSound, IgnoredSound, OverflownSound
<1>2. CASE /\ ~Bypassing(en) /\ ~en.ignoring /\ ~AtLimit(en)
           /\ next \in {Inferring(Grown(en), l) : l \in Inferable(Grown(en))}
  BY <1>2, GrownObserving, InferringSound
<1>. QED  BY <1>1, <1>2 DEF AfterLetter

LEMMA AfterBackspaceSound ==
    ASSUME NEW en, Sound(en), NEW next \in AfterBackspace(en)
    PROVE  Sound(next)
<1>1. CASE next \in {Discarded(en), Ignored(en)}
  BY <1>1, DiscardedSound, IgnoredSound
<1>2. CASE /\ ~Bypassing(en) /\ ~en.ignoring
           /\ en.token_len # 0 /\ en.token_len # 1
           /\ next \in {Inferring(Shrunk(en), l) : l \in Inferable(Shrunk(en))}
  BY <1>2, ShrunkObserving, InferringSound
<1>. QED  BY <1>1, <1>2 DEF AfterBackspace

LEMMA ForceSwitchLayoutSound ==
    ASSUME NEW en, Sound(en)
    PROVE  Sound(ForceSwitchLayout(en))
<1>1. CASE Bypassing(en)
  BY <1>1, DiscardedSound DEF ForceSwitchLayout
<1>2. CASE ~Bypassing(en)
  <2>1. Opposite(en.layout) \in Layout
    BY DEF Opposite, Layout
  <2>2. Sound(ResetLayout(en, Opposite(en.layout)))
    BY <2>1, ResetLayoutSound DEF Sound
  <2>. QED  BY <1>2, <2>1, <2>2, LengthAssumption, Members
            DEF ForceSwitchLayout, ResetLayout, Sound, EngineType, Bypassing
<1>. QED  BY <1>1, <1>2

LEMMA SetHostContextSound ==
    ASSUME NEW en, Sound(en), NEW c \in Context
    PROVE  Sound(SetHostContext(en, c))
<1>. DEFINE set == [en EXCEPT !.context = c, !.action = None, !.pending = 0]
<1>1. en \in EngineType
  BY DEF Sound
<1>2. set \in EngineType
  BY <1>1, Members, Zenon DEF EngineType
<1>3. /\ set.token_len = en.token_len
      /\ set.layout = en.layout
      /\ set.start = en.start
      /\ set.ignoring = en.ignoring
      /\ set.context = c
      /\ set.pending = 0
  BY <1>1, SMT DEF EngineType
<1>4. SetHostContext(en, c) = IF en.context = c /\ ~Bypassing(en)
                              THEN set ELSE ResetToken(set)
  BY DEF SetHostContext
<1>5. set.layout \in Layout
  BY <1>2 DEF EngineType
<1>. HIDE DEF set
<1>6. CASE en.context = c /\ ~Bypassing(en)
  BY <1>2, <1>3, <1>4, <1>6 DEF Sound, Bypassing
<1>7. CASE ~(en.context = c /\ ~Bypassing(en))
  BY <1>2, <1>4, <1>5, <1>7, ResetLayoutSound DEF ResetToken
<1>. QED  BY <1>6, <1>7

LEMMA TakePendingReplacementSound ==
    ASSUME NEW en, Sound(en)
    PROVE  Sound(TakePendingReplacement(en))
  BY LengthAssumption, Members DEF TakePendingReplacement, Sound, EngineType, Bypassing

-----------------------------------------------------------------------------
(* The theorems                                                             *)

LEMMA SoundInit == Init => Sound(engine)
  BY LengthAssumption, Members
     DEF Init, NewEngine, Sound, EngineType, Bypassing, Context, Layout

LEMMA SoundStep == Sound(engine) /\ [Next]_engine => Sound(engine)'
<1>. SUFFICES ASSUME Sound(engine), [Next]_engine PROVE Sound(engine')
  BY DEF Sound, EngineType, Bypassing
<1>1. CASE engine' \in AfterLetter(engine)
  BY <1>1, AfterLetterSound
<1>2. CASE engine' \in AfterBackspace(engine)
  BY <1>2, AfterBackspaceSound
<1>3. CASE engine' = Discarded(engine) \/ engine' = Ignored(engine)
  BY <1>3, DiscardedSound, IgnoredSound
<1>4. CASE engine' = ForceSwitchLayout(engine)
  BY <1>4, ForceSwitchLayoutSound
<1>5. CASE \E l \in Layout : engine' = ResetLayout(engine, l)
  BY <1>5, ResetLayoutSound DEF Sound
<1>6. CASE \E c \in Context : engine' = SetHostContext(engine, c)
  BY <1>6, SetHostContextSound
<1>7. CASE engine' = TakePendingReplacement(engine)
  BY <1>7, TakePendingReplacementSound
<1>8. CASE UNCHANGED engine
  BY <1>8
<1>. QED  BY <1>1, <1>2, <1>3, <1>4, <1>5, <1>6, <1>7, <1>8 DEF Next

\* Every engine a host can meet is sound.
THEOREM ContractInvariance == Spec => []Sound(engine)
  BY SoundInit, SoundStep, PTL DEF Spec

\* The token, and what a replacement deletes, never outgrow max_token_len.
THEOREM ContractTypeCorrect == Spec => []ContractTypeOK
<1>1. Sound(engine) => ContractTypeOK
  BY DEF Sound, EngineType, Action, ContractTypeOK
<1>. QED  BY <1>1, ContractInvariance, PTL

\* A short token, and one typed while switching is disabled, is in the layout it
\* began in.
THEOREM ShortTokensNeverSwitch == Spec => []ShortTokensKeepTheirLayout
<1>1. Sound(engine) => ShortTokensKeepTheirLayout
  BY DEF Sound, ShortTokensKeepTheirLayout
<1>. QED  BY <1>1, ContractInvariance, PTL

\* Only the very last call authorises a replacement, and in no context that
\* bypasses the engine.
THEOREM ReplacementsAreAuthorised == Spec => []OnlyTheLastSwitchAuthorises
<1>1. Sound(engine) => OnlyTheLastSwitchAuthorises
  BY DEF Sound, OnlyTheLastSwitchAuthorises
<1>. QED  BY <1>1, ContractInvariance, PTL

-----------------------------------------------------------------------------
(* The event tap                                                            *)

\* That a reset empties the token is known of a sound engine only, so the
\* engine's soundness is carried along.
TapInv == Sound(engine) /\ RevokedIsSilent

LEMMA TapInvInit == TapInit => TapInv
  BY SoundInit DEF TapInit, TapInv, RevokedIsSilent

LEMMA ResetTokenSound ==
    ASSUME NEW en, Sound(en)
    PROVE  Sound(ResetToken(en)) /\ ResetToken(en).token_len = 0
<1>1. en \in EngineType /\ en.layout \in Layout
  BY DEF Sound, EngineType
<1>. QED  BY <1>1, ResetLayoutSound, ResetLayoutFields DEF ResetToken

LEMMA TapInvStep == TapInv /\ [TapNext]_tapVars => TapInv'
<1>. SUFFICES ASSUME Sound(engine), RevokedIsSilent, [TapNext]_tapVars
              PROVE  Sound(engine') /\ RevokedIsSilent'
  BY DEF TapInv, Sound, EngineType, Bypassing
<1>1. ASSUME NEW event \in UserEvent, UserInputs(event)
      PROVE  Sound(engine') /\ RevokedIsSilent'
  BY <1>1 DEF UserInputs, agentVars, RevokedIsSilent
<1>2. ASSUME NEW why \in Disabling, SystemDisables(why)
      PROVE  Sound(engine') /\ RevokedIsSilent'
  BY <1>2 DEF SystemDisables, agentVars, RevokedIsSilent
<1>3. CASE AccessChanges
  BY <1>3 DEF AccessChanges, agentVars, RevokedIsSilent
<1>4. CASE HandleInput
  <2>1. CASE revoked
    BY <1>4, <2>1 DEF HandleInput, Take, RevokedIsSilent
  <2>2. CASE ~revoked
    <3>1. ASSUME NEW next, Sound(next), Apply(next)
          PROVE  Sound(engine')
      BY <3>1, TakePendingReplacementSound DEF Apply
    <3>2. Sound(engine')
      BY <1>4, <2>2, <3>1, AfterLetterSound, ForceSwitchLayoutSound DEF HandleInput
    <3>. QED  BY <1>4, <2>2, <3>2 DEF HandleInput, RevokedIsSilent
  <2>. QED  BY <2>1, <2>2
<1>5. CASE HandleMouse
  BY <1>5, ResetTokenSound DEF HandleMouse, Take, RevokedIsSilent
<1>6. CASE HandleTimeout \/ HandleDisabledByUserInput
  BY <1>6 DEF HandleTimeout, HandleDisabledByUserInput, Take, RevokedIsSilent
<1>7. CASE WindowPasses \/ BackoffEnds
  BY <1>7 DEF WindowPasses, BackoffEnds, RevokedIsSilent
<1>8. CASE Reenable
  BY <1>8 DEF Reenable, RevokedIsSilent
<1>9. CASE CarryOut
  BY <1>9 DEF CarryOut, RevokedIsSilent
<1>10. CASE ProbeRestored
  BY <1>10 DEF ProbeRestored, RevokedIsSilent
<1>11. CASE ProbeDenied
  BY <1>11, ResetTokenSound DEF ProbeDenied, RevokedIsSilent
<1>12. CASE UNCHANGED tapVars
  BY <1>12 DEF tapVars, RevokedIsSilent
<1>. QED  BY <1>1, <1>2, <1>3, <1>4, <1>5, <1>6, <1>7, <1>8, <1>9, <1>10, <1>11, <1>12
          DEF TapNext, HandleEvent, Probe

-----------------------------------------------------------------------------
(* Types                                                                    *)

\* The port holds events, however they are put in and taken out.
LEMMA PortKeepsEvents ==
    ASSUME port \in Seq(UserEvent \cup Disabling)
    PROVE  /\ \A event \in UserEvent \cup Disabling :
                 Append(port, event) \in Seq(UserEvent \cup Disabling)
           /\ port # <<>> => Tail(port) \in Seq(UserEvent \cup Disabling)
  OBVIOUS

\* One step per action.
LEMMA TapTypeStep == TapTypeOK /\ [TapNext]_tapVars => TapTypeOK'
<1> SUFFICES ASSUME TapTypeOK, [TapNext]_tapVars PROVE TapTypeOK'
  OBVIOUS
<1> USE DEF TapTypeOK
<1>1. ASSUME NEW event \in UserEvent, UserInputs(event) PROVE TapTypeOK'
  BY <1>1, PortKeepsEvents DEF UserInputs, agentVars
<1>2. ASSUME NEW why \in Disabling, SystemDisables(why) PROVE TapTypeOK'
  BY <1>2, PortKeepsEvents DEF SystemDisables, agentVars
<1>3. CASE AccessChanges
  <2>1. granted' \in BOOLEAN
    BY <1>3, Zenon DEF AccessChanges
  <2> QED
    BY <1>3, <2>1 DEF AccessChanges, agentVars, Act
<1>4. CASE HandleInput
  <2>1. queued' \in BOOLEAN
    <3>1. ASSUME NEW next, Apply(next) PROVE queued' \in BOOLEAN
      BY <3>1, Zenon DEF Apply
    <3> QED
      BY <1>4, <3>1 DEF HandleInput
  <2>2. port' \in Seq(UserEvent \cup Disabling) /\ UNCHANGED <<tap_enabled, granted>>
    BY <1>4, PortKeepsEvents DEF HandleInput, Take
  <2> QED
    BY <1>4, <2>1, <2>2 DEF HandleInput
<1>5. CASE HandleMouse
  BY <1>5, PortKeepsEvents DEF HandleMouse, Take
<1>6. CASE HandleTimeout \/ HandleDisabledByUserInput
  BY <1>6, PortKeepsEvents DEF HandleTimeout, HandleDisabledByUserInput, Take
<1>7. CASE WindowPasses \/ BackoffEnds
  BY <1>7 DEF WindowPasses, BackoffEnds
<1>8. CASE Reenable
  <2>1. tap_enabled' \in BOOLEAN
    BY <1>8, Zenon DEF Reenable
  <2> QED
    BY <1>8, <2>1 DEF Reenable
<1>9. CASE CarryOut
  BY <1>9 DEF CarryOut
<1>10. CASE ProbeRestored \/ ProbeDenied
  BY <1>10 DEF ProbeRestored, ProbeDenied
<1>11. CASE UNCHANGED tapVars
  BY <1>11 DEF tapVars
<1> QED
  BY <1>1, <1>2, <1>3, <1>4, <1>5, <1>6, <1>7, <1>8, <1>9, <1>10, <1>11
     DEF TapNext, HandleEvent, Probe

-----------------------------------------------------------------------------
(* Theorems                                                                 *)

\* The port holds events of the tap, and no more than one timeout is counted
\* before the backoff (handleTapDisabledByTimeout).
THEOREM TapTypeCorrect == TapSpec => []TapTypeOK
<1>1. ASSUME TapInit PROVE TapTypeOK
  <2>1. {tap_enabled, granted, revoked, queued} \subseteq BOOLEAN
    BY <1>1, Zenon DEF TapInit
  <2>2. /\ port \in Seq(UserEvent \cup Disabling)
        /\ timeouts \in 0..1
        /\ reenable \in {"none", "queued", "delayed"}
    BY <1>1 DEF TapInit
  <2> QED
    BY <2>1, <2>2 DEF TapTypeOK
<1>. QED  BY <1>1, TapTypeStep, PTL DEF TapSpec

\* From the probe that finds access revoked until the one that finds it restored
\* the tap is off, no token is kept and no decision is waiting.
THEOREM RevokedStaysSilent == TapSpec => []RevokedIsSilent
<1>1. TapInv => RevokedIsSilent
  BY DEF TapInv
<1>. QED  BY <1>1, TapInvInit, TapInvStep, PTL DEF TapSpec

=============================================================================
