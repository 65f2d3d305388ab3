--------------------------- MODULE AgentTextProofs --------------------------
(***************************************************************************)
(* Only text that was typed is replaced, whatever keys, clicks and changes of*)
(* focus come between a decision and its replacement, as long as the agent has*)
(* an observer wherever it processes text; and it has one there, whatever  *)
(* refreshes are on their way, where observers can be attached and stay, and *)
(* where an application that comes to the front with the focus on a password *)
(* field keeps it there.                                                   *)
(***************************************************************************)
EXTENDS AgentProofs

-----------------------------------------------------------------------------
(* What the engine counts                                                   *)

LEMMA EngineCounts ==
    ASSUME NEW en \in Healthy
    PROVE  /\ en.token_len \in 0..MaxTokenLen
           /\ en.pending \in 0..MaxTokenLen
           /\ en.ignoring => en.token_len = 0
  BY DEF Healthy, EngineType

\* A token that is dropped leaves nothing to delete.
LEMMA DiscardedCounts ==
    ASSUME NEW en \in Healthy
    PROVE  /\ Engine!Discarded(en).token_len = 0
           /\ Engine!Discarded(en).pending = 0
           /\ Engine!Overflown(en).token_len = 0
           /\ Engine!Overflown(en).pending = 0
           /\ Engine!Ignored(en).token_len = en.token_len
           /\ Engine!Ignored(en).pending = 0
  BY DEF Engine!Discarded, Engine!Overflown, Engine!Ignored, Engine!ResetToken,
         Engine!ResetLayout, Healthy, EngineType

LEMMA InferringCounts ==
    ASSUME NEW en \in Healthy, NEW l
    PROVE  /\ Engine!Inferring(en, l).token_len = en.token_len
           /\ Engine!Inferring(en, l).pending \in {0, en.token_len}
  BY DEF Engine!Inferring, Engine!Ignored, Healthy, EngineType

\* A letter lengthens the token by one at most, and what a replacement would
\* delete is no longer than the token with that letter.
LEMMA LetterCounts ==
    ASSUME NEW en \in Healthy, NEW next \in Engine!AfterLetter(en)
    PROVE  next.token_len <= en.token_len + 1 /\ next.pending <= en.token_len + 1
<1>1. en.token_len \in Nat
  BY EngineCounts, TokenLengthAssumption
<1>2. CASE next \in {Engine!Discarded(en), Engine!Ignored(en), Engine!Overflown(en)}
  BY <1>1, <1>2, DiscardedCounts
<1>3. CASE /\ ~Engine!Bypassing(en) /\ ~en.ignoring /\ ~Engine!AtLimit(en)
           /\ \E l \in Engine!Inferable(Engine!Grown(en)) :
                 next = Engine!Inferring(Engine!Grown(en), l)
  <2>1. Engine!Grown(en) \in Healthy
    BY <1>3, GrownReaches DEF Reachable
  <2>2. Engine!Grown(en).token_len = en.token_len + 1
    BY DEF Engine!Grown, Healthy, EngineType
  <2>. QED  BY <1>1, <1>3, <2>1, <2>2, InferringCounts
<1>. QED  BY <1>2, <1>3, Zenon DEF Engine!AfterLetter

\* A backspace shortens the token as it shortens the text.
LEMMA BackspaceCounts ==
    ASSUME NEW en \in Healthy, NEW next \in Engine!AfterBackspace(en)
    PROVE  LET n == IF en.token_len = 0 THEN 0 ELSE en.token_len - 1
           IN  next.token_len <= n /\ next.pending <= n
<1>1. en.token_len \in Nat
  BY EngineCounts, TokenLengthAssumption
<1>2. CASE next = Engine!Discarded(en)
  BY <1>1, <1>2, DiscardedCounts
<1>3. CASE next = Engine!Ignored(en) /\ en.token_len = 0
  BY <1>1, <1>3, DiscardedCounts
<1>4. CASE /\ ~Engine!Bypassing(en) /\ ~en.ignoring /\ en.token_len # 0
           /\ \E l \in Engine!Inferable(Engine!Shrunk(en)) :
                 next = Engine!Inferring(Engine!Shrunk(en), l)
  <2>1. Engine!Shrunk(en) \in Healthy
    BY <1>4, ShrunkReaches DEF Reachable
  <2>2. Engine!Shrunk(en).token_len = en.token_len - 1
    BY DEF Engine!Shrunk, Healthy, EngineType
  <2>. QED  BY <1>1, <1>4, <2>1, <2>2, InferringCounts
<1>5. en.ignoring => en.token_len = 0
  BY EngineCounts
<1>. QED  BY <1>2, <1>3, <1>4, <1>5, Zenon DEF Engine!AfterBackspace

\* A forced switch may replace the token it ends.
LEMMA ForceSwitchCounts ==
    ASSUME NEW en \in Healthy
    PROVE  /\ Engine!ForceSwitchLayout(en).token_len = 0
           /\ Engine!ForceSwitchLayout(en).pending <= en.token_len
<1>1. en.token_len \in Nat
  BY EngineCounts, TokenLengthAssumption
<1>2. CASE Engine!Bypassing(en)
  BY <1>1, <1>2, DiscardedCounts DEF Engine!ForceSwitchLayout
<1>3. CASE ~Engine!Bypassing(en)
  BY <1>1, <1>3 DEF Engine!ForceSwitchLayout, Engine!ResetLayout, Healthy, EngineType
<1>. QED  BY <1>2, <1>3

\* No change of context lengthens the token.
LEMMA SetHostContextCounts ==
    ASSUME NEW en \in Healthy, NEW c \in Engine!Context
    PROVE  Engine!SetHostContext(en, c).token_len <= en.token_len
  BY EngineCounts, TokenLengthAssumption
     DEF Engine!SetHostContext, Engine!ResetToken, Engine!ResetLayout, Healthy, EngineType

-----------------------------------------------------------------------------
(* Methods that decide nothing                                              *)

\* b threatens no more text than a does.
Spares(b, a) ==
    /\ b.engine.token_len <= a.engine.token_len
    /\ b.toggle \in {a.toggle, NoToggle}

\* A refresh is asked for only by an observer, in its own generation.
Asks(b, a) ==
    \/ b.refresh \in {a.refresh, NoRefresh}
    \/ a.observer /\ b.refresh.generation = a.accessibility_generation

\* The properties that say who watches the focus, and for which application.
SameWatch(b, a) ==
    /\ Asks(b, a)
    /\ b.observer = a.observer
    /\ b.frontmost = a.frontmost
    /\ b.accessibility_generation = a.accessibility_generation
    /\ b.recovery = a.recovery
    /\ b.degraded_app = a.degraded_app

Gentle(b, a) == Lapses(b, a) /\ Spares(b, a)

Mild(b, a) == Gentle(b, a) /\ SameWatch(b, a)

LEMMA WatchTransitive ==
    ASSUME NEW a, NEW b, NEW c
    PROVE  /\ SameWatch(a, a)
           /\ SameWatch(b, a) /\ SameWatch(c, b) => SameWatch(c, a)
  BY DEF SameWatch, Asks

LEMMA MildTransitive ==
    ASSUME NEW a \in AgentType, NEW b, NEW c
    PROVE  /\ Gentle(a, a)
           /\ Gentle(b, a) /\ Gentle(c, b) => Gentle(c, a)
           /\ Mild(a, a)
           /\ Mild(b, a) /\ Mild(c, b) => Mild(c, a)
           /\ Mild(b, a) => Gentle(b, a)
           /\ Gentle(b, a) => b \in AgentType
<1>1. \A x \in AgentType : x.engine.token_len \in Nat
  BY EngineCounts, TokenLengthAssumption DEF AgentType
<1>2. Gentle(a, a)
  BY <1>1, KeepsTransitive DEF Gentle, Spares
<1>3. Gentle(b, a) => b \in AgentType
  BY Zenon DEF Gentle, Lapses
<1>4. ASSUME Gentle(b, a), Gentle(c, b) PROVE Gentle(c, a)
  <2>1. b \in AgentType /\ c \in AgentType
    BY <1>4 DEF Gentle, Lapses
  <2>2. Lapses(c, a)
    BY <1>4, KeepsTransitive, Zenon DEF Gentle
  <2>3. Spares(c, a)
    BY <1>1, <1>4, <2>1 DEF Gentle, Spares
  <2>. QED  BY <2>2, <2>3 DEF Gentle
<1>5. SameWatch(a, a)
  BY WatchTransitive
<1>6. SameWatch(b, a) /\ SameWatch(c, b) => SameWatch(c, a)
  BY WatchTransitive
<1>. QED  BY <1>2, <1>3, <1>4, <1>5, <1>6, Zenon DEF Mild

\* The text replacer and the generations of decisions: the engine and the
\* observer do not hear of them.
LEMMA CancelTextMild ==
    ASSUME NEW a \in AgentType
    PROVE  /\ Mild(CancelText(a), a)
           /\ CancelText(a).engine = a.engine
           /\ CancelText(a).toggle = a.toggle
           /\ CancelText(a).selection_generation = a.selection_generation
           /\ CancelText(a).replacement_generation = a.replacement_generation
<1>. DEFINE n == a.text_generation + 1
            b == [a EXCEPT !.text_generation = n, !.text_pending = FALSE]
<1>1. CancelText(a) \in {a, b}
  BY DEF CancelText
<1>. HIDE DEF n
<1>2. /\ b.engine = a.engine /\ b.toggle = a.toggle
      /\ b.selection_generation = a.selection_generation
      /\ b.replacement_generation = a.replacement_generation
      /\ SameWatch(b, a)
  BY SMT DEF AgentType, SameWatch, Asks
<1>. HIDE DEF b
<1>3. SameWatch(a, a)
  BY WatchTransitive
<1>4. /\ CancelText(a).engine = a.engine /\ CancelText(a).toggle = a.toggle
      /\ CancelText(a).selection_generation = a.selection_generation
      /\ CancelText(a).replacement_generation = a.replacement_generation
      /\ SameWatch(CancelText(a), a)
  BY <1>1, <1>2, <1>3, Zenon
<1>5. Lapses(CancelText(a), a)
  BY CancelTextKeeps, Zenon DEF Keeps, Continues
<1>6. a.engine.token_len \in Nat
  BY EngineCounts, TokenLengthAssumption DEF AgentType
<1>7. Spares(CancelText(a), a)
  BY <1>4, <1>6 DEF Spares
<1>. QED  BY <1>4, <1>5, <1>7, Zenon DEF Mild, Gentle

LEMMA CancelReplacementMild ==
    ASSUME NEW a \in AgentType, NEW clears \in BOOLEAN
    PROVE  /\ Mild(CancelReplacement(a, clears), a)
           /\ clears => CancelReplacement(a, clears).toggle = NoToggle
           /\ CancelReplacement(a, clears).engine = a.engine
           /\ CancelReplacement(a, clears).replacement_generation
                 > a.replacement_generation
<1>. DEFINE n == a.replacement_generation + 1
            t == IF clears THEN NoToggle ELSE a.toggle
            b == [a EXCEPT !.replacement_generation = n, !.toggle = t]
            c == CancelText(b)
<1>1. CancelReplacement(a, clears) = c
  BY DEF CancelReplacement
<1>2. /\ n \in Nat /\ n > a.replacement_generation
      /\ t \in PlanType \cup {NoToggle} /\ t \in {a.toggle, NoToggle}
      /\ clears => t = NoToggle
  BY DEF AgentType
<1>. HIDE DEF n, t
<1>3. b \in AgentType
  BY <1>2, Zenon DEF AgentType
<1>4. /\ b.replacement_generation = n /\ b.toggle = t /\ b.engine = a.engine
      /\ SameWatch(b, a)
  BY SMT DEF AgentType, SameWatch, Asks
<1>. HIDE DEF b
<1>5. Mild(c, b) /\ c.engine = b.engine /\ c.toggle = b.toggle
      /\ c.replacement_generation = b.replacement_generation
  BY <1>3, CancelTextMild, Zenon
<1>6. Lapses(c, a)
  BY <1>1, CancelReplacementKeeps, Zenon DEF Keeps, Continues
<1>7. a.engine.token_len \in Nat
  BY EngineCounts, TokenLengthAssumption DEF AgentType
<1>. HIDE DEF c
<1>8. Spares(c, a)
  BY <1>2, <1>4, <1>5, <1>7 DEF Spares
<1>9. SameWatch(c, a)
  BY <1>4, <1>5, WatchTransitive, Zenon DEF Mild
<1>. QED  BY <1>1, <1>2, <1>4, <1>5, <1>6, <1>8, <1>9, Zenon DEF Mild, Gentle

LEMMA CancelSelectionMild ==
    ASSUME NEW a \in AgentType
    PROVE  /\ Mild(CancelSelection(a), a)
           /\ CancelSelection(a).engine = a.engine
           /\ CancelSelection(a).toggle = a.toggle
<1>. DEFINE n == a.selection_generation + 1
            b == [a EXCEPT !.selection_generation = n, !.selection_pending = FALSE]
<1>1. CancelSelection(a) \in {a, b}
  BY DEF CancelSelection
<1>. HIDE DEF n
<1>2. b.engine = a.engine /\ b.toggle = a.toggle /\ SameWatch(b, a)
  BY SMT DEF AgentType, SameWatch, Asks
<1>. HIDE DEF b
<1>3. SameWatch(a, a)
  BY WatchTransitive
<1>4. /\ CancelSelection(a).engine = a.engine /\ CancelSelection(a).toggle = a.toggle
      /\ SameWatch(CancelSelection(a), a)
  BY <1>1, <1>2, <1>3, Zenon
<1>5. Lapses(CancelSelection(a), a)
  BY CancelSelectionKeeps, Zenon DEF Keeps, Continues
<1>6. a.engine.token_len \in Nat
  BY EngineCounts, TokenLengthAssumption DEF AgentType
<1>7. Spares(CancelSelection(a), a)
  BY <1>4, <1>6 DEF Spares
<1>. QED  BY <1>4, <1>5, <1>7, Zenon DEF Mild, Gentle

\* Updates of the toggle, the Option key, the refresh and the engine.
LEMMA UpdateMild ==
    ASSUME NEW a \in AgentType
    PROVE  /\ Mild([a EXCEPT !.toggle = NoToggle], a)
           /\ [a EXCEPT !.toggle = NoToggle].toggle = NoToggle
           /\ \A o \in {"up", "armed", "cancelled"} : Mild([a EXCEPT !.option = o], a)
           /\ \A o \in {"up", "armed", "cancelled"} :
                 Mild([a EXCEPT !.toggle = NoToggle, !.option = o], a)
           /\ Mild([a EXCEPT !.refresh = NoRefresh], a)
           /\ \A en \in Reachable(a.engine) :
                 en.token_len <= a.engine.token_len => Mild([a EXCEPT !.engine = en], a)
<1>0. a.engine.token_len \in Nat
  BY EngineCounts, TokenLengthAssumption DEF AgentType
<1>1. ASSUME NEW b, Keeps(b, a), b.engine = a.engine,
             b.toggle \in {a.toggle, NoToggle}, SameWatch(b, a)
      PROVE  Mild(b, a)
  BY <1>0, <1>1 DEF Mild, Gentle, Spares, Keeps, Continues
<1>2. /\ Mild([a EXCEPT !.toggle = NoToggle], a)
      /\ [a EXCEPT !.toggle = NoToggle].toggle = NoToggle
  <2>. DEFINE b == [a EXCEPT !.toggle = NoToggle]
  <2>1. Keeps(b, a)
    BY UpdateKeeps, Zenon
  <2>2. b.toggle = NoToggle /\ b.engine = a.engine /\ SameWatch(b, a)
    BY SMT DEF AgentType, SameWatch, Asks
  <2>. HIDE DEF b
  <2>3. Mild(b, a)
    BY <1>1, <2>1, <2>2, Zenon
  <2>. QED  BY <2>2, <2>3 DEF b
<1>3. ASSUME NEW o \in {"up", "armed", "cancelled"} PROVE Mild([a EXCEPT !.option = o], a)
  <2>. DEFINE b == [a EXCEPT !.option = o]
  <2>1. Keeps(b, a)
    BY UpdateKeeps, Zenon
  <2>2. b.toggle = a.toggle /\ b.engine = a.engine /\ SameWatch(b, a)
    BY SMT DEF AgentType, SameWatch, Asks
  <2>. HIDE DEF b
  <2>3. Mild(b, a)
    BY <1>1, <2>1, <2>2, Zenon
  <2>. QED  BY <2>3 DEF b
<1>4. ASSUME NEW o \in {"up", "armed", "cancelled"}
      PROVE  Mild([a EXCEPT !.toggle = NoToggle, !.option = o], a)
  <2>. DEFINE b == [a EXCEPT !.toggle = NoToggle, !.option = o]
  <2>1. Keeps(b, a)
    BY UpdateKeeps, Zenon
  <2>2. b.toggle = NoToggle /\ b.engine = a.engine /\ SameWatch(b, a)
    BY SMT DEF AgentType, SameWatch, Asks
  <2>. HIDE DEF b
  <2>3. Mild(b, a)
    BY <1>1, <2>1, <2>2, Zenon
  <2>. QED  BY <2>3 DEF b
<1>5. Mild([a EXCEPT !.refresh = NoRefresh], a)
  <2>. DEFINE b == [a EXCEPT !.refresh = NoRefresh]
  <2>1. Keeps(b, a)
    BY UpdateKeeps, Zenon
  <2>2. b.toggle = a.toggle /\ b.engine = a.engine /\ SameWatch(b, a)
    BY SMT DEF AgentType, SameWatch, Asks
  <2>. HIDE DEF b
  <2>3. Mild(b, a)
    BY <1>1, <2>1, <2>2, Zenon
  <2>. QED  BY <2>3 DEF b
<1>6. ASSUME NEW en \in Reachable(a.engine), en.token_len <= a.engine.token_len
      PROVE  Mild([a EXCEPT !.engine = en], a)
  <2>. DEFINE b == [a EXCEPT !.engine = en]
  <2>1. Keeps(b, a)
    BY UpdateKeeps, Zenon
  <2>2. b.toggle = a.toggle /\ b.engine = en /\ SameWatch(b, a)
    BY SMT DEF AgentType, SameWatch, Asks
  <2>. HIDE DEF b
  <2>3. Mild(b, a)
    BY <1>0, <1>6, <2>1, <2>2 DEF Mild, Gentle, Spares, Keeps, Continues
  <2>. QED  BY <2>3 DEF b
<1>. QED  BY <1>2, <1>3, <1>4, <1>5, <1>6, Zenon

LEMMA ManualSwitchMild ==
    ASSUME NEW a \in AgentType
    PROVE  Mild(CancelManualSwitch(a), a) /\ Mild(ResetManualSwitch(a), a)
  BY UpdateMild, Zenon DEF CancelManualSwitch, ResetManualSwitch

LEMMA EngineResetMild ==
    ASSUME NEW a \in AgentType
    PROVE  /\ Mild(EngineReset(a), a)
           /\ EngineReset(a).engine.token_len = 0
<1>. DEFINE en == Engine!ResetToken(a.engine)
<1>1. a.engine \in Healthy /\ a.engine \in EngineType
  BY DEF AgentType, Healthy
<1>2. en \in Reachable(a.engine) /\ en.token_len = 0
  BY <1>1, ResetTokenReaches
<1>3. a.engine.token_len \in Nat
  BY <1>1, EngineCounts, TokenLengthAssumption
<1>4. EngineReset(a) = [a EXCEPT !.engine = en]
  BY DEF EngineReset
<1>. HIDE DEF en
<1>5. en.token_len <= a.engine.token_len
  BY <1>2, <1>3
<1>6. [a EXCEPT !.engine = en].engine = en
  BY SMT DEF AgentType
<1>. QED  BY <1>2, <1>4, <1>5, <1>6, UpdateMild, Zenon

LEMMA RequestRefreshMild ==
    ASSUME NEW a \in AgentType
    PROVE  Mild(RequestRefresh(a), a)
<1>. DEFINE r == [app |-> a.frontmost, generation |-> a.accessibility_generation]
            b == [a EXCEPT !.refresh = r]
<1>1. CASE a.observer
  <2>1. RequestRefresh(a) = b
    BY <1>1 DEF RequestRefresh
  <2>2. r.generation = a.accessibility_generation
    OBVIOUS
  <2>. HIDE DEF r
  <2>3. b.refresh = r /\ b.observer = a.observer /\ b.frontmost = a.frontmost
        /\ b.accessibility_generation = a.accessibility_generation
        /\ b.recovery = a.recovery /\ b.degraded_app = a.degraded_app
        /\ b.engine = a.engine /\ b.toggle = a.toggle
    BY SMT DEF AgentType
  <2>. HIDE DEF b
  <2>4. SameWatch(b, a)
    BY <1>1, <2>2, <2>3, Zenon DEF SameWatch, Asks
  <2>5. Lapses(RequestRefresh(a), a)
    BY RequestRefreshKeeps, Zenon DEF Keeps, Continues
  <2>6. a.engine.token_len \in Nat
    BY EngineCounts, TokenLengthAssumption DEF AgentType
  <2>7. Spares(b, a)
    BY <2>3, <2>6 DEF Spares
  <2>. QED  BY <2>1, <2>4, <2>5, <2>7, Zenon DEF Mild, Gentle
<1>2. CASE ~a.observer
  BY <1>2, MildTransitive, Zenon DEF RequestRefresh
<1>. QED  BY <1>1, <1>2

-----------------------------------------------------------------------------
(* The host context                                                         *)

LEMMA InstallContextMild ==
    ASSUME NEW a \in AgentType, NEW policy \in Policy, NEW app \in Apps,
           NEW f \in Field \cup {NoField}
    PROVE  /\ Mild(InstallContext(a, policy, app, f), a)
           /\ InstallContext(a, policy, app, f).snapshot = policy
<1>. DEFINE en == Engine!SetHostContext(a.engine, EngineContext(policy))
            focus == [app |-> app, field |-> f]
            b == [a EXCEPT !.engine = en, !.snapshot = policy, !.focus = focus]
<1>1. InstallContext(a, policy, app, f) = b
  BY DEF InstallContext
<1>2. en.token_len <= a.engine.token_len
  <2>1. a.engine \in Healthy
    BY DEF AgentType
  <2>. QED  BY <2>1, ContextGiven, SetHostContextCounts
<1>. HIDE DEF en, focus
<1>3. b.engine = en /\ b.snapshot = policy /\ b.toggle = a.toggle /\ SameWatch(b, a)
  BY SMT DEF AgentType, SameWatch, Asks
<1>. HIDE DEF b
<1>4. Lapses(InstallContext(a, policy, app, f), a)
  BY InstallContextObeys, Zenon DEF Continues
<1>. QED  BY <1>1, <1>2, <1>3, <1>4, Zenon DEF Mild, Gentle, Spares

\* What the facts of the application alone and secure input allow.
BaseSnapshot(a) == IF IsSecure THEN "secure" ELSE BasePolicy(a.frontmost)

LEMMA InstallBaseMild ==
    ASSUME NEW a \in AgentType
    PROVE  /\ Mild(InstallBase(a), a)
           /\ InstallBase(a).snapshot = BaseSnapshot(a)
<1>1. a.frontmost \in Apps
  BY DEF AgentType
<1>2. BaseSnapshot(a) \in Policy
  BY <1>1, ContextGiven DEF BaseSnapshot
<1>3. InstallBase(a) = InstallContext(a, BaseSnapshot(a), a.frontmost, NoField)
  BY DEF InstallBase, BaseSnapshot
<1>4. NoField \in Field \cup {NoField}
  OBVIOUS
<1>. DEFINE policy == BaseSnapshot(a)
            b == InstallContext(a, policy, a.frontmost, NoField)
<1>. HIDE DEF policy
<1>5. Mild(b, a) /\ b.snapshot = policy
  BY <1>1, <1>2, <1>4, InstallContextMild DEF policy
<1>. HIDE DEF b
<1>. QED  BY <1>3, <1>5 DEF b, policy

LEMMA TeardownObserverGentle ==
    ASSUME NEW a \in AgentType
    PROVE  LET b == TeardownObserver(a) IN
           /\ Gentle(b, a)
           /\ b.observer = FALSE
           /\ b.refresh = NoRefresh
           /\ b.accessibility_generation = a.accessibility_generation + 1
           /\ b.frontmost = a.frontmost
           /\ b.recovery = a.recovery
           /\ b.degraded_app = a.degraded_app
           /\ b.snapshot = a.snapshot
           /\ b.engine = a.engine /\ b.toggle = a.toggle
<1>. DEFINE n == a.accessibility_generation + 1
            b == [a EXCEPT !.refresh = NoRefresh, !.accessibility_generation = n,
                           !.observer = FALSE]
<1>1. TeardownObserver(a) = b
  BY DEF TeardownObserver
<1>2. n = a.accessibility_generation + 1
  OBVIOUS
<1>. HIDE DEF n
<1>3. /\ b.observer = FALSE /\ b.accessibility_generation = n
      /\ b.frontmost = a.frontmost /\ b.recovery = a.recovery
      /\ b.degraded_app = a.degraded_app /\ b.snapshot = a.snapshot
      /\ b.engine = a.engine /\ b.toggle = a.toggle /\ b.refresh = NoRefresh
  BY SMT DEF AgentType
<1>4. Lapses(b, a)
  BY <1>1, TeardownObserverKeeps, Zenon DEF Keeps, Continues
<1>5. a.engine.token_len \in Nat
  BY EngineCounts, TokenLengthAssumption DEF AgentType
<1>. HIDE DEF b
<1>6. Gentle(b, a)
  BY <1>3, <1>4, <1>5 DEF Gentle, Spares
<1>. QED  BY <1>1, <1>2, <1>3, <1>6, Zenon

LEMMA ConfigureObserverGentle ==
    ASSUME NEW a \in AgentType, NEW attachable \in BOOLEAN
    PROVE  LET b == ConfigureObserver(a, attachable) IN
           /\ Gentle(b, a)
           /\ b.observer = (/\ attachable
                            /\ ~Disabled(a.snapshot)
                            /\ a.degraded_app # a.frontmost)
           /\ b.refresh = NoRefresh
           /\ b.accessibility_generation = a.accessibility_generation + 1
           /\ b.frontmost = a.frontmost
           /\ b.recovery = a.recovery
           /\ b.degraded_app = a.degraded_app
           /\ b.snapshot = a.snapshot
<1>. DEFINE o == /\ attachable
                 /\ ~Disabled(a.snapshot)
                 /\ a.degraded_app # a.frontmost
            t == TeardownObserver(a)
            b == [t EXCEPT !.observer = o]
<1>1. ConfigureObserver(a, attachable) = b
  BY Zenon DEF ConfigureObserver
<1>2. /\ Gentle(t, a) /\ t \in AgentType
      /\ t.accessibility_generation = a.accessibility_generation + 1
      /\ t.frontmost = a.frontmost /\ t.recovery = a.recovery
      /\ t.degraded_app = a.degraded_app /\ t.snapshot = a.snapshot
      /\ t.engine = a.engine /\ t.toggle = a.toggle /\ t.refresh = NoRefresh
  BY TeardownObserverGentle, Zenon DEF Gentle, Lapses
<1>3. o = (attachable /\ ~Disabled(a.snapshot) /\ a.degraded_app # a.frontmost)
  OBVIOUS
<1>. HIDE DEF o, t
<1>4. /\ b.observer = o /\ b.accessibility_generation = t.accessibility_generation
      /\ b.frontmost = t.frontmost /\ b.recovery = t.recovery
      /\ b.degraded_app = t.degraded_app /\ b.snapshot = t.snapshot
      /\ b.engine = t.engine /\ b.toggle = t.toggle /\ b.refresh = t.refresh
  BY <1>2, SMT DEF AgentType
<1>5. Lapses(b, a)
  BY <1>1, ConfigureObserverKeeps, Zenon DEF Keeps, Continues
<1>6. a.engine.token_len \in Nat
  BY EngineCounts, TokenLengthAssumption DEF AgentType
<1>. HIDE DEF b
<1>7. Gentle(b, a)
  BY <1>2, <1>4, <1>5, <1>6 DEF Gentle, Spares
<1>. QED  BY <1>1, <1>2, <1>3, <1>4, <1>7, Zenon

-----------------------------------------------------------------------------
(* What can still replace text                                              *)

\* The item's generations are still those of the agent.
Live(a, item) ==
    \/ /\ item.kind = "select"
       /\ item.plan # NoPlan
       /\ item.generation = a.selection_generation
       /\ item.replacement = a.replacement_generation
    \/ /\ item.kind = "replace"
       /\ item.generation = a.text_generation

\* Nothing the agent observes, keeps or has queued reaches further back than
\* n letters.
Covered(a, n) ==
    /\ a.engine.token_len <= n
    /\ a.toggle # NoToggle => a.toggle.count <= n
    /\ \A i \in 1..Len(a.work) : Live(a, a.work[i]) => a.work[i].plan.count <= n

\* Nothing that was decided can go on to replace text.
Unarmed(a) ==
    /\ a.toggle = NoToggle
    /\ \A i \in 1..Len(a.work) : ~Live(a, a.work[i])

\* An item that is live after a method that decides nothing was live before.
LEMMA LiveBefore ==
    ASSUME NEW a \in AgentType, QueueInv(a), NEW b, Lapses(b, a)
    PROVE  \A i \in 1..Len(a.work) : Live(b, a.work[i]) => Live(a, a.work[i])
<1>. SUFFICES ASSUME NEW i \in 1..Len(a.work), Live(b, a.work[i])
              PROVE  Live(a, a.work[i])
  OBVIOUS
<1>1. b \in AgentType
  BY DEF Lapses
<1>2. /\ a.work[i].kind \in {"select", "replace"} => a.work[i].generation \in Nat
      /\ a.work[i].kind = "select" => a.work[i].replacement \in Nat
  BY WorkTyped, GenerationsTyped
<1>3. /\ a.replacement_generation \in Nat /\ b.replacement_generation \in Nat
      /\ a.selection_generation \in Nat /\ b.selection_generation \in Nat
      /\ a.text_generation \in Nat /\ b.text_generation \in Nat
  BY <1>1, WorkTyped
<1>. QED  BY <1>2, <1>3 DEF Live, QueueInv, Lapses

LEMMA CoveredOn ==
    ASSUME NEW a \in AgentType, QueueInv(a), NEW b, Gentle(b, a),
           NEW n \in Nat, Covered(a, n)
    PROVE  Covered(b, n)
<1>1. b \in AgentType /\ b.work = a.work /\ Lapses(b, a)
  BY DEF Gentle, Lapses
<1>2. a.engine.token_len \in Nat /\ b.engine.token_len \in Nat
  BY <1>1, EngineCounts, TokenLengthAssumption DEF AgentType
<1>3. b.engine.token_len <= n
  BY <1>2 DEF Gentle, Spares, Covered
<1>4. b.toggle # NoToggle => b.toggle.count <= n
  BY Zenon DEF Gentle, Spares, Covered
<1>5. \A i \in 1..Len(b.work) : Live(b, b.work[i]) => b.work[i].plan.count <= n
  BY <1>1, LiveBefore, Zenon DEF Covered
<1>. QED  BY <1>3, <1>4, <1>5, Zenon DEF Covered

LEMMA UnarmedOn ==
    ASSUME NEW a \in AgentType, QueueInv(a), NEW b, Gentle(b, a), Unarmed(a)
    PROVE  Unarmed(b)
<1>1. b.work = a.work /\ Lapses(b, a)
  BY DEF Gentle, Lapses
<1>2. \A i \in 1..Len(b.work) : ~Live(b, b.work[i])
  BY <1>1, LiveBefore, Zenon DEF Unarmed
<1>. QED  BY <1>2, Zenon DEF Unarmed, Gentle, Spares

\* An engine with a token of n letters is all there is to cover.
LEMMA UnarmedCovered ==
    ASSUME NEW a, Unarmed(a), NEW n, a.engine.token_len <= n
    PROVE  Covered(a, n)
  BY Zenon DEF Unarmed, Covered

\* Cancelling leaves no live decision, whichever queue it waits in.
LEMMA CancelReplacementUnarms ==
    ASSUME NEW a \in AgentType, QueueInv(a), NEW clears \in BOOLEAN
    PROVE  LET b == CancelReplacement(a, clears) IN
           /\ \A i \in 1..Len(b.work) : ~Live(b, b.work[i])
           /\ clears => Unarmed(b)
<1>. DEFINE b == CancelReplacement(a, clears)
<1>1. /\ Mild(b, a) /\ b.replacement_generation > a.replacement_generation
      /\ clears => b.toggle = NoToggle
  BY CancelReplacementMild, Zenon
<1>2. Lapses(b, a) /\ ~b.text_pending
  BY CancelReplacementKeeps, Zenon DEF Keeps, Continues
<1>3. QueueInv(b)
  BY <1>2, LapsedQueue, Zenon
<1>. HIDE DEF b
<1>4. ASSUME NEW i \in 1..Len(b.work) PROVE ~Live(b, b.work[i])
  <2>1. b.work = a.work /\ i \in 1..Len(a.work)
    BY <1>2 DEF Lapses
  <2>2. /\ a.work[i].kind = "select" => a.work[i].replacement \in Nat
        /\ a.replacement_generation \in Nat /\ b.replacement_generation \in Nat
    BY <1>2, <2>1, WorkTyped, GenerationsTyped DEF Lapses
  <2>3. b.work[i].kind = "select" => b.work[i].replacement # b.replacement_generation
    BY <1>1, <2>1, <2>2 DEF QueueInv
  <2>4. b.work[i].kind = "replace" => b.work[i].generation # b.text_generation
    BY <1>2, <1>3 DEF QueueInv
  <2>. QED  BY <2>3, <2>4 DEF Live
<1>5. clears => Unarmed(b)
  BY <1>1, <1>4, Zenon DEF Unarmed
<1>. QED  BY <1>4, <1>5 DEF b

-----------------------------------------------------------------------------
(* The focus changes                                                        *)

\* A method that decides nothing and keeps the token as short covers no less.
LEMMA UnarmedZero ==
    ASSUME NEW a \in AgentType, QueueInv(a), Unarmed(a), a.engine.token_len = 0,
           NEW b, Gentle(b, a)
    PROVE  Unarmed(b) /\ b.engine.token_len = 0
<1>1. b \in AgentType /\ Unarmed(b)
  BY UnarmedOn, MildTransitive, Zenon
<1>2. b.engine.token_len \in Nat
  BY <1>1, EngineCounts, TokenLengthAssumption DEF AgentType
<1>. QED  BY <1>1, <1>2 DEF Gentle, Spares

LEMMA ForgetMild ==
    ASSUME NEW a \in AgentType
    PROVE  Mild([a EXCEPT !.snapshot = "unknown", !.focus = NoFocus], a)
<1>. DEFINE b == [a EXCEPT !.snapshot = "unknown", !.focus = NoFocus]
<1>1. Lapses(b, a)
  BY ForgetContinues, Zenon DEF Continues
<1>2. b.engine = a.engine /\ b.toggle = a.toggle /\ SameWatch(b, a)
  BY SMT DEF AgentType, SameWatch, Asks
<1>3. a.engine.token_len \in Nat
  BY EngineCounts, TokenLengthAssumption DEF AgentType
<1>. HIDE DEF b
<1>4. Mild(b, a)
  BY <1>1, <1>2, <1>3 DEF Mild, Gentle, Spares
<1>. QED  BY <1>4 DEF b

LEMMA EngineToldMild ==
    ASSUME NEW c \in AgentType, NEW context \in Engine!Context
    PROVE  Mild([c EXCEPT !.engine = Engine!SetHostContext(@, context)], c)
<1>. DEFINE en == Engine!SetHostContext(c.engine, context)
            d == [c EXCEPT !.engine = en]
<1>1. c.engine \in Healthy
  BY DEF AgentType
<1>2. en \in Healthy /\ en.token_len <= c.engine.token_len
  BY <1>1, SetHostContextObeys, SetHostContextCounts
<1>3. [c EXCEPT !.engine = Engine!SetHostContext(@, context)] = d
  OBVIOUS
<1>. HIDE DEF en
<1>4. /\ d \in AgentType /\ d.engine = en /\ d.work = c.work
      /\ d.replacement_generation = c.replacement_generation
      /\ d.selection_generation = c.selection_generation
      /\ d.text_generation = c.text_generation
      /\ d.text_pending = c.text_pending
  BY <1>2, EngineSet, Zenon
<1>5. d.toggle = c.toggle /\ SameWatch(d, c)
  BY SMT DEF AgentType, SameWatch, Asks
<1>. HIDE DEF d
<1>6. Lapses(d, c)
  BY <1>4, WorkTyped DEF Lapses
<1>7. Mild(d, c)
  BY <1>2, <1>4, <1>5, <1>6, Zenon DEF Mild, Gentle, Spares
<1>. QED  BY <1>3, <1>7, Zenon

LEMMA InvalidateContextUnarms ==
    ASSUME NEW a \in AgentType, QueueInv(a)
    PROVE  LET b == InvalidateContext(a) IN
           /\ Mild(b, a)
           /\ Unarmed(b)
           /\ b.engine.token_len = 0
           /\ b.snapshot = "unknown"
<1>. DEFINE b == [a EXCEPT !.snapshot = "unknown", !.focus = NoFocus]
            r == CancelReplacement(b, TRUE)
            c == CancelSelection(r)
            d == [c EXCEPT !.engine = Engine!SetHostContext(@, EngineContext("unknown"))]
            e == EngineReset(d)
<1>1. InvalidateContext(a) = e
  BY DEF InvalidateContext
<1>2. Mild(b, a) /\ b.snapshot = "unknown" /\ b \in AgentType
  BY ForgetMild, ForgetContinues, MildTransitive, Zenon
<1>. HIDE DEF b
<1>3. QueueInv(b)
  BY <1>2, LapsedQueue, Zenon DEF Mild, Gentle
<1>4. Mild(r, b) /\ r \in AgentType
  BY <1>2, CancelReplacementMild, MildTransitive, Zenon
<1>5. Unarmed(r) /\ r.snapshot = "unknown"
  <2>1. Unarmed(r)
    BY <1>2, <1>3, CancelReplacementUnarms, Zenon
  <2>2. r.snapshot = b.snapshot
    BY <1>2, CancelReplacementKeeps, Zenon DEF Keeps, SamePolicy
  <2>. QED  BY <1>2, <2>1, <2>2
<1>6. QueueInv(r)
  BY <1>2, <1>3, <1>4, LapsedQueue, Zenon DEF Mild, Gentle
<1>. HIDE DEF r
<1>7. Mild(c, r) /\ c \in AgentType /\ c.snapshot = r.snapshot
  BY <1>4, CancelSelectionMild, CancelSelectionKeeps, MildTransitive, Zenon DEF Keeps, SamePolicy
<1>. HIDE DEF c
<1>8. Mild(d, c) /\ d \in AgentType
  BY <1>7, ContextGiven, EngineToldMild, MildTransitive, Zenon
<1>9. d.snapshot = c.snapshot
  BY <1>7, SMT DEF AgentType
<1>. HIDE DEF d
<1>10. Mild(e, d) /\ e.engine.token_len = 0 /\ e.snapshot = d.snapshot
  BY <1>8, EngineResetMild, EngineResetKeeps, Zenon DEF Keeps, SamePolicy
<1>. HIDE DEF e
<1>11. Mild(e, c)
  BY <1>7, <1>8, <1>10, MildTransitive, Zenon
<1>12. Mild(e, r)
  BY <1>4, <1>7, <1>11, MildTransitive, Zenon
<1>13. Mild(e, b)
  BY <1>2, <1>4, <1>12, MildTransitive, Zenon
<1>14. Mild(e, a)
  BY <1>2, <1>13, MildTransitive, Zenon
<1>15. Unarmed(e)
  BY <1>4, <1>5, <1>6, <1>12, UnarmedOn, Zenon DEF Mild
<1>. QED  BY <1>1, <1>5, <1>7, <1>9, <1>10, <1>14, <1>15, Zenon

LEMMA HandlePotentialFocusChangeUnarms ==
    ASSUME NEW a \in AgentType, QueueInv(a)
    PROVE  LET b == HandlePotentialFocusChange(a) IN
           /\ Mild(b, a)
           /\ a.observer => Unarmed(b) /\ b.engine.token_len = 0
           /\ ~a.observer => b.snapshot = a.snapshot
<1>. DEFINE r == ResetManualSwitch(a)
            c == [r EXCEPT !.toggle = NoToggle]
            i == InvalidateContext(c)
            q == RequestRefresh(i)
<1>1. HandlePotentialFocusChange(a) = IF c.observer THEN q ELSE c
  BY DEF HandlePotentialFocusChange
<1>2. Mild(r, a) /\ r \in AgentType /\ r.snapshot = a.snapshot
  BY ManualSwitchMild, CancelManualSwitchKeeps, MildTransitive, Zenon DEF Keeps, SamePolicy
<1>. HIDE DEF r
<1>3. Mild(c, r) /\ c \in AgentType
  BY <1>2, UpdateMild, MildTransitive, Zenon
<1>4. c.snapshot = r.snapshot
  BY <1>2, SMT DEF AgentType
<1>. HIDE DEF c
<1>5. Mild(c, a) /\ c.observer = a.observer
  BY <1>2, <1>3, MildTransitive, Zenon DEF Mild, SameWatch
<1>6. QueueInv(c)
  BY <1>5, LapsedQueue, Zenon DEF Mild, Gentle
<1>7. /\ Mild(i, c) /\ Unarmed(i) /\ i.engine.token_len = 0 /\ i \in AgentType
  BY <1>3, <1>6, InvalidateContextUnarms, MildTransitive, Zenon
<1>. HIDE DEF i
<1>8. QueueInv(i)
  BY <1>3, <1>6, <1>7, LapsedQueue, Zenon DEF Mild, Gentle
<1>9. Mild(q, i)
  BY <1>7, RequestRefreshMild
<1>. HIDE DEF q
<1>10. Unarmed(q) /\ q.engine.token_len = 0
  BY <1>7, <1>8, <1>9, UnarmedZero, Zenon DEF Mild
<1>11. Mild(q, c)
  BY <1>3, <1>7, <1>9, MildTransitive, Zenon
<1>12. Mild(q, a)
  BY <1>5, <1>11, MildTransitive, Zenon
<1>. QED  BY <1>1, <1>2, <1>4, <1>5, <1>10, <1>12, Zenon

LEMMA CheckContextMild ==
    ASSUME NEW a \in AgentType, QueueInv(a)
    PROVE  Mild(CheckContext(a), a)
<1>1. Mild(EngineReset(a), a) /\ Mild(InstallBase(a), a) /\ Mild(a, a)
  BY EngineResetMild, InstallBaseMild, MildTransitive, Zenon
<1>2. Mild(RequestRefresh(InvalidateContext(a)), a)
  <2>1. Mild(InvalidateContext(a), a) /\ InvalidateContext(a) \in AgentType
    BY InvalidateContextUnarms, MildTransitive, Zenon
  <2>2. Mild(RequestRefresh(InvalidateContext(a)), InvalidateContext(a))
    BY <2>1, RequestRefreshMild, Zenon
  <2>. QED  BY <2>1, <2>2, MildTransitive, Zenon
<1>. QED  BY <1>1, <1>2, Zenon DEF CheckContext

-----------------------------------------------------------------------------
(* The input source and the queue                                           *)

LEMMA SourceSetMild ==
    ASSUME NEW a \in AgentType, NEW l \in Engine!Layout \cup {NoLayout}
    PROVE  /\ Mild([a EXCEPT !.synced = l], a)
           /\ Mild([a EXCEPT !.ready = TRUE], a)
           /\ Mild([a EXCEPT !.ready = FALSE, !.synced = NoLayout], a)
           /\ Mild([a EXCEPT !.ready = TRUE, !.synced = l], a)
           /\ Mild([a EXCEPT !.synced = l, !.ready = TRUE], a)
<1>0. a.engine.token_len \in Nat
  BY EngineCounts, TokenLengthAssumption DEF AgentType
<1>1. ASSUME NEW b \in AgentType,
             b.work = a.work, b.engine = a.engine, b.toggle = a.toggle,
             b.replacement_generation = a.replacement_generation,
             b.selection_generation = a.selection_generation,
             b.text_generation = a.text_generation,
             b.text_pending = a.text_pending, SameWatch(b, a)
      PROVE  Mild(b, a)
  <2>1. Lapses(b, a)
    BY <1>1, WorkTyped DEF Lapses
  <2>. QED  BY <1>0, <1>1, <2>1 DEF Mild, Gentle, Spares
<1>2. Mild([a EXCEPT !.synced = l], a)
  <2>. DEFINE b == [a EXCEPT !.synced = l]
  <2>1. b \in AgentType
    BY Zenon DEF AgentType
  <2>2. /\ b.work = a.work /\ b.engine = a.engine /\ b.toggle = a.toggle
        /\ b.replacement_generation = a.replacement_generation
        /\ b.selection_generation = a.selection_generation
        /\ b.text_generation = a.text_generation
        /\ b.text_pending = a.text_pending /\ SameWatch(b, a)
    BY SMT DEF AgentType, SameWatch, Asks
  <2>. HIDE DEF b
  <2>3. Mild(b, a)
    BY <1>1, <2>1, <2>2, Zenon
  <2>. QED  BY <2>3 DEF b
<1>3. Mild([a EXCEPT !.ready = TRUE], a)
  <2>. DEFINE b == [a EXCEPT !.ready = TRUE]
  <2>1. b \in AgentType
    BY Zenon DEF AgentType
  <2>2. /\ b.work = a.work /\ b.engine = a.engine /\ b.toggle = a.toggle
        /\ b.replacement_generation = a.replacement_generation
        /\ b.selection_generation = a.selection_generation
        /\ b.text_generation = a.text_generation
        /\ b.text_pending = a.text_pending /\ SameWatch(b, a)
    BY SMT DEF AgentType, SameWatch, Asks
  <2>. HIDE DEF b
  <2>3. Mild(b, a)
    BY <1>1, <2>1, <2>2, Zenon
  <2>. QED  BY <2>3 DEF b
<1>4. ASSUME NEW r \in BOOLEAN, NEW s \in Engine!Layout \cup {NoLayout}
      PROVE  Mild([a EXCEPT !.ready = r, !.synced = s], a)
  <2>. DEFINE b == [a EXCEPT !.ready = r, !.synced = s]
  <2>1. b \in AgentType
    BY Zenon DEF AgentType
  <2>2. /\ b.work = a.work /\ b.engine = a.engine /\ b.toggle = a.toggle
        /\ b.replacement_generation = a.replacement_generation
        /\ b.selection_generation = a.selection_generation
        /\ b.text_generation = a.text_generation
        /\ b.text_pending = a.text_pending /\ SameWatch(b, a)
    BY SMT DEF AgentType, SameWatch, Asks
  <2>. HIDE DEF b
  <2>3. Mild(b, a)
    BY <1>1, <2>1, <2>2, Zenon
  <2>. QED  BY <2>3 DEF b
<1>5. Mild([a EXCEPT !.synced = l, !.ready = TRUE], a)
  <2>. DEFINE b == [a EXCEPT !.synced = l, !.ready = TRUE]
  <2>1. b \in AgentType
    BY Zenon DEF AgentType
  <2>2. /\ b.work = a.work /\ b.engine = a.engine /\ b.toggle = a.toggle
        /\ b.replacement_generation = a.replacement_generation
        /\ b.selection_generation = a.selection_generation
        /\ b.text_generation = a.text_generation
        /\ b.text_pending = a.text_pending /\ SameWatch(b, a)
    BY SMT DEF AgentType, SameWatch, Asks
  <2>. HIDE DEF b
  <2>3. Mild(b, a)
    BY <1>1, <2>1, <2>2, Zenon
  <2>. QED  BY <2>3 DEF b
<1>6. TRUE \in BOOLEAN /\ FALSE \in BOOLEAN /\ NoLayout \in Engine!Layout \cup {NoLayout}
  OBVIOUS
<1>. QED  BY <1>2, <1>3, <1>4, <1>5, <1>6, Zenon

LEMMA SyncLayoutMild ==
    ASSUME NEW a \in AgentType, NEW l \in Engine!Layout \cup {NoLayout}
    PROVE  Mild(SyncLayout(a, l), a)
<1>1. CASE l = NoLayout
  <2>. DEFINE b == [a EXCEPT !.ready = FALSE, !.synced = NoLayout]
  <2>1. SyncLayout(a, l) = EngineReset(b)
    BY <1>1 DEF SyncLayout
  <2>2. Mild(b, a) /\ b \in AgentType
    BY SourceSetMild, MildTransitive, Zenon
  <2>. HIDE DEF b
  <2>3. Mild(EngineReset(b), b)
    BY <2>2, EngineResetMild
  <2>. QED  BY <2>1, <2>2, <2>3, MildTransitive, Zenon
<1>2. CASE l # NoLayout /\ l = a.synced
  BY <1>2, SourceSetMild, Zenon DEF SyncLayout
<1>3. CASE l # NoLayout /\ l # a.synced
  <2>. DEFINE en == Engine!ResetLayout(a.engine, l)
              b  == [a EXCEPT !.ready = TRUE, !.synced = l, !.engine = en]
  <2>1. SyncLayout(a, l) = b
    BY <1>3 DEF SyncLayout
  <2>2. en.token_len = 0
    BY <1>3, ResetLayoutReaches DEF AgentType, Healthy
  <2>3. a.engine.token_len \in Nat
    BY EngineCounts, TokenLengthAssumption DEF AgentType
  <2>. HIDE DEF en
  <2>4. b.engine = en /\ b.toggle = a.toggle /\ SameWatch(b, a)
    BY SMT DEF AgentType, SameWatch, Asks
  <2>. HIDE DEF b
  <2>5. Lapses(SyncLayout(a, l), a)
    BY SyncLayoutKnows, Zenon
  <2>6. Spares(b, a)
    BY <2>2, <2>3, <2>4 DEF Spares
  <2>. QED  BY <2>1, <2>4, <2>5, <2>6, Zenon DEF Mild, Gentle
<1>. QED  BY <1>1, <1>2, <1>3

LEMMA SelectionFailedMild ==
    ASSUME NEW a \in AgentType, os_layout \in Engine!Layout \cup {NoLayout}
    PROVE  Mild(SelectionFailed(a), a)
<1>. DEFINE b == [a EXCEPT !.synced = NoLayout]
            c == SyncLayout(b, os_layout)
            d == CancelReplacement(c, TRUE)
<1>1. SelectionFailed(a) = d
  BY DEF SelectionFailed
<1>2. Mild(b, a) /\ b \in AgentType
  BY SourceSetMild, MildTransitive, Zenon
<1>. HIDE DEF b
<1>3. Mild(c, b) /\ c \in AgentType
  BY <1>2, SyncLayoutMild, MildTransitive, Zenon
<1>. HIDE DEF c
<1>4. Mild(d, c)
  BY <1>3, CancelReplacementMild, Zenon
<1>. HIDE DEF d
<1>5. Mild(d, b)
  BY <1>2, <1>3, <1>4, MildTransitive, Zenon
<1>. QED  BY <1>1, <1>2, <1>5, MildTransitive, Zenon

\* The plan of a decision reaches no further than what it is made from.
LEMMA PlanCounts ==
    ASSUME NEW a \in AgentType, NEW manual \in BOOLEAN, NEW n \in Nat,
           a.engine.pending <= n, a.toggle # NoToggle => a.toggle.count <= n,
           PlanFor(a, manual) # NoPlan
    PROVE  PlanFor(a, manual).count <= n
<1>1. CASE a.focus # NoFocus /\ a.engine.pending > 0
  BY <1>1 DEF PlanFor
<1>2. CASE ~(a.focus # NoFocus /\ a.engine.pending > 0)
  BY <1>2 DEF PlanFor
<1>. QED  BY <1>1, <1>2

LEMMA ApplyCovers ==
    ASSUME NEW a \in AgentType, QueueInv(a), NEW manual \in BOOLEAN, NEW n \in Nat,
           Covered(a, n), a.engine.pending <= n
    PROVE  Covered(Apply(a, manual), n)
<1>. DEFINE plan == PlanFor(a, manual)
            en   == Engine!TakePendingReplacement(a.engine)
            t    == IF manual /\ plan = NoPlan THEN NoToggle ELSE a.toggle
            g    == a.selection_generation + 1
            item == [kind |-> "select", layout |-> a.engine.action.layout,
                     manual |-> manual, plan |-> plan,
                     replacement |-> a.replacement_generation, generation |-> g]
            work == Append(a.work, item)
            b    == [a EXCEPT !.engine = en, !.toggle = t,
                              !.selection_generation = g,
                              !.selection_pending = TRUE, !.work = work]
<1>1. Apply(a, manual) = IF a.engine.action.tag # "SwitchFutureLayout" THEN a ELSE b
  BY DEF Apply
<1>2. plan # NoPlan => plan.count <= n
  BY PlanCounts DEF Covered
<1>3. t # NoToggle => t.count <= n
  BY DEF Covered
<1>4. en.token_len <= n
  BY DEF Engine!TakePendingReplacement, Covered, AgentType, Healthy, EngineType
<1>5. item.kind = "select" /\ item.plan = plan
  OBVIOUS
<1>6. g = a.selection_generation + 1
  OBVIOUS
<1>. HIDE DEF plan, en, t, g, item
<1>7. /\ Len(work) = Len(a.work) + 1
      /\ \A i \in 1..Len(work) :
            \/ work[i] = item
            \/ i \in 1..Len(a.work) /\ work[i] = a.work[i]
  BY WorkTyped
<1>. HIDE DEF work
<1>8. /\ b.engine = en /\ b.toggle = t /\ b.work = work
      /\ b.selection_generation = g
      /\ b.replacement_generation = a.replacement_generation
      /\ b.text_generation = a.text_generation
  BY SMT DEF AgentType
<1>. HIDE DEF b
<1>9. ASSUME NEW i \in 1..Len(a.work), Live(b, a.work[i]) PROVE Live(a, a.work[i])
  <2>1. a.work[i].kind = "select" => a.work[i].generation # b.selection_generation
    <3>1. a.work[i].kind = "select" => a.work[i].generation \in Nat
      BY WorkTyped, GenerationsTyped
    <3>2. a.selection_generation \in Nat
      BY WorkTyped
    <3>. QED  BY <1>6, <1>8, <3>1, <3>2 DEF QueueInv
  <2>. QED  BY <1>8, <1>9, <2>1, Zenon DEF Live
<1>10. ASSUME NEW i \in 1..Len(b.work), Live(b, b.work[i])
       PROVE  b.work[i].plan.count <= n
  <2>1. i \in 1..Len(work)
    BY <1>8
  <2>2. CASE work[i] = item
    <3>1. item.plan # NoPlan
      BY <1>5, <1>8, <1>10, <2>2, Zenon DEF Live
    <3>. QED  BY <1>2, <1>5, <1>8, <2>2, <3>1, Zenon
  <2>3. CASE i \in 1..Len(a.work) /\ work[i] = a.work[i]
    BY <1>8, <1>9, <1>10, <2>3, Zenon DEF Covered
  <2>. QED  BY <1>7, <2>1, <2>2, <2>3, Zenon
<1>11. Covered(b, n)
  BY <1>3, <1>4, <1>8, <1>10, Zenon DEF Covered
<1>. QED  BY <1>1, <1>11

LEMMA ApplyWatches ==
    ASSUME NEW a \in AgentType, NEW manual \in BOOLEAN
    PROVE  SameWatch(Apply(a, manual), a)
<1>. DEFINE plan == PlanFor(a, manual)
            en   == Engine!TakePendingReplacement(a.engine)
            t    == IF manual /\ plan = NoPlan THEN NoToggle ELSE a.toggle
            g    == a.selection_generation + 1
            work == Append(a.work,
                           [kind |-> "select", layout |-> a.engine.action.layout,
                            manual |-> manual, plan |-> plan,
                            replacement |-> a.replacement_generation,
                            generation |-> g])
            b    == [a EXCEPT !.engine = en, !.toggle = t,
                              !.selection_generation = g,
                              !.selection_pending = TRUE, !.work = work]
<1>1. Apply(a, manual) = IF a.engine.action.tag # "SwitchFutureLayout" THEN a ELSE b
  BY DEF Apply
<1>. HIDE DEF plan, en, t, g, work
<1>2. SameWatch(b, a)
  BY SMT DEF AgentType, SameWatch, Asks
<1>. HIDE DEF b
<1>. QED  BY <1>1, <1>2, WatchTransitive, Zenon

\* An item is taken off the queue.
LEMMA RestCovers ==
    ASSUME NEW a \in AgentType, a.work # <<>>, NEW n
    PROVE  LET b == [a EXCEPT !.work = Tail(@)] IN
           (Covered(a, n) => Covered(b, n)) /\ SameWatch(b, a)
<1>. DEFINE tail == Tail(a.work)
            b    == [a EXCEPT !.work = tail]
<1>1. a.work \in Seq(Item)
  BY WorkTyped
<1>2. \A i \in 1..Len(tail) : tail[i] = a.work[i + 1] /\ i + 1 \in 1..Len(a.work)
  BY <1>1
<1>3. b = [a EXCEPT !.work = Tail(@)]
  OBVIOUS
<1>. HIDE DEF tail
<1>4. /\ b.work = tail /\ b.engine = a.engine /\ b.toggle = a.toggle
      /\ b.replacement_generation = a.replacement_generation
      /\ b.selection_generation = a.selection_generation
      /\ b.text_generation = a.text_generation
      /\ SameWatch(b, a)
  BY SMT DEF AgentType, SameWatch, Asks
<1>. HIDE DEF b
<1>5. ASSUME Covered(a, n)
      PROVE  \A i \in 1..Len(b.work) : Live(b, b.work[i]) => b.work[i].plan.count <= n
  BY <1>2, <1>4, <1>5 DEF Live, Covered
<1>6. Covered(a, n) => Covered(b, n)
  BY <1>4, <1>5, Zenon DEF Covered
<1>. QED  BY <1>3, <1>4, <1>6, Zenon

\* A refresh ends in the queue.
LEMMA FinishCovers ==
    ASSUME NEW a \in AgentType, NEW item \in InstallItem, NEW n, Covered(a, n)
    PROVE  LET b == [a EXCEPT !.work = Append(@, item)] IN
           Covered(b, n)
<1>. DEFINE work == Append(a.work, item)
            b    == [a EXCEPT !.work = work]
<1>1. /\ Len(work) = Len(a.work) + 1
      /\ \A i \in 1..Len(work) :
            \/ work[i] = item
            \/ i \in 1..Len(a.work) /\ work[i] = a.work[i]
  BY WorkTyped
<1>2. b = [a EXCEPT !.work = Append(@, item)]
  OBVIOUS
<1>. HIDE DEF work
<1>3. /\ b.work = work /\ b.engine = a.engine /\ b.toggle = a.toggle
      /\ b.replacement_generation = a.replacement_generation
      /\ b.selection_generation = a.selection_generation
      /\ b.text_generation = a.text_generation
  BY SMT DEF AgentType
<1>. HIDE DEF b
<1>4. ~Live(b, item)
  BY DEF Live, InstallItem
<1>5. \A i \in 1..Len(b.work) : Live(b, b.work[i]) => b.work[i].plan.count <= n
  BY <1>1, <1>3, <1>4, Zenon DEF Live, Covered
<1>6. Covered(b, n)
  BY <1>3, <1>5, Zenon DEF Covered
<1>. QED  BY <1>2, <1>6, Zenon

\* A selection hands its plan over to the replacer.
LEMMA ReplaceLastTokenCovers ==
    ASSUME NEW a, Good(a), NEW item \in SelectItem, NEW n \in Nat, Covered(a, n),
           item.plan.count <= n
    PROVE  Covered(ReplaceLastToken(a, item), n) /\ SameWatch(ReplaceLastToken(a, item), a)
<1>. DEFINE c    == CancelText(a)
            g    == c.text_generation + 1
            next == [item EXCEPT !.kind = "replace", !.generation = g]
            work == Append(c.work, next)
            b    == [c EXCEPT !.text_generation = g, !.text_pending = TRUE,
                              !.work = work]
<1>1. ReplaceLastToken(a, item) = b
  BY DEF ReplaceLastToken
<1>2. a \in AgentType /\ QueueInv(a)
  BY DEF Good
<1>3. Mild(c, a) /\ c \in AgentType
  BY <1>2, CancelTextMild, MildTransitive, Zenon
<1>4. Covered(c, n) /\ QueueInv(c)
  BY <1>2, <1>3, CoveredOn, LapsedQueue, Zenon DEF Mild, Gentle
<1>. HIDE DEF c
<1>5. g = c.text_generation + 1
  OBVIOUS
<1>. HIDE DEF g
<1>6. next.plan = item.plan
  BY SMT DEF SelectItem
<1>. HIDE DEF next
<1>7. /\ Len(work) = Len(c.work) + 1
      /\ \A i \in 1..Len(work) :
            \/ work[i] = next
            \/ i \in 1..Len(c.work) /\ work[i] = c.work[i]
  BY <1>3, WorkTyped
<1>. HIDE DEF work
<1>8. /\ b.engine = c.engine /\ b.toggle = c.toggle /\ b.work = work
      /\ b.selection_generation = c.selection_generation
      /\ b.replacement_generation = c.replacement_generation
      /\ b.text_generation = g /\ SameWatch(b, c)
  BY <1>3, SMT DEF AgentType, SameWatch, Asks
<1>. HIDE DEF b
<1>9. ASSUME NEW i \in 1..Len(c.work), Live(b, c.work[i]) PROVE Live(c, c.work[i])
  <2>1. c.work[i].kind = "replace" => c.work[i].generation # b.text_generation
    <3>1. c.work[i].kind = "replace" => c.work[i].generation \in Nat
      BY <1>3, WorkTyped, GenerationsTyped
    <3>2. c.text_generation \in Nat
      BY <1>3, WorkTyped
    <3>. QED  BY <1>4, <1>5, <1>8, <3>1, <3>2 DEF QueueInv
  <2>. QED  BY <1>8, <1>9, <2>1, Zenon DEF Live
<1>10. \A i \in 1..Len(b.work) : Live(b, b.work[i]) => b.work[i].plan.count <= n
  BY <1>4, <1>6, <1>7, <1>8, <1>9, Zenon DEF Covered
<1>11. Covered(b, n)
  BY <1>4, <1>8, <1>10, Zenon DEF Covered
<1>. QED  BY <1>1, <1>3, <1>8, <1>11, WatchTransitive, Zenon DEF Mild

-----------------------------------------------------------------------------
(* The inductive invariant                                                  *)

\* While no activation is on its way, the agent knows the application in front
\* and no backoff timer is left that could attach an observer; and while it is
\* told of every change of focus, it reaches no further back than the letters
\* typed.
TextInv ==
    /\ "app" \notin notices =>
          /\ agent.frontmost = AppOf(field)
          /\ agent.recovery # agent.accessibility_generation
    /\ agent.recovery # NoTimer => agent.recovery <= agent.accessibility_generation
    /\ Informed /\ agent.observer => Covered(agent, run)

\* The agent processes text only where an observer tells it of the focus, or
\* is about to leave the application.
Watched ==
    \/ "app" \in notices
    \/ agent.observer
    \/ Disabled(agent.snapshot)

LEMMA AgentTyped ==
    ASSUME AgentInv
    PROVE  /\ agent \in AgentType /\ Good(agent) /\ QueueInv(agent) /\ run \in Nat
           /\ agent.accessibility_generation \in Nat
           /\ agent.engine \in Healthy /\ agent.engine.token_len \in Nat
           /\ field \in Field /\ os_layout \in Engine!Layout \cup {NoLayout}
<1>1. agent \in AgentType /\ Good(agent) /\ QueueInv(agent) /\ run \in Nat
      /\ field \in Field /\ os_layout \in Engine!Layout \cup {NoLayout}
  BY Zenon DEF AgentInv, Good, Surroundings
<1>2. agent.accessibility_generation \in Nat /\ agent.engine \in Healthy
  BY <1>1 DEF AgentType
<1>. QED  BY <1>1, <1>2, EngineCounts, TokenLengthAssumption

\* A callback that leaves observer and application alone.
LEMMA TextKept ==
    ASSUME TextInv, SameWatch(agent', agent),
           notices \cap {"app"} \subseteq notices',
           "app" \notin notices' => AppOf(field') = AppOf(field),
           Informed' /\ agent.observer => Covered(agent', run')
    PROVE  TextInv'
  BY Zenon DEF TextInv, SameWatch

\* Nothing but agent changed, and it decided nothing.
LEMMA TextMild ==
    ASSUME AgentInv, TextInv, Mild(agent', agent),
           notices \cap {"focus", "app"} \subseteq notices', run' = run, field' = field
    PROVE  TextInv'
<1>1. Informed' => Informed
  BY DEF Informed
<1>2. SameWatch(agent', agent) /\ Gentle(agent', agent)
  BY DEF Mild
<1>3. Covered(agent, run) => Covered(agent', run)
  BY <1>2, AgentTyped, CoveredOn, Zenon
<1>4. Informed' /\ agent.observer => Covered(agent', run')
  BY <1>1, <1>3, Zenon DEF TextInv
<1>. QED  BY <1>2, <1>4, TextKept

LEMMA MoveCaretNotices ==
    ASSUME NEW f, MoveCaret(f)
    PROVE  /\ notices \subseteq notices' /\ field' = f /\ run' = 0
           /\ f # field /\ agent.observer /\ agent.frontmost = AppOf(f)
              => "focus" \in notices'
  BY DEF MoveCaret

LEMMA KeyTypesNotices ==
    ASSUME NEW key \in Key, KeyTypes(key)
    PROVE  notices \subseteq notices' /\ AppOf(field') = AppOf(field)
<1>1. ASSUME NEW f \in InSameApp, MoveCaret(f)
      PROVE  notices \subseteq notices' /\ AppOf(field') = AppOf(field)
  BY <1>1, MoveCaretNotices DEF InSameApp
<1>. QED  BY <1>1 DEF KeyTypes

\* Whatever the engine makes of a key, it counts no more letters than there are
\* after the key.
LEMMA KeyCounts ==
    ASSUME run \in Nat, NEW key \in Key, KeyTypes(key),
           NEW en \in Healthy, en.token_len <= run, NEW next \in Observe(en, key)
    PROVE  run' \in Nat /\ next.token_len <= run' /\ next.pending <= run'
<1>1. en.token_len \in Nat
  BY EngineCounts, TokenLengthAssumption
<1>2. next \in Healthy
  BY ObserveReaches DEF Reachable
<1>3. next.token_len \in Int /\ next.pending \in Int
  BY <1>2, EngineCounts, TokenLengthAssumption
<1>4. CASE key = "letter"
  <2>1. run' = run + 1
    BY <1>4 DEF KeyTypes
  <2>2. next \in Engine!AfterLetter(en)
    BY <1>4 DEF Observe
  <2>3. next.token_len <= en.token_len + 1 /\ next.pending <= en.token_len + 1
    BY <2>2, LetterCounts
  <2>. QED  BY <1>1, <1>3, <2>1, <2>3
<1>5. CASE key = "backspace"
  <2>. DEFINE n == IF en.token_len = 0 THEN 0 ELSE en.token_len - 1
  <2>1. run' = (IF run = 0 THEN 0 ELSE run - 1)
    BY <1>5 DEF KeyTypes
  <2>2. next \in Engine!AfterBackspace(en)
    BY <1>5 DEF Observe
  <2>3. next.token_len <= n /\ next.pending <= n
    BY <2>2, BackspaceCounts
  <2>. QED  BY <1>1, <1>3, <2>1, <2>3
<1>6. CASE key \notin {"letter", "backspace"}
  <2>1. run' = 0
    BY <1>6, MoveCaretNotices DEF KeyTypes
  <2>2. next = Engine!Discarded(en)
    BY <1>6 DEF Observe
  <2>. QED  BY <2>1, <2>2, DiscardedCounts
<1>. QED  BY <1>4, <1>5, <1>6

LEMMA ProcessKeyText ==
    ASSUME AgentInv, TextInv, NEW key \in Key, ProcessKey(key)
    PROVE  TextInv'
<1>. DEFINE r == CancelReplacement(agent, TRUE)
            cancelled == CancelManualSwitch(r)
            a == CheckContext(cancelled)
<1>1. Good(agent) /\ agent \in AgentType /\ QueueInv(agent) /\ run \in Nat
  BY AgentTyped
<1>2. Mild(r, agent) /\ Unarmed(r) /\ r \in AgentType /\ Follows(r, agent)
      /\ ~r.text_pending
  BY <1>1, CancelReplacementMild, CancelReplacementUnarms, CancelReplacementKeeps,
     FollowsTransitive, Zenon
<1>. HIDE DEF r
<1>3. Mild(cancelled, r) /\ cancelled \in AgentType /\ Follows(cancelled, r)
  BY <1>2, ManualSwitchMild, CancelManualSwitchKeeps, FollowsTransitive, Zenon
<1>. HIDE DEF cancelled
<1>4. Good(r) /\ Good(cancelled) /\ ~cancelled.text_pending
  BY <1>1, <1>2, <1>3, FollowsGood, FollowsTransitive, Zenon
<1>5. Mild(a, cancelled) /\ a \in AgentType /\ Follows(a, cancelled)
  BY <1>3, <1>4, CheckContextMild, CheckContextFollows, FollowsTransitive, Zenon DEF Good
<1>. HIDE DEF a
<1>6. Good(a) /\ ~a.text_pending
  BY <1>3, <1>4, <1>5, FollowsGood, FollowsTransitive, Zenon
<1>7. Mild(a, r) /\ Mild(a, agent)
  BY <1>1, <1>2, <1>3, <1>5, MildTransitive, Zenon
<1>8. Unarmed(a) /\ QueueInv(a)
  BY <1>2, <1>4, <1>6, <1>7, UnarmedOn, Zenon DEF Good, Mild
<1>9. KeyTypes(key)
  BY DEF ProcessKey
<1>10. \/ agent' = EngineReset(a)
       \/ \E en \in Observe(a.engine, key) :
             LET applied == Apply([a EXCEPT !.engine = en], FALSE)
             IN agent' = IF key = "focusKey"
                         THEN HandlePotentialFocusChange(applied)
                         ELSE applied
  BY DEF ProcessKey, r, cancelled, a
<1>11. a.engine \in Healthy /\ a.engine.token_len \in Nat
  BY <1>5, EngineCounts, TokenLengthAssumption DEF AgentType
<1>12. Informed' /\ agent.observer => a.engine.token_len <= run
  <2>1. Informed' => Informed
    BY <1>9, KeyTypesNotices DEF Informed
  <2>2. agent.engine.token_len \in Nat
    BY AgentTyped
  <2>. QED  BY <1>1, <1>7, <1>11, <2>1, <2>2 DEF TextInv, Covered, Mild, Gentle, Spares
<1>13. /\ SameWatch(agent', agent)
       /\ Informed' /\ agent.observer => Covered(agent', run')
  <2>1. CASE agent' = EngineReset(a)
    <3>1. Mild(agent', a) /\ agent'.engine.token_len = 0
      BY <1>5, <2>1, EngineResetMild
    <3>2. Unarmed(agent')
      BY <1>5, <1>8, <3>1, UnarmedOn, Zenon DEF Mild
    <3>3. run' \in Nat
      BY <1>1, <1>9, MoveCaretNotices DEF KeyTypes
    <3>4. Covered(agent', run')
      <4>1. agent'.engine.token_len <= run'
        BY <3>1, <3>3
      <4>. QED  BY <3>2, <4>1, UnarmedCovered
    <3>. QED  BY <1>7, <3>1, <3>4, WatchTransitive, Zenon DEF Mild
  <2>2. ASSUME NEW en \in Observe(a.engine, key),
               LET applied == Apply([a EXCEPT !.engine = en], FALSE)
               IN agent' = IF key = "focusKey"
                           THEN HandlePotentialFocusChange(applied)
                           ELSE applied
        PROVE  /\ SameWatch(agent', agent)
               /\ Informed' /\ agent.observer => Covered(agent', run')
    <3>. DEFINE b == [a EXCEPT !.engine = en]
                applied == Apply(b, FALSE)
    <3>1. agent' = IF key = "focusKey" THEN HandlePotentialFocusChange(applied)
                                       ELSE applied
      BY <2>2
    <3>2. en \in Reachable(a.engine) /\ en \in Healthy
      BY <1>11, ObserveReaches DEF Reachable
    <3>3. Follows(b, a) /\ b \in AgentType
      BY <1>5, <3>2, UpdateKeeps, FollowsTransitive, Zenon
    <3>4. /\ b.engine = en /\ b.toggle = a.toggle /\ b.work = a.work
          /\ b.selection_generation = a.selection_generation
          /\ b.replacement_generation = a.replacement_generation
          /\ b.text_generation = a.text_generation
          /\ SameWatch(b, a)
      BY <1>5, SMT DEF AgentType, SameWatch, Asks
    <3>. HIDE DEF b
    <3>5. Good(b) /\ ~b.text_pending /\ QueueInv(b)
      BY <1>5, <1>6, <3>3, FollowsGood, FollowsTransitive, Zenon DEF Good
    <3>6. Unarmed(b)
      BY <1>8, <3>4, Zenon DEF Unarmed, Live
    <3>7. FALSE \in BOOLEAN
      OBVIOUS
    <3>8. Good(applied) /\ SameWatch(applied, b)
      BY <3>3, <3>5, <3>7, ApplyGood, ApplyWatches, Zenon
    <3>9. ASSUME Informed', agent.observer
          PROVE  run' \in Nat /\ Covered(applied, run')
      <4>1. run' \in Nat /\ en.token_len <= run' /\ en.pending <= run'
        BY <1>1, <1>9, <1>11, <1>12, <3>9, KeyCounts
      <4>2. Covered(b, run')
        BY <3>4, <3>6, <4>1, UnarmedCovered, Zenon
      <4>. QED  BY <3>3, <3>4, <3>5, <3>7, <4>1, <4>2, ApplyCovers, Zenon
    <3>. HIDE DEF applied
    <3>10. Mild(HandlePotentialFocusChange(applied), applied) /\ applied \in AgentType
           /\ QueueInv(applied)
      BY <3>8, HandlePotentialFocusChangeUnarms, Zenon DEF Good
    <3>11. Mild(agent', applied)
      BY <3>1, <3>10, MildTransitive, Zenon
    <3>12. Informed' /\ agent.observer => Covered(agent', run')
      BY <3>9, <3>10, <3>11, CoveredOn, Zenon DEF Mild
    <3>13. SameWatch(agent', agent)
      BY <1>7, <3>4, <3>8, <3>11, WatchTransitive, Zenon DEF Mild
    <3>. QED  BY <3>12, <3>13
  <2>. QED  BY <1>10, <2>1, <2>2, Zenon
<1>14. notices \cap {"app"} \subseteq notices' /\ AppOf(field') = AppOf(field)
  BY <1>9, KeyTypesNotices
<1>. QED  BY <1>13, <1>14, TextKept

-----------------------------------------------------------------------------
(* The other callbacks                                                      *)

LEMMA ModifierText ==
    ASSUME AgentInv, TextInv,
           OtherModifierChanges \/ \E chord \in BOOLEAN : OptionDown(chord)
    PROVE  TextInv'
<1>. DEFINE a == CancelReplacement(agent, FALSE)
<1>1. agent \in AgentType /\ FALSE \in BOOLEAN
  BY AgentTyped
<1>2. Mild(a, agent) /\ a \in AgentType
  BY <1>1, CancelReplacementMild, MildTransitive, Zenon
<1>3. agent' \in {CancelManualSwitch([a EXCEPT !.toggle = NoToggle]),
                  [a EXCEPT !.toggle = NoToggle, !.option = "up"],
                  [a EXCEPT !.option = "armed"]}
  BY Zenon DEF OtherModifierChanges, OptionDown
<1>. HIDE DEF a
<1>4. Mild([a EXCEPT !.toggle = NoToggle], a) /\ [a EXCEPT !.toggle = NoToggle] \in AgentType
  BY <1>2, UpdateMild, MildTransitive, Zenon
<1>5. Mild(CancelManualSwitch([a EXCEPT !.toggle = NoToggle]), a)
  BY <1>2, <1>4, ManualSwitchMild, MildTransitive, Zenon
<1>6. /\ Mild([a EXCEPT !.toggle = NoToggle, !.option = "up"], a)
      /\ Mild([a EXCEPT !.option = "armed"], a)
  BY <1>2, UpdateMild, Zenon
<1>7. Mild(agent', a)
  BY <1>3, <1>5, <1>6, Zenon
<1>8. Mild(agent', agent)
  BY <1>1, <1>2, <1>7, MildTransitive, Zenon
<1>9. UNCHANGED <<notices, field, run>>
  BY DEF OtherModifierChanges, OptionDown
<1>. QED  BY <1>8, <1>9, TextMild

LEMMA OptionUpText ==
    ASSUME AgentInv, TextInv, NEW chord \in BOOLEAN, OptionUp(chord)
    PROVE  TextInv'
<1>. DEFINE a == CancelReplacement(agent, FALSE)
            reset == ResetManualSwitch(a)
            checked == CheckContext(reset)
            en == Engine!ForceSwitchLayout(checked.engine)
            forced == [checked EXCEPT !.engine = en]
<1>1. agent \in AgentType /\ FALSE \in BOOLEAN /\ TRUE \in BOOLEAN
      /\ Good(agent) /\ run \in Nat
  BY AgentTyped
<1>2. agent' \in {a, [reset EXCEPT !.toggle = NoToggle], checked,
                  EngineReset(checked), Apply(forced, TRUE)}
  BY Zenon DEF OptionUp
<1>3. UNCHANGED <<notices, field, run>>
  BY DEF OptionUp
<1>4. Mild(a, agent) /\ a \in AgentType /\ Follows(a, agent)
  BY <1>1, CancelReplacementMild, CancelReplacementKeeps, FollowsTransitive, Zenon
<1>. HIDE DEF a
<1>5. Mild(reset, a) /\ reset \in AgentType /\ Follows(reset, a)
  BY <1>4, ManualSwitchMild, CancelManualSwitchKeeps, FollowsTransitive, Zenon
<1>. HIDE DEF reset
<1>6. Good(a) /\ Good(reset)
  BY <1>1, <1>4, <1>5, FollowsGood, Zenon
<1>7. Mild(checked, reset) /\ checked \in AgentType /\ Follows(checked, reset)
  BY <1>5, <1>6, CheckContextMild, CheckContextFollows, FollowsTransitive, Zenon DEF Good
<1>. HIDE DEF checked
<1>8. Good(checked) /\ QueueInv(checked)
  BY <1>6, <1>7, FollowsGood, Zenon DEF Good
<1>9. Mild(reset, agent) /\ Mild(checked, agent)
  BY <1>1, <1>4, <1>5, <1>7, MildTransitive, Zenon
<1>10. /\ Mild([reset EXCEPT !.toggle = NoToggle], agent)
       /\ Mild(EngineReset(checked), agent)
  BY <1>1, <1>5, <1>7, <1>9, UpdateMild, EngineResetMild, MildTransitive, Zenon
<1>11. CASE agent' # Apply(forced, TRUE)
  <2>1. Mild(agent', agent)
    BY <1>2, <1>4, <1>9, <1>10, <1>11, Zenon
  <2>. QED  BY <1>3, <2>1, TextMild
<1>12. CASE agent' = Apply(forced, TRUE)
  <2>1. checked.engine \in Healthy /\ checked.engine.token_len \in Nat
    BY <1>7, EngineCounts, TokenLengthAssumption DEF AgentType
  <2>2. en \in Reachable(checked.engine) /\ en.token_len = 0
        /\ en.pending <= checked.engine.token_len /\ en.pending \in Nat
    <3>1. en \in Reachable(checked.engine)
      BY <2>1, ForceSwitchLayoutReaches
    <3>2. en.pending \in Nat
      BY <3>1, EngineCounts, TokenLengthAssumption DEF Reachable
    <3>. QED  BY <2>1, <3>1, <3>2, ForceSwitchCounts
  <2>. HIDE DEF en
  <2>3. en.token_len <= checked.engine.token_len
    BY <2>1, <2>2
  <2>4. Mild(forced, checked) /\ Follows(forced, checked)
        /\ forced \in AgentType /\ forced.engine = en
    <3>1. Mild(forced, checked) /\ Keeps(forced, checked)
      BY <1>7, <2>2, <2>3, UpdateMild, UpdateKeeps, Zenon
    <3>2. forced.engine = en
      BY <1>7, SMT DEF AgentType
    <3>. HIDE DEF forced
    <3>. QED  BY <1>7, <3>1, <3>2, FollowsTransitive, Zenon
  <2>. HIDE DEF forced
  <2>5. QueueInv(forced)
    BY <1>8, <2>4, FollowsGood, Zenon DEF Good
  <2>6. SameWatch(agent', agent)
    <3>1. SameWatch(Apply(forced, TRUE), forced)
      BY <1>1, <2>4, ApplyWatches, Zenon
    <3>. QED  BY <1>9, <1>12, <2>4, <3>1, WatchTransitive, Zenon DEF Mild
  <2>7. ASSUME Informed', agent.observer PROVE Covered(agent', run')
    <3>1. Informed
      BY <1>3, <2>7 DEF Informed
    <3>2. Covered(agent, run)
      BY <2>7, <3>1 DEF TextInv
    <3>3. Covered(checked, run)
      BY <1>1, <1>9, <3>2, CoveredOn, Zenon DEF Good, Mild
    <3>4. Covered(forced, run)
      BY <1>1, <1>7, <1>8, <2>4, <3>3, CoveredOn, Zenon DEF Mild
    <3>5. forced.engine.pending <= run
      BY <1>1, <2>1, <2>2, <2>4, <3>3 DEF Covered
    <3>6. Covered(Apply(forced, TRUE), run)
      BY <1>1, <2>4, <2>5, <3>4, <3>5, ApplyCovers, Zenon
    <3>. QED  BY <1>3, <1>12, <3>6
  <2>. QED  BY <1>3, <2>6, <2>7, TextKept, Zenon
<1>. QED  BY <1>11, <1>12

LEMMA MouseDownText ==
    ASSUME AgentInv, TextInv, NEW f \in InSameApp, MouseDown(f)
    PROVE  TextInv'
<1>1. agent \in AgentType /\ QueueInv(agent)
  BY AgentTyped
<1>2. agent' = HandlePotentialFocusChange(agent) /\ MoveCaret(f)
  BY DEF MouseDown
<1>3. /\ Mild(agent', agent)
      /\ agent.observer => Unarmed(agent') /\ agent'.engine.token_len = 0
  BY <1>1, <1>2, HandlePotentialFocusChangeUnarms, Zenon
<1>4. agent.observer => Covered(agent', run')
  <2>1. run' = 0
    BY <1>2, MoveCaretNotices
  <2>2. agent.observer => agent'.engine.token_len <= run'
    BY <1>3, <2>1
  <2>. QED  BY <1>3, <2>2, UnarmedCovered, Zenon
<1>5. notices \cap {"app"} \subseteq notices' /\ AppOf(field') = AppOf(field)
  BY <1>2, MoveCaretNotices DEF InSameApp
<1>. QED  BY <1>3, <1>4, <1>5, TextKept, Zenon DEF Mild

LEMMA FocusMovesText ==
    ASSUME AgentInv, TextInv, NEW f \in InSameApp, FocusMoves(f)
    PROVE  TextInv'
<1>1. agent' = agent /\ MoveCaret(f) /\ f # field
  BY DEF FocusMoves
<1>2. notices \subseteq notices' /\ AppOf(field') = AppOf(field)
  BY <1>1, MoveCaretNotices DEF InSameApp
<1>3. ~(Informed' /\ agent.observer)
  <2>. SUFFICES ASSUME Informed', agent.observer PROVE FALSE
    OBVIOUS
  <2>1. "app" \notin notices /\ "focus" \notin notices'
    BY <1>2 DEF Informed
  <2>2. agent.frontmost = AppOf(f)
    BY <2>1 DEF TextInv, InSameApp
  <2>. QED  BY <1>1, <2>1, <2>2, MoveCaretNotices
<1>. QED  BY <1>1, <1>2, <1>3, TextKept, WatchTransitive

LEMMA AppActivatesText ==
    ASSUME TextInv, NEW f \in Field, AppActivates(f)
    PROVE  TextInv'
<1>1. "app" \in notices' /\ agent' = agent
  BY DEF AppActivates
<1>. QED  BY <1>1 DEF TextInv, Informed

LEMMA DeliverFocusText ==
    ASSUME AgentInv, TextInv, DeliverFocusNotice
    PROVE  TextInv'
<1>. DEFINE i == InvalidateContext(agent)
<1>1. agent \in AgentType /\ QueueInv(agent) /\ run \in Nat
  BY AgentTyped
<1>2. Mild(i, agent) /\ Unarmed(i) /\ i.engine.token_len = 0 /\ i \in AgentType
  BY <1>1, InvalidateContextUnarms, MildTransitive, Zenon
<1>3. agent' = RequestRefresh(i)
  BY DEF DeliverFocusNotice
<1>. HIDE DEF i
<1>4. Mild(agent', i)
  BY <1>2, <1>3, RequestRefreshMild
<1>5. Unarmed(agent') /\ agent'.engine.token_len = 0
  <2>1. QueueInv(i)
    BY <1>1, <1>2, LapsedQueue, Zenon DEF Mild, Gentle
  <2>. QED  BY <1>2, <1>4, <2>1, UnarmedZero, Zenon DEF Mild
<1>6. UNCHANGED <<field, run>> /\ notices' = notices \ {"focus"}
  BY DEF DeliverFocusNotice
<1>7. Covered(agent', run')
  <2>1. agent'.engine.token_len <= run'
    BY <1>1, <1>5, <1>6
  <2>. QED  BY <1>5, <2>1, UnarmedCovered
<1>8. SameWatch(agent', agent)
  BY <1>2, <1>4, WatchTransitive, Zenon DEF Mild
<1>. QED  BY <1>6, <1>7, <1>8, TextKept

\* The agent starts afresh in the application that was activated.
LEMMA AppDelivered ==
    ASSUME AgentInv, DeliverAppNotice
    PROVE  /\ agent'.work = agent.work
           /\ Unarmed(agent') /\ agent'.engine.token_len = 0
           /\ agent'.frontmost = AppOf(field)
           /\ agent'.snapshot = BaseSnapshot(agent')
           /\ agent'.recovery = agent.recovery
           /\ agent'.degraded_app = agent.degraded_app
           /\ agent'.accessibility_generation = (agent.accessibility_generation + 1) + 1
           /\ \/ agent'.refresh = NoRefresh
              \/ /\ agent'.observer
                 /\ agent'.refresh.generation = agent'.accessibility_generation
           /\ \E attachable \in ObserverOutcomes :
                 agent'.observer = (/\ attachable
                                    /\ ~Disabled(agent'.snapshot)
                                    /\ agent'.degraded_app # agent'.frontmost)
<1>. DEFINE m == ResetManualSwitch(agent)
            u == [m EXCEPT !.snapshot = "unknown", !.focus = NoFocus]
            r == CancelReplacement(u, TRUE)
            forgotten == CancelSelection(r)
            t == TeardownObserver(forgotten)
            e == EngineReset(t)
            f == [e EXCEPT !.frontmost = AppOf(field)]
            based == InstallBase(f)
<1>1. /\ agent \in AgentType /\ QueueInv(agent) /\ run \in Nat /\ field \in Field
      /\ agent.accessibility_generation \in Nat
  BY AgentTyped
<1>2. PICK attachable \in ObserverOutcomes :
         agent' = RequestRefresh(ConfigureObserver(based, attachable))
  BY DEF DeliverAppNotice
<1>3. attachable \in BOOLEAN
  BY SurfaceAssumption
<1>4. Mild(m, agent) /\ m \in AgentType
  BY <1>1, ManualSwitchMild, MildTransitive, Zenon
<1>. HIDE DEF m
<1>5. Mild(u, agent) /\ u \in AgentType
  <2>1. Mild(u, m)
    BY <1>4, ForgetMild
  <2>. QED  BY <1>1, <1>4, <2>1, MildTransitive, Zenon
<1>. HIDE DEF u
<1>6. QueueInv(u)
  BY <1>1, <1>5, LapsedQueue, Zenon DEF Mild, Gentle
<1>7. Mild(r, u) /\ r \in AgentType /\ Unarmed(r)
  BY <1>5, <1>6, CancelReplacementMild, CancelReplacementUnarms, MildTransitive, Zenon
<1>. HIDE DEF r
<1>8. QueueInv(r)
  BY <1>5, <1>6, <1>7, LapsedQueue, Zenon DEF Mild, Gentle
<1>9. Mild(forgotten, r) /\ forgotten \in AgentType
  BY <1>7, CancelSelectionMild, MildTransitive, Zenon
<1>. HIDE DEF forgotten
<1>10. /\ forgotten.accessibility_generation = agent.accessibility_generation
       /\ forgotten.recovery = agent.recovery
       /\ forgotten.degraded_app = agent.degraded_app
  BY <1>5, <1>7, <1>9, Zenon DEF Mild, SameWatch
<1>11. /\ Gentle(t, forgotten) /\ t \in AgentType
       /\ t.accessibility_generation = agent.accessibility_generation + 1
       /\ t.recovery = agent.recovery
       /\ t.degraded_app = agent.degraded_app
  <2>1. /\ Gentle(t, forgotten)
        /\ t.accessibility_generation = forgotten.accessibility_generation + 1
        /\ t.recovery = forgotten.recovery
        /\ t.degraded_app = forgotten.degraded_app
    BY <1>9, TeardownObserverGentle, Zenon
  <2>. HIDE DEF t
  <2>. QED  BY <1>9, <1>10, <2>1, MildTransitive, Zenon
<1>. HIDE DEF t
<1>12. Mild(e, t) /\ e \in AgentType /\ e.engine.token_len = 0
  BY <1>11, EngineResetMild, MildTransitive, Zenon
<1>. HIDE DEF e
<1>13. /\ Gentle(f, e) /\ f \in AgentType
       /\ f.frontmost = AppOf(field)
       /\ f.accessibility_generation = e.accessibility_generation
       /\ f.recovery = e.recovery
       /\ f.degraded_app = e.degraded_app
  <2>1. AppOf(field) \in Apps
    BY <1>1 DEF Apps
  <2>2. Lapses(f, e)
    BY <1>12, <2>1, UpdateKeeps, Zenon DEF Keeps, Continues
  <2>3. /\ f.frontmost = AppOf(field) /\ f.engine = e.engine /\ f.toggle = e.toggle
        /\ f.accessibility_generation = e.accessibility_generation
        /\ f.recovery = e.recovery /\ f.degraded_app = e.degraded_app
    BY <1>12, SMT DEF AgentType
  <2>4. Spares(f, e)
    BY <1>12, <2>3 DEF Spares
  <2>. HIDE DEF f
  <2>. QED  BY <1>12, <2>2, <2>3, <2>4, Zenon DEF Gentle, Lapses
<1>. HIDE DEF f
<1>14. Mild(based, f) /\ based \in AgentType /\ based.snapshot = BaseSnapshot(f)
  BY <1>13, InstallBaseMild, MildTransitive, Zenon
<1>. HIDE DEF based
<1>. DEFINE c == ConfigureObserver(based, attachable)
<1>15. /\ Gentle(c, based) /\ c \in AgentType
       /\ c.accessibility_generation = based.accessibility_generation + 1
       /\ c.frontmost = based.frontmost /\ c.recovery = based.recovery
       /\ c.degraded_app = based.degraded_app /\ c.snapshot = based.snapshot
       /\ c.refresh = NoRefresh
       /\ c.observer = (/\ attachable
                        /\ ~Disabled(based.snapshot)
                        /\ based.degraded_app # based.frontmost)
  BY <1>3, <1>14, ConfigureObserverGentle, MildTransitive, Zenon
<1>16. agent' = RequestRefresh(c)
  BY <1>2
<1>. HIDE DEF c
<1>17. Mild(agent', c) /\ agent'.snapshot = c.snapshot
  BY <1>15, <1>16, RequestRefreshMild, RequestRefreshKeeps, Zenon DEF Keeps, SamePolicy
<1>18. Gentle(e, r)
  BY <1>7, <1>9, <1>11, <1>12, MildTransitive, Zenon
<1>19. Gentle(agent', e)
  <2>1. Gentle(agent', based)
    BY <1>14, <1>15, <1>17, MildTransitive, Zenon
  <2>2. Gentle(agent', f)
    BY <1>13, <1>14, <2>1, MildTransitive, Zenon
  <2>. QED  BY <1>12, <1>13, <2>2, MildTransitive, Zenon
<1>20. Unarmed(agent') /\ agent'.engine.token_len = 0
  <2>1. Unarmed(e) /\ QueueInv(e)
    BY <1>7, <1>8, <1>18, UnarmedOn, LapsedQueue, Zenon DEF Gentle
  <2>. QED  BY <1>12, <1>19, <2>1, UnarmedZero, Zenon
<1>21. agent'.work = agent.work
  BY <1>5, <1>7, <1>18, <1>19, Zenon DEF Mild, Gentle, Lapses
<1>22. /\ agent'.frontmost = AppOf(field)
       /\ agent'.recovery = agent.recovery
       /\ agent'.degraded_app = agent.degraded_app
       /\ agent'.accessibility_generation = (agent.accessibility_generation + 1) + 1
  BY <1>11, <1>12, <1>13, <1>14, <1>15, <1>17, Zenon DEF Mild, SameWatch
<1>23. agent'.snapshot = BaseSnapshot(agent')
  <2>1. agent'.frontmost = f.frontmost
    BY <1>13, <1>22
  <2>. QED  BY <1>14, <1>15, <1>17, <2>1, Zenon DEF BaseSnapshot
<1>24. \/ agent'.refresh = NoRefresh
       \/ /\ agent'.observer
          /\ agent'.refresh.generation = agent'.accessibility_generation
  BY <1>15, <1>17 DEF Mild, SameWatch, Asks
<1>25. agent'.observer = (/\ attachable
                          /\ ~Disabled(agent'.snapshot)
                          /\ agent'.degraded_app # agent'.frontmost)
  <2>1. agent'.observer = c.observer /\ agent'.degraded_app = c.degraded_app
        /\ agent'.frontmost = c.frontmost
    BY <1>17, Zenon DEF Mild, SameWatch
  <2>. QED  BY <1>15, <1>17, <2>1, Zenon
<1>. QED  BY <1>2, <1>20, <1>21, <1>22, <1>23, <1>24, <1>25

LEMMA DeliverAppText ==
    ASSUME AgentInv, TextInv, DeliverAppNotice
    PROVE  TextInv'
<1>1. /\ agent \in AgentType /\ run \in Nat
      /\ agent.accessibility_generation \in Nat
  BY AgentTyped
<1>2. /\ Unarmed(agent') /\ agent'.engine.token_len = 0
      /\ agent'.frontmost = AppOf(field)
      /\ agent'.recovery = agent.recovery
      /\ agent'.accessibility_generation = (agent.accessibility_generation + 1) + 1
  BY AppDelivered
<1>3. UNCHANGED <<field, run>>
  BY DEF DeliverAppNotice
<1>4. Covered(agent', run')
  <2>1. agent'.engine.token_len <= run'
    BY <1>1, <1>2, <1>3
  <2>. QED  BY <1>2, <2>1, UnarmedCovered
<1>5. agent.recovery # NoTimer => agent.recovery \in Nat
  BY <1>1 DEF AgentType
<1>6. agent'.recovery # agent'.accessibility_generation
  <2>1. agent'.accessibility_generation \in Nat
    BY <1>1, <1>2
  <2>2. CASE agent.recovery = NoTimer
    BY <1>2, <2>1, <2>2, SurfaceAssumption
  <2>3. CASE agent.recovery # NoTimer
    BY <1>1, <1>2, <1>5, <2>3 DEF TextInv
  <2>. QED  BY <2>2, <2>3
<1>7. agent'.recovery # NoTimer => agent'.recovery <= agent'.accessibility_generation
  BY <1>1, <1>2, <1>5 DEF TextInv
<1>. QED  BY <1>2, <1>3, <1>4, <1>6, <1>7 DEF TextInv

LEMMA SourceText ==
    ASSUME AgentInv, TextInv,
           \/ DeliverSourceNotice
           \/ \E l \in Engine!Layout \cup {NoLayout} : InputSourceChanges(l)
    PROVE  TextInv'
<1>1. agent \in AgentType /\ os_layout \in Engine!Layout \cup {NoLayout}
  BY AgentTyped
<1>2. agent' \in {agent, SyncLayout(agent, os_layout)}
  BY DEF DeliverSourceNotice, InputSourceChanges
<1>3. Mild(agent', agent)
  BY <1>1, <1>2, SyncLayoutMild, MildTransitive, Zenon
<1>4. UNCHANGED <<field, run>> /\ notices \cap {"focus", "app"} \subseteq notices'
  BY DEF DeliverSourceNotice, InputSourceChanges
<1>. QED  BY <1>3, <1>4, TextMild

-----------------------------------------------------------------------------
(* Queued work                                                              *)

LEMMA RefreshText ==
    ASSUME AgentInv, TextInv, StartRefresh \/ FinishRefresh
    PROVE  TextInv'
<1>1. agent \in AgentType
  BY AgentTyped
<1>2. UNCHANGED <<field, run, notices>>
  BY DEF StartRefresh, FinishRefresh
<1>3. CASE StartRefresh
  <2>1. agent' = [agent EXCEPT !.refresh = NoRefresh]
    BY <1>3 DEF StartRefresh
  <2>2. Mild(agent', agent)
    BY <1>1, <2>1, UpdateMild, Zenon
  <2>. QED  BY <1>2, <2>2, TextMild
<1>4. CASE FinishRefresh
  <2>1. capturing \in InstallItem /\ agent' = [agent EXCEPT !.work = Append(@, capturing)]
    BY <1>4 DEF FinishRefresh, AgentInv, Surroundings
  <2>2. SameWatch(agent', agent)
    <3>. DEFINE work == Append(agent.work, capturing)
                b    == [agent EXCEPT !.work = work]
    <3>1. agent' = b
      BY <2>1
    <3>. HIDE DEF work
    <3>2. SameWatch(b, agent)
      BY <1>1, SMT DEF AgentType, SameWatch, Asks
    <3>. QED  BY <3>1, <3>2
  <2>3. Covered(agent, run) => Covered(agent', run)
    BY <1>1, <2>1, FinishCovers
  <2>4. Informed' /\ agent.observer => Covered(agent', run')
    BY <1>2, <2>3 DEF TextInv, Informed
  <2>. QED  BY <1>2, <2>2, <2>4, TextKept
<1>. QED  BY <1>3, <1>4

\* Both outcomes of a selection.
LEMMA SelectFutureLayoutText ==
    ASSUME AgentInv, TextInv, NEW a, Good(a), NEW l \in Engine!Layout,
           SameWatch(a, agent), Informed /\ agent.observer => Covered(a, run),
           SelectFutureLayout(a, l), UNCHANGED <<field, run>>
    PROVE  TextInv'
<1>1. os_layout \in Engine!Layout \cup {NoLayout} /\ run \in Nat
      /\ a \in AgentType /\ QueueInv(a)
  BY AgentTyped DEF Good
<1>2. agent' \in {[a EXCEPT !.synced = l, !.ready = TRUE], SelectionFailed(a)}
      /\ notices \subseteq notices'
  BY DEF SelectFutureLayout
<1>3. Mild(agent', a)
  BY <1>1, <1>2, SourceSetMild, SelectionFailedMild, Zenon
<1>4. SameWatch(agent', agent)
  BY <1>3, WatchTransitive, Zenon DEF Mild
<1>5. Covered(a, run) => Covered(agent', run)
  BY <1>1, <1>3, CoveredOn, Zenon DEF Mild
<1>6. Informed' => Informed
  BY <1>2 DEF Informed
<1>7. Informed' /\ agent.observer => Covered(agent', run')
  BY <1>5, <1>6, Zenon
<1>. QED  BY <1>2, <1>4, <1>7, TextKept

LEMMA RestText ==
    ASSUME AgentInv, agent.work # <<>>
    PROVE  /\ Rest \in AgentType /\ QueueInv(Rest) /\ SameWatch(Rest, agent)
           /\ Covered(agent, run) => Covered(Rest, run)
<1>. DEFINE b == [agent EXCEPT !.work = Tail(@)]
<1>1. Rest = b
  BY DEF Rest
<1>2. (Covered(agent, run) => Covered(b, run)) /\ SameWatch(b, agent)
  BY AgentTyped, RestCovers
<1>. HIDE DEF b
<1>3. Rest \in AgentType /\ QueueInv(Rest)
  BY RestGood DEF Good
<1>. QED  BY <1>1, <1>2, <1>3, Zenon

LEMMA RunSelectionText ==
    ASSUME AgentInv, TextInv, RunSelection
    PROVE  TextInv'
<1>. DEFINE item == Head(agent.work)
            own  == item.generation = agent.selection_generation
            p    == Rest.selection_pending /\ ~own
            a    == [Rest EXCEPT !.selection_pending = p]
<1>1. agent \in AgentType /\ agent.work # <<>> /\ run \in Nat /\ Good(Rest)
  BY AgentTyped, RestGood DEF RunSelection
<1>2. item \in Item /\ item = agent.work[1] /\ 1 \in 1..Len(agent.work)
  BY <1>1, WorkTyped
<1>3. item.kind = "select" /\ item \in SelectItem
  BY <1>2, ItemKinds DEF RunSelection
<1>4. UNCHANGED <<field, run>>
  BY DEF RunSelection
<1>5. Rest \in AgentType /\ SameWatch(Rest, agent)
      /\ (Covered(agent, run) => Covered(Rest, run))
  BY <1>1, RestText, Zenon
<1>6. Good(a) /\ SameWatch(a, agent) /\ (Covered(agent, run) => Covered(a, run))
  <2>1. p \in BOOLEAN
    BY Zenon
  <2>. HIDE DEF p
  <2>2. /\ Good(a) /\ a.work = Rest.work /\ a.engine = Rest.engine
        /\ a.toggle = Rest.toggle
        /\ a.selection_generation = Rest.selection_generation
        /\ a.replacement_generation = Rest.replacement_generation
        /\ a.text_generation = Rest.text_generation
    <3>1. /\ Rest.selection_generation = agent.selection_generation
          /\ Rest.replacement_generation = agent.replacement_generation
          /\ Rest.text_generation = agent.text_generation
      BY <1>1, RestGood
    <3>. QED  BY <1>1, <2>1, <3>1, SelectionTaken, Zenon
  <2>3. SameWatch(a, Rest)
    BY <1>5, SMT DEF AgentType, SameWatch, Asks
  <2>. HIDE DEF a
  <2>4. Covered(Rest, run) => Covered(a, run)
    BY <2>2, Zenon DEF Covered, Live
  <2>. QED  BY <1>5, <2>2, <2>3, <2>4, WatchTransitive, Zenon
<1>7. \/ agent' = a /\ UNCHANGED notices
      \/ /\ SelectionIsCurrent(item)
         /\ item.plan # NoPlan
         /\ agent' = IF FocusIsStillValid(a, item.plan.focus)
                     THEN ReplaceLastToken(a, item)
                     ELSE CancelReplacement(a, TRUE)
         /\ UNCHANGED notices
      \/ SelectFutureLayout(a, item.layout)
  BY Zenon DEF RunSelection, p, a, own, item
<1>. HIDE DEF a
<1>8. Informed /\ agent.observer => Covered(a, run)
  BY <1>6, Zenon DEF TextInv
<1>9. CASE agent' = a /\ UNCHANGED notices
  BY <1>4, <1>6, <1>8, <1>9, TextKept DEF Informed
<1>10. CASE /\ SelectionIsCurrent(item)
            /\ item.plan # NoPlan
            /\ agent' = IF FocusIsStillValid(a, item.plan.focus)
                        THEN ReplaceLastToken(a, item)
                        ELSE CancelReplacement(a, TRUE)
            /\ UNCHANGED notices
  <2>1. Covered(agent, run) => item.plan.count <= run
    BY <1>2, <1>3, <1>10 DEF Covered, Live, SelectionIsCurrent
  <2>2. a \in AgentType /\ QueueInv(a) /\ TRUE \in BOOLEAN
    BY <1>6 DEF Good
  <2>3. Mild(CancelReplacement(a, TRUE), a)
    BY <2>2, CancelReplacementMild, Zenon
  <2>4. Covered(a, run) => Covered(CancelReplacement(a, TRUE), run)
    BY <1>1, <2>2, <2>3, CoveredOn, Zenon DEF Mild
  <2>5. /\ SameWatch(ReplaceLastToken(a, item), a)
        /\ Covered(a, run) /\ item.plan.count <= run
           => Covered(ReplaceLastToken(a, item), run)
    <3>1. SameWatch(ReplaceLastToken(a, item), a)
      <4>. DEFINE c    == CancelText(a)
                  g    == c.text_generation + 1
                  work == Append(c.work, [item EXCEPT !.kind = "replace", !.generation = g])
                  b    == [c EXCEPT !.text_generation = g, !.text_pending = TRUE,
                                    !.work = work]
      <4>1. ReplaceLastToken(a, item) = b
        BY DEF ReplaceLastToken
      <4>2. Mild(c, a) /\ c \in AgentType
        BY <2>2, CancelTextMild, MildTransitive, Zenon
      <4>. HIDE DEF c, g, work
      <4>3. SameWatch(b, c)
        BY <4>2, SMT DEF AgentType, SameWatch, Asks
      <4>. HIDE DEF b
      <4>. QED  BY <4>1, <4>2, <4>3, WatchTransitive, Zenon DEF Mild
    <3>. HIDE DEF item
    <3>2. Covered(a, run) /\ item.plan.count <= run
          => Covered(ReplaceLastToken(a, item), run)
      BY <1>1, <1>3, <1>6, ReplaceLastTokenCovers, Zenon
    <3>. QED  BY <3>1, <3>2
  <2>6. SameWatch(agent', agent)
    BY <1>6, <1>10, <2>3, <2>5, WatchTransitive, Zenon DEF Mild
  <2>7. Informed' /\ agent.observer => Covered(agent', run')
    <3>1. Informed' => Informed
      BY <1>10 DEF Informed
    <3>2. Informed /\ agent.observer => Covered(agent, run) /\ Covered(a, run)
      BY <1>6, Zenon DEF TextInv
    <3>3. agent' \in {ReplaceLastToken(a, item), CancelReplacement(a, TRUE)}
      BY <1>10
    <3>. QED  BY <1>4, <2>1, <2>4, <2>5, <3>1, <3>2, <3>3, Zenon
  <2>. QED  BY <1>4, <1>10, <2>6, <2>7, TextKept
<1>11. CASE SelectFutureLayout(a, item.layout)
  <2>1. item.layout \in Engine!Layout
    BY <1>3 DEF SelectItem
  <2>. QED  BY <1>4, <1>6, <1>8, <1>11, <2>1, SelectFutureLayoutText
<1>. QED  BY <1>7, <1>9, <1>10, <1>11

LEMMA RunReplacementText ==
    ASSUME AgentInv, TextInv, RunReplacement
    PROVE  TextInv'
<1>. DEFINE item == Head(agent.work)
            done == [Rest EXCEPT !.text_pending = FALSE]
            t    == IF item.manual
                    THEN [count |-> item.plan.count, focus |-> item.plan.focus]
                    ELSE NoToggle
            next == [done EXCEPT !.toggle = t]
<1>1. agent \in AgentType /\ agent.work # <<>> /\ run \in Nat /\ Good(Rest)
  BY AgentTyped, RestGood DEF RunReplacement
<1>2. item \in Item /\ item = agent.work[1] /\ 1 \in 1..Len(agent.work)
  BY <1>1, WorkTyped
<1>3. item.kind = "replace" /\ item \in ReplaceItem
  BY <1>2, ItemKinds DEF RunReplacement
<1>4. UNCHANGED <<field, run>>
  BY DEF RunReplacement
<1>5. Rest \in AgentType /\ QueueInv(Rest) /\ SameWatch(Rest, agent)
      /\ (Covered(agent, run) => Covered(Rest, run))
  BY <1>1, RestText, Zenon
<1>6. \/ agent' \in {CancelText(Rest), Rest} /\ UNCHANGED notices
      \/ /\ ReplacementIsCurrent(item)
         /\ agent' = done
         /\ UNCHANGED notices
      \/ /\ ReplacementIsCurrent(item)
         /\ SelectFutureLayout(next, item.layout)
  BY Zenon DEF RunReplacement
<1>7. ASSUME ReplacementIsCurrent(item)
      PROVE  /\ Good(done) /\ SameWatch(done, agent)
             /\ Covered(agent, run) => Covered(done, run)
  <2>1. /\ Good(done) /\ done.work = Rest.work /\ done.engine = Rest.engine
        /\ done.toggle = Rest.toggle
        /\ done.selection_generation = Rest.selection_generation
        /\ done.replacement_generation = Rest.replacement_generation
        /\ done.text_generation = Rest.text_generation
    <3>1. /\ Rest.selection_generation = agent.selection_generation
          /\ Rest.replacement_generation = agent.replacement_generation
          /\ Rest.text_generation = agent.text_generation
      BY <1>1, RestGood
    <3>. QED  BY <1>1, <1>3, <1>7, <3>1, ReplacementTaken, Zenon
  <2>2. SameWatch(done, Rest)
    BY <1>5, SMT DEF AgentType, SameWatch, Asks
  <2>. HIDE DEF done
  <2>3. Covered(Rest, run) => Covered(done, run)
    BY <2>1, Zenon DEF Covered, Live
  <2>. QED  BY <1>5, <2>1, <2>2, <2>3, WatchTransitive, Zenon
<1>8. CASE agent' \in {CancelText(Rest), Rest} /\ UNCHANGED notices
  <2>1. Mild(agent', Rest)
    BY <1>5, <1>8, CancelTextMild, MildTransitive, Zenon
  <2>2. Covered(Rest, run) => Covered(agent', run)
    BY <1>1, <1>5, <2>1, CoveredOn, Zenon DEF Mild
  <2>3. SameWatch(agent', agent)
    BY <1>5, <2>1, WatchTransitive, Zenon DEF Mild
  <2>4. Informed' /\ agent.observer => Covered(agent', run')
    BY <1>4, <1>5, <1>8, <2>2 DEF TextInv, Informed
  <2>. QED  BY <1>4, <1>8, <2>3, <2>4, TextKept
<1>9. CASE ReplacementIsCurrent(item) /\ agent' = done /\ UNCHANGED notices
  <2>1. SameWatch(agent', agent) /\ (Covered(agent, run) => Covered(agent', run))
    BY <1>7, <1>9
  <2>2. Informed' /\ agent.observer => Covered(agent', run')
    BY <1>4, <1>9, <2>1 DEF TextInv, Informed
  <2>. QED  BY <1>4, <1>9, <2>1, <2>2, TextKept
<1>10. CASE ReplacementIsCurrent(item) /\ SelectFutureLayout(next, item.layout)
  <2>1. item.layout \in Engine!Layout /\ item.plan \in PlanType
    BY <1>3 DEF ReplaceItem
  <2>2. t \in PlanType \cup {NoToggle}
    <3>1. [count |-> item.plan.count, focus |-> item.plan.focus] \in PlanType
      BY <2>1 DEF PlanType
    <3>. QED  BY <3>1, Zenon
  <2>3. Covered(agent, run) => (t # NoToggle => t.count <= run)
    <3>1. Live(agent, agent.work[1])
      BY <1>2, <1>3, <1>10 DEF Live, ReplacementIsCurrent
    <3>2. Covered(agent, run) => item.plan.count <= run
      BY <1>2, <3>1 DEF Covered
    <3>. QED  BY <3>2
  <2>4. Good(done) /\ done \in AgentType /\ SameWatch(done, agent)
        /\ (Covered(agent, run) => Covered(done, run))
    BY <1>7, <1>10 DEF Good
  <2>5. SelectFutureLayout(next, item.layout)
    BY <1>10
  <2>. HIDE DEF t, done
  <2>6. Good(next)
    BY <2>2, <2>4, UpdateKeeps, FollowsTransitive, FollowsGood, Zenon
  <2>7. /\ next.toggle = t /\ next.engine = done.engine /\ next.work = done.work
        /\ next.selection_generation = done.selection_generation
        /\ next.replacement_generation = done.replacement_generation
        /\ next.text_generation = done.text_generation
        /\ SameWatch(next, done)
    BY <2>4, SMT DEF AgentType, SameWatch, Asks
  <2>. HIDE DEF next
  <2>8. Covered(agent, run) => Covered(next, run)
    BY <2>3, <2>4, <2>7, Zenon DEF Covered, Live
  <2>9. Informed /\ agent.observer => Covered(next, run)
    BY <2>8, Zenon DEF TextInv
  <2>10. SameWatch(next, agent)
    BY <2>4, <2>7, WatchTransitive, Zenon
  <2>. QED  BY <1>4, <2>1, <2>5, <2>6, <2>9, <2>10, SelectFutureLayoutText
<1>. QED  BY <1>6, <1>8, <1>9, <1>10

\* A degraded application loses its observer.
LEMMA DegradeWatches ==
    ASSUME NEW a \in AgentType, NEW item \in InstallItem
    PROVE  LET b == Degrade(a, item) IN
           /\ b.observer = FALSE
           /\ b.frontmost = a.frontmost
           /\ b.accessibility_generation = a.accessibility_generation + 1
           /\ b.recovery = IF Disabled(b.snapshot) THEN NoTimer
                           ELSE b.accessibility_generation
<1>. DEFINE d == [a EXCEPT !.degraded_app = item.app]
            t == TeardownObserver(d)
            b == InstallBase(t)
            n == IF Disabled(b.snapshot) THEN NoTimer ELSE b.accessibility_generation
            r == [b EXCEPT !.recovery = n]
<1>1. Degrade(a, item) = r
  BY Zenon DEF Degrade
<1>2. /\ d \in AgentType /\ d.frontmost = a.frontmost
      /\ d.accessibility_generation = a.accessibility_generation
  <2>1. item.app \in Apps
    BY DEF InstallItem
  <2>2. d \in AgentType
    BY <2>1, Zenon DEF AgentType
  <2>. QED  BY <2>2, SMT DEF AgentType
<1>. HIDE DEF d
<1>3. /\ t \in AgentType /\ t.frontmost = a.frontmost /\ t.observer = FALSE
      /\ t.accessibility_generation = a.accessibility_generation + 1
  BY <1>2, TeardownObserverGentle, MildTransitive, Zenon
<1>. HIDE DEF t
<1>4. /\ b \in AgentType /\ b.frontmost = a.frontmost /\ b.observer = FALSE
      /\ b.accessibility_generation = a.accessibility_generation + 1
  BY <1>3, InstallBaseMild, MildTransitive, Zenon DEF Mild, SameWatch
<1>5. n = IF Disabled(b.snapshot) THEN NoTimer ELSE b.accessibility_generation
  OBVIOUS
<1>. HIDE DEF b, n
<1>6. /\ r.observer = b.observer /\ r.frontmost = b.frontmost
      /\ r.accessibility_generation = b.accessibility_generation
      /\ r.recovery = n /\ r.snapshot = b.snapshot
  BY <1>4, SMT DEF AgentType
<1>. HIDE DEF r
<1>. QED  BY <1>1, <1>4, <1>5, <1>6, Zenon

LEMMA RunInstallText ==
    ASSUME AgentInv, TextInv, RunInstall, Watched'
    PROVE  TextInv'
<1>. DEFINE item == Head(agent.work)
<1>1. /\ agent.work # <<>> /\ run \in Nat
      /\ agent.accessibility_generation \in Nat
  BY AgentTyped DEF RunInstall
<1>2. /\ Rest \in AgentType /\ QueueInv(Rest) /\ SameWatch(Rest, agent)
      /\ Covered(agent, run) => Covered(Rest, run)
  BY <1>1, RestText
<1>3. item \in InstallItem
  BY <1>1, RestGood, ItemKinds DEF RunInstall
<1>4. UNCHANGED <<field, run>>
  BY DEF RunInstall
<1>5. \/ agent' = Rest /\ UNCHANGED notices
      \/ agent' = InstallContext(Rest, item.policy, item.app, item.field)
         /\ UNCHANGED notices
      \/ agent' = Degrade(Rest, item) /\ notices' = notices \ {"focus"}
  BY DEF RunInstall
<1>. HIDE DEF item
<1>6. CASE \/ agent' = Rest /\ UNCHANGED notices
           \/ agent' = InstallContext(Rest, item.policy, item.app, item.field)
              /\ UNCHANGED notices
  <2>1. /\ item.policy \in Policy /\ item.app \in Apps
        /\ item.field \in Field \cup {NoField}
    BY <1>3 DEF InstallItem
  <2>2. Mild(agent', Rest)
    <3>1. Mild(InstallContext(Rest, item.policy, item.app, item.field), Rest)
      BY <1>2, <2>1, InstallContextMild
    <3>2. Mild(Rest, Rest)
      BY <1>2, MildTransitive
    <3>. QED  BY <1>6, <3>1, <3>2, Zenon
  <2>3. Covered(Rest, run) => Covered(agent', run)
    BY <1>1, <1>2, <2>2, CoveredOn, Zenon DEF Mild
  <2>4. SameWatch(agent', agent)
    BY <1>2, <2>2, WatchTransitive, Zenon DEF Mild
  <2>5. notices' = notices
    BY <1>6
  <2>6. Informed' /\ agent.observer => Covered(agent', run')
    BY <1>2, <1>4, <2>3, <2>5 DEF TextInv, Informed
  <2>. QED  BY <1>4, <2>4, <2>5, <2>6, TextKept
<1>7. CASE agent' = Degrade(Rest, item) /\ notices' = notices \ {"focus"}
  <2>1. /\ agent'.observer = FALSE /\ agent'.frontmost = agent.frontmost
        /\ agent'.accessibility_generation = agent.accessibility_generation + 1
        /\ agent'.recovery = IF Disabled(agent'.snapshot) THEN NoTimer
                             ELSE agent'.accessibility_generation
    BY <1>2, <1>3, <1>7, DegradeWatches, Zenon DEF SameWatch
  <2>2. agent'.accessibility_generation \in Nat
    BY <1>1, <2>1
  <2>3. agent'.recovery # NoTimer => agent'.recovery <= agent'.accessibility_generation
    BY <2>1, <2>2
  <2>4. "app" \notin notices' =>
           /\ agent'.frontmost = AppOf(field')
           /\ agent'.recovery # agent'.accessibility_generation
    <3>. SUFFICES ASSUME "app" \notin notices'
                  PROVE  /\ agent'.frontmost = AppOf(field')
                         /\ agent'.recovery # agent'.accessibility_generation
      OBVIOUS
    <3>1. "app" \notin notices
      BY <1>7
    <3>2. agent'.frontmost = AppOf(field')
      BY <1>4, <2>1, <3>1 DEF TextInv
    <3>3. agent'.recovery = NoTimer
      BY <2>1 DEF Watched
    <3>. QED  BY <2>2, <3>2, <3>3, SurfaceAssumption
  <2>. QED  BY <2>1, <2>3, <2>4 DEF TextInv
<1>. QED  BY <1>5, <1>6, <1>7

\* While no activation is on its way, the timer has nothing to attach.
LEMMA BackoffText ==
    ASSUME AgentInv, TextInv, BackoffExpires
    PROVE  TextInv'
<1>. DEFINE a == [agent EXCEPT !.degraded_app = NoApp, !.recovery = NoTimer]
            b == InstallBase(a)
<1>1. /\ agent \in AgentType /\ QueueInv(agent) /\ run \in Nat
      /\ agent.accessibility_generation \in Nat
  BY AgentTyped
<1>2. UNCHANGED <<field, run, notices>>
  BY DEF BackoffExpires
<1>3. \/ /\ agent.recovery = agent.accessibility_generation
         /\ \E attachable \in ObserverOutcomes :
               agent' = RequestRefresh(ConfigureObserver(b, attachable))
      \/ agent' = a
  BY Zenon DEF BackoffExpires
<1>4. /\ a \in AgentType /\ a.recovery = NoTimer
      /\ a.accessibility_generation = agent.accessibility_generation
      /\ a.frontmost = agent.frontmost /\ a.observer = agent.observer
      /\ a.engine = agent.engine /\ a.toggle = agent.toggle /\ a.work = agent.work
      /\ a.selection_generation = agent.selection_generation
      /\ a.replacement_generation = agent.replacement_generation
      /\ a.text_generation = agent.text_generation
  <2>1. a \in AgentType
    BY <1>1, Zenon DEF AgentType
  <2>2. /\ a.recovery = NoTimer
        /\ a.accessibility_generation = agent.accessibility_generation
        /\ a.frontmost = agent.frontmost /\ a.observer = agent.observer
        /\ a.engine = agent.engine /\ a.toggle = agent.toggle /\ a.work = agent.work
        /\ a.selection_generation = agent.selection_generation
        /\ a.replacement_generation = agent.replacement_generation
        /\ a.text_generation = agent.text_generation
    BY <1>1, SMT DEF AgentType
  <2>. QED  BY <2>1, <2>2
<1>. HIDE DEF a
<1>5. CASE agent' = a
  <2>1. Covered(agent, run) => Covered(agent', run')
    BY <1>2, <1>4, <1>5, Zenon DEF Covered, Live
  <2>2. agent'.recovery # agent'.accessibility_generation
    BY <1>1, <1>4, <1>5, SurfaceAssumption
  <2>3. agent'.recovery = NoTimer /\ agent'.frontmost = agent.frontmost
        /\ agent'.observer = agent.observer /\ Informed' = Informed
    BY <1>2, <1>4, <1>5 DEF Informed
  <2>. QED  BY <1>2, <2>1, <2>2, <2>3 DEF TextInv
<1>6. CASE /\ agent.recovery = agent.accessibility_generation
           /\ \E attachable \in ObserverOutcomes :
                 agent' = RequestRefresh(ConfigureObserver(b, attachable))
  <2>1. "app" \in notices'
    BY <1>2, <1>6 DEF TextInv
  <2>2. PICK attachable \in ObserverOutcomes :
           agent' = RequestRefresh(ConfigureObserver(b, attachable))
    BY <1>6
  <2>3. attachable \in BOOLEAN
    BY SurfaceAssumption
  <2>4. b \in AgentType /\ b.recovery = NoTimer
    BY <1>4, InstallBaseMild, MildTransitive, Zenon DEF Mild, SameWatch
  <2>. HIDE DEF b
  <2>. DEFINE c == ConfigureObserver(b, attachable)
  <2>5. c \in AgentType /\ c.recovery = NoTimer
    BY <2>3, <2>4, ConfigureObserverGentle, MildTransitive, Zenon
  <2>6. agent' = RequestRefresh(c)
    BY <2>2
  <2>. HIDE DEF c
  <2>7. agent'.recovery = NoTimer
    BY <2>5, <2>6, RequestRefreshMild, Zenon DEF Mild, SameWatch
  <2>. QED  BY <2>1, <2>7 DEF TextInv, Informed
<1>. QED  BY <1>3, <1>5, <1>6

LEMMA TextInvStep == AgentInv /\ TextInv /\ Watched' /\ [Next]_vars => TextInv'
<1>. SUFFICES ASSUME AgentInv, TextInv, Watched', [Next]_vars PROVE TextInv'
  OBVIOUS
<1>1. ASSUME NEW key \in Key, ProcessKey(key) PROVE TextInv'
  BY <1>1, ProcessKeyText
<1>2. CASE OtherModifierChanges
  BY <1>2, ModifierText
<1>3. ASSUME NEW chord \in BOOLEAN, OptionDown(chord) \/ OptionUp(chord) PROVE TextInv'
  BY <1>3, ModifierText, OptionUpText
<1>4. ASSUME NEW f \in InSameApp, MouseDown(f) \/ FocusMoves(f) PROVE TextInv'
  BY <1>4, MouseDownText, FocusMovesText
<1>5. ASSUME NEW f \in Field, AppActivates(f) PROVE TextInv'
  BY <1>5, AppActivatesText
<1>6. ASSUME NEW l \in Engine!Layout \cup {NoLayout}, InputSourceChanges(l) PROVE TextInv'
  BY <1>6, SourceText
<1>7. CASE Deliver
  BY <1>7, DeliverFocusText, DeliverAppText, SourceText DEF Deliver
<1>8. CASE StartRefresh \/ FinishRefresh
  BY <1>8, RefreshText
<1>9. CASE RunWork
  BY <1>9, RunSelectionText, RunReplacementText, RunInstallText DEF RunWork
<1>10. CASE BackoffExpires
  BY <1>10, BackoffText
<1>11. CASE UNCHANGED vars
  BY <1>11 DEF vars, TextInv, Informed
<1>. QED  BY <1>1, <1>2, <1>3, <1>4, <1>5, <1>6, <1>7, <1>8, <1>9, <1>10, <1>11 DEF Next

LEMMA TextInvInit == Init => TextInv
<1>. SUFFICES ASSUME Init PROVE TextInv
  OBVIOUS
<1>. DEFINE b == InstallBase(Start)
<1>1. PICK attachable \in ObserverOutcomes :
         agent = RequestRefresh(ConfigureObserver(b, attachable))
  BY DEF Init
<1>2. attachable \in BOOLEAN
  BY SurfaceAssumption
<1>3. Start \in AgentType
  BY StartTyped
<1>4. /\ Start.work = <<>> /\ Start.toggle = NoToggle /\ Start.engine.token_len = 0
      /\ Start.frontmost = AppOf(FirstField) /\ Start.recovery = NoTimer
  BY DEF Start, Engine!NewEngine
<1>5. QueueInv(Start) /\ Unarmed(Start)
  BY <1>4 DEF QueueInv, Unarmed
<1>6. Mild(b, Start) /\ b \in AgentType
  BY <1>3, InstallBaseMild, MildTransitive, Zenon
<1>. HIDE DEF b
<1>. DEFINE c == ConfigureObserver(b, attachable)
<1>7. Gentle(c, b) /\ c \in AgentType /\ c.frontmost = b.frontmost /\ c.recovery = b.recovery
  BY <1>2, <1>6, ConfigureObserverGentle, MildTransitive, Zenon
<1>8. agent = RequestRefresh(c)
  BY <1>1
<1>. HIDE DEF c
<1>9. Mild(agent, c) /\ agent \in AgentType
  BY <1>7, <1>8, RequestRefreshMild, MildTransitive, Zenon
<1>10. Gentle(agent, Start)
  <2>1. Gentle(agent, b)
    BY <1>6, <1>7, <1>9, MildTransitive, Zenon
  <2>. QED  BY <1>3, <1>6, <2>1, MildTransitive, Zenon
<1>11. Unarmed(agent) /\ agent.engine.token_len = 0
  BY <1>3, <1>4, <1>5, <1>10, UnarmedZero, Zenon
<1>12. field = FirstField /\ run = 0
  BY DEF Init
<1>13. Covered(agent, run)
  <2>1. agent.engine.token_len <= run
    BY <1>11, <1>12
  <2>. QED  BY <1>11, <2>1, UnarmedCovered
<1>14. agent.frontmost = AppOf(field) /\ agent.recovery = NoTimer
  BY <1>4, <1>6, <1>7, <1>9, <1>12, Zenon DEF Mild, SameWatch
<1>15. agent.accessibility_generation \in Nat
  BY <1>9 DEF AgentType
<1>. QED  BY <1>13, <1>14, <1>15, SurfaceAssumption DEF TextInv

\* Where nothing is processed there is no token and no valid focus.
LEMMA TextInvSuffices == AgentInv /\ TextInv /\ Watched => OnlyTypedTextIsReplaced
<1>. SUFFICES ASSUME AgentInv, TextInv, Watched, Informed
              PROVE  /\ agent.engine.token_len <= run
                     /\ agent.toggle # NoToggle =>
                           \/ agent.toggle.count <= run
                           \/ ~FocusIsStillValid(agent, agent.toggle.focus)
                     /\ \A i \in 1..Len(agent.work) :
                           WillReplace(agent.work[i]) => agent.work[i].plan.count <= run
  BY DEF OnlyTypedTextIsReplaced
<1>1. CASE agent.observer
  <2>1. Covered(agent, run)
    BY <1>1 DEF TextInv
  <2>2. \A i \in 1..Len(agent.work) : WillReplace(agent.work[i]) => Live(agent, agent.work[i])
    BY Zenon DEF WillReplace, Live, SelectionIsCurrent, ReplacementIsCurrent
  <2>. QED  BY <2>1, <2>2, Zenon DEF Covered
<1>2. CASE ~agent.observer
  <2>1. Disabled(agent.snapshot)
    BY <1>2 DEF Watched, Informed
  <2>2. agent.engine.token_len = 0 /\ run \in Nat
    BY <2>1, AgentTyped, DisabledHoldsNothing
  <2>3. \A f : ~FocusIsStillValid(agent, f)
    BY <2>1 DEF FocusIsStillValid
  <2>. QED  BY <2>2, <2>3 DEF WillReplace, ReplacementIsCurrent
<1>. QED  BY <1>1, <1>2

\* Whatever keys, clicks, focus changes and slow refreshes come between a
\* decision and its replacement, what the agent deletes was typed in one piece
\* before the caret (processKey, completeInputSourceSelection,
\* replaceLastToken), as long as text is processed only where an observer
\* tells of the focus: an application where none can be attached, or which has
\* lost it to the backoff, is the one exception.
THEOREM WatchedTextIsTyped == Spec /\ []Watched => []OnlyTypedTextIsReplaced
<1>1. Spec /\ []Watched => []TextInv
  BY TextInvInit, TextInvStep, AgentInvariance, PTL DEF Spec
<1>. QED  BY <1>1, TextInvSuffices, AgentInvariance, PTL

-----------------------------------------------------------------------------
(* Where nobody watches                                                     *)

\* Neither the cached policy nor one from facts of the application alone lets
\* text be processed.
Dark(a) == Disabled(a.snapshot) /\ Disabled(BaseSnapshot(a))

\* No refresh that is queued to be installed is younger than generation g.
InstallsUpTo(a, g) ==
    \A i \in 1..Len(a.work) : a.work[i].kind = "install" => a.work[i].generation <= g

\* A method that leaves the watch alone lights nothing and queues no refresh.
Calm(b, a) ==
    /\ Good(b)
    /\ SameWatch(b, a)
    /\ Dark(a) => Dark(b)
    /\ \A g \in Int : InstallsUpTo(a, g) => InstallsUpTo(b, g)

LEMMA CalmTransitive ==
    ASSUME NEW a, NEW b, NEW c
    PROVE  /\ Good(a) => Calm(a, a)
           /\ Calm(b, a) /\ Calm(c, b) => Calm(c, a)
  BY WatchTransitive, Zenon DEF Calm

LEMMA CalmWhen ==
    ASSUME NEW a, NEW b, Good(b), SameWatch(b, a), b.work = a.work,
           b.snapshot \in {a.snapshot, "unknown", BaseSnapshot(a)}
    PROVE  Calm(b, a)
<1>1. BaseSnapshot(b) = BaseSnapshot(a)
  BY DEF SameWatch, BaseSnapshot
<1>2. Disabled("unknown")
  BY DEF Disabled
<1>3. Dark(a) => Dark(b)
  BY <1>1, <1>2, Zenon DEF Dark
<1>. QED  BY <1>3, Zenon DEF Calm, InstallsUpTo

\* The methods of Mild, as far as they leave the policy or forget it.
LEMMA CalmMild ==
    ASSUME NEW a, Good(a), NEW b, Mild(b, a), Follows(b, a),
           b.snapshot \in {a.snapshot, "unknown", BaseSnapshot(a)}
    PROVE  Calm(b, a)
<1>1. Good(b) /\ SameWatch(b, a) /\ b.work = a.work
  BY FollowsGood, Zenon DEF Mild, Gentle, Lapses
<1>. QED  BY <1>1, CalmWhen

LEMMA CalmKeeps ==
    ASSUME NEW a, Good(a), NEW b, Mild(b, a), Keeps(b, a)
    PROVE  Calm(b, a)
<1>1. b.snapshot = a.snapshot /\ a \in AgentType
  BY DEF Keeps, SamePolicy, Good
<1>2. Follows(b, a)
  BY <1>1, FollowsTransitive, Zenon
<1>. QED  BY <1>1, <1>2, CalmMild

LEMMA MethodsCalm ==
    ASSUME NEW a, Good(a)
    PROVE  /\ \A clears \in BOOLEAN : Calm(CancelReplacement(a, clears), a)
           /\ Calm(CancelText(a), a)
           /\ Calm(CancelManualSwitch(a), a)
           /\ Calm(ResetManualSwitch(a), a)
           /\ Calm([a EXCEPT !.toggle = NoToggle], a)
           /\ \A o \in {"up", "armed", "cancelled"} : Calm([a EXCEPT !.option = o], a)
           /\ Calm(EngineReset(a), a)
           /\ Calm(RequestRefresh(a), a)
<1>1. a \in AgentType
  BY DEF Good
<1>2. \A clears \in BOOLEAN : Calm(CancelReplacement(a, clears), a)
  BY <1>1, CancelReplacementMild, CancelReplacementKeeps, CalmKeeps, Zenon
<1>3. Calm(CancelText(a), a)
  BY <1>1, CancelTextMild, CancelTextKeeps, CalmKeeps, Zenon
<1>4. Calm(CancelManualSwitch(a), a) /\ Calm(ResetManualSwitch(a), a)
  BY <1>1, ManualSwitchMild, CancelManualSwitchKeeps, CalmKeeps, Zenon
<1>5. Calm([a EXCEPT !.toggle = NoToggle], a)
  BY <1>1, UpdateMild, UpdateKeeps, CalmKeeps, Zenon
<1>6. \A o \in {"up", "armed", "cancelled"} : Calm([a EXCEPT !.option = o], a)
  BY <1>1, UpdateMild, UpdateKeeps, CalmKeeps, Zenon
<1>7. Calm(EngineReset(a), a)
  BY <1>1, EngineResetMild, EngineResetKeeps, CalmKeeps, Zenon
<1>8. Calm(RequestRefresh(a), a)
  BY <1>1, RequestRefreshMild, RequestRefreshKeeps, CalmKeeps, Zenon
<1>. QED  BY <1>2, <1>3, <1>4, <1>5, <1>6, <1>7, <1>8

\* The policy is forgotten, and asked for again where there is an observer.
LEMMA InvalidateCalm ==
    ASSUME NEW a, Good(a)
    PROVE  Calm(RequestRefresh(InvalidateContext(a)), a)
<1>. DEFINE i == InvalidateContext(a)
<1>1. a \in AgentType /\ QueueInv(a)
  BY DEF Good
<1>2. Mild(i, a) /\ i.snapshot = "unknown" /\ Follows(i, a)
  BY <1>1, InvalidateContextUnarms, InvalidateContextObeys, FollowsTransitive, Zenon
<1>. HIDE DEF i
<1>3. Calm(i, a)
  BY <1>2, CalmMild
<1>4. Calm(RequestRefresh(i), i)
  BY <1>3, MethodsCalm, Zenon DEF Calm
<1>5. Calm(RequestRefresh(i), a)
  BY <1>3, <1>4, CalmTransitive, Zenon
<1>. QED  BY <1>5 DEF i

LEMMA CheckContextCalm ==
    ASSUME NEW a, Good(a)
    PROVE  Calm(CheckContext(a), a)
<1>1. a \in AgentType
  BY DEF Good
<1>2. Calm(InstallBase(a), a)
  <2>1. Follows(InstallBase(a), a)
    BY <1>1, InstallBaseObeys, FollowsTransitive, Zenon
  <2>. QED  BY <1>1, <2>1, InstallBaseMild, CalmMild, Zenon
<1>3. Calm(EngineReset(a), a) /\ Calm(a, a)
  BY MethodsCalm, CalmTransitive, Zenon
<1>. QED  BY <1>2, <1>3, InvalidateCalm, Zenon DEF CheckContext

LEMMA HandlePotentialFocusChangeCalm ==
    ASSUME NEW a, Good(a)
    PROVE  Calm(HandlePotentialFocusChange(a), a)
<1>. DEFINE r == ResetManualSwitch(a)
            c == [r EXCEPT !.toggle = NoToggle]
<1>1. HandlePotentialFocusChange(a)
         = IF c.observer THEN RequestRefresh(InvalidateContext(c)) ELSE c
  BY DEF HandlePotentialFocusChange
<1>2. Calm(r, a)
  BY MethodsCalm, Zenon
<1>. HIDE DEF r
<1>3. Calm(c, r)
  BY <1>2, MethodsCalm, Zenon DEF Calm
<1>. HIDE DEF c
<1>4. Calm(RequestRefresh(InvalidateContext(c)), c)
  BY <1>3, InvalidateCalm, Zenon DEF Calm
<1>5. Calm(c, a)
  BY <1>2, <1>3, CalmTransitive, Zenon
<1>6. Calm(RequestRefresh(InvalidateContext(c)), a)
  BY <1>4, <1>5, CalmTransitive, Zenon
<1>. QED  BY <1>1, <1>5, <1>6, Zenon

\* A decision queues a selection, whose item is no refresh.
LEMMA AppendCalm ==
    ASSUME NEW a \in AgentType, NEW item, item.kind # "install",
           NEW b, Good(b), SameWatch(b, a), b.snapshot = a.snapshot,
           b.work = Append(a.work, item)
    PROVE  Calm(b, a)
<1>1. /\ Len(b.work) = Len(a.work) + 1
      /\ \A i \in 1..Len(b.work) :
            \/ b.work[i] = item
            \/ i \in 1..Len(a.work) /\ b.work[i] = a.work[i]
  BY WorkTyped
<1>2. \A g \in Int : InstallsUpTo(a, g) => InstallsUpTo(b, g)
  BY <1>1, Zenon DEF InstallsUpTo
<1>3. BaseSnapshot(b) = BaseSnapshot(a)
  BY DEF SameWatch, BaseSnapshot
<1>. QED  BY <1>2, <1>3, Zenon DEF Calm, Dark

LEMMA ApplyCalm ==
    ASSUME NEW a, Good(a), ~a.text_pending, NEW manual \in BOOLEAN
    PROVE  Calm(Apply(a, manual), a)
<1>. DEFINE plan == PlanFor(a, manual)
            en   == Engine!TakePendingReplacement(a.engine)
            t    == IF manual /\ plan = NoPlan THEN NoToggle ELSE a.toggle
            g    == a.selection_generation + 1
            item == [kind |-> "select", layout |-> a.engine.action.layout,
                     manual |-> manual, plan |-> plan,
                     replacement |-> a.replacement_generation, generation |-> g]
            work == Append(a.work, item)
            b    == [a EXCEPT !.engine = en, !.toggle = t,
                              !.selection_generation = g,
                              !.selection_pending = TRUE, !.work = work]
<1>1. Apply(a, manual) = IF a.engine.action.tag # "SwitchFutureLayout" THEN a ELSE b
  BY DEF Apply
<1>2. a \in AgentType
  BY DEF Good
<1>3. item.kind # "install" /\ work = Append(a.work, item)
  OBVIOUS
<1>. HIDE DEF plan, en, t, g, item, work
<1>4. b.snapshot = a.snapshot /\ b.work = work
  BY <1>2, SMT DEF AgentType
<1>. HIDE DEF b
<1>5. Good(Apply(a, manual)) /\ SameWatch(Apply(a, manual), a)
  BY <1>2, ApplyGood, ApplyWatches, Zenon
<1>6. Calm(a, a)
  BY CalmTransitive, Zenon
<1>7. CASE Apply(a, manual) = b
  <2>1. Good(b) /\ SameWatch(b, a)
    BY <1>5, <1>7
  <2>2. Calm(b, a)
    BY <1>2, <1>3, <1>4, <2>1, AppendCalm, Zenon
  <2>. QED  BY <1>7, <2>2
<1>. QED  BY <1>1, <1>6, <1>7, Zenon

LEMMA ReplaceLastTokenCalm ==
    ASSUME NEW a, Good(a), NEW item \in SelectItem, item.plan # NoPlan,
           \A i \in 1..Len(a.work) :
              a.work[i].kind = "select" =>
                 a.work[i].generation # a.selection_generation
    PROVE  Calm(ReplaceLastToken(a, item), a)
<1>. DEFINE c    == CancelText(a)
            g    == c.text_generation + 1
            next == [item EXCEPT !.kind = "replace", !.generation = g]
            work == Append(c.work, next)
            b    == [c EXCEPT !.text_generation = g, !.text_pending = TRUE,
                              !.work = work]
<1>1. ReplaceLastToken(a, item) = b
  BY DEF ReplaceLastToken
<1>2. Good(ReplaceLastToken(a, item))
  BY ReplaceLastTokenGood, Zenon
<1>3. Calm(c, a)
  BY MethodsCalm
<1>. HIDE DEF c, g
<1>4. next.kind # "install" /\ work = Append(c.work, next)
  <2>1. next.kind = "replace"
    BY SMT DEF SelectItem
  <2>. QED  BY <2>1
<1>. HIDE DEF next, work
<1>5. c \in AgentType
  BY <1>3 DEF Calm, Good
<1>6. SameWatch(b, c) /\ b.snapshot = c.snapshot /\ b.work = work
  BY <1>5, SMT DEF AgentType, SameWatch, Asks
<1>. HIDE DEF b
<1>7. Calm(b, c)
  BY <1>1, <1>2, <1>4, <1>5, <1>6, AppendCalm, Zenon
<1>. QED  BY <1>1, <1>3, <1>7, CalmTransitive, Zenon

LEMMA RestCalm ==
    ASSUME AgentInv, agent.work # <<>>
    PROVE  Calm(Rest, agent)
<1>. DEFINE tail == Tail(agent.work)
            b    == [agent EXCEPT !.work = tail]
<1>1. Rest = b
  BY DEF Rest
<1>2. agent \in AgentType /\ agent.work \in Seq(Item)
  BY AgentTyped, WorkTyped
<1>3. Len(tail) = Len(agent.work) - 1
      /\ \A i \in 1..Len(tail) : tail[i] = agent.work[i + 1] /\ i + 1 \in 1..Len(agent.work)
  BY <1>2
<1>. HIDE DEF tail
<1>4. b.work = tail /\ b.snapshot = agent.snapshot /\ b.frontmost = agent.frontmost
  BY <1>2, SMT DEF AgentType
<1>. HIDE DEF b
<1>5. Good(Rest) /\ SameWatch(Rest, agent)
  BY RestGood, RestText, Zenon
<1>6. \A g \in Int : InstallsUpTo(agent, g) => InstallsUpTo(b, g)
  BY <1>3, <1>4, Zenon DEF InstallsUpTo
<1>7. Dark(agent) => Dark(b)
  BY <1>4, Zenon DEF Dark, BaseSnapshot
<1>. QED  BY <1>1, <1>5, <1>6, <1>7, Zenon DEF Calm

LEMMA SyncLayoutCalm ==
    ASSUME NEW a, Good(a), NEW l \in Engine!Layout \cup {NoLayout}
    PROVE  Calm(SyncLayout(a, l), a)
<1>1. a \in AgentType
  BY DEF Good
<1>2. /\ Good(SyncLayout(a, l))
      /\ SyncLayout(a, l).snapshot = a.snapshot
      /\ SyncLayout(a, l).work = a.work
  BY <1>1, SyncLayoutGood, SyncLayoutKnows, Zenon DEF SamePolicy, Lapses
<1>3. SameWatch(SyncLayout(a, l), a)
  BY <1>1, SyncLayoutMild, Zenon DEF Mild
<1>. QED  BY <1>2, <1>3, CalmWhen, Zenon

\* Both outcomes of a selection.
LEMMA SelectFutureLayoutCalm ==
    ASSUME AgentInv, NEW a, Good(a), NEW l \in Engine!Layout,
           SelectFutureLayout(a, l)
    PROVE  Calm(agent', a) /\ notices \subseteq notices'
<1>1. a \in AgentType /\ os_layout \in Engine!Layout \cup {NoLayout}
      /\ NoLayout \in Engine!Layout \cup {NoLayout} /\ TRUE \in BOOLEAN
  BY AgentTyped DEF Good
<1>2. Calm([a EXCEPT !.synced = l, !.ready = TRUE], a)
  <2>. DEFINE b == [a EXCEPT !.synced = l, !.ready = TRUE]
  <2>1. Good(b) /\ SameWatch(b, a)
    BY <1>1, SourceSet, SourceSetMild, Zenon DEF Mild
  <2>2. b.work = a.work /\ b.snapshot = a.snapshot
    BY <1>1, SMT DEF AgentType
  <2>. HIDE DEF b
  <2>3. Calm(b, a)
    BY <2>1, <2>2, CalmWhen, Zenon
  <2>. QED  BY <2>3 DEF b
<1>3. Calm(SelectionFailed(a), a)
  <2>. DEFINE b == [a EXCEPT !.synced = NoLayout]
              c == SyncLayout(b, os_layout)
  <2>1. Good(b) /\ SameWatch(b, a)
    BY <1>1, SourceSet, SourceSetMild, Zenon DEF Mild
  <2>2. b.work = a.work /\ b.snapshot = a.snapshot
    BY <1>1, SMT DEF AgentType
  <2>3. SelectionFailed(a) = CancelReplacement(c, TRUE)
    BY DEF SelectionFailed
  <2>. HIDE DEF b
  <2>4. Calm(b, a)
    BY <2>1, <2>2, CalmWhen, Zenon
  <2>5. Calm(c, b)
    BY <1>1, <2>1, SyncLayoutCalm
  <2>. HIDE DEF c
  <2>6. Calm(CancelReplacement(c, TRUE), c)
    BY <1>1, <2>5, MethodsCalm, Zenon DEF Calm
  <2>7. Calm(CancelReplacement(c, TRUE), b)
    BY <2>5, <2>6, CalmTransitive, Zenon
  <2>. QED  BY <2>3, <2>4, <2>7, CalmTransitive, Zenon
<1>. QED  BY <1>2, <1>3, Zenon DEF SelectFutureLayout

-----------------------------------------------------------------------------
(* Who watches                                                              *)

\* Observers can be attached, and no refresh degrades them.
Attended == ObserverOutcomes = {TRUE} /\ "degraded" \notin RefreshOutcomes

\* Of a run: where the agent is told of the application in front and could
\* attach no observer, because the focus is in a password field, no step takes
\* the focus from there to a field of that application that may be processed.
SecureFocusStays ==
    /\ "app" \notin notices /\ ~agent.observer
    /\ IsSecure /\ ~Disabled(BasePolicy(AppOf(field)))
    /\ AppOf(field') = AppOf(field)
    => IsSecure'

\* The youngest generation a refresh can be of: none is asked for without an
\* observer.
Latest(a) == IF a.observer THEN a.accessibility_generation
                           ELSE a.accessibility_generation - 1

RefreshesInBounds ==
    /\ agent.refresh # NoRefresh => agent.refresh.generation <= Latest(agent)
    /\ capturing # NoRefresh => capturing.generation <= Latest(agent)
    /\ InstallsUpTo(agent, Latest(agent))

\* Between activations the agent is about the application in front, and has an
\* observer there unless nothing is processed.
WatchInv ==
    /\ agent.degraded_app = NoApp
    /\ RefreshesInBounds
    /\ "app" \notin notices => /\ agent.frontmost = AppOf(field)
                               /\ agent.observer \/ Dark(agent)

LEMMA InstallsLater ==
    ASSUME NEW a \in AgentType, NEW g \in Int, NEW h \in Int, g <= h,
           InstallsUpTo(a, g)
    PROVE  InstallsUpTo(a, h)
<1>. SUFFICES ASSUME NEW i \in 1..Len(a.work), a.work[i].kind = "install"
              PROVE  a.work[i].generation <= h
  BY DEF InstallsUpTo
<1>1. a.work[i] \in InstallItem
  BY WorkTyped, ItemKinds
<1>2. a.work[i].generation \in Nat
  BY <1>1 DEF InstallItem
<1>. QED  BY <1>2 DEF InstallsUpTo

LEMMA LatestTyped ==
    ASSUME NEW a \in AgentType
    PROVE  /\ a.accessibility_generation \in Nat /\ Latest(a) \in Int
           /\ a.refresh # NoRefresh => a.refresh.generation \in Nat
  BY DEF AgentType, Latest

\* Within an application without an observer, secure input does not come and go
\* where something is processed.
LEMMA DarkApplication ==
    ASSUME SecureFocusStays, "app" \notin notices, ~agent.observer, field \in Field, field' \in Field, AppOf(field') = AppOf(field),
           NEW a, a.frontmost = AppOf(field), Dark(a)
    PROVE  Disabled(IF FieldPolicy(field') = "secure" THEN "secure"
                                                      ELSE BasePolicy(a.frontmost))
<1>1. Disabled("secure")
  BY DEF Disabled
<1>2. CASE IsSecure
  <2>1. \/ Disabled(BasePolicy(AppOf(field)))
        \/ FieldPolicy(field') = "secure"
    BY <1>2 DEF SecureFocusStays, IsSecure
  <2>. QED  BY <1>1, <2>1 DEF Dark
<1>3. CASE ~IsSecure
  BY <1>1, <1>3 DEF Dark, BaseSnapshot
<1>. QED  BY <1>2, <1>3

\* The refreshes stay in bounds when the watch is left alone.
LEMMA BoundsKept ==
    ASSUME AgentInv, RefreshesInBounds, SameWatch(agent', agent),
           \A g \in Int : InstallsUpTo(agent, g) => InstallsUpTo(agent', g),
           UNCHANGED capturing
    PROVE  RefreshesInBounds'
<1>1. Latest(agent') = Latest(agent)
  BY DEF SameWatch, Latest
<1>2. agent \in AgentType
  BY AgentTyped
<1>3. Latest(agent) \in Int
  BY <1>2, LatestTyped
<1>4. InstallsUpTo(agent', Latest(agent'))
  BY <1>1, <1>3 DEF RefreshesInBounds
<1>5. agent'.refresh # NoRefresh => agent'.refresh.generation <= Latest(agent')
  <2>1. CASE agent'.refresh \in {agent.refresh, NoRefresh}
    BY <1>1, <2>1 DEF RefreshesInBounds
  <2>2. CASE agent.observer /\ agent'.refresh.generation = agent.accessibility_generation
    BY <1>1, <1>2, <2>2, LatestTyped DEF Latest
  <2>. QED  BY <2>1, <2>2 DEF SameWatch, Asks
<1>. QED  BY <1>1, <1>4, <1>5 DEF RefreshesInBounds

LEMMA WatchKept ==
    ASSUME AgentInv, WatchInv, SecureFocusStays, Calm(agent', agent),
           UNCHANGED capturing,
           notices \cap {"app"} \subseteq notices',
           "app" \notin notices' => AppOf(field') = AppOf(field), field' \in Field
    PROVE  WatchInv'
<1>1. RefreshesInBounds'
  BY BoundsKept DEF WatchInv, Calm
<1>2. agent'.degraded_app = NoApp
  BY DEF WatchInv, Calm, SameWatch
<1>3. ASSUME "app" \notin notices'
      PROVE  /\ agent'.frontmost = AppOf(field')
             /\ agent'.observer \/ Dark(agent)'
  <2>1. /\ agent.frontmost = AppOf(field) /\ AppOf(field') = AppOf(field)
        /\ agent.observer \/ Dark(agent)
    BY <1>3 DEF WatchInv
  <2>2. agent'.frontmost = agent.frontmost /\ agent'.observer = agent.observer
        /\ (Dark(agent) => Dark(agent'))
    BY DEF Calm, SameWatch
  <2>3. ASSUME ~agent.observer, Dark(agent) PROVE Dark(agent)'
    <3>0. "app" \notin notices
      BY <1>3
    <3>1. Disabled(IF FieldPolicy(field') = "secure" THEN "secure"
                                                     ELSE BasePolicy(agent'.frontmost))
      BY <2>1, <2>2, <2>3, <3>0, AgentTyped, DarkApplication
    <3>2. Disabled(agent'.snapshot)
      BY <2>2, <2>3 DEF Dark
    <3>. QED  BY <3>1, <3>2 DEF Dark, BaseSnapshot, IsSecure
  <2>. QED  BY <2>1, <2>2, <2>3
<1>. QED  BY <1>1, <1>2, <1>3 DEF WatchInv

-----------------------------------------------------------------------------
(* The steps                                                                *)

LEMMA ProcessKeyWatch ==
    ASSUME AgentInv, WatchInv, SecureFocusStays, NEW key \in Key, ProcessKey(key)
    PROVE  WatchInv'
<1>. DEFINE r == CancelReplacement(agent, TRUE)
            cancelled == CancelManualSwitch(r)
            a == CheckContext(cancelled)
<1>1. Good(agent) /\ agent \in AgentType /\ TRUE \in BOOLEAN /\ FALSE \in BOOLEAN
  BY AgentTyped
<1>2. KeyTypes(key) /\ UNCHANGED capturing
  BY DEF ProcessKey
<1>3. \/ agent' = EngineReset(a)
      \/ \E en \in Observe(a.engine, key) :
            LET applied == Apply([a EXCEPT !.engine = en], FALSE)
            IN agent' = IF key = "focusKey"
                        THEN HandlePotentialFocusChange(applied)
                        ELSE applied
  BY DEF ProcessKey, r, cancelled, a
<1>4. Calm(r, agent) /\ ~r.text_pending
  BY <1>1, MethodsCalm, CancelReplacementKeeps, Zenon
<1>. HIDE DEF r
<1>5. Calm(cancelled, r) /\ ~cancelled.text_pending
  BY <1>4, MethodsCalm, CancelManualSwitchKeeps, Zenon
     DEF Calm, Good, Keeps, Continues, Lapses
<1>. HIDE DEF cancelled
<1>6. Calm(a, cancelled) /\ Good(a) /\ ~a.text_pending
  <2>1. Good(cancelled) /\ cancelled \in AgentType
    BY <1>5, Zenon DEF Calm, Good
  <2>2. Calm(a, cancelled)
    BY <2>1, CheckContextCalm
  <2>3. a.text_pending => cancelled.text_pending
    BY <2>1, CheckContextFollows, FollowsTransitive, Zenon
  <2>. QED  BY <1>5, <2>2, <2>3 DEF Calm
<1>. HIDE DEF a
<1>7. Calm(a, agent)
  BY <1>4, <1>5, <1>6, CalmTransitive, Zenon
<1>8. Calm(agent', a)
  <2>1. CASE agent' = EngineReset(a)
    BY <1>6, <2>1, MethodsCalm
  <2>2. ASSUME NEW en \in Observe(a.engine, key),
               LET applied == Apply([a EXCEPT !.engine = en], FALSE)
               IN agent' = IF key = "focusKey"
                           THEN HandlePotentialFocusChange(applied)
                           ELSE applied
        PROVE  Calm(agent', a)
    <3>. DEFINE b == [a EXCEPT !.engine = en]
                applied == Apply(b, FALSE)
    <3>1. agent' = IF key = "focusKey" THEN HandlePotentialFocusChange(applied)
                                       ELSE applied
      BY <2>2
    <3>2. a \in AgentType /\ a.engine \in Healthy
      BY <1>6 DEF Good, AgentType
    <3>3. en \in Reachable(a.engine)
      BY <3>2, ObserveReaches
    <3>4. Follows(b, a)
      BY <3>2, <3>3, UpdateKeeps, FollowsTransitive, Zenon
    <3>5. SameWatch(b, a) /\ b.work = a.work /\ b.snapshot = a.snapshot
      BY <3>2, SMT DEF AgentType, SameWatch, Asks
    <3>. HIDE DEF b
    <3>6. Good(b) /\ ~b.text_pending
      BY <1>6, <3>2, <3>4, FollowsGood, FollowsTransitive, Zenon
    <3>7. Calm(b, a)
      BY <3>5, <3>6, CalmWhen, Zenon
    <3>8. Calm(applied, b)
      BY <1>1, <3>6, ApplyCalm
    <3>. HIDE DEF applied
    <3>9. Calm(HandlePotentialFocusChange(applied), applied)
      BY <3>8, HandlePotentialFocusChangeCalm, Zenon DEF Calm
    <3>10. Calm(applied, a)
      BY <3>7, <3>8, CalmTransitive, Zenon
    <3>11. Calm(HandlePotentialFocusChange(applied), a)
      BY <3>9, <3>10, CalmTransitive, Zenon
    <3>. QED  BY <3>1, <3>10, <3>11, Zenon
  <2>. QED  BY <1>3, <2>1, <2>2, Zenon
<1>9. Calm(agent', agent)
  BY <1>7, <1>8, CalmTransitive, Zenon
<1>10. notices \cap {"app"} \subseteq notices' /\ AppOf(field') = AppOf(field)
       /\ field' \in Field
  BY <1>2, KeyTypesNotices, KeyTypesTyped
<1>. QED  BY <1>2, <1>9, <1>10, WatchKept

LEMMA ModifierWatch ==
    ASSUME AgentInv, WatchInv, SecureFocusStays,
           OtherModifierChanges \/ \E chord \in BOOLEAN : OptionDown(chord)
    PROVE  WatchInv'
<1>. DEFINE a == CancelReplacement(agent, FALSE)
            b == [a EXCEPT !.toggle = NoToggle]
<1>1. Good(agent) /\ FALSE \in BOOLEAN /\ field \in Field
  BY AgentTyped
<1>2. agent' \in {CancelManualSwitch(b), [a EXCEPT !.toggle = NoToggle, !.option = "up"],
                  [a EXCEPT !.option = "armed"]}
  BY Zenon DEF OtherModifierChanges, OptionDown
<1>3. Calm(a, agent) /\ Good(a) /\ a \in AgentType
  BY <1>1, MethodsCalm, Zenon DEF Calm, Good
<1>. HIDE DEF a
<1>4. Calm(b, a)
  BY <1>3, MethodsCalm
<1>5. [a EXCEPT !.toggle = NoToggle, !.option = "up"] = [b EXCEPT !.option = "up"]
  OBVIOUS
<1>. HIDE DEF b
<1>6. Calm(CancelManualSwitch(b), b) /\ Calm([b EXCEPT !.option = "up"], b)
  BY <1>4, MethodsCalm, Zenon DEF Calm
<1>7. Calm([a EXCEPT !.option = "armed"], a)
  BY <1>3, MethodsCalm, Zenon
<1>8. /\ Calm(CancelManualSwitch(b), a) /\ Calm([b EXCEPT !.option = "up"], a)
  BY <1>4, <1>6, CalmTransitive, Zenon
<1>9. Calm(agent', a)
  BY <1>2, <1>5, <1>7, <1>8, Zenon
<1>10. Calm(agent', agent)
  BY <1>3, <1>9, CalmTransitive, Zenon
<1>11. UNCHANGED <<notices, field, capturing>>
  BY DEF OtherModifierChanges, OptionDown
<1>. QED  BY <1>1, <1>10, <1>11, WatchKept

LEMMA OptionUpWatch ==
    ASSUME AgentInv, WatchInv, SecureFocusStays, NEW chord \in BOOLEAN, OptionUp(chord)
    PROVE  WatchInv'
<1>. DEFINE a == CancelReplacement(agent, FALSE)
            reset == ResetManualSwitch(a)
            checked == CheckContext(reset)
            en == Engine!ForceSwitchLayout(checked.engine)
            forced == [checked EXCEPT !.engine = en]
<1>1. Good(agent) /\ agent \in AgentType /\ TRUE \in BOOLEAN /\ FALSE \in BOOLEAN
      /\ field \in Field
  BY AgentTyped
<1>2. agent' \in {a, [reset EXCEPT !.toggle = NoToggle], checked,
                  EngineReset(checked), Apply(forced, TRUE)}
  BY Zenon DEF OptionUp
<1>3. Calm(a, agent) /\ ~a.text_pending /\ Good(a) /\ a \in AgentType
  BY <1>1, MethodsCalm, CancelReplacementKeeps, Zenon DEF Calm, Good
<1>. HIDE DEF a
<1>4. Calm(reset, a) /\ ~reset.text_pending /\ Good(reset) /\ reset \in AgentType
  <2>1. Calm(reset, a)
    BY <1>3, MethodsCalm
  <2>2. reset.text_pending => a.text_pending
    BY <1>3, CancelManualSwitchKeeps, Zenon DEF Keeps, Continues, Lapses
  <2>. QED  BY <1>3, <2>1, <2>2 DEF Calm, Good
<1>. HIDE DEF reset
<1>5. Calm(checked, reset) /\ ~checked.text_pending /\ Good(checked)
      /\ checked \in AgentType
  <2>1. Calm(checked, reset)
    BY <1>4, CheckContextCalm
  <2>2. checked.text_pending => reset.text_pending
    BY <1>4, CheckContextFollows, FollowsTransitive, Zenon
  <2>. QED  BY <1>4, <2>1, <2>2 DEF Calm, Good
<1>. HIDE DEF checked
<1>6. Calm(forced, checked) /\ ~forced.text_pending
  <2>1. checked.engine \in Healthy
    BY <1>5 DEF AgentType
  <2>2. en \in Reachable(checked.engine)
    BY <2>1, ForceSwitchLayoutReaches
  <2>. HIDE DEF en
  <2>3. Follows(forced, checked)
    BY <1>5, <2>2, UpdateKeeps, FollowsTransitive, Zenon
  <2>4. SameWatch(forced, checked) /\ forced.work = checked.work
        /\ forced.snapshot = checked.snapshot
    BY <1>5, SMT DEF AgentType, SameWatch, Asks
  <2>. HIDE DEF forced
  <2>5. Good(forced) /\ ~forced.text_pending
    BY <1>5, <2>3, FollowsGood, FollowsTransitive, Zenon
  <2>. QED  BY <2>4, <2>5, CalmWhen, Zenon
<1>. HIDE DEF forced
<1>7. Calm(reset, agent) /\ Calm(checked, agent) /\ Calm(forced, agent)
  BY <1>3, <1>4, <1>5, <1>6, CalmTransitive, Zenon
<1>8. /\ Calm([reset EXCEPT !.toggle = NoToggle], reset)
      /\ Calm(EngineReset(checked), checked)
      /\ Calm(Apply(forced, TRUE), forced)
  <2>1. Good(forced)
    BY <1>6 DEF Calm
  <2>. QED  BY <1>1, <1>4, <1>5, <1>6, <2>1, MethodsCalm, ApplyCalm, Zenon
<1>9. /\ Calm([reset EXCEPT !.toggle = NoToggle], agent)
      /\ Calm(EngineReset(checked), agent)
      /\ Calm(Apply(forced, TRUE), agent)
  BY <1>7, <1>8, CalmTransitive, Zenon
<1>10. Calm(agent', agent)
  BY <1>2, <1>3, <1>7, <1>9, Zenon
<1>11. UNCHANGED <<notices, field, capturing>>
  BY DEF OptionUp
<1>. QED  BY <1>1, <1>10, <1>11, WatchKept

LEMMA FocusWatch ==
    ASSUME AgentInv, WatchInv, SecureFocusStays, NEW f \in InSameApp,
           MouseDown(f) \/ FocusMoves(f)
    PROVE  WatchInv'
<1>1. Good(agent) /\ f \in Field /\ AppOf(f) = AppOf(field)
  BY AgentTyped DEF InSameApp
<1>2. MoveCaret(f) /\ UNCHANGED capturing
      /\ agent' \in {agent, HandlePotentialFocusChange(agent)}
  BY DEF MouseDown, FocusMoves
<1>3. Calm(agent', agent)
  BY <1>1, <1>2, HandlePotentialFocusChangeCalm, CalmTransitive, Zenon
<1>4. field' = f /\ notices \subseteq notices'
  BY <1>2, MoveCaretNotices
<1>. QED  BY <1>1, <1>2, <1>3, <1>4, WatchKept

LEMMA AppActivatesWatch ==
    ASSUME WatchInv, NEW f \in Field, AppActivates(f)
    PROVE  WatchInv'
<1>1. "app" \in notices' /\ UNCHANGED <<agent, capturing>>
  BY DEF AppActivates
<1>. QED  BY <1>1 DEF WatchInv, RefreshesInBounds

LEMMA NoticeWatch ==
    ASSUME AgentInv, WatchInv, SecureFocusStays,
           \/ DeliverFocusNotice \/ DeliverSourceNotice
           \/ \E l \in Engine!Layout \cup {NoLayout} : InputSourceChanges(l)
    PROVE  WatchInv'
<1>1. Good(agent) /\ field \in Field /\ os_layout \in Engine!Layout \cup {NoLayout}
  BY AgentTyped
<1>2. agent' \in {agent, SyncLayout(agent, os_layout),
                  RequestRefresh(InvalidateContext(agent))}
  BY DEF DeliverFocusNotice, DeliverSourceNotice, InputSourceChanges
<1>3. Calm(agent', agent)
  BY <1>1, <1>2, SyncLayoutCalm, InvalidateCalm, CalmTransitive, Zenon
<1>4. UNCHANGED <<field, capturing>> /\ notices \cap {"app"} \subseteq notices'
  BY DEF DeliverFocusNotice, DeliverSourceNotice, InputSourceChanges
<1>. QED  BY <1>1, <1>3, <1>4, WatchKept

\* An application that is activated gets an observer of its own; the refreshes
\* of the one before are of older generations.
LEMMA DeliverAppWatch ==
    ASSUME AgentInv, WatchInv, Attended, DeliverAppNotice
    PROVE  WatchInv'
<1>1. agent \in AgentType /\ agent.accessibility_generation \in Nat /\ field \in Field
  BY AgentTyped
<1>2. UNCHANGED <<field, capturing>>
  BY DEF DeliverAppNotice
<1>3. /\ agent'.work = agent.work
      /\ agent'.frontmost = AppOf(field)
      /\ agent'.snapshot = BaseSnapshot(agent')
      /\ agent'.degraded_app = agent.degraded_app
      /\ agent'.accessibility_generation = (agent.accessibility_generation + 1) + 1
      /\ \/ agent'.refresh = NoRefresh
         \/ /\ agent'.observer
            /\ agent'.refresh.generation = agent'.accessibility_generation
  BY AppDelivered
<1>4. agent'.degraded_app = NoApp /\ agent'.degraded_app # agent'.frontmost
  BY <1>1, <1>3, SurfaceAssumption DEF WatchInv
<1>5. agent'.observer \/ Disabled(agent'.snapshot)
  BY <1>4, AppDelivered DEF Attended
<1>6. agent'.observer \/ Dark(agent)'
  <2>1. BaseSnapshot(agent') = BaseSnapshot(agent)'
    BY <1>2 DEF BaseSnapshot, IsSecure
  <2>. QED  BY <1>3, <1>5, <2>1 DEF Dark
<1>7. RefreshesInBounds'
  <2>1. /\ Latest(agent) \in Int /\ Latest(agent') \in Int
        /\ Latest(agent) <= Latest(agent')
    BY <1>1, <1>3 DEF Latest
  <2>2. InstallsUpTo(agent, Latest(agent'))
    BY <1>1, <2>1, InstallsLater DEF WatchInv, RefreshesInBounds
  <2>3. capturing' # NoRefresh => capturing'.generation <= Latest(agent')
    <3>1. capturing # NoRefresh => capturing.generation \in Nat
      BY DEF AgentInv, Surroundings, InstallItem
    <3>. QED  BY <1>2, <2>1, <3>1 DEF WatchInv, RefreshesInBounds
  <2>4. agent'.refresh # NoRefresh => agent'.refresh.generation <= Latest(agent')
    BY <1>1, <1>3 DEF Latest
  <2>. QED  BY <1>3, <2>2, <2>3, <2>4 DEF RefreshesInBounds, InstallsUpTo
<1>. QED  BY <1>2, <1>3, <1>4, <1>6, <1>7 DEF WatchInv

LEMMA StartRefreshWatch ==
    ASSUME AgentInv, WatchInv, StartRefresh
    PROVE  WatchInv'
<1>. DEFINE b == [agent EXCEPT !.refresh = NoRefresh]
<1>1. agent \in AgentType
  BY AgentTyped
<1>2. agent' = b /\ agent.refresh # NoRefresh
  BY DEF StartRefresh
<1>3. capturing'.generation = agent.refresh.generation
  BY DEF StartRefresh
<1>4. UNCHANGED <<notices, field>>
  BY DEF StartRefresh
<1>5. /\ b.refresh = NoRefresh /\ b.work = agent.work /\ b.observer = agent.observer
      /\ b.accessibility_generation = agent.accessibility_generation
      /\ b.degraded_app = agent.degraded_app /\ b.frontmost = agent.frontmost
      /\ b.snapshot = agent.snapshot
  BY <1>1, SMT DEF AgentType
<1>. HIDE DEF b
<1>6. Latest(agent') = Latest(agent)
  BY <1>2, <1>5 DEF Latest
<1>7. RefreshesInBounds'
  BY <1>2, <1>3, <1>5, <1>6 DEF WatchInv, RefreshesInBounds, InstallsUpTo
<1>8. Dark(agent) => Dark(agent)'
  BY <1>2, <1>4, <1>5 DEF Dark, BaseSnapshot, IsSecure
<1>. QED  BY <1>2, <1>4, <1>5, <1>7, <1>8 DEF WatchInv

LEMMA FinishRefreshWatch ==
    ASSUME AgentInv, WatchInv, FinishRefresh
    PROVE  WatchInv'
<1>. DEFINE work == Append(agent.work, capturing)
            b    == [agent EXCEPT !.work = work]
<1>1. agent \in AgentType
  BY AgentTyped
<1>2. agent' = b /\ capturing # NoRefresh /\ capturing' = NoRefresh
      /\ UNCHANGED <<notices, field>>
  BY DEF FinishRefresh
<1>3. /\ Len(work) = Len(agent.work) + 1
      /\ \A i \in 1..Len(work) :
            \/ work[i] = capturing
            \/ i \in 1..Len(agent.work) /\ work[i] = agent.work[i]
  BY <1>1, WorkTyped
<1>. HIDE DEF work
<1>4. /\ b.refresh = agent.refresh /\ b.work = work /\ b.observer = agent.observer
      /\ b.accessibility_generation = agent.accessibility_generation
      /\ b.degraded_app = agent.degraded_app /\ b.frontmost = agent.frontmost
      /\ b.snapshot = agent.snapshot
  BY <1>1, SMT DEF AgentType
<1>. HIDE DEF b
<1>5. Latest(agent') = Latest(agent)
  BY <1>2, <1>4 DEF Latest
<1>6. InstallsUpTo(agent', Latest(agent'))
  BY <1>2, <1>3, <1>4, <1>5 DEF WatchInv, RefreshesInBounds, InstallsUpTo
<1>7. RefreshesInBounds'
  BY <1>2, <1>4, <1>5, <1>6 DEF WatchInv, RefreshesInBounds
<1>8. Dark(agent) => Dark(agent)'
  BY <1>2, <1>4 DEF Dark, BaseSnapshot, IsSecure
<1>. QED  BY <1>2, <1>4, <1>7, <1>8 DEF WatchInv

LEMMA RunSelectionWatch ==
    ASSUME AgentInv, WatchInv, SecureFocusStays, RunSelection
    PROVE  WatchInv'
<1>. DEFINE item == Head(agent.work)
            own  == item.generation = agent.selection_generation
            p    == Rest.selection_pending /\ ~own
            a    == [Rest EXCEPT !.selection_pending = p]
<1>1. agent \in AgentType /\ agent.work # <<>> /\ field \in Field
  BY AgentTyped DEF RunSelection
<1>2. item \in Item
  BY <1>1, WorkTyped
<1>3. item.kind = "select" /\ item \in SelectItem
  BY <1>2, ItemKinds DEF RunSelection
<1>4. UNCHANGED <<field, capturing>>
  BY DEF RunSelection
<1>5. Calm(Rest, agent) /\ Rest \in AgentType
      /\ \A i \in 1..Len(Rest.work) :
            Rest.work[i].kind = "select" => Rest.work[i].generation # item.generation
  <2>1. \A i \in 1..Len(Rest.work) :
           /\ Rest.work[i].kind = item.kind
           /\ item.kind \in {"select", "replace"}
           => Rest.work[i].generation # item.generation
    BY <1>1, RestGood
  <2>. HIDE DEF item
  <2>2. Calm(Rest, agent) /\ Rest \in AgentType
    BY <1>1, RestCalm DEF Calm, Good
  <2>. QED  BY <1>3, <2>1, <2>2
<1>6. Calm(a, agent) /\ Good(a) /\ a.work = Rest.work
      /\ a.selection_generation = agent.selection_generation
  <2>1. p \in BOOLEAN
    BY Zenon
  <2>. HIDE DEF p
  <2>2. /\ Good(a) /\ a.work = Rest.work
        /\ a.selection_generation = agent.selection_generation
    BY <1>1, <2>1, SelectionTaken, Zenon
  <2>3. SameWatch(a, Rest) /\ a.snapshot = Rest.snapshot
    BY <1>5, SMT DEF AgentType, SameWatch, Asks
  <2>. HIDE DEF a
  <2>4. Calm(a, Rest)
    BY <2>2, <2>3, CalmWhen, Zenon
  <2>. QED  BY <1>5, <2>2, <2>4, CalmTransitive, Zenon
<1>7. \/ agent' = a /\ UNCHANGED notices
      \/ /\ SelectionIsCurrent(item)
         /\ item.plan # NoPlan
         /\ agent' \in {ReplaceLastToken(a, item), CancelReplacement(a, TRUE)}
         /\ UNCHANGED notices
      \/ SelectFutureLayout(a, item.layout)
  BY Zenon DEF RunSelection, p, a, own, item
<1>. HIDE DEF a, item
<1>8. Calm(agent', a) /\ notices \subseteq notices'
  <2>1. CASE agent' = a /\ UNCHANGED notices
    BY <1>6, <2>1, CalmTransitive, Zenon
  <2>2. CASE /\ SelectionIsCurrent(item)
             /\ item.plan # NoPlan
             /\ agent' \in {ReplaceLastToken(a, item), CancelReplacement(a, TRUE)}
             /\ UNCHANGED notices
    <3>1. \A i \in 1..Len(a.work) :
             a.work[i].kind = "select" => a.work[i].generation # a.selection_generation
      BY <1>5, <1>6, <2>2 DEF SelectionIsCurrent
    <3>2. Calm(ReplaceLastToken(a, item), a)
      BY <1>3, <1>6, <2>2, <3>1, ReplaceLastTokenCalm, Zenon
    <3>3. Calm(CancelReplacement(a, TRUE), a)
      BY <1>6, MethodsCalm
    <3>. QED  BY <2>2, <3>2, <3>3
  <2>3. CASE SelectFutureLayout(a, item.layout)
    <3>1. item.layout \in Engine!Layout
      BY <1>3 DEF SelectItem
    <3>. QED  BY <1>6, <2>3, <3>1, SelectFutureLayoutCalm, Zenon
  <2>. QED  BY <1>7, <2>1, <2>2, <2>3, Zenon
<1>9. Calm(agent', agent)
  BY <1>6, <1>8, CalmTransitive, Zenon
<1>. QED  BY <1>1, <1>4, <1>8, <1>9, WatchKept

LEMMA RunReplacementWatch ==
    ASSUME AgentInv, WatchInv, SecureFocusStays, RunReplacement
    PROVE  WatchInv'
<1>. DEFINE item == Head(agent.work)
            done == [Rest EXCEPT !.text_pending = FALSE]
            t    == IF item.manual
                    THEN [count |-> item.plan.count, focus |-> item.plan.focus]
                    ELSE NoToggle
            next == [done EXCEPT !.toggle = t]
<1>1. agent \in AgentType /\ agent.work # <<>> /\ field \in Field
  BY AgentTyped DEF RunReplacement
<1>2. item \in Item
  BY <1>1, WorkTyped
<1>3. item.kind = "replace" /\ item \in ReplaceItem
  BY <1>2, ItemKinds DEF RunReplacement
<1>4. UNCHANGED <<field, capturing>>
  BY DEF RunReplacement
<1>5. Calm(Rest, agent) /\ Good(Rest) /\ Rest \in AgentType
  BY <1>1, RestCalm DEF Calm, Good
<1>6. \/ agent' \in {CancelText(Rest), Rest} /\ UNCHANGED notices
      \/ ReplacementIsCurrent(item) /\ agent' = done /\ UNCHANGED notices
      \/ ReplacementIsCurrent(item) /\ SelectFutureLayout(next, item.layout)
  BY Zenon DEF RunReplacement
<1>7. ASSUME ReplacementIsCurrent(item)
      PROVE  Calm(done, Rest) /\ done \in AgentType
  <2>1. Good(done) /\ done \in AgentType
    BY <1>1, <1>3, <1>7, ReplacementTaken, Zenon
  <2>2. SameWatch(done, Rest) /\ done.work = Rest.work /\ done.snapshot = Rest.snapshot
    BY <1>5, SMT DEF AgentType, SameWatch, Asks
  <2>. HIDE DEF done
  <2>. QED  BY <2>1, <2>2, CalmWhen, Zenon
<1>8. ASSUME ReplacementIsCurrent(item)
      PROVE  Calm(next, Rest)
  <2>1. item.plan \in PlanType
    BY <1>3 DEF ReplaceItem
  <2>2. t \in PlanType \cup {NoToggle}
    <3>1. [count |-> item.plan.count, focus |-> item.plan.focus] \in PlanType
      BY <2>1 DEF PlanType
    <3>. QED  BY <3>1, Zenon
  <2>3. Calm(done, Rest) /\ done \in AgentType /\ Good(done)
    BY <1>7, <1>8 DEF Calm
  <2>. HIDE DEF t, done
  <2>4. Good(next)
    BY <2>2, <2>3, UpdateKeeps, FollowsTransitive, FollowsGood, Zenon
  <2>5. SameWatch(next, done) /\ next.work = done.work /\ next.snapshot = done.snapshot
    BY <2>3, SMT DEF AgentType, SameWatch, Asks
  <2>. HIDE DEF next
  <2>6. Calm(next, done)
    BY <2>4, <2>5, CalmWhen, Zenon
  <2>. QED  BY <2>3, <2>6, CalmTransitive, Zenon
<1>9. item.layout \in Engine!Layout
  BY <1>3 DEF ReplaceItem
<1>. HIDE DEF done, next, item
<1>10. Calm(agent', Rest) /\ notices \subseteq notices'
  <2>1. CASE agent' \in {CancelText(Rest), Rest} /\ UNCHANGED notices
    BY <1>5, <2>1, MethodsCalm, CalmTransitive, Zenon
  <2>2. CASE ReplacementIsCurrent(item) /\ agent' = done /\ UNCHANGED notices
    BY <1>7, <2>2
  <2>3. CASE ReplacementIsCurrent(item) /\ SelectFutureLayout(next, item.layout)
    <3>1. Calm(next, Rest) /\ Good(next)
      BY <1>8, <2>3 DEF Calm
    <3>2. Calm(agent', next) /\ notices \subseteq notices'
      BY <1>9, <2>3, <3>1, SelectFutureLayoutCalm, Zenon
    <3>. QED  BY <3>1, <3>2, CalmTransitive, Zenon
  <2>. QED  BY <1>6, <2>1, <2>2, <2>3, Zenon
<1>11. Calm(agent', agent)
  BY <1>5, <1>10, CalmTransitive, Zenon
<1>. QED  BY <1>1, <1>4, <1>10, <1>11, WatchKept

\* A refresh of the current generation is installed where there is an observer,
\* which watches whatever policy it brings.
LEMMA RunInstallWatch ==
    ASSUME AgentInv, WatchInv, Attended, SecureFocusStays, RunInstall
    PROVE  WatchInv'
<1>. DEFINE item == Head(agent.work)
            b    == InstallContext(Rest, item.policy, item.app, item.field)
<1>1. agent \in AgentType /\ agent.work # <<>> /\ field \in Field
      /\ agent.accessibility_generation \in Nat
  BY AgentTyped DEF RunInstall
<1>2. item = agent.work[1] /\ 1 \in 1..Len(agent.work) /\ item \in Item
  BY <1>1, WorkTyped
<1>3. item.kind = "install" /\ item \in InstallItem
  BY <1>2, ItemKinds DEF RunInstall
<1>4. UNCHANGED <<field, capturing>>
  BY DEF RunInstall
<1>5. Calm(Rest, agent) /\ Rest \in AgentType
  BY <1>1, RestCalm DEF Calm, Good
<1>6. \/ agent' = Rest /\ UNCHANGED notices
      \/ /\ item.generation = agent.accessibility_generation
         /\ agent' = b
         /\ UNCHANGED notices
  BY DEF RunInstall, Attended
<1>7. CASE agent' = Rest /\ UNCHANGED notices
  BY <1>1, <1>4, <1>5, <1>7, WatchKept
<1>8. CASE /\ item.generation = agent.accessibility_generation
           /\ agent' = b
           /\ UNCHANGED notices
  <2>1. item.generation <= Latest(agent)
    BY <1>2, <1>3 DEF WatchInv, RefreshesInBounds, InstallsUpTo
  <2>2. agent.observer
    BY <1>1, <1>8, <2>1 DEF Latest
  <2>3. /\ item.policy \in Policy /\ item.app \in Apps
        /\ item.field \in Field \cup {NoField}
    BY <1>3 DEF InstallItem
  <2>. HIDE DEF item
  <2>4. Mild(b, Rest)
    BY <1>5, <2>3, InstallContextMild
  <2>5. agent' = b
    BY <1>8
  <2>. HIDE DEF b
  <2>6. SameWatch(agent', agent) /\ agent'.work = Rest.work
    BY <1>5, <2>4, <2>5, WatchTransitive, Zenon DEF Mild, Gentle, Lapses, Calm
  <2>7. agent'.observer /\ agent'.frontmost = agent.frontmost
        /\ agent'.degraded_app = agent.degraded_app
    BY <2>2, <2>6 DEF SameWatch
  <2>8. \A g \in Int : InstallsUpTo(agent, g) => InstallsUpTo(agent', g)
    BY <1>5, <2>6, Zenon DEF Calm, InstallsUpTo
  <2>9. RefreshesInBounds'
    BY <1>4, <2>6, <2>8, BoundsKept DEF WatchInv
  <2>. QED  BY <1>4, <1>8, <2>7, <2>9 DEF WatchInv
<1>. QED  BY <1>6, <1>7, <1>8

LEMMA WatchInvStep ==
    Attended /\ AgentInv /\ WatchInv /\ [Next]_vars /\ [SecureFocusStays]_vars => WatchInv'
<1>. SUFFICES ASSUME Attended, AgentInv, WatchInv, [Next]_vars, [SecureFocusStays]_vars
              PROVE  WatchInv'
  OBVIOUS
<1>0. CASE UNCHANGED vars
  <2>1. WatchInv' = WatchInv
    BY <1>0 DEF vars, WatchInv, RefreshesInBounds, InstallsUpTo, Latest, Dark,
                BaseSnapshot, IsSecure
  <2>. QED  BY <2>1
<1>. SUFFICES ASSUME Next, SecureFocusStays PROVE WatchInv'
  BY <1>0
<1>1. ASSUME NEW key \in Key, ProcessKey(key) PROVE WatchInv'
  BY <1>1, ProcessKeyWatch
<1>2. CASE OtherModifierChanges
  BY <1>2, ModifierWatch
<1>3. ASSUME NEW chord \in BOOLEAN, OptionDown(chord) \/ OptionUp(chord) PROVE WatchInv'
  BY <1>3, ModifierWatch, OptionUpWatch
<1>4. ASSUME NEW f \in InSameApp, MouseDown(f) \/ FocusMoves(f) PROVE WatchInv'
  BY <1>4, FocusWatch
<1>5. ASSUME NEW f \in Field, AppActivates(f) PROVE WatchInv'
  BY <1>5, AppActivatesWatch
<1>6. ASSUME NEW l \in Engine!Layout \cup {NoLayout}, InputSourceChanges(l) PROVE WatchInv'
  BY <1>6, NoticeWatch
<1>7. CASE Deliver
  BY <1>7, NoticeWatch, DeliverAppWatch DEF Deliver
<1>8. CASE StartRefresh \/ FinishRefresh
  BY <1>8, StartRefreshWatch, FinishRefreshWatch
<1>9. CASE RunWork
  BY <1>9, RunSelectionWatch, RunReplacementWatch, RunInstallWatch DEF RunWork
<1>10. CASE BackoffExpires
  BY <1>10 DEF BackoffExpires, WatchInv
<1>. QED  BY <1>1, <1>2, <1>3, <1>4, <1>5, <1>6, <1>7, <1>8, <1>9, <1>10 DEF Next

LEMMA WatchInvInit == Attended /\ Init => WatchInv
<1>. SUFFICES ASSUME Attended, Init PROVE WatchInv
  OBVIOUS
<1>. DEFINE b == InstallBase(Start)
            c == ConfigureObserver(b, TRUE)
<1>1. agent = RequestRefresh(c) /\ field = FirstField /\ capturing = NoRefresh
  BY DEF Init, Attended
<1>2. /\ Start.work = <<>> /\ Start.degraded_app = NoApp
      /\ Start.frontmost = AppOf(FirstField) /\ Start.accessibility_generation = 0
  BY DEF Start
<1>3. Mild(b, Start) /\ b \in AgentType /\ b.snapshot = BaseSnapshot(Start)
  BY StartTyped, InstallBaseMild, MildTransitive, Zenon
<1>4. /\ b.work = <<>> /\ b.degraded_app = NoApp /\ b.frontmost = AppOf(FirstField)
      /\ b.accessibility_generation = 0
  BY <1>2, <1>3, Zenon DEF Mild, Gentle, Lapses, SameWatch
<1>. HIDE DEF b
<1>5. /\ c \in AgentType /\ c.work = b.work
      /\ c.observer = (~Disabled(b.snapshot) /\ b.degraded_app # b.frontmost)
      /\ c.refresh = NoRefresh /\ c.snapshot = b.snapshot
      /\ c.accessibility_generation = b.accessibility_generation + 1
      /\ c.frontmost = b.frontmost /\ c.degraded_app = b.degraded_app
  <2>1. TRUE \in BOOLEAN
    OBVIOUS
  <2>. QED  BY <1>3, <2>1, ConfigureObserverGentle, Zenon DEF Gentle, Lapses
<1>. HIDE DEF c
<1>6. /\ Mild(agent, c) /\ agent.snapshot = c.snapshot
  BY <1>1, <1>5, RequestRefreshMild, RequestRefreshKeeps, Zenon DEF Keeps, SamePolicy
<1>7. /\ agent.work = <<>> /\ agent.degraded_app = NoApp
      /\ agent.frontmost = AppOf(field) /\ agent.accessibility_generation = 1
      /\ agent.observer = c.observer
  BY <1>1, <1>4, <1>5, <1>6 DEF Mild, Gentle, Lapses, SameWatch
<1>8. agent.observer \/ Dark(agent)
  <2>1. BaseSnapshot(agent) = BaseSnapshot(Start)
    BY <1>1, <1>2, <1>7 DEF BaseSnapshot
  <2>2. b.degraded_app # b.frontmost
    BY <1>4, SurfaceAssumption
  <2>. QED  BY <1>3, <1>5, <1>6, <1>7, <2>1, <2>2 DEF Dark
<1>9. agent.refresh # NoRefresh => agent.refresh.generation <= Latest(agent)
  BY <1>5, <1>6, <1>7, <1>4 DEF Mild, SameWatch, Asks, Latest
<1>. QED  BY <1>1, <1>7, <1>8, <1>9 DEF WatchInv, RefreshesInBounds, InstallsUpTo

LEMMA WatchInvSuffices == WatchInv => Watched
  BY DEF WatchInv, Watched, Dark

\* Text is processed only where an observer tells of the focus
\* (configureAccessibilityObserver, frontmostApplicationChanged,
\* installHostContext), whatever refreshes of earlier applications are still on
\* their way: wherever observers can be attached and stay, and in every run in
\* which no application that was activated with the focus on a password field
\* moves it to a field to process before another application is activated.
THEOREM ProcessingIsWatched ==
    Attended => (Spec /\ [][SecureFocusStays]_vars => []Watched)
<1>1. Spec /\ [][SecureFocusStays]_vars => [](Attended => WatchInv)
  <2>1. Init => (Attended => WatchInv)
    BY WatchInvInit
  <2>2. /\ AgentInv /\ (Attended => WatchInv) /\ [Next]_vars
        /\ [SecureFocusStays]_vars
        => (Attended => WatchInv)'
    BY WatchInvStep
  <2>. QED  BY <2>1, <2>2, AgentInvariance, PTL DEF Spec
<1>2. Attended => Attended'
  OBVIOUS
<1>. QED  BY <1>1, <1>2, WatchInvSuffices, PTL

\* Hence, in the same runs, what a replacement selects and deletes is text that
\* was typed into that field since the caret last moved, however late it runs: a
\* change of focus or of the application, a click and a manual switch cancel it
\* or shorten what it may take (cancelPendingReplacement, invalidateHostContext,
\* the generations that DispatchWorkItems compare).
THEOREM OnlyTypedTextIsEverReplaced ==
    Attended => (Spec /\ [][SecureFocusStays]_vars => []OnlyTypedTextIsReplaced)
  BY ProcessingIsWatched, WatchedTextIsTyped, PTL

=============================================================================
