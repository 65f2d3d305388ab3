---------------------------- MODULE AgentProofs ----------------------------
(***************************************************************************)
(* What the agent keeps for any fields, applications and policies, whether  *)
(* an observer can be attached or a refresh degrades, and however many      *)
(* events there are; and that engine and input source agree, if the user    *)
(* waits between events.                                                    *)
(***************************************************************************)
EXTENDS Agent, TLAPS, FiniteSetTheorems

-----------------------------------------------------------------------------
(* The engine the agent calls                                               *)

Action == {Engine!None, Engine!Reset} \cup {Engine!Switch(l) : l \in Engine!Layout}

EngineType == [token_len : 0..MaxTokenLen, layout : Engine!Layout,
               start : Engine!Layout, ignoring : BOOLEAN,
               context : Engine!Context,
               action : Action, pending : 0..MaxTokenLen]

\* An engine that bypasses, or ignores the rest of an over-long run, has no
\* token.
Healthy == {en \in EngineType : Engine!Bypassing(en) \/ en.ignoring => en.token_len = 0}

\* The engines a call of en's context may leave.
Reachable(en) == {next \in Healthy : next.context = en.context}

LEMMA Members ==
    /\ Engine!None \in Action
    /\ Engine!Reset \in Action
    /\ \A l \in Engine!Layout : Engine!Switch(l) \in Action
    /\ 0 \in 0..MaxTokenLen
  BY TokenLengthAssumption DEF Action

LEMMA ResetLayoutReaches ==
    ASSUME NEW en \in EngineType, NEW l \in Engine!Layout
    PROVE  /\ Engine!ResetLayout(en, l) \in Reachable(en)
           /\ Engine!ResetLayout(en, l).token_len = 0
           /\ Engine!ResetLayout(en, l).pending = 0
<1>1. Engine!ResetLayout(en, l) \in EngineType
  BY Members, Zenon DEF EngineType, Engine!ResetLayout
<1>2. /\ Engine!ResetLayout(en, l).token_len = 0
      /\ Engine!ResetLayout(en, l).pending = 0
      /\ Engine!ResetLayout(en, l).context = en.context
  BY SMT DEF EngineType, Engine!ResetLayout
<1>. QED  BY <1>1, <1>2, Zenon DEF Reachable, Healthy

LEMMA ResetTokenReaches ==
    ASSUME NEW en \in EngineType
    PROVE  /\ Engine!ResetToken(en) \in Reachable(en)
           /\ Engine!ResetToken(en).token_len = 0
           /\ Engine!ResetToken(en).pending = 0
<1>1. en.layout \in Engine!Layout
  BY DEF EngineType
<1>. QED  BY <1>1, ResetLayoutReaches, Zenon DEF Engine!ResetToken

LEMMA ActionSaid ==
    ASSUME NEW en \in Healthy,
           NEW said \in Action,
           NEW n \in 0..MaxTokenLen
    PROVE  /\ [en EXCEPT !.action = said] \in Reachable(en)
           /\ [en EXCEPT !.action = said, !.pending = n] \in Reachable(en)
           /\ [en EXCEPT !.pending = n] \in Reachable(en)
<1>1. /\ [en EXCEPT !.action = said] \in EngineType
      /\ [en EXCEPT !.action = said, !.pending = n] \in EngineType
      /\ [en EXCEPT !.pending = n] \in EngineType
  BY Zenon DEF EngineType, Healthy
<1>2. /\ [en EXCEPT !.action = said].context = en.context
      /\ [en EXCEPT !.action = said].token_len = en.token_len
      /\ [en EXCEPT !.action = said].ignoring = en.ignoring
      /\ [en EXCEPT !.action = said, !.pending = n].context = en.context
      /\ [en EXCEPT !.action = said, !.pending = n].token_len = en.token_len
      /\ [en EXCEPT !.action = said, !.pending = n].ignoring = en.ignoring
      /\ [en EXCEPT !.pending = n].context = en.context
      /\ [en EXCEPT !.pending = n].token_len = en.token_len
      /\ [en EXCEPT !.pending = n].ignoring = en.ignoring
  BY SMT DEF EngineType, Healthy
<1>. QED  BY <1>1, <1>2, Zenon DEF Reachable, Healthy, Engine!Bypassing

LEMMA DiscardedReaches ==
    ASSUME NEW en \in Healthy
    PROVE  /\ Engine!Discarded(en) \in Reachable(en)
           /\ Engine!Discarded(en).token_len = 0
<1>. DEFINE reset == Engine!ResetToken(en)
            said  == IF en.token_len = 0 THEN Engine!None ELSE Engine!Reset
<1>1. reset \in Reachable(en) /\ reset.token_len = 0
  BY ResetTokenReaches DEF Healthy
<1>2. said \in Action
  BY Members
<1>3. Engine!Discarded(en) = [reset EXCEPT !.action = said]
  BY DEF Engine!Discarded
<1>. HIDE DEF reset, said
<1>4. reset \in Healthy /\ reset.context = en.context
  BY <1>1 DEF Reachable
<1>5. [reset EXCEPT !.action = said].token_len = 0
  BY <1>1, <1>4, SMT DEF Healthy, EngineType
<1>6. [reset EXCEPT !.action = said] \in Reachable(reset)
  BY <1>2, <1>4, ActionSaid, Members, Zenon
<1>. QED  BY <1>3, <1>4, <1>5, <1>6, Zenon DEF Reachable

LEMMA InferringReaches ==
    ASSUME NEW en \in Healthy, NEW l \in Engine!Layout
    PROVE  Engine!Inferring(en, l) \in Reachable(en)
<1>1. Engine!Ignored(en) \in Reachable(en)
  BY ActionSaid, Members DEF Engine!Ignored
<1>2. en.token_len \in 0..MaxTokenLen /\ Engine!Switch(l) \in Action
  BY Members DEF Healthy, EngineType
<1>. DEFINE said == Engine!Switch(l)
            n == en.token_len
<1>. HIDE DEF said, n
<1>3. [en EXCEPT !.layout = l, !.action = said, !.pending = n] \in EngineType
  BY <1>2, Zenon DEF said, n, EngineType, Healthy
<1>4. /\ [en EXCEPT !.layout = l, !.action = said, !.pending = n].context = en.context
      /\ [en EXCEPT !.layout = l, !.action = said, !.pending = n].token_len = en.token_len
      /\ [en EXCEPT !.layout = l, !.action = said, !.pending = n].ignoring = en.ignoring
  BY SMT DEF EngineType, Healthy
<1>5. [en EXCEPT !.layout = l, !.action = said, !.pending = n] \in Reachable(en)
  BY <1>3, <1>4, Zenon DEF Reachable, Healthy, Engine!Bypassing
<1>. QED  BY <1>1, <1>5, Zenon DEF Engine!Inferring, said, n

LEMMA GrownReaches ==
    ASSUME NEW en \in Healthy, ~Engine!Bypassing(en), ~en.ignoring,
           ~Engine!AtLimit(en)
    PROVE  Engine!Grown(en) \in Reachable(en)
<1>. DEFINE len   == en.token_len + 1
            start == IF en.token_len = 0 THEN en.layout ELSE en.start
<1>1. len \in 0..MaxTokenLen /\ start \in Engine!Layout
  BY TokenLengthAssumption DEF Healthy, EngineType, Engine!AtLimit
<1>2. Engine!Grown(en) = [en EXCEPT !.token_len = len, !.start = start]
  BY DEF Engine!Grown
<1>. HIDE DEF len, start
<1>3. [en EXCEPT !.token_len = len, !.start = start] \in EngineType
  BY <1>1, Zenon DEF EngineType, Healthy
<1>4. /\ [en EXCEPT !.token_len = len, !.start = start].context = en.context
      /\ [en EXCEPT !.token_len = len, !.start = start].ignoring = en.ignoring
  BY SMT DEF EngineType, Healthy
<1>. QED  BY <1>2, <1>3, <1>4, Zenon DEF Reachable, Healthy, Engine!Bypassing

LEMMA ShrunkReaches ==
    ASSUME NEW en \in Healthy, ~Engine!Bypassing(en), ~en.ignoring,
           en.token_len # 0
    PROVE  Engine!Shrunk(en) \in Reachable(en)
<1>. DEFINE len == en.token_len - 1
<1>1. len \in 0..MaxTokenLen
  BY TokenLengthAssumption DEF Healthy, EngineType
<1>2. Engine!Shrunk(en) = [en EXCEPT !.token_len = len]
  BY DEF Engine!Shrunk
<1>. HIDE DEF len
<1>3. [en EXCEPT !.token_len = len] \in EngineType
  BY <1>1, Zenon DEF EngineType, Healthy
<1>4. /\ [en EXCEPT !.token_len = len].context = en.context
      /\ [en EXCEPT !.token_len = len].ignoring = en.ignoring
  BY SMT DEF EngineType, Healthy
<1>. QED  BY <1>2, <1>3, <1>4, Zenon DEF Reachable, Healthy, Engine!Bypassing

LEMMA OverflownReaches ==
    ASSUME NEW en \in Healthy
    PROVE  Engine!Overflown(en) \in Reachable(en)
<1>. DEFINE d == Engine!Discarded(en)
<1>1. d \in EngineType /\ d.token_len = 0 /\ d.context = en.context
  BY DiscardedReaches DEF Reachable, Healthy
<1>2. Engine!Overflown(en) = [d EXCEPT !.ignoring = TRUE]
  BY DEF Engine!Overflown
<1>. HIDE DEF d
<1>3. [d EXCEPT !.ignoring = TRUE] \in EngineType
  BY <1>1, Zenon DEF EngineType
<1>4. /\ [d EXCEPT !.ignoring = TRUE].context = d.context
      /\ [d EXCEPT !.ignoring = TRUE].token_len = d.token_len
  BY <1>1, SMT DEF EngineType
<1>. QED  BY <1>1, <1>2, <1>3, <1>4, Zenon DEF Reachable, Healthy

LEMMA InferableLayouts ==
    ASSUME NEW en \in Healthy
    PROVE  Engine!Inferable(en) \subseteq Engine!Layout
  BY DEF Engine!Inferable, Healthy, EngineType

LEMMA ObserveReaches ==
    ASSUME NEW en \in Healthy, NEW key \in Key
    PROVE  Observe(en, key) \subseteq Reachable(en)
<1>1. Engine!Discarded(en) \in Reachable(en)
  BY DiscardedReaches
<1>2. Engine!Ignored(en) \in Reachable(en)
  BY ActionSaid, Members DEF Engine!Ignored
<1>3. ASSUME NEW mid \in Reachable(en), NEW l \in Engine!Inferable(mid)
      PROVE  Engine!Inferring(mid, l) \in Reachable(en)
  BY <1>3, InferableLayouts, InferringReaches DEF Reachable
<1>4. Engine!AfterLetter(en) \subseteq Reachable(en)
  BY <1>1, <1>2, <1>3, GrownReaches, OverflownReaches, Zenon DEF Engine!AfterLetter
<1>5. Engine!AfterBackspace(en) \subseteq Reachable(en)
  BY <1>1, <1>2, <1>3, ShrunkReaches, Zenon DEF Engine!AfterBackspace
<1>. QED  BY <1>1, <1>4, <1>5 DEF Observe

LEMMA ForceSwitchLayoutReaches ==
    ASSUME NEW en \in Healthy
    PROVE  Engine!ForceSwitchLayout(en) \in Reachable(en)
<1>. DEFINE other == Engine!Opposite(en.layout)
            reset == Engine!ResetLayout(en, other)
            said  == Engine!Switch(other)
            n     == en.token_len
<1>1. CASE Engine!Bypassing(en)
  BY <1>1, DiscardedReaches DEF Engine!ForceSwitchLayout
<1>2. CASE ~Engine!Bypassing(en)
  <2>1. other \in Engine!Layout /\ said \in Action /\ n \in 0..MaxTokenLen
    BY Members DEF Engine!Opposite, Engine!Layout, Healthy, EngineType
  <2>2. reset \in Reachable(en)
    BY <2>1, ResetLayoutReaches DEF Healthy
  <2>3. Engine!ForceSwitchLayout(en) = [reset EXCEPT !.action = said, !.pending = n]
    BY <1>2 DEF Engine!ForceSwitchLayout
  <2>. HIDE DEF other, reset, said, n
  <2>4. [reset EXCEPT !.action = said, !.pending = n] \in Reachable(reset)
    BY <2>1, <2>2, ActionSaid DEF Reachable
  <2>. QED  BY <2>2, <2>3, <2>4, Zenon DEF Reachable
<1>. QED  BY <1>1, <1>2

LEMMA SetHostContextObeys ==
    ASSUME NEW en \in Healthy, NEW c \in Engine!Context
    PROVE  /\ Engine!SetHostContext(en, c) \in Healthy
           /\ Engine!SetHostContext(en, c).context = c
<1>. DEFINE set == [en EXCEPT !.context = c, !.action = Engine!None, !.pending = 0]
<1>1. set \in EngineType
  BY Members, Zenon DEF EngineType, Healthy
<1>2. /\ set.context = c
      /\ set.token_len = en.token_len
      /\ set.ignoring = en.ignoring
  BY SMT DEF EngineType, Healthy
<1>3. Engine!SetHostContext(en, c) = IF en.context = c /\ ~Engine!Bypassing(en)
                                     THEN set ELSE Engine!ResetToken(set)
  BY DEF Engine!SetHostContext
<1>. HIDE DEF set
<1>4. Engine!ResetToken(set) \in Reachable(set)
  BY <1>1, ResetTokenReaches
<1>5. en.context = c /\ ~Engine!Bypassing(en) => set \in Healthy
  BY <1>1, <1>2, Zenon DEF Healthy, Engine!Bypassing
<1>. QED  BY <1>2, <1>3, <1>4, <1>5, Zenon DEF Reachable

LEMMA TakePendingReaches ==
    ASSUME NEW en \in Healthy
    PROVE  Engine!TakePendingReplacement(en) \in Reachable(en)
  BY ActionSaid, Members DEF Engine!TakePendingReplacement

-----------------------------------------------------------------------------
(* The agent                                                                *)

Apps  == {AppOf(f) : f \in Field}
Focus == [app : Apps, field : Field \cup {NoField}]

SelectItem  == [kind : {"select"}, layout : Engine!Layout, manual : BOOLEAN,
                plan : PlanType \cup {NoPlan}, replacement : Nat, generation : Nat]
ReplaceItem == [kind : {"replace"}, layout : Engine!Layout, manual : BOOLEAN,
                plan : PlanType, replacement : Nat, generation : Nat]
InstallItem == [kind : {"install"}, app : Apps, generation : Nat,
                field : Field, policy : Policy]

AgentType ==
    [engine : Healthy, snapshot : Policy \cup {"unknown"},
     focus : Focus \cup {NoFocus}, frontmost : Apps, observer : BOOLEAN,
     refresh : [app : Apps, generation : Nat] \cup {NoRefresh},
     accessibility_generation : Nat, degraded_app : Apps \cup {NoApp},
     recovery : Nat \cup {NoTimer}, ready : BOOLEAN,
     synced : Engine!Layout \cup {NoLayout},
     option : {"up", "armed", "cancelled"}, toggle : PlanType \cup {NoToggle},
     replacement_generation : Nat, selection_generation : Nat,
     selection_pending : BOOLEAN, text_generation : Nat, text_pending : BOOLEAN,
     work : Seq(SelectItem \cup ReplaceItem \cup InstallItem)]

\* b comes after a with nothing decided in between: what is queued stays, and
\* may only lapse.
Lapses(b, a) ==
    /\ b \in AgentType
    /\ b.work = a.work
    /\ b.replacement_generation >= a.replacement_generation
    /\ b.selection_generation >= a.selection_generation
    /\ b.text_generation >= a.text_generation
    /\ b.text_pending => a.text_pending
    /\ b.text_generation = a.text_generation => b.text_pending = a.text_pending

Continues(b, a) ==
    /\ Lapses(b, a)
    /\ b.synced = a.synced
    /\ b.ready = a.ready

SamePolicy(b, a) ==
    /\ b.snapshot = a.snapshot
    /\ b.focus = a.focus
    /\ b.engine.context = a.engine.context

Keeps(b, a) == Continues(b, a) /\ SamePolicy(b, a)

Obeys(a) ==
    /\ a.engine.context = EngineContext(a.snapshot)
    /\ a.focus = NoFocus <=> a.snapshot = "unknown"

LEMMA KeepsTransitive ==
    ASSUME NEW a \in AgentType, NEW b, NEW c
    PROVE  /\ Lapses(a, a)
           /\ Lapses(b, a) /\ Lapses(c, b) => Lapses(c, a)
           /\ Continues(a, a)
           /\ Continues(b, a) /\ Continues(c, b) => Continues(c, a)
           /\ Keeps(a, a)
           /\ Keeps(b, a) /\ Keeps(c, b) => Keeps(c, a)
           /\ SamePolicy(b, a) /\ Obeys(a) => Obeys(b)
<1>1. \A x \in AgentType : /\ x.replacement_generation \in Nat
                           /\ x.selection_generation \in Nat
                           /\ x.text_generation \in Nat
  BY DEF AgentType
<1>2. Lapses(a, a)
  BY <1>1 DEF Lapses
<1>3. Lapses(b, a) /\ Lapses(c, b) => Lapses(c, a)
  BY <1>1 DEF Lapses
<1>. QED  BY <1>2, <1>3, Zenon DEF Continues, Keeps, SamePolicy, Obeys

LEMMA CancelTextKeeps ==
    ASSUME NEW a \in AgentType
    PROVE  /\ Keeps(CancelText(a), a)
           /\ ~CancelText(a).text_pending
<1>1. CASE a.text_pending
  <2>. DEFINE n == a.text_generation + 1
              b == [a EXCEPT !.text_generation = n, !.text_pending = FALSE]
  <2>1. CancelText(a) = b
    BY <1>1 DEF CancelText
  <2>2. n \in Nat /\ n > a.text_generation
    BY DEF AgentType
  <2>. HIDE DEF n
  <2>3. b \in AgentType
    BY <2>2, Zenon DEF AgentType
  <2>4. /\ b.text_generation = n /\ b.text_pending = FALSE
        /\ b.work = a.work /\ b.synced = a.synced /\ b.ready = a.ready
        /\ b.replacement_generation = a.replacement_generation
        /\ b.selection_generation = a.selection_generation
        /\ SamePolicy(b, a)
    BY SMT DEF AgentType, SamePolicy
  <2>5. Keeps(b, a)
    <3>. HIDE DEF b
    <3>. QED  BY <2>2, <2>3, <2>4, SMT DEF Keeps, Continues, Lapses, AgentType
  <2>. QED  BY <2>1, <2>4, <2>5
<1>2. CASE ~a.text_pending
  BY <1>2, KeepsTransitive, Zenon DEF CancelText
<1>. QED  BY <1>1, <1>2

\* Updates of single properties that no decision depends on.
LEMMA UpdateKeeps ==
    ASSUME NEW a \in AgentType
    PROVE  /\ \A t \in PlanType \cup {NoToggle} : Keeps([a EXCEPT !.toggle = t], a)
           /\ \A o \in {"up", "armed", "cancelled"} : Keeps([a EXCEPT !.option = o], a)
           /\ \A o \in {"up", "armed", "cancelled"}, t \in PlanType \cup {NoToggle} :
                 Keeps([a EXCEPT !.toggle = t, !.option = o], a)
           /\ \A r \in [app : Apps, generation : Nat] \cup {NoRefresh} :
                 Keeps([a EXCEPT !.refresh = r], a)
           /\ \A o \in BOOLEAN : Keeps([a EXCEPT !.observer = o], a)
           /\ \A d \in Apps \cup {NoApp} : Keeps([a EXCEPT !.degraded_app = d], a)
           /\ \A n \in Nat \cup {NoTimer} : Keeps([a EXCEPT !.recovery = n], a)
           /\ \A f \in Apps : Keeps([a EXCEPT !.frontmost = f], a)
           /\ \A en \in Reachable(a.engine) : Keeps([a EXCEPT !.engine = en], a)
<1>1. ASSUME NEW b \in AgentType,
             b.work = a.work, b.synced = a.synced, b.ready = a.ready,
             b.replacement_generation = a.replacement_generation,
             b.selection_generation = a.selection_generation,
             b.text_generation = a.text_generation,
             b.text_pending = a.text_pending, b.snapshot = a.snapshot,
             b.focus = a.focus, b.engine.context = a.engine.context
      PROVE  Keeps(b, a)
  <2>1. /\ a.replacement_generation \in Nat
        /\ a.selection_generation \in Nat
        /\ a.text_generation \in Nat
    BY DEF AgentType
  <2>. QED  BY <1>1, <2>1 DEF Keeps, Continues, Lapses, SamePolicy
<1>2. ASSUME NEW t \in PlanType \cup {NoToggle}
      PROVE  Keeps([a EXCEPT !.toggle = t], a)
  <2>1. [a EXCEPT !.toggle = t] \in AgentType
    BY Zenon DEF AgentType
  <2>. QED  BY <1>1, <2>1, SMT DEF AgentType
<1>3. ASSUME NEW o \in {"up", "armed", "cancelled"}
      PROVE  Keeps([a EXCEPT !.option = o], a)
  <2>1. [a EXCEPT !.option = o] \in AgentType
    BY Zenon DEF AgentType
  <2>. QED  BY <1>1, <2>1, SMT DEF AgentType
<1>4. ASSUME NEW o \in {"up", "armed", "cancelled"}, NEW t \in PlanType \cup {NoToggle}
      PROVE  Keeps([a EXCEPT !.toggle = t, !.option = o], a)
  <2>. DEFINE b == [a EXCEPT !.toggle = t, !.option = o]
  <2>1. b \in AgentType
    BY Zenon DEF AgentType
  <2>2. /\ b.work = a.work /\ b.synced = a.synced /\ b.ready = a.ready
        /\ b.replacement_generation = a.replacement_generation
        /\ b.selection_generation = a.selection_generation
        /\ b.text_generation = a.text_generation
        /\ b.text_pending = a.text_pending /\ b.snapshot = a.snapshot
        /\ b.focus = a.focus /\ b.engine = a.engine
    BY SMT DEF AgentType
  <2>. HIDE DEF b
  <2>3. Keeps(b, a)
    BY <1>1, <2>1, <2>2, Zenon
  <2>. QED  BY <2>3 DEF b
<1>5. ASSUME NEW r \in [app : Apps, generation : Nat] \cup {NoRefresh}
      PROVE  Keeps([a EXCEPT !.refresh = r], a)
  <2>1. [a EXCEPT !.refresh = r] \in AgentType
    BY Zenon DEF AgentType
  <2>. QED  BY <1>1, <2>1, SMT DEF AgentType
<1>6. ASSUME NEW o \in BOOLEAN
      PROVE  Keeps([a EXCEPT !.observer = o], a)
  <2>1. [a EXCEPT !.observer = o] \in AgentType
    BY Zenon DEF AgentType
  <2>. QED  BY <1>1, <2>1, SMT DEF AgentType
<1>7. ASSUME NEW d \in Apps \cup {NoApp}
      PROVE  Keeps([a EXCEPT !.degraded_app = d], a)
  <2>1. [a EXCEPT !.degraded_app = d] \in AgentType
    BY Zenon DEF AgentType
  <2>. QED  BY <1>1, <2>1, SMT DEF AgentType
<1>8. ASSUME NEW n \in Nat \cup {NoTimer}
      PROVE  Keeps([a EXCEPT !.recovery = n], a)
  <2>1. [a EXCEPT !.recovery = n] \in AgentType
    BY Zenon DEF AgentType
  <2>. QED  BY <1>1, <2>1, SMT DEF AgentType
<1>9. ASSUME NEW f \in Apps
      PROVE  Keeps([a EXCEPT !.frontmost = f], a)
  <2>1. [a EXCEPT !.frontmost = f] \in AgentType
    BY Zenon DEF AgentType
  <2>. QED  BY <1>1, <2>1, SMT DEF AgentType
<1>10. ASSUME NEW en \in Reachable(a.engine)
       PROVE  Keeps([a EXCEPT !.engine = en], a)
  <2>1. en \in Healthy /\ en.context = a.engine.context
    BY DEF Reachable
  <2>2. [a EXCEPT !.engine = en] \in AgentType
    BY <2>1, Zenon DEF AgentType
  <2>. QED  BY <1>1, <2>1, <2>2, SMT DEF AgentType
<1>. QED  BY <1>2, <1>3, <1>4, <1>5, <1>6, <1>7, <1>8, <1>9, <1>10, Zenon

LEMMA CancelReplacementKeeps ==
    ASSUME NEW a \in AgentType, NEW clears \in BOOLEAN
    PROVE  /\ Keeps(CancelReplacement(a, clears), a)
           /\ ~CancelReplacement(a, clears).text_pending
<1>. DEFINE n == a.replacement_generation + 1
            t == IF clears THEN NoToggle ELSE a.toggle
            b == [a EXCEPT !.replacement_generation = n, !.toggle = t]
<1>1. CancelReplacement(a, clears) = CancelText(b)
  BY DEF CancelReplacement
<1>2. n \in Nat /\ n > a.replacement_generation /\ t \in PlanType \cup {NoToggle}
  BY DEF AgentType
<1>. HIDE DEF n, t
<1>3. b \in AgentType
  BY <1>2, Zenon DEF AgentType
<1>4. /\ b.replacement_generation = n
      /\ b.text_generation = a.text_generation /\ b.text_pending = a.text_pending
      /\ b.work = a.work /\ b.synced = a.synced /\ b.ready = a.ready
      /\ b.selection_generation = a.selection_generation
      /\ SamePolicy(b, a)
  BY SMT DEF AgentType, SamePolicy
<1>. HIDE DEF b
<1>5. Keeps(b, a)
  BY <1>2, <1>3, <1>4, SMT DEF Keeps, Continues, Lapses, AgentType
<1>. QED  BY <1>1, <1>3, <1>5, CancelTextKeeps, KeepsTransitive, Zenon

LEMMA CancelSelectionKeeps ==
    ASSUME NEW a \in AgentType
    PROVE  Keeps(CancelSelection(a), a)
<1>. DEFINE n == a.selection_generation + 1
            b == [a EXCEPT !.selection_generation = n, !.selection_pending = FALSE]
<1>1. n \in Nat /\ n > a.selection_generation
  BY DEF AgentType
<1>. HIDE DEF n
<1>2. b \in AgentType
  BY <1>1, Zenon DEF AgentType
<1>3. /\ b.selection_generation = n
      /\ b.text_generation = a.text_generation /\ b.text_pending = a.text_pending
      /\ b.work = a.work /\ b.synced = a.synced /\ b.ready = a.ready
      /\ b.replacement_generation = a.replacement_generation
      /\ SamePolicy(b, a)
  BY SMT DEF AgentType, SamePolicy
<1>4. CancelSelection(a) = IF a.selection_pending THEN b ELSE a
  BY DEF CancelSelection, n
<1>. HIDE DEF b
<1>5. Keeps(b, a)
  BY <1>1, <1>2, <1>3, SMT DEF Keeps, Continues, Lapses, AgentType
<1>. QED  BY <1>4, <1>5, KeepsTransitive, Zenon

LEMMA CancelManualSwitchKeeps ==
    ASSUME NEW a \in AgentType
    PROVE  Keeps(CancelManualSwitch(a), a) /\ Keeps(ResetManualSwitch(a), a)
  BY UpdateKeeps, Zenon DEF CancelManualSwitch, ResetManualSwitch

LEMMA EngineResetKeeps ==
    ASSUME NEW a \in AgentType
    PROVE  Keeps(EngineReset(a), a)
<1>1. a.engine \in EngineType
  BY DEF AgentType, Healthy
<1>2. Engine!ResetToken(a.engine) \in Reachable(a.engine)
  BY <1>1, ResetTokenReaches
<1>. QED  BY <1>2, UpdateKeeps, Zenon DEF EngineReset

LEMMA RequestRefreshKeeps ==
    ASSUME NEW a \in AgentType
    PROVE  Keeps(RequestRefresh(a), a)
<1>1. [app |-> a.frontmost, generation |-> a.accessibility_generation]
         \in [app : Apps, generation : Nat]
  BY DEF AgentType
<1>. QED  BY <1>1, UpdateKeeps, KeepsTransitive, Zenon DEF RequestRefresh

LEMMA TeardownObserverKeeps ==
    ASSUME NEW a \in AgentType
    PROVE  Keeps(TeardownObserver(a), a)
<1>. DEFINE n == a.accessibility_generation + 1
            b == [a EXCEPT !.refresh = NoRefresh, !.accessibility_generation = n,
                           !.observer = FALSE]
<1>1. n \in Nat
  BY DEF AgentType
<1>. HIDE DEF n
<1>2. b \in AgentType
  BY <1>1, Zenon DEF AgentType
<1>3. /\ b.selection_generation = a.selection_generation
      /\ b.text_generation = a.text_generation /\ b.text_pending = a.text_pending
      /\ b.work = a.work /\ b.synced = a.synced /\ b.ready = a.ready
      /\ b.replacement_generation = a.replacement_generation
      /\ SamePolicy(b, a)
  BY SMT DEF AgentType, SamePolicy
<1>4. TeardownObserver(a) = b
  BY DEF TeardownObserver, n
<1>. HIDE DEF b
<1>. QED  BY <1>2, <1>3, <1>4, SMT DEF Keeps, Continues, Lapses, AgentType

LEMMA ConfigureObserverKeeps ==
    ASSUME NEW a \in AgentType, NEW attachable \in BOOLEAN
    PROVE  Keeps(ConfigureObserver(a, attachable), a)
<1>. DEFINE o == /\ attachable
                 /\ ~Disabled(a.snapshot)
                 /\ a.degraded_app # a.frontmost
<1>1. o \in BOOLEAN
  BY Zenon
<1>2. ConfigureObserver(a, attachable) = [TeardownObserver(a) EXCEPT !.observer = o]
  BY Zenon DEF ConfigureObserver
<1>. HIDE DEF o
<1>3. TeardownObserver(a) \in AgentType
  BY TeardownObserverKeeps DEF Keeps, Continues, Lapses
<1>4. Keeps(ConfigureObserver(a, attachable), TeardownObserver(a))
  BY <1>1, <1>2, <1>3, UpdateKeeps, Zenon
<1>. QED  BY <1>3, <1>4, TeardownObserverKeeps, KeepsTransitive, Zenon

-----------------------------------------------------------------------------
(* The host context                                                         *)

LEMMA ContextGiven ==
    /\ \A snapshot : EngineContext(snapshot) \in Engine!Context
    /\ \A f \in Apps : BasePolicy(f) \in Policy
    /\ IsSecure => "secure" \in Policy
<1>1. ASSUME NEW snapshot PROVE EngineContext(snapshot) \in Engine!Context
  <2>1. /\ (snapshot = "secure") \in BOOLEAN
        /\ (snapshot = "autoOff") \in BOOLEAN
    BY Zenon
  <2>2. Disabled(snapshot) \in BOOLEAN
    BY SMT DEF Disabled
  <2>. QED  BY <2>1, <2>2, Zenon DEF EngineContext, Engine!Context
<1>. QED  BY <1>1, SurfaceAssumption DEF Apps, Policy

LEMMA InstallContextObeys ==
    ASSUME NEW a \in AgentType, NEW policy \in Policy, NEW app \in Apps,
           NEW f \in Field \cup {NoField}
    PROVE  /\ Continues(InstallContext(a, policy, app, f), a)
           /\ Obeys(InstallContext(a, policy, app, f))
<1>. DEFINE en == Engine!SetHostContext(a.engine, EngineContext(policy))
            focus == [app |-> app, field |-> f]
            b == [a EXCEPT !.engine = en, !.snapshot = policy, !.focus = focus]
<1>1. en \in Healthy /\ en.context = EngineContext(policy)
  <2>1. a.engine \in Healthy
    BY DEF AgentType
  <2>. QED  BY <2>1, ContextGiven, SetHostContextObeys, Zenon
<1>2. focus \in Focus /\ focus # NoFocus
  BY SurfaceAssumption DEF Focus, NoFocus, Apps
<1>3. InstallContext(a, policy, app, f) = b
  BY DEF InstallContext
<1>4. policy # "unknown"
  BY DEF Policy
<1>. HIDE DEF en, focus
<1>5. b \in AgentType
  BY <1>1, <1>2, Zenon DEF AgentType
<1>6. /\ b.engine = en /\ b.snapshot = policy /\ b.focus = focus
      /\ b.work = a.work /\ b.synced = a.synced /\ b.ready = a.ready
      /\ b.replacement_generation = a.replacement_generation
      /\ b.selection_generation = a.selection_generation
      /\ b.text_generation = a.text_generation
      /\ b.text_pending = a.text_pending
  BY SMT DEF AgentType
<1>. HIDE DEF b
<1>7. Continues(b, a)
  BY <1>5, <1>6, SMT DEF Continues, Lapses, AgentType
<1>8. Obeys(b)
  BY <1>1, <1>2, <1>4, <1>6, Zenon DEF Obeys
<1>. QED  BY <1>3, <1>7, <1>8

LEMMA InstallBaseObeys ==
    ASSUME NEW a \in AgentType
    PROVE  Continues(InstallBase(a), a) /\ Obeys(InstallBase(a))
<1>. DEFINE policy == IF IsSecure THEN "secure" ELSE BasePolicy(a.frontmost)
<1>1. a.frontmost \in Apps
  BY DEF AgentType
<1>2. policy \in Policy
  BY <1>1, ContextGiven
<1>3. InstallBase(a) = InstallContext(a, policy, a.frontmost, NoField)
  BY DEF InstallBase
<1>. HIDE DEF policy
<1>. QED  BY <1>1, <1>2, <1>3, InstallContextObeys

\* The first step of forgetting the policy; the engine has not been told yet.
LEMMA ForgetContinues ==
    ASSUME NEW a \in AgentType
    PROVE  /\ Continues([a EXCEPT !.snapshot = "unknown", !.focus = NoFocus], a)
           /\ [a EXCEPT !.snapshot = "unknown", !.focus = NoFocus].snapshot = "unknown"
           /\ [a EXCEPT !.snapshot = "unknown", !.focus = NoFocus].focus = NoFocus
<1>. DEFINE b == [a EXCEPT !.snapshot = "unknown", !.focus = NoFocus]
<1>1. b \in AgentType
  BY Zenon DEF AgentType
<1>2. /\ b.snapshot = "unknown"
      /\ b.work = a.work /\ b.synced = a.synced /\ b.ready = a.ready
      /\ b.replacement_generation = a.replacement_generation
      /\ b.selection_generation = a.selection_generation
      /\ b.text_generation = a.text_generation
      /\ b.text_pending = a.text_pending
  BY SMT DEF AgentType
<1>3. b.focus = NoFocus
  BY Zenon DEF AgentType
<1>. HIDE DEF b
<1>4. Continues(b, a)
  BY <1>1, <1>2, SMT DEF Continues, Lapses, AgentType
<1>. QED  BY <1>2, <1>3, <1>4 DEF b

LEMMA EngineSet ==
    ASSUME NEW c \in AgentType, NEW en \in Healthy
    PROVE  LET d == [c EXCEPT !.engine = en] IN
           /\ d \in AgentType
           /\ d.engine = en /\ d.snapshot = c.snapshot /\ d.focus = c.focus
           /\ d.work = c.work /\ d.synced = c.synced /\ d.ready = c.ready
           /\ d.replacement_generation = c.replacement_generation
           /\ d.selection_generation = c.selection_generation
           /\ d.text_generation = c.text_generation
           /\ d.text_pending = c.text_pending
<1>1. [c EXCEPT !.engine = en] \in AgentType
  BY Zenon DEF AgentType
<1>. QED  BY <1>1, SMT DEF AgentType

LEMMA InvalidateContextObeys ==
    ASSUME NEW a \in AgentType
    PROVE  /\ Continues(InvalidateContext(a), a)
           /\ Obeys(InvalidateContext(a))
           /\ ~InvalidateContext(a).text_pending
<1>. DEFINE b == [a EXCEPT !.snapshot = "unknown", !.focus = NoFocus]
            r == CancelReplacement(b, TRUE)
            c == CancelSelection(r)
            en == Engine!SetHostContext(c.engine, EngineContext("unknown"))
            d == [c EXCEPT !.engine = en]
<1>1. InvalidateContext(a) = EngineReset(d)
  BY DEF InvalidateContext
<1>2. Continues(b, a) /\ b.snapshot = "unknown" /\ b.focus = NoFocus
  BY ForgetContinues
<1>. HIDE DEF b
<1>3. b \in AgentType
  BY <1>2 DEF Continues, Lapses
<1>4. Keeps(r, b) /\ ~r.text_pending
  BY <1>3, CancelReplacementKeeps, Zenon
<1>. HIDE DEF r
<1>5. Keeps(c, r) /\ c \in AgentType
  BY <1>4, CancelSelectionKeeps DEF Keeps, Continues, Lapses
<1>. HIDE DEF c
<1>6. /\ Continues(c, a)
      /\ ~c.text_pending /\ c.snapshot = "unknown" /\ c.focus = NoFocus
  <2>1. Continues(r, b) /\ Continues(c, r)
    BY <1>4, <1>5 DEF Keeps
  <2>2. Continues(c, a)
    BY <1>2, <1>3, <2>1, KeepsTransitive, Zenon
  <2>. QED  BY <1>2, <1>4, <1>5, <2>2, Zenon DEF Keeps, SamePolicy, Continues, Lapses
<1>7. en \in Healthy /\ en.context = EngineContext("unknown")
  <2>1. c.engine \in Healthy
    BY <1>5 DEF AgentType
  <2>. QED  BY <2>1, ContextGiven, SetHostContextObeys, Zenon
<1>. HIDE DEF en
<1>8. /\ d \in AgentType
      /\ d.engine = en /\ d.snapshot = c.snapshot /\ d.focus = c.focus
      /\ d.work = c.work /\ d.synced = c.synced /\ d.ready = c.ready
      /\ d.replacement_generation = c.replacement_generation
      /\ d.selection_generation = c.selection_generation
      /\ d.text_generation = c.text_generation
      /\ d.text_pending = c.text_pending
  BY <1>5, <1>7, EngineSet, Zenon
<1>. HIDE DEF d
<1>10. Continues(d, c) /\ Obeys(d) /\ ~d.text_pending
  <2>1. Continues(d, c)
    BY <1>5, <1>8, SMT DEF Continues, Lapses, AgentType
  <2>. QED  BY <1>6, <1>7, <1>8, <2>1, Zenon DEF Obeys
<1>11. Keeps(EngineReset(d), d)
  BY <1>8, EngineResetKeeps
<1>12. Continues(EngineReset(d), c)
  BY <1>5, <1>10, <1>11, KeepsTransitive, Zenon DEF Keeps
<1>13. Continues(EngineReset(d), a)
  BY <1>6, <1>12, KeepsTransitive, Zenon
<1>14. Obeys(EngineReset(d))
  BY <1>8, <1>10, <1>11, KeepsTransitive, Zenon DEF Keeps
<1>15. ~EngineReset(d).text_pending
  BY <1>10, <1>11, Zenon DEF Keeps, Continues, Lapses
<1>. QED  BY <1>1, <1>13, <1>14, <1>15

\* What a callback leaves of the agent's policy and of what is queued.
Follows(b, a) == Continues(b, a) /\ (Obeys(a) => Obeys(b))

LEMMA FollowsTransitive ==
    ASSUME NEW a \in AgentType, NEW b, NEW c
    PROVE  /\ Follows(a, a)
           /\ Keeps(b, a) => Follows(b, a)
           /\ Continues(b, a) /\ Obeys(b) => Follows(b, a)
           /\ Follows(b, a) /\ Follows(c, b) => Follows(c, a)
           /\ Follows(b, a) => b \in AgentType
           /\ Follows(b, a) /\ b.text_pending => a.text_pending
  BY KeepsTransitive, Zenon DEF Follows, Keeps, Continues, Lapses

LEMMA HandlePotentialFocusChangeFollows ==
    ASSUME NEW a \in AgentType
    PROVE  Follows(HandlePotentialFocusChange(a), a)
<1>. DEFINE r == ResetManualSwitch(a)
            c == [r EXCEPT !.toggle = NoToggle]
            i == InvalidateContext(c)
<1>1. Keeps(r, a) /\ r \in AgentType
  BY CancelManualSwitchKeeps DEF Keeps, Continues, Lapses
<1>2. Keeps(c, r) /\ c \in AgentType
  <2>1. Keeps(c, r)
    BY <1>1, UpdateKeeps, Zenon
  <2>. QED  BY <2>1 DEF Keeps, Continues, Lapses
<1>3. Follows(c, a)
  BY <1>1, <1>2, KeepsTransitive, FollowsTransitive, Zenon
<1>4. HandlePotentialFocusChange(a) = IF c.observer THEN RequestRefresh(i) ELSE c
  BY DEF HandlePotentialFocusChange
<1>. HIDE DEF r, c
<1>5. Follows(i, c) /\ i \in AgentType
  BY <1>2, InvalidateContextObeys, FollowsTransitive, Zenon
<1>6. Follows(RequestRefresh(i), i)
  BY <1>5, RequestRefreshKeeps, FollowsTransitive, Zenon
<1>7. Follows(RequestRefresh(i), a)
  BY <1>3, <1>5, <1>6, FollowsTransitive, Zenon
<1>. QED  BY <1>3, <1>4, <1>7

LEMMA CheckContextFollows ==
    ASSUME NEW a \in AgentType
    PROVE  Follows(CheckContext(a), a)
<1>1. Follows(EngineReset(a), a)
  BY EngineResetKeeps, FollowsTransitive, Zenon
<1>2. Follows(InstallBase(a), a)
  BY InstallBaseObeys, FollowsTransitive, Zenon
<1>3. Follows(RequestRefresh(InvalidateContext(a)), a)
  <2>1. Follows(InvalidateContext(a), a) /\ InvalidateContext(a) \in AgentType
    BY InvalidateContextObeys, FollowsTransitive, Zenon
  <2>2. Follows(RequestRefresh(InvalidateContext(a)), InvalidateContext(a))
    BY <2>1, RequestRefreshKeeps, FollowsTransitive, Zenon
  <2>. QED  BY <2>1, <2>2, FollowsTransitive, Zenon
<1>. QED  BY <1>1, <1>2, <1>3, FollowsTransitive, Zenon DEF CheckContext

-----------------------------------------------------------------------------
(* The queue                                                                *)

\* No two decisions share a generation, none is younger than the last given
\* out; the text replacer is pending while its last item is queued, and then
\* no selection can still go on to another.
QueueInv(a) ==
    /\ \A i \in 1..Len(a.work) :
          /\ a.work[i].kind = "select" =>
                /\ a.work[i].generation <= a.selection_generation
                /\ a.work[i].replacement <= a.replacement_generation
                /\ /\ a.work[i].generation = a.selection_generation
                   /\ a.work[i].replacement = a.replacement_generation
                   => ~a.text_pending
          /\ a.work[i].kind = "replace" =>
                /\ a.work[i].generation <= a.text_generation
                /\ a.work[i].generation = a.text_generation => a.text_pending
    /\ \A i, j \in 1..Len(a.work) :
          /\ i # j
          /\ a.work[i].kind = a.work[j].kind
          /\ a.work[i].kind \in {"select", "replace"}
          => a.work[i].generation # a.work[j].generation

Item == SelectItem \cup ReplaceItem \cup InstallItem

LEMMA ItemKinds ==
    ASSUME NEW item \in Item
    PROVE  /\ item.kind = "select" => item \in SelectItem
           /\ item.kind = "replace" => item \in ReplaceItem
           /\ item.kind = "install" => item \in InstallItem
           /\ item.kind \in {"select", "replace", "install"}
  BY DEF Item, SelectItem, ReplaceItem, InstallItem

LEMMA WorkTyped ==
    ASSUME NEW a \in AgentType
    PROVE  /\ a.work \in Seq(Item)
           /\ \A i \in 1..Len(a.work) : a.work[i] \in Item
           /\ a.work # <<>> => Head(a.work) = a.work[1] /\ Head(a.work) \in Item
           /\ a.replacement_generation \in Nat
           /\ a.selection_generation \in Nat
           /\ a.text_generation \in Nat
<1>1. a.work \in Seq(Item)
  BY Zenon DEF AgentType, Item
<1>2. /\ a.replacement_generation \in Nat
      /\ a.selection_generation \in Nat
      /\ a.text_generation \in Nat
  BY DEF AgentType
<1>. QED  BY <1>1, <1>2

LEMMA GenerationsTyped ==
    ASSUME NEW item \in Item
    PROVE  /\ item.kind \in {"select", "replace"} => item.generation \in Nat
           /\ item.kind = "select" => item.replacement \in Nat
  BY DEF Item, SelectItem, ReplaceItem, InstallItem

LEMMA LapsedQueue ==
    ASSUME NEW a \in AgentType, NEW b, Lapses(b, a), QueueInv(a)
    PROVE  QueueInv(b)
<1>1. b \in AgentType /\ b.work = a.work
  BY DEF Lapses
<1>2. \A i \in 1..Len(a.work) :
         /\ a.work[i].kind \in {"select", "replace"} => a.work[i].generation \in Nat
         /\ a.work[i].kind = "select" => a.work[i].replacement \in Nat
  BY WorkTyped, GenerationsTyped
<1>3. /\ a.replacement_generation \in Nat /\ b.replacement_generation \in Nat
      /\ a.selection_generation \in Nat /\ b.selection_generation \in Nat
      /\ a.text_generation \in Nat /\ b.text_generation \in Nat
  BY <1>1, WorkTyped
<1>. QED  BY <1>1, <1>2, <1>3 DEF QueueInv, Lapses

LEMMA QueueRest ==
    ASSUME NEW a \in AgentType, QueueInv(a), a.work # <<>>
    PROVE  LET b == [a EXCEPT !.work = Tail(@)]
               head == Head(a.work) IN
           /\ b \in AgentType
           /\ b.replacement_generation = a.replacement_generation
           /\ b.selection_generation = a.selection_generation
           /\ b.text_generation = a.text_generation
           /\ b.text_pending = a.text_pending
           /\ b.synced = a.synced /\ b.ready = a.ready
           /\ SamePolicy(b, a)
           /\ QueueInv(b)
           /\ \A i \in 1..Len(b.work) :
                 /\ b.work[i].kind = head.kind
                 /\ head.kind \in {"select", "replace"}
                 => b.work[i].generation # head.generation
<1>. DEFINE tail == Tail(a.work)
            b    == [a EXCEPT !.work = tail]
<1>1. a.work \in Seq(Item) /\ Head(a.work) = a.work[1]
  BY WorkTyped
<1>2. /\ tail \in Seq(Item)
      /\ Len(tail) = Len(a.work) - 1
      /\ \A i \in 1..Len(tail) : tail[i] = a.work[i + 1] /\ i + 1 \in 1..Len(a.work)
      /\ 1 \in 1..Len(a.work)
  BY <1>1
<1>. HIDE DEF tail
<1>3. b \in AgentType
  BY <1>2, Zenon DEF AgentType, Item
<1>4. /\ b.work = tail
      /\ b.replacement_generation = a.replacement_generation
      /\ b.selection_generation = a.selection_generation
      /\ b.text_generation = a.text_generation
      /\ b.text_pending = a.text_pending
      /\ b.synced = a.synced /\ b.ready = a.ready
      /\ SamePolicy(b, a)
  BY SMT DEF AgentType, SamePolicy
<1>5. b = [a EXCEPT !.work = Tail(@)]
  BY DEF tail
<1>. HIDE DEF b
<1>6. QueueInv(b)
  <2>1. ASSUME NEW i \in 1..Len(b.work)
        PROVE  i + 1 \in 1..Len(a.work) /\ b.work[i] = a.work[i + 1] /\ i \in Int
    BY <1>2, <1>4
  <2>2. ASSUME NEW i \in 1..Len(b.work)
        PROVE  /\ b.work[i].kind = "select" =>
                     /\ b.work[i].generation <= b.selection_generation
                     /\ b.work[i].replacement <= b.replacement_generation
                     /\ /\ b.work[i].generation = b.selection_generation
                        /\ b.work[i].replacement = b.replacement_generation
                        => ~b.text_pending
               /\ b.work[i].kind = "replace" =>
                     /\ b.work[i].generation <= b.text_generation
                     /\ b.work[i].generation = b.text_generation => b.text_pending
    <3>. DEFINE k == i + 1
    <3>1. k \in 1..Len(a.work) /\ b.work[i] = a.work[k]
      BY <2>1
    <3>. HIDE DEF k
    <3>. QED  BY <1>4, <3>1, Zenon DEF QueueInv
  <2>3. ASSUME NEW i \in 1..Len(b.work), NEW j \in 1..Len(b.work), i # j,
               b.work[i].kind = b.work[j].kind,
               b.work[i].kind \in {"select", "replace"}
        PROVE  b.work[i].generation # b.work[j].generation
    <3>. DEFINE k == i + 1
                l == j + 1
    <3>1. /\ k \in 1..Len(a.work) /\ b.work[i] = a.work[k]
          /\ l \in 1..Len(a.work) /\ b.work[j] = a.work[l]
          /\ k # l
      BY <2>1, <2>3
    <3>. HIDE DEF k, l
    <3>. QED  BY <2>3, <3>1, Zenon DEF QueueInv
  <2>. QED  BY <2>2, <2>3, Zenon DEF QueueInv
<1>7. \A i \in 1..Len(b.work) :
         /\ b.work[i].kind = Head(a.work).kind
         /\ Head(a.work).kind \in {"select", "replace"}
         => b.work[i].generation # Head(a.work).generation
  <2>1. \A i \in 1..Len(tail) : i + 1 # 1
    BY <1>2
  <2>. QED  BY <1>1, <1>2, <1>4, <2>1 DEF QueueInv
<1>. QED  BY <1>3, <1>4, <1>5, <1>6, <1>7

\* A new item at the end of the queue.
LEMMA QueueAppend ==
    ASSUME NEW a \in AgentType, QueueInv(a), NEW item \in Item,
           NEW b \in AgentType, b.work = Append(a.work, item),
           b.replacement_generation = a.replacement_generation,
           \/ /\ item.kind = "install"
              /\ b.selection_generation = a.selection_generation
              /\ b.text_generation = a.text_generation
              /\ b.text_pending = a.text_pending
           \/ /\ item.kind = "select"
              /\ ~a.text_pending
              /\ b.selection_generation = a.selection_generation + 1
              /\ b.text_generation = a.text_generation
              /\ b.text_pending = a.text_pending
              /\ item.generation = b.selection_generation
              /\ item.replacement = b.replacement_generation
           \/ /\ item.kind = "replace"
              /\ \A i \in 1..Len(a.work) :
                    a.work[i].kind = "select" =>
                       a.work[i].generation # a.selection_generation
              /\ b.selection_generation = a.selection_generation
              /\ b.text_generation = a.text_generation + 1
              /\ b.text_pending
              /\ item.generation = b.text_generation
    PROVE  QueueInv(b)
<1>. DEFINE n == Len(a.work) + 1
<1>1. /\ Len(b.work) = n
      /\ b.work[n] = item
      /\ \A i \in 1..Len(b.work) :
            i # n => i \in 1..Len(a.work) /\ b.work[i] = a.work[i]
      /\ n \in 1..Len(b.work)
  BY WorkTyped
<1>2. /\ a.selection_generation \in Nat /\ a.text_generation \in Nat
      /\ a.replacement_generation \in Nat
  BY WorkTyped
<1>3. \A i \in 1..Len(a.work) :
         /\ a.work[i].kind \in {"select", "replace"} => a.work[i].generation \in Nat
         /\ a.work[i].kind = "select" => a.work[i].replacement \in Nat
  BY WorkTyped, GenerationsTyped
<1>. HIDE DEF n
<1>4. ASSUME NEW i \in 1..Len(b.work)
      PROVE  /\ b.work[i].kind = "select" =>
                   /\ b.work[i].generation <= b.selection_generation
                   /\ b.work[i].replacement <= b.replacement_generation
                   /\ /\ b.work[i].generation = b.selection_generation
                      /\ b.work[i].replacement = b.replacement_generation
                      => ~b.text_pending
             /\ b.work[i].kind = "replace" =>
                   /\ b.work[i].generation <= b.text_generation
                   /\ b.work[i].generation = b.text_generation => b.text_pending
  <2>1. CASE i = n
    BY <1>1, <1>2, <2>1
  <2>2. CASE i # n
    BY <1>1, <1>2, <1>3, <2>2 DEF QueueInv
  <2>. QED  BY <2>1, <2>2
<1>5. ASSUME NEW i \in 1..Len(a.work), a.work[i].kind = item.kind,
             item.kind \in {"select", "replace"}
      PROVE  a.work[i].generation # item.generation
  BY <1>2, <1>3, <1>5 DEF QueueInv
<1>6. ASSUME NEW i \in 1..Len(b.work), NEW j \in 1..Len(b.work), i # j,
             b.work[i].kind = b.work[j].kind,
             b.work[i].kind \in {"select", "replace"}
      PROVE  b.work[i].generation # b.work[j].generation
  <2>1. CASE i = n \/ j = n
    BY <1>1, <1>5, <1>6, <2>1
  <2>2. CASE i # n /\ j # n
    BY <1>1, <1>6, <2>2 DEF QueueInv
  <2>. QED  BY <2>1, <2>2
<1>. QED  BY <1>4, <1>6 DEF QueueInv

-----------------------------------------------------------------------------
(* Decisions and their ends                                                 *)

\* What holds of the agent between two callbacks.
Good(a) == a \in AgentType /\ Obeys(a) /\ QueueInv(a)

LEMMA FollowsGood ==
    ASSUME NEW a, Good(a), NEW b, Follows(b, a)
    PROVE  /\ Good(b)
           /\ b.synced = a.synced /\ b.ready = a.ready
<1>1. a \in AgentType /\ b \in AgentType /\ Lapses(b, a)
  BY Zenon DEF Good, Follows, Continues, Lapses
<1>2. QueueInv(b)
  BY <1>1, LapsedQueue, Zenon DEF Good
<1>. QED  BY <1>1, <1>2, Zenon DEF Good, Follows, Continues

LEMMA PlanTyped ==
    ASSUME NEW a \in AgentType, NEW manual \in BOOLEAN
    PROVE  PlanFor(a, manual) \in PlanType \cup {NoPlan}
<1>1. CASE a.focus # NoFocus /\ a.engine.pending > 0
  <2>1. a.focus \in Focus /\ a.engine.pending \in 1..MaxTokenLen
    BY <1>1, TokenLengthAssumption DEF AgentType, Healthy, EngineType
  <2>. QED  BY <1>1, <2>1 DEF PlanFor, PlanType, Focus, Apps
<1>2. ASSUME a.toggle # NoToggle
      PROVE  [count |-> a.toggle.count, focus |-> a.toggle.focus] \in PlanType
  <2>1. a.toggle \in PlanType
    BY <1>2 DEF AgentType
  <2>. QED  BY <2>1 DEF PlanType
<1>. QED  BY <1>1, <1>2, Zenon DEF PlanFor

LEMMA ActionTyped ==
    ASSUME NEW en \in Healthy
    PROVE  en.action.layout \in Engine!Layout
<1>1. en.action \in Action
  BY DEF Healthy, EngineType
<1>. QED  BY <1>1 DEF Action, Engine!None, Engine!Reset, Engine!Switch, Engine!Layout

LEMMA ApplyGood ==
    ASSUME NEW a, Good(a), ~a.text_pending, NEW manual \in BOOLEAN
    PROVE  /\ Good(Apply(a, manual))
           /\ Apply(a, manual).synced = a.synced
           /\ Apply(a, manual).ready = a.ready
<1>. DEFINE plan == PlanFor(a, manual)
            en   == Engine!TakePendingReplacement(a.engine)
            t    == IF manual /\ plan = NoPlan THEN NoToggle ELSE a.toggle
            n    == a.selection_generation + 1
            item == [kind |-> "select", layout |-> a.engine.action.layout,
                     manual |-> manual, plan |-> plan,
                     replacement |-> a.replacement_generation, generation |-> n]
            work == Append(a.work, item)
            b    == [a EXCEPT !.engine = en, !.toggle = t,
                              !.selection_generation = n,
                              !.selection_pending = TRUE, !.work = work]
<1>1. Apply(a, manual) = IF a.engine.action.tag # "SwitchFutureLayout" THEN a ELSE b
  BY DEF Apply
<1>2. a \in AgentType /\ Obeys(a) /\ QueueInv(a)
  BY DEF Good
<1>3. en \in Healthy /\ en.context = a.engine.context
  BY <1>2, TakePendingReaches DEF AgentType, Reachable
<1>4. /\ plan \in PlanType \cup {NoPlan}
      /\ t \in PlanType \cup {NoToggle}
      /\ n \in Nat
  BY <1>2, PlanTyped DEF AgentType
<1>5. item \in SelectItem
  <2>1. a.engine.action.layout \in Engine!Layout /\ a.replacement_generation \in Nat
    BY <1>2, ActionTyped DEF AgentType
  <2>. HIDE DEF plan, n
  <2>. QED  BY <1>4, <2>1, Zenon DEF SelectItem
<1>6. /\ item.kind = "select" /\ item.generation = n
      /\ item.replacement = a.replacement_generation
  OBVIOUS
<1>7. n = a.selection_generation + 1
  OBVIOUS
<1>. HIDE DEF plan, en, t, n, item
<1>8. item \in Item /\ work \in Seq(Item)
  BY <1>2, <1>5, WorkTyped DEF Item
<1>9. work = Append(a.work, item)
  OBVIOUS
<1>. HIDE DEF work
<1>10. b \in AgentType
  BY <1>2, <1>3, <1>4, <1>8, Zenon DEF AgentType, Item
<1>11. /\ b.engine = en /\ b.work = work /\ b.selection_generation = n
       /\ b.synced = a.synced /\ b.ready = a.ready
       /\ b.snapshot = a.snapshot /\ b.focus = a.focus
       /\ b.replacement_generation = a.replacement_generation
       /\ b.text_generation = a.text_generation
       /\ b.text_pending = a.text_pending
  BY <1>2, SMT DEF AgentType
<1>. HIDE DEF b
<1>12. QueueInv(b)
  BY <1>2, <1>6, <1>7, <1>8, <1>9, <1>10, <1>11, QueueAppend, Zenon
<1>13. Obeys(b)
  BY <1>2, <1>3, <1>11, Zenon DEF Obeys
<1>. QED  BY <1>1, <1>2, <1>10, <1>11, <1>12, <1>13, Zenon DEF Good

\* The agent learns which input source is selected.
LEMMA SyncLayoutKnows ==
    ASSUME NEW a \in AgentType, NEW l \in Engine!Layout \cup {NoLayout}
    PROVE  /\ Lapses(SyncLayout(a, l), a)
           /\ SamePolicy(SyncLayout(a, l), a)
           /\ SyncLayout(a, l).synced = l
           /\ SyncLayout(a, l).ready => l # NoLayout
<1>0. ASSUME NEW b \in AgentType,
             b.work = a.work,
             b.replacement_generation = a.replacement_generation,
             b.selection_generation = a.selection_generation,
             b.text_generation = a.text_generation,
             b.text_pending = a.text_pending
      PROVE  Lapses(b, a)
  BY <1>0, WorkTyped DEF Lapses
<1>1. CASE l = NoLayout
  <2>. DEFINE b == [a EXCEPT !.ready = FALSE, !.synced = NoLayout]
  <2>1. b \in AgentType
    BY Zenon DEF AgentType
  <2>2. /\ b.work = a.work /\ SamePolicy(b, a)
        /\ b.replacement_generation = a.replacement_generation
        /\ b.selection_generation = a.selection_generation
        /\ b.text_generation = a.text_generation
        /\ b.text_pending = a.text_pending
        /\ b.synced = NoLayout /\ b.ready = FALSE
    BY SMT DEF AgentType, SamePolicy
  <2>3. SyncLayout(a, l) = EngineReset(b)
    BY <1>1 DEF SyncLayout
  <2>. HIDE DEF b
  <2>4. Lapses(b, a)
    BY <1>0, <2>1, <2>2, Zenon
  <2>5. Keeps(EngineReset(b), b)
    BY <2>1, EngineResetKeeps
  <2>6. Lapses(EngineReset(b), a)
    BY <2>4, <2>5, KeepsTransitive, Zenon DEF Keeps, Continues
  <2>. QED  BY <1>1, <2>2, <2>3, <2>5, <2>6, Zenon DEF Keeps, Continues, SamePolicy
<1>2. CASE l # NoLayout /\ l = a.synced
  <2>. DEFINE b == [a EXCEPT !.ready = TRUE]
  <2>1. b \in AgentType
    BY Zenon DEF AgentType
  <2>2. /\ b.work = a.work /\ SamePolicy(b, a)
        /\ b.replacement_generation = a.replacement_generation
        /\ b.selection_generation = a.selection_generation
        /\ b.text_generation = a.text_generation
        /\ b.text_pending = a.text_pending
        /\ b.synced = a.synced
    BY SMT DEF AgentType, SamePolicy
  <2>3. SyncLayout(a, l) = b
    BY <1>2 DEF SyncLayout
  <2>. HIDE DEF b
  <2>. QED  BY <1>0, <1>2, <2>1, <2>2, <2>3, Zenon
<1>3. CASE l # NoLayout /\ l # a.synced
  <2>. DEFINE en == Engine!ResetLayout(a.engine, l)
              b  == [a EXCEPT !.ready = TRUE, !.synced = l, !.engine = en]
  <2>1. en \in Healthy /\ en.context = a.engine.context
    BY <1>3, ResetLayoutReaches DEF AgentType, Healthy, Reachable
  <2>2. SyncLayout(a, l) = b
    BY <1>3 DEF SyncLayout
  <2>. HIDE DEF en
  <2>3. b \in AgentType
    BY <2>1, Zenon DEF AgentType
  <2>4. /\ b.work = a.work /\ b.engine = en
        /\ b.snapshot = a.snapshot /\ b.focus = a.focus
        /\ b.replacement_generation = a.replacement_generation
        /\ b.selection_generation = a.selection_generation
        /\ b.text_generation = a.text_generation
        /\ b.text_pending = a.text_pending
        /\ b.synced = l
    BY SMT DEF AgentType
  <2>. HIDE DEF b
  <2>. QED  BY <1>0, <1>3, <2>1, <2>2, <2>3, <2>4, Zenon DEF SamePolicy
<1>. QED  BY <1>1, <1>2, <1>3

LEMMA SyncLayoutGood ==
    ASSUME NEW a, Good(a), NEW l \in Engine!Layout \cup {NoLayout}
    PROVE  Good(SyncLayout(a, l))
<1>1. a \in AgentType /\ Lapses(SyncLayout(a, l), a) /\ SamePolicy(SyncLayout(a, l), a)
  BY SyncLayoutKnows, Zenon DEF Good
<1>2. QueueInv(SyncLayout(a, l)) /\ Obeys(SyncLayout(a, l))
  BY <1>1, LapsedQueue, KeepsTransitive, Zenon DEF Good
<1>. QED  BY <1>1, <1>2, Zenon DEF Good, Lapses

LEMMA SourceSet ==
    ASSUME NEW a, Good(a), NEW l \in Engine!Layout \cup {NoLayout}
    PROVE  /\ Good([a EXCEPT !.synced = l])
           /\ Good([a EXCEPT !.synced = l, !.ready = TRUE])
           /\ [a EXCEPT !.synced = l, !.ready = TRUE].synced = l
<1>0. a \in AgentType
  BY DEF Good
<1>1. ASSUME NEW b \in AgentType,
             b.work = a.work, b.snapshot = a.snapshot, b.focus = a.focus,
             b.engine = a.engine,
             b.replacement_generation = a.replacement_generation,
             b.selection_generation = a.selection_generation,
             b.text_generation = a.text_generation,
             b.text_pending = a.text_pending
      PROVE  Good(b)
  <2>1. Lapses(b, a)
    BY <1>0, <1>1, WorkTyped DEF Lapses
  <2>. QED  BY <1>0, <1>1, <2>1, LapsedQueue, Zenon DEF Good, Obeys
<1>2. Good([a EXCEPT !.synced = l])
  <2>. DEFINE b == [a EXCEPT !.synced = l]
  <2>1. b \in AgentType
    BY <1>0, Zenon DEF AgentType
  <2>2. /\ b.work = a.work /\ b.snapshot = a.snapshot /\ b.focus = a.focus
        /\ b.engine = a.engine
        /\ b.replacement_generation = a.replacement_generation
        /\ b.selection_generation = a.selection_generation
        /\ b.text_generation = a.text_generation
        /\ b.text_pending = a.text_pending
    BY <1>0, SMT DEF AgentType
  <2>. HIDE DEF b
  <2>3. Good(b)
    BY <1>1, <2>1, <2>2, Zenon
  <2>. QED  BY <2>3 DEF b
<1>3. /\ Good([a EXCEPT !.synced = l, !.ready = TRUE])
      /\ [a EXCEPT !.synced = l, !.ready = TRUE].synced = l
  <2>. DEFINE b == [a EXCEPT !.synced = l, !.ready = TRUE]
  <2>1. b \in AgentType
    BY <1>0, Zenon DEF AgentType
  <2>2. /\ b.work = a.work /\ b.snapshot = a.snapshot /\ b.focus = a.focus
        /\ b.engine = a.engine /\ b.synced = l
        /\ b.replacement_generation = a.replacement_generation
        /\ b.selection_generation = a.selection_generation
        /\ b.text_generation = a.text_generation
        /\ b.text_pending = a.text_pending
    BY <1>0, SMT DEF AgentType
  <2>. HIDE DEF b
  <2>3. Good(b)
    BY <1>1, <2>1, <2>2, Zenon
  <2>. QED  BY <2>2, <2>3 DEF b
<1>. QED  BY <1>2, <1>3

LEMMA SelectionFailedGood ==
    ASSUME NEW a, Good(a), os_layout \in Engine!Layout \cup {NoLayout}
    PROVE  /\ Good(SelectionFailed(a))
           /\ SelectionFailed(a).synced = os_layout
           /\ SelectionFailed(a).ready => os_layout # NoLayout
<1>. DEFINE b == [a EXCEPT !.synced = NoLayout]
            c == SyncLayout(b, os_layout)
            d == CancelReplacement(c, TRUE)
<1>1. Good(b)
  BY SourceSet, Zenon
<1>2. d = SelectionFailed(a)
  BY DEF SelectionFailed
<1>. HIDE DEF b
<1>3. /\ Good(c) /\ c \in AgentType /\ c.synced = os_layout
      /\ c.ready => os_layout # NoLayout
  BY <1>1, SyncLayoutGood, SyncLayoutKnows, Zenon DEF Good
<1>. HIDE DEF c
<1>4. Follows(d, c)
  BY <1>3, CancelReplacementKeeps, FollowsTransitive, Zenon
<1>5. Good(d) /\ d.synced = c.synced /\ d.ready = c.ready
  BY <1>3, <1>4, FollowsGood, Zenon
<1>. QED  BY <1>2, <1>3, <1>5, Zenon

\* A selection that was decided on hands its text over to the replacer; it was
\* the only current one.
LEMMA ReplaceLastTokenGood ==
    ASSUME NEW a, Good(a), NEW item \in SelectItem, item.plan # NoPlan,
           \A i \in 1..Len(a.work) :
              a.work[i].kind = "select" =>
                 a.work[i].generation # a.selection_generation
    PROVE  /\ Good(ReplaceLastToken(a, item))
           /\ ReplaceLastToken(a, item).synced = a.synced
           /\ ReplaceLastToken(a, item).ready = a.ready
<1>. DEFINE c    == CancelText(a)
            n    == c.text_generation + 1
            next == [item EXCEPT !.kind = "replace", !.generation = n]
            work == Append(c.work, next)
            b    == [c EXCEPT !.text_generation = n, !.text_pending = TRUE,
                              !.work = work]
<1>1. ReplaceLastToken(a, item) = b
  BY DEF ReplaceLastToken
<1>2. a \in AgentType
  BY DEF Good
<1>3. Keeps(c, a) /\ Good(c)
  BY <1>2, CancelTextKeeps, FollowsTransitive, FollowsGood, Zenon
<1>4. /\ c \in AgentType /\ c.work = a.work /\ Obeys(c) /\ QueueInv(c)
      /\ c.synced = a.synced /\ c.ready = a.ready
  BY <1>3 DEF Good, Keeps, Continues, Lapses
<1>5. c.selection_generation = a.selection_generation
  <2>1. /\ [a EXCEPT !.text_generation = @ + 1, !.text_pending = FALSE].selection_generation
            = a.selection_generation
    BY <1>2, SMT DEF AgentType
  <2>. QED  BY <2>1, Zenon DEF CancelText
<1>. HIDE DEF c
<1>6. n \in Nat
  BY <1>4, WorkTyped
<1>7. next \in ReplaceItem /\ next.kind = "replace" /\ next.generation = n
  <2>1. item.plan \in PlanType
    BY DEF SelectItem
  <2>. HIDE DEF n
  <2>2. next.kind = "replace" /\ next.generation = n /\ next.plan = item.plan
    BY SMT DEF SelectItem
  <2>3. next \in [kind : {"select", "replace"}, layout : Engine!Layout,
                  manual : BOOLEAN, plan : PlanType \cup {NoPlan},
                  replacement : Nat, generation : Nat]
    BY <1>6, Zenon DEF SelectItem
  <2>. HIDE DEF next
  <2>. QED  BY <2>1, <2>2, <2>3 DEF ReplaceItem
<1>8. n = c.text_generation + 1
  OBVIOUS
<1>. HIDE DEF n, next
<1>9. next \in Item /\ work \in Seq(Item) /\ work = Append(c.work, next)
  BY <1>4, <1>7, WorkTyped DEF Item
<1>. HIDE DEF work
<1>10. b \in AgentType
  BY <1>4, <1>6, <1>9, Zenon DEF AgentType, Item
<1>11. /\ b.engine = c.engine /\ b.work = work
       /\ b.selection_generation = c.selection_generation
       /\ b.synced = c.synced /\ b.ready = c.ready
       /\ b.snapshot = c.snapshot /\ b.focus = c.focus
       /\ b.replacement_generation = c.replacement_generation
       /\ b.text_generation = n /\ b.text_pending = TRUE
  BY <1>4, SMT DEF AgentType
<1>. HIDE DEF b
<1>12. QueueInv(b)
  BY <1>4, <1>5, <1>7, <1>8, <1>9, <1>10, <1>11, QueueAppend, Zenon
<1>. QED  BY <1>1, <1>4, <1>10, <1>11, <1>12, Zenon DEF Good, Obeys

-----------------------------------------------------------------------------
(* The inductive invariant                                                  *)

Notice == {"focus", "app", "source"}

Surroundings ==
    /\ capturing \in InstallItem \cup {NoRefresh}
    /\ notices \subseteq Notice
    /\ field \in Field
    /\ run \in Nat
    /\ os_layout \in Engine!Layout \cup {NoLayout}

AgentInv == Good(agent) /\ Surroundings /\ InputSourceIsKnown

\* Most callbacks leave the input source alone.
LEMMA SourceUntouched ==
    ASSUME AgentInv, Good(agent'), Surroundings',
           agent'.synced = agent.synced, agent'.ready = agent.ready,
           os_layout' = os_layout, notices \cap {"source"} \subseteq notices'
    PROVE  AgentInv'
  BY DEF AgentInv, InputSourceIsKnown

LEMMA MoveCaretTyped ==
    ASSUME AgentInv, NEW f \in Field, MoveCaret(f)
    PROVE  /\ field' \in Field /\ run' \in Nat /\ notices' \subseteq Notice
           /\ notices \cap {"source"} \subseteq notices'
  BY DEF AgentInv, Surroundings, MoveCaret, Notice

LEMMA KeyTypesTyped ==
    ASSUME AgentInv, NEW key \in Key, KeyTypes(key)
    PROVE  /\ field' \in Field /\ run' \in Nat /\ notices' \subseteq Notice
           /\ notices \cap {"source"} \subseteq notices'
<1>1. ASSUME NEW f \in InSameApp, MoveCaret(f)
      PROVE  /\ field' \in Field /\ run' \in Nat /\ notices' \subseteq Notice
             /\ notices \cap {"source"} \subseteq notices'
  BY <1>1, MoveCaretTyped DEF InSameApp
<1>2. CASE key = "focusKey" /\ \E f \in InSameApp : MoveCaret(f)
  BY <1>1, <1>2
<1>3. CASE UNCHANGED <<field, notices>> /\ run' \in Nat
  BY <1>3 DEF AgentInv, Surroundings
<1>4. run \in Nat
  BY DEF AgentInv, Surroundings
<1>. QED  BY <1>2, <1>3, <1>4 DEF KeyTypes

LEMMA ProcessKeyStep ==
    ASSUME AgentInv, NEW key \in Key, ProcessKey(key)
    PROVE  AgentInv'
<1>. DEFINE r == CancelReplacement(agent, TRUE)
            cancelled == CancelManualSwitch(r)
            a == CheckContext(cancelled)
<1>1. Good(agent) /\ agent \in AgentType
  BY DEF AgentInv, Good
<1>2. Follows(r, agent) /\ ~r.text_pending /\ r \in AgentType
  BY <1>1, CancelReplacementKeeps, FollowsTransitive, Zenon
<1>. HIDE DEF r
<1>3. Follows(cancelled, r) /\ cancelled \in AgentType /\ ~cancelled.text_pending
  BY <1>2, CancelManualSwitchKeeps, FollowsTransitive, Zenon
<1>. HIDE DEF cancelled
<1>4. Follows(a, cancelled) /\ a \in AgentType /\ ~a.text_pending
  BY <1>3, CheckContextFollows, FollowsTransitive, Zenon
<1>. HIDE DEF a
<1>5. Follows(a, agent)
  BY <1>1, <1>2, <1>3, <1>4, FollowsTransitive, Zenon
<1>6. Good(a) /\ a.synced = agent.synced /\ a.ready = agent.ready
  BY <1>1, <1>5, FollowsGood, Zenon
<1>7. \/ agent' = EngineReset(a)
      \/ \E en \in Observe(a.engine, key) :
            LET applied == Apply([a EXCEPT !.engine = en], FALSE)
            IN agent' = IF key = "focusKey"
                        THEN HandlePotentialFocusChange(applied)
                        ELSE applied
  BY DEF ProcessKey, r, cancelled, a
<1>8. ASSUME agent' = EngineReset(a)
      PROVE  Good(agent') /\ agent'.synced = agent.synced /\ agent'.ready = agent.ready
  <2>1. Follows(EngineReset(a), a)
    BY <1>4, EngineResetKeeps, FollowsTransitive, Zenon
  <2>. QED  BY <1>6, <1>8, <2>1, FollowsGood, Zenon
<1>9. ASSUME NEW en \in Observe(a.engine, key)
      PROVE  LET applied == Apply([a EXCEPT !.engine = en], FALSE) IN
             /\ Good(applied)
             /\ applied.synced = a.synced /\ applied.ready = a.ready
  <2>. DEFINE b == [a EXCEPT !.engine = en]
  <2>1. en \in Reachable(a.engine)
    BY <1>4, ObserveReaches DEF AgentType
  <2>2. Follows(b, a)
    BY <1>4, <2>1, UpdateKeeps, FollowsTransitive, Zenon
  <2>. HIDE DEF b
  <2>3. /\ Good(b) /\ b.synced = a.synced /\ b.ready = a.ready
        /\ ~b.text_pending
    BY <1>4, <1>6, <2>2, FollowsGood, FollowsTransitive, Zenon
  <2>4. FALSE \in BOOLEAN
    OBVIOUS
  <2>5. /\ Good(Apply(b, FALSE)) /\ Apply(b, FALSE).synced = a.synced
        /\ Apply(b, FALSE).ready = a.ready
    BY <2>3, <2>4, ApplyGood, Zenon
  <2>. QED  BY <2>5 DEF b
<1>10. ASSUME NEW applied, Good(applied)
       PROVE  /\ Good(HandlePotentialFocusChange(applied))
              /\ HandlePotentialFocusChange(applied).synced = applied.synced
              /\ HandlePotentialFocusChange(applied).ready = applied.ready
  <2>1. applied \in AgentType
    BY <1>10 DEF Good
  <2>. QED  BY <1>10, <2>1, HandlePotentialFocusChangeFollows, FollowsGood, Zenon
<1>11. ASSUME \E en \in Observe(a.engine, key) :
                  LET applied == Apply([a EXCEPT !.engine = en], FALSE)
                  IN agent' = IF key = "focusKey"
                              THEN HandlePotentialFocusChange(applied)
                              ELSE applied
       PROVE  Good(agent') /\ agent'.synced = agent.synced /\ agent'.ready = agent.ready
  <2>1. PICK en \in Observe(a.engine, key) :
               LET applied == Apply([a EXCEPT !.engine = en], FALSE)
               IN agent' = IF key = "focusKey"
                           THEN HandlePotentialFocusChange(applied)
                           ELSE applied
    BY <1>11
  <2>. DEFINE applied == Apply([a EXCEPT !.engine = en], FALSE)
  <2>2. agent' = IF key = "focusKey" THEN HandlePotentialFocusChange(applied)
                                     ELSE applied
    BY <2>1
  <2>3. /\ Good(applied)
        /\ applied.synced = a.synced /\ applied.ready = a.ready
    BY <1>9
  <2>. HIDE DEF applied
  <2>. QED  BY <1>6, <1>10, <2>2, <2>3, Zenon
<1>12. Good(agent') /\ agent'.synced = agent.synced /\ agent'.ready = agent.ready
  BY <1>7, <1>8, <1>11, Zenon
<1>13. KeyTypes(key) /\ capturing' = capturing /\ os_layout' = os_layout
  BY DEF ProcessKey
<1>14. Surroundings' /\ notices \cap {"source"} \subseteq notices'
  BY <1>13, KeyTypesTyped DEF AgentInv, Surroundings
<1>. QED  BY <1>12, <1>13, <1>14, SourceUntouched, Zenon

\* The other callbacks of the user: nothing but what they do to the agent.
LEMMA AgentActs ==
    ASSUME AgentInv, Good(agent'),
           agent'.synced = agent.synced, agent'.ready = agent.ready,
           UNCHANGED <<capturing, notices, field, run, os_layout>>
    PROVE  AgentInv'
<1>1. Surroundings'
  BY DEF AgentInv, Surroundings
<1>2. notices \cap {"source"} \subseteq notices'
  OBVIOUS
<1>. QED  BY <1>1, <1>2, SourceUntouched

LEMMA OtherModifierStep ==
    ASSUME AgentInv, OtherModifierChanges
    PROVE  AgentInv'
<1>. DEFINE r == CancelReplacement(agent, FALSE)
            c == [r EXCEPT !.toggle = NoToggle]
            m == CancelManualSwitch(c)
<1>1. Good(agent) /\ agent \in AgentType
  BY DEF AgentInv, Good
<1>2. agent' = m
  BY DEF OtherModifierChanges
<1>3. Follows(r, agent) /\ r \in AgentType
  BY <1>1, CancelReplacementKeeps, FollowsTransitive, Zenon
<1>. HIDE DEF r
<1>4. Follows(c, r) /\ c \in AgentType
  BY <1>3, UpdateKeeps, FollowsTransitive, Zenon
<1>. HIDE DEF c
<1>5. Follows(m, c)
  BY <1>4, CancelManualSwitchKeeps, FollowsTransitive, Zenon
<1>. HIDE DEF m
<1>6. Follows(m, agent)
  BY <1>1, <1>3, <1>4, <1>5, FollowsTransitive, Zenon
<1>7. Good(agent') /\ agent'.synced = agent.synced /\ agent'.ready = agent.ready
  BY <1>1, <1>2, <1>6, FollowsGood, Zenon
<1>8. UNCHANGED <<capturing, notices, field, run, os_layout>>
  BY DEF OtherModifierChanges
<1>. QED  BY <1>7, <1>8, AgentActs

LEMMA OptionDownStep ==
    ASSUME AgentInv, NEW chord \in BOOLEAN, OptionDown(chord)
    PROVE  AgentInv'
<1>. DEFINE a == CancelReplacement(agent, FALSE)
<1>1. Good(agent) /\ agent \in AgentType
  BY DEF AgentInv, Good
<1>2. agent' = IF chord THEN [a EXCEPT !.toggle = NoToggle, !.option = "up"]
                        ELSE [a EXCEPT !.option = "armed"]
  BY DEF OptionDown
<1>3. Follows(a, agent) /\ a \in AgentType
  BY <1>1, CancelReplacementKeeps, FollowsTransitive, Zenon
<1>. HIDE DEF a
<1>4. /\ Keeps([a EXCEPT !.toggle = NoToggle, !.option = "up"], a)
      /\ Keeps([a EXCEPT !.option = "armed"], a)
  BY <1>3, UpdateKeeps, Zenon
<1>5. Follows(agent', a)
  BY <1>2, <1>3, <1>4, FollowsTransitive, Zenon
<1>6. Follows(agent', agent)
  BY <1>1, <1>3, <1>5, FollowsTransitive, Zenon
<1>7. Good(agent') /\ agent'.synced = agent.synced /\ agent'.ready = agent.ready
  BY <1>1, <1>6, FollowsGood, Zenon
<1>8. UNCHANGED <<capturing, notices, field, run, os_layout>>
  BY DEF OptionDown
<1>. QED  BY <1>7, <1>8, AgentActs

LEMMA OptionUpStep ==
    ASSUME AgentInv, NEW chord \in BOOLEAN, OptionUp(chord)
    PROVE  AgentInv'
<1>. DEFINE a == CancelReplacement(agent, FALSE)
            reset == ResetManualSwitch(a)
            checked == CheckContext(reset)
            forced == [checked EXCEPT !.engine = Engine!ForceSwitchLayout(@)]
<1>1. Good(agent) /\ agent \in AgentType
  BY DEF AgentInv, Good
<1>2. agent' \in {a, [reset EXCEPT !.toggle = NoToggle], checked,
                  EngineReset(checked), Apply(forced, TRUE)}
  BY Zenon DEF OptionUp
<1>3. Follows(a, agent) /\ a \in AgentType /\ ~a.text_pending
  BY <1>1, CancelReplacementKeeps, FollowsTransitive, Zenon
<1>. HIDE DEF a
<1>4. Follows(reset, a) /\ reset \in AgentType /\ ~reset.text_pending
  BY <1>3, CancelManualSwitchKeeps, FollowsTransitive, Zenon
<1>. HIDE DEF reset
<1>5. Follows(checked, reset) /\ checked \in AgentType /\ ~checked.text_pending
  BY <1>4, CheckContextFollows, FollowsTransitive, Zenon
<1>6. Follows([reset EXCEPT !.toggle = NoToggle], reset)
  BY <1>4, UpdateKeeps, FollowsTransitive, Zenon
<1>. HIDE DEF checked
<1>7. Follows(EngineReset(checked), checked)
  BY <1>5, EngineResetKeeps, FollowsTransitive, Zenon
<1>8. Follows(forced, checked) /\ ~forced.text_pending
  <2>1. Engine!ForceSwitchLayout(checked.engine) \in Reachable(checked.engine)
    BY <1>5, ForceSwitchLayoutReaches DEF AgentType
  <2>. QED  BY <1>5, <2>1, UpdateKeeps, FollowsTransitive, Zenon
<1>. HIDE DEF forced
<1>9. Follows(reset, agent) /\ Follows(checked, agent)
  BY <1>1, <1>3, <1>4, <1>5, FollowsTransitive, Zenon
<1>10. /\ Follows([reset EXCEPT !.toggle = NoToggle], agent)
       /\ Follows(EngineReset(checked), agent)
       /\ Follows(forced, agent)
  BY <1>1, <1>6, <1>7, <1>8, <1>9, FollowsTransitive, Zenon
<1>11. /\ Good(Apply(forced, TRUE))
       /\ Apply(forced, TRUE).synced = agent.synced
       /\ Apply(forced, TRUE).ready = agent.ready
  <2>1. /\ Good(forced)
        /\ forced.synced = agent.synced /\ forced.ready = agent.ready
    BY <1>1, <1>10, FollowsGood, Zenon
  <2>2. TRUE \in BOOLEAN
    OBVIOUS
  <2>3. /\ Good(Apply(forced, TRUE))
        /\ Apply(forced, TRUE).synced = forced.synced
        /\ Apply(forced, TRUE).ready = forced.ready
    BY <1>8, <2>1, <2>2, ApplyGood, Zenon
  <2>. QED  BY <2>1, <2>3, Zenon
<1>12. ASSUME NEW b, Follows(b, agent)
       PROVE  Good(b) /\ b.synced = agent.synced /\ b.ready = agent.ready
  BY <1>1, <1>12, FollowsGood, Zenon
<1>13. Good(agent') /\ agent'.synced = agent.synced /\ agent'.ready = agent.ready
  BY <1>2, <1>3, <1>9, <1>10, <1>11, <1>12, Zenon
<1>14. UNCHANGED <<capturing, notices, field, run, os_layout>>
  BY DEF OptionUp
<1>. QED  BY <1>13, <1>14, AgentActs

\* Clicks, focus changes and activations.
LEMMA UserMovesStep ==
    ASSUME AgentInv, NEW f \in Field,
           \/ f \in InSameApp /\ (MouseDown(f) \/ FocusMoves(f))
           \/ AppActivates(f)
    PROVE  AgentInv'
<1>1. Good(agent) /\ agent \in AgentType
  BY DEF AgentInv, Good
<1>2. Follows(HandlePotentialFocusChange(agent), agent) /\ Follows(agent, agent)
  BY <1>1, HandlePotentialFocusChangeFollows, FollowsTransitive, Zenon
<1>3. agent' \in {agent, HandlePotentialFocusChange(agent)}
  BY Zenon DEF MouseDown, FocusMoves, AppActivates
<1>4. Good(agent') /\ agent'.synced = agent.synced /\ agent'.ready = agent.ready
  BY <1>1, <1>2, <1>3, FollowsGood, Zenon
<1>5. /\ field' \in Field /\ run' \in Nat /\ notices' \subseteq Notice
      /\ notices \cap {"source"} \subseteq notices'
  <2>1. CASE MoveCaret(f)
    BY <2>1, MoveCaretTyped
  <2>2. CASE AppActivates(f)
    BY <2>2 DEF AgentInv, Surroundings, AppActivates, Notice
  <2>. QED  BY <2>1, <2>2 DEF MouseDown, FocusMoves
<1>6. capturing' = capturing /\ os_layout' = os_layout
  BY DEF MouseDown, FocusMoves, AppActivates
<1>7. Surroundings'
  BY <1>5, <1>6 DEF AgentInv, Surroundings
<1>. QED  BY <1>4, <1>5, <1>6, <1>7, SourceUntouched, Zenon

LEMMA InputSourceChangesStep ==
    ASSUME AgentInv, NEW l \in Engine!Layout \cup {NoLayout}, InputSourceChanges(l)
    PROVE  AgentInv'
  BY DEF AgentInv, Surroundings, InputSourceIsKnown, InputSourceChanges, Notice

-----------------------------------------------------------------------------
(* Notifications                                                            *)

LEMMA DeliverFocusStep ==
    ASSUME AgentInv, DeliverFocusNotice
    PROVE  AgentInv'
<1>. DEFINE i == InvalidateContext(agent)
<1>1. Good(agent) /\ agent \in AgentType
  BY DEF AgentInv, Good
<1>2. Follows(i, agent) /\ i \in AgentType
  BY <1>1, InvalidateContextObeys, FollowsTransitive, Zenon
<1>3. Follows(RequestRefresh(i), i)
  BY <1>2, RequestRefreshKeeps, FollowsTransitive, Zenon
<1>4. agent' = RequestRefresh(i)
  BY DEF DeliverFocusNotice
<1>. HIDE DEF i
<1>5. Follows(agent', agent)
  BY <1>1, <1>2, <1>3, <1>4, FollowsTransitive, Zenon
<1>6. Good(agent') /\ agent'.synced = agent.synced /\ agent'.ready = agent.ready
  BY <1>1, <1>5, FollowsGood, Zenon
<1>7. /\ UNCHANGED <<capturing, field, run, os_layout>>
      /\ notices' = notices \ {"focus"}
  BY DEF DeliverFocusNotice
<1>8. Surroundings' /\ notices \cap {"source"} \subseteq notices'
  BY <1>7 DEF AgentInv, Surroundings
<1>. QED  BY <1>6, <1>7, <1>8, SourceUntouched

LEMMA DeliverAppStep ==
    ASSUME AgentInv, DeliverAppNotice
    PROVE  AgentInv'
<1>. DEFINE m == ResetManualSwitch(agent)
            u == [m EXCEPT !.snapshot = "unknown", !.focus = NoFocus]
            r == CancelReplacement(u, TRUE)
            forgotten == CancelSelection(r)
            t == TeardownObserver(forgotten)
            e == EngineReset(t)
            f == [e EXCEPT !.frontmost = AppOf(field)]
            based == InstallBase(f)
<1>1. Good(agent) /\ agent \in AgentType /\ field \in Field
  BY DEF AgentInv, Good, Surroundings
<1>2. PICK attachable \in ObserverOutcomes :
         agent' = RequestRefresh(ConfigureObserver(based, attachable))
  BY DEF DeliverAppNotice
<1>3. attachable \in BOOLEAN
  BY SurfaceAssumption
<1>4. Continues(m, agent) /\ m \in AgentType
  BY <1>1, CancelManualSwitchKeeps, Zenon DEF Keeps, Continues, Lapses
<1>. HIDE DEF m
<1>5. Continues(u, m) /\ u \in AgentType
  BY <1>4, ForgetContinues, Zenon DEF Continues, Lapses
<1>. HIDE DEF u
<1>6. Continues(r, u) /\ r \in AgentType
  BY <1>5, CancelReplacementKeeps, Zenon DEF Keeps, Continues, Lapses
<1>. HIDE DEF r
<1>7. Continues(forgotten, r) /\ forgotten \in AgentType
  BY <1>6, CancelSelectionKeeps, Zenon DEF Keeps, Continues, Lapses
<1>. HIDE DEF forgotten
<1>8. Continues(t, forgotten) /\ t \in AgentType
  BY <1>7, TeardownObserverKeeps, Zenon DEF Keeps, Continues, Lapses
<1>. HIDE DEF t
<1>9. Continues(e, t) /\ e \in AgentType
  BY <1>8, EngineResetKeeps, Zenon DEF Keeps, Continues, Lapses
<1>. HIDE DEF e
<1>10. Continues(f, e) /\ f \in AgentType
  <2>1. AppOf(field) \in Apps
    BY <1>1 DEF Apps
  <2>. QED  BY <1>9, <2>1, UpdateKeeps, Zenon DEF Keeps, Continues, Lapses
<1>. HIDE DEF f
<1>11. Continues(based, f) /\ Obeys(based) /\ based \in AgentType
  BY <1>10, InstallBaseObeys, Zenon DEF Continues, Lapses
<1>. HIDE DEF based
<1>12. Continues(based, agent)
  <2>1. Continues(r, agent)
    BY <1>1, <1>4, <1>5, <1>6, KeepsTransitive, Zenon
  <2>2. Continues(e, agent)
    BY <1>1, <2>1, <1>7, <1>8, <1>9, KeepsTransitive, Zenon
  <2>. QED  BY <1>1, <2>2, <1>10, <1>11, KeepsTransitive, Zenon
<1>13. Follows(based, agent)
  BY <1>1, <1>11, <1>12, FollowsTransitive, Zenon
<1>14. LET c == ConfigureObserver(based, attachable) IN Follows(c, based) /\ c \in AgentType
  BY <1>3, <1>11, ConfigureObserverKeeps, FollowsTransitive, Zenon
<1>15. Follows(agent', agent)
  <2>. DEFINE c == ConfigureObserver(based, attachable)
  <2>1. Follows(c, based) /\ c \in AgentType /\ agent' = RequestRefresh(c)
    BY <1>2, <1>14
  <2>. HIDE DEF c
  <2>2. Follows(agent', c)
    BY <2>1, RequestRefreshKeeps, FollowsTransitive, Zenon
  <2>. QED  BY <1>1, <1>13, <2>1, <2>2, FollowsTransitive, Zenon
<1>16. Good(agent') /\ agent'.synced = agent.synced /\ agent'.ready = agent.ready
  BY <1>1, <1>15, FollowsGood, Zenon
<1>17. /\ UNCHANGED <<capturing, field, run, os_layout>>
       /\ notices' = notices \ {"app", "focus"}
  BY DEF DeliverAppNotice
<1>18. Surroundings' /\ notices \cap {"source"} \subseteq notices'
  BY <1>17 DEF AgentInv, Surroundings
<1>. QED  BY <1>16, <1>17, <1>18, SourceUntouched

LEMMA DeliverSourceStep ==
    ASSUME AgentInv, DeliverSourceNotice
    PROVE  AgentInv'
<1>1. Good(agent) /\ agent \in AgentType /\ os_layout \in Engine!Layout \cup {NoLayout}
  BY DEF AgentInv, Good, Surroundings
<1>2. agent' = SyncLayout(agent, os_layout)
  BY DEF DeliverSourceNotice
<1>3. Good(agent') /\ agent'.synced = os_layout /\ (agent'.ready => os_layout # NoLayout)
  BY <1>1, <1>2, SyncLayoutGood, SyncLayoutKnows, Zenon
<1>4. /\ UNCHANGED <<capturing, field, run, os_layout>>
      /\ notices' = notices \ {"source"}
  BY DEF DeliverSourceNotice
<1>. QED  BY <1>3, <1>4 DEF AgentInv, Surroundings, InputSourceIsKnown

-----------------------------------------------------------------------------
(* Queued work                                                              *)

LEMMA StartRefreshStep ==
    ASSUME AgentInv, StartRefresh
    PROVE  AgentInv'
<1>1. Good(agent) /\ agent \in AgentType /\ Surroundings
  BY DEF AgentInv, Good
<1>2. agent' = [agent EXCEPT !.refresh = NoRefresh]
  BY DEF StartRefresh
<1>3. Follows(agent', agent)
  BY <1>1, <1>2, UpdateKeeps, FollowsTransitive, Zenon
<1>4. Good(agent') /\ agent'.synced = agent.synced /\ agent'.ready = agent.ready
  BY <1>1, <1>3, FollowsGood, Zenon
<1>5. agent.refresh \in [app : Apps, generation : Nat]
  BY <1>1 DEF StartRefresh, AgentType
<1>6. PICK f \in Field :
         capturing' = [kind |-> "install",
                       app |-> agent.refresh.app,
                       generation |-> agent.refresh.generation,
                       field |-> f,
                       policy |-> IF IsSecure THEN "secure" ELSE FieldPolicy(f)]
  BY DEF StartRefresh
<1>7. capturing' \in InstallItem
  <2>. DEFINE policy == IF IsSecure THEN "secure" ELSE FieldPolicy(f)
  <2>1. policy \in Policy
    BY SurfaceAssumption DEF Policy
  <2>2. agent.refresh.app \in Apps /\ agent.refresh.generation \in Nat
    BY <1>5
  <2>. HIDE DEF policy
  <2>3. capturing' = [kind |-> "install", app |-> agent.refresh.app,
                      generation |-> agent.refresh.generation,
                      field |-> f, policy |-> policy]
    BY <1>6 DEF policy
  <2>. QED  BY <2>1, <2>2, <2>3, Zenon DEF InstallItem
<1>8. UNCHANGED <<notices, field, run, os_layout>>
  BY DEF StartRefresh
<1>9. Surroundings' /\ notices \cap {"source"} \subseteq notices'
  BY <1>1, <1>7, <1>8 DEF Surroundings
<1>. QED  BY <1>4, <1>8, <1>9, SourceUntouched

LEMMA FinishRefreshStep ==
    ASSUME AgentInv, FinishRefresh
    PROVE  AgentInv'
<1>. DEFINE work == Append(agent.work, capturing)
            b    == [agent EXCEPT !.work = work]
<1>1. Good(agent) /\ agent \in AgentType /\ Surroundings /\ QueueInv(agent) /\ Obeys(agent)
  BY DEF AgentInv, Good
<1>2. capturing \in InstallItem /\ capturing \in Item /\ capturing.kind = "install"
  BY <1>1 DEF FinishRefresh, Surroundings, InstallItem, Item
<1>3. agent' = b
  BY DEF FinishRefresh
<1>4. work \in Seq(Item) /\ work = Append(agent.work, capturing)
  BY <1>1, <1>2, WorkTyped
<1>. HIDE DEF work
<1>5. b \in AgentType
  BY <1>1, <1>4, Zenon DEF AgentType, Item
<1>6. /\ b.engine = agent.engine /\ b.work = work
      /\ b.selection_generation = agent.selection_generation
      /\ b.synced = agent.synced /\ b.ready = agent.ready
      /\ b.snapshot = agent.snapshot /\ b.focus = agent.focus
      /\ b.replacement_generation = agent.replacement_generation
      /\ b.text_generation = agent.text_generation
      /\ b.text_pending = agent.text_pending
  BY <1>1, SMT DEF AgentType
<1>. HIDE DEF b
<1>7. QueueInv(b)
  BY <1>1, <1>2, <1>4, <1>5, <1>6, QueueAppend, Zenon
<1>8. Good(agent') /\ agent'.synced = agent.synced /\ agent'.ready = agent.ready
  BY <1>1, <1>3, <1>5, <1>6, <1>7, Zenon DEF Good, Obeys
<1>9. UNCHANGED <<notices, field, run, os_layout>> /\ capturing' = NoRefresh
  BY DEF FinishRefresh
<1>10. Surroundings' /\ notices \cap {"source"} \subseteq notices'
  BY <1>1, <1>9 DEF Surroundings
<1>. QED  BY <1>8, <1>9, <1>10, SourceUntouched

LEMMA RestGood ==
    ASSUME AgentInv, agent.work # <<>>
    PROVE  /\ Good(Rest)
           /\ Rest.synced = agent.synced /\ Rest.ready = agent.ready
           /\ Rest.selection_generation = agent.selection_generation
           /\ Rest.replacement_generation = agent.replacement_generation
           /\ Rest.text_generation = agent.text_generation
           /\ Head(agent.work) \in Item
           /\ \A i \in 1..Len(Rest.work) :
                 /\ Rest.work[i].kind = Head(agent.work).kind
                 /\ Head(agent.work).kind \in {"select", "replace"}
                 => Rest.work[i].generation # Head(agent.work).generation
<1>1. agent \in AgentType /\ QueueInv(agent) /\ Obeys(agent)
  BY DEF AgentInv, Good
<1>. DEFINE b == [agent EXCEPT !.work = Tail(@)]
<1>2. /\ b \in AgentType
      /\ b.replacement_generation = agent.replacement_generation
      /\ b.selection_generation = agent.selection_generation
      /\ b.text_generation = agent.text_generation
      /\ b.synced = agent.synced /\ b.ready = agent.ready
      /\ SamePolicy(b, agent)
      /\ QueueInv(b)
      /\ \A i \in 1..Len(b.work) :
            /\ b.work[i].kind = Head(agent.work).kind
            /\ Head(agent.work).kind \in {"select", "replace"}
            => b.work[i].generation # Head(agent.work).generation
  BY <1>1, QueueRest
<1>3. Rest = b
  BY DEF Rest
<1>. HIDE DEF b
<1>4. Good(b)
  BY <1>1, <1>2, Zenon DEF Good, SamePolicy, Obeys
<1>5. Head(agent.work) \in Item
  BY <1>1, WorkTyped
<1>. QED  BY <1>2, <1>3, <1>4, <1>5

\* Both outcomes of a selection leave the agent informed.
LEMMA SelectFutureLayoutStep ==
    ASSUME AgentInv, NEW a, Good(a), NEW l \in Engine!Layout,
           SelectFutureLayout(a, l), UNCHANGED <<capturing, field, run>>
    PROVE  AgentInv'
<1>1. Surroundings /\ os_layout \in Engine!Layout \cup {NoLayout}
  BY DEF AgentInv, Surroundings
<1>2. ASSUME os_layout' = l,
             notices' = notices \cup (IF l = os_layout THEN {} ELSE {"source"}),
             agent' = [a EXCEPT !.synced = l, !.ready = TRUE]
      PROVE  AgentInv'
  <2>1. Good(agent') /\ agent'.synced = l
    BY <1>2, SourceSet, Zenon
  <2>2. l # NoLayout
    BY SurfaceAssumption DEF Engine!Layout
  <2>3. Surroundings'
    BY <1>1, <1>2 DEF Surroundings, Notice
  <2>. QED  BY <1>2, <2>1, <2>2, <2>3 DEF AgentInv, InputSourceIsKnown
<1>3. ASSUME agent' = SelectionFailed(a), UNCHANGED <<os_layout, notices>>
      PROVE  AgentInv'
  <2>1. /\ Good(agent') /\ agent'.synced = os_layout
        /\ agent'.ready => os_layout # NoLayout
    BY <1>1, <1>3, SelectionFailedGood, Zenon
  <2>2. Surroundings'
    BY <1>1, <1>3 DEF Surroundings
  <2>. QED  BY <1>3, <2>1, <2>2 DEF AgentInv, InputSourceIsKnown
<1>. QED  BY <1>2, <1>3 DEF SelectFutureLayout

\* The selection at the head of the queue, taken off, no longer counts as
\* pending if it was the last one decided on.
LEMMA SelectionTaken ==
    ASSUME AgentInv, agent.work # <<>>, NEW p \in BOOLEAN
    PROVE  LET a == [Rest EXCEPT !.selection_pending = p] IN
           /\ Good(a) /\ a.synced = agent.synced /\ a.ready = agent.ready
           /\ a.work = Rest.work /\ a.engine = Rest.engine /\ a.toggle = Rest.toggle
           /\ a.selection_generation = agent.selection_generation
           /\ a.replacement_generation = agent.replacement_generation
           /\ a.text_generation = agent.text_generation
<1>. DEFINE a == [Rest EXCEPT !.selection_pending = p]
<1>1. /\ Good(Rest) /\ Rest \in AgentType
      /\ Rest.synced = agent.synced /\ Rest.ready = agent.ready
      /\ Rest.selection_generation = agent.selection_generation
      /\ Rest.replacement_generation = agent.replacement_generation
      /\ Rest.text_generation = agent.text_generation
  BY RestGood DEF Good
<1>2. a \in AgentType
  BY <1>1, Zenon DEF AgentType
<1>3. /\ a.engine = Rest.engine /\ a.work = Rest.work /\ a.toggle = Rest.toggle
      /\ a.selection_generation = Rest.selection_generation
      /\ a.synced = Rest.synced /\ a.ready = Rest.ready
      /\ a.snapshot = Rest.snapshot /\ a.focus = Rest.focus
      /\ a.replacement_generation = Rest.replacement_generation
      /\ a.text_generation = Rest.text_generation
      /\ a.text_pending = Rest.text_pending
  BY <1>1, SMT DEF AgentType
<1>. HIDE DEF a
<1>4. Keeps(a, Rest)
  BY <1>1, <1>2, <1>3, WorkTyped DEF Keeps, Continues, Lapses, SamePolicy
<1>5. Good(a)
  BY <1>1, <1>4, FollowsGood, FollowsTransitive, Zenon
<1>. QED  BY <1>1, <1>3, <1>5, Zenon DEF a

LEMMA RunSelectionStep ==
    ASSUME AgentInv, RunSelection
    PROVE  AgentInv'
<1>. DEFINE item == Head(agent.work)
            own  == item.generation = agent.selection_generation
            p    == Rest.selection_pending /\ ~own
            a    == [Rest EXCEPT !.selection_pending = p]
<1>1. /\ Good(Rest) /\ Rest \in AgentType
      /\ Rest.synced = agent.synced /\ Rest.ready = agent.ready
      /\ Rest.selection_generation = agent.selection_generation
      /\ item \in Item
      /\ \A i \in 1..Len(Rest.work) :
            Rest.work[i].kind = item.kind /\ item.kind = "select"
            => Rest.work[i].generation # item.generation
  BY RestGood DEF RunSelection, Good
<1>2. item.kind = "select" /\ item \in SelectItem
  BY <1>1, ItemKinds DEF RunSelection
<1>3. UNCHANGED <<capturing, field, run>>
  BY DEF RunSelection
<1>4. /\ Good(a) /\ a.synced = agent.synced /\ a.ready = agent.ready
      /\ a.work = Rest.work /\ a.selection_generation = agent.selection_generation
  <2>1. p \in BOOLEAN /\ agent.work # <<>>
    BY Zenon DEF RunSelection
  <2>. HIDE DEF p
  <2>. QED  BY <2>1, SelectionTaken, Zenon
<1>5. \/ agent' = a /\ UNCHANGED <<notices, os_layout>>
      \/ /\ SelectionIsCurrent(item)
         /\ item.plan # NoPlan
         /\ agent' = IF FocusIsStillValid(a, item.plan.focus)
                     THEN ReplaceLastToken(a, item)
                     ELSE CancelReplacement(a, TRUE)
         /\ UNCHANGED <<notices, os_layout>>
      \/ SelectFutureLayout(a, item.layout)
  BY Zenon DEF RunSelection, p, a, own, item
<1>. HIDE DEF a
<1>6. ASSUME agent' = a, UNCHANGED <<notices, os_layout>>
      PROVE  AgentInv'
  BY <1>3, <1>4, <1>6, AgentActs
<1>7. ASSUME SelectionIsCurrent(item), item.plan # NoPlan,
             agent' = IF FocusIsStillValid(a, item.plan.focus)
                      THEN ReplaceLastToken(a, item)
                      ELSE CancelReplacement(a, TRUE),
             UNCHANGED <<notices, os_layout>>
      PROVE  AgentInv'
  <2>1. \A i \in 1..Len(a.work) :
           a.work[i].kind = "select" =>
              a.work[i].generation # a.selection_generation
    BY <1>1, <1>2, <1>4, <1>7, Zenon DEF SelectionIsCurrent
  <2>2. /\ Good(ReplaceLastToken(a, item))
        /\ ReplaceLastToken(a, item).synced = a.synced
        /\ ReplaceLastToken(a, item).ready = a.ready
    <3>. HIDE DEF item
    <3>. QED  BY <1>2, <1>4, <1>7, <2>1, ReplaceLastTokenGood, Zenon
  <2>3. /\ Good(CancelReplacement(a, TRUE))
        /\ CancelReplacement(a, TRUE).synced = a.synced
        /\ CancelReplacement(a, TRUE).ready = a.ready
    <3>1. a \in AgentType
      BY <1>4 DEF Good
    <3>2. Follows(CancelReplacement(a, TRUE), a)
      BY <3>1, CancelReplacementKeeps, FollowsTransitive, Zenon
    <3>. QED  BY <1>4, <3>2, FollowsGood, Zenon
  <2>4. Good(agent') /\ agent'.synced = agent.synced /\ agent'.ready = agent.ready
    BY <1>4, <1>7, <2>2, <2>3, Zenon
  <2>. QED  BY <1>3, <1>7, <2>4, AgentActs
<1>8. ASSUME SelectFutureLayout(a, item.layout)
      PROVE  AgentInv'
  <2>1. item.layout \in Engine!Layout
    BY <1>2 DEF SelectItem
  <2>. QED  BY <1>3, <1>4, <1>8, <2>1, SelectFutureLayoutStep
<1>. QED  BY <1>5, <1>6, <1>7, <1>8

\* The replacement at the head of the queue, taken off and done, was the last
\* one handed over.
LEMMA ReplacementTaken ==
    ASSUME AgentInv, agent.work # <<>>, Head(agent.work).kind = "replace",
           ReplacementIsCurrent(Head(agent.work))
    PROVE  LET done == [Rest EXCEPT !.text_pending = FALSE] IN
           /\ Good(done) /\ done \in AgentType
           /\ done.synced = agent.synced /\ done.ready = agent.ready
           /\ done.work = Rest.work /\ done.engine = Rest.engine
           /\ done.toggle = Rest.toggle
           /\ done.selection_generation = agent.selection_generation
           /\ done.replacement_generation = agent.replacement_generation
           /\ done.text_generation = agent.text_generation
<1>. DEFINE done == [Rest EXCEPT !.text_pending = FALSE]
<1>1. /\ Good(Rest) /\ Rest \in AgentType
      /\ Rest.synced = agent.synced /\ Rest.ready = agent.ready
      /\ Rest.selection_generation = agent.selection_generation
      /\ Rest.replacement_generation = agent.replacement_generation
      /\ Rest.text_generation = agent.text_generation
      /\ \A i \in 1..Len(Rest.work) :
            Rest.work[i].kind = "replace"
            => Rest.work[i].generation # Rest.text_generation
  BY RestGood DEF Good, ReplacementIsCurrent
<1>2. done \in AgentType
  BY <1>1, Zenon DEF AgentType
<1>3. /\ done.engine = Rest.engine /\ done.work = Rest.work
      /\ done.toggle = Rest.toggle
      /\ done.selection_generation = Rest.selection_generation
      /\ done.synced = Rest.synced /\ done.ready = Rest.ready
      /\ done.snapshot = Rest.snapshot /\ done.focus = Rest.focus
      /\ done.replacement_generation = Rest.replacement_generation
      /\ done.text_generation = Rest.text_generation
      /\ done.text_pending = FALSE
  BY <1>1, SMT DEF AgentType
<1>. HIDE DEF done
<1>4. QueueInv(done)
  <2>1. QueueInv(Rest)
    BY <1>1 DEF Good
  <2>2. ASSUME NEW i \in 1..Len(Rest.work)
        PROVE  /\ Rest.work[i].kind = "select" =>
                     /\ Rest.work[i].generation <= done.selection_generation
                     /\ Rest.work[i].replacement <= done.replacement_generation
               /\ Rest.work[i].kind = "replace" =>
                     /\ Rest.work[i].generation <= done.text_generation
                     /\ Rest.work[i].generation # done.text_generation
    BY <1>1, <1>3, <2>1, <2>2, Zenon DEF QueueInv
  <2>. QED  BY <1>3, <2>1, <2>2 DEF QueueInv
<1>5. Good(done)
  BY <1>1, <1>2, <1>3, <1>4, Zenon DEF Good, Obeys
<1>. QED  BY <1>1, <1>2, <1>3, <1>5, Zenon DEF done

LEMMA RunReplacementStep ==
    ASSUME AgentInv, RunReplacement
    PROVE  AgentInv'
<1>. DEFINE item == Head(agent.work)
            done == [Rest EXCEPT !.text_pending = FALSE]
            t    == IF item.manual
                    THEN [count |-> item.plan.count, focus |-> item.plan.focus]
                    ELSE NoToggle
            next == [done EXCEPT !.toggle = t]
<1>1. /\ Good(Rest) /\ Rest \in AgentType
      /\ Rest.synced = agent.synced /\ Rest.ready = agent.ready
      /\ Rest.text_generation = agent.text_generation
      /\ item \in Item
      /\ \A i \in 1..Len(Rest.work) :
            Rest.work[i].kind = item.kind /\ item.kind = "replace"
            => Rest.work[i].generation # item.generation
  BY RestGood DEF RunReplacement, Good
<1>2. item.kind = "replace" /\ item \in ReplaceItem
  BY <1>1, ItemKinds DEF RunReplacement
<1>3. UNCHANGED <<capturing, field, run>>
  BY DEF RunReplacement
<1>4. \/ /\ agent' \in {CancelText(Rest), Rest}
         /\ UNCHANGED <<notices, os_layout>>
      \/ /\ ReplacementIsCurrent(item)
         /\ agent' = done
         /\ UNCHANGED <<notices, os_layout>>
      \/ /\ ReplacementIsCurrent(item)
         /\ SelectFutureLayout(next, item.layout)
  BY Zenon DEF RunReplacement
<1>5. ASSUME ReplacementIsCurrent(item)
      PROVE  /\ Good(done) /\ done \in AgentType
             /\ done.synced = agent.synced /\ done.ready = agent.ready
  BY <1>2, <1>5, ReplacementTaken, Zenon DEF RunReplacement
<1>6. ASSUME agent' \in {CancelText(Rest), Rest}, UNCHANGED <<notices, os_layout>>
      PROVE  AgentInv'
  <2>1. Follows(agent', Rest)
    BY <1>1, <1>6, CancelTextKeeps, FollowsTransitive, Zenon
  <2>2. Good(agent') /\ agent'.synced = agent.synced /\ agent'.ready = agent.ready
    BY <1>1, <2>1, FollowsGood, Zenon
  <2>. QED  BY <1>3, <1>6, <2>2, AgentActs
<1>7. ASSUME ReplacementIsCurrent(item), agent' = done, UNCHANGED <<notices, os_layout>>
      PROVE  AgentInv'
  <2>1. Good(agent') /\ agent'.synced = agent.synced /\ agent'.ready = agent.ready
    BY <1>5, <1>7
  <2>. QED  BY <1>3, <1>7, <2>1, AgentActs
<1>8. ASSUME ReplacementIsCurrent(item), SelectFutureLayout(next, item.layout)
      PROVE  AgentInv'
  <2>1. item.layout \in Engine!Layout
    BY <1>2 DEF ReplaceItem
  <2>2. t \in PlanType \cup {NoToggle}
    <3>1. item.plan \in PlanType
      BY <1>2 DEF ReplaceItem
    <3>2. [count |-> item.plan.count, focus |-> item.plan.focus] \in PlanType
      BY <3>1 DEF PlanType
    <3>. QED  BY <3>2, Zenon
  <2>3. Good(done) /\ done \in AgentType
    BY <1>5, <1>8
  <2>4. SelectFutureLayout(next, item.layout)
    BY <1>8
  <2>. HIDE DEF t, done
  <2>5. Good(next)
    BY <2>2, <2>3, UpdateKeeps, FollowsTransitive, FollowsGood, Zenon
  <2>. HIDE DEF next
  <2>. QED  BY <1>3, <2>1, <2>4, <2>5, SelectFutureLayoutStep
<1>. QED  BY <1>4, <1>6, <1>7, <1>8

LEMMA RunInstallStep ==
    ASSUME AgentInv, RunInstall
    PROVE  AgentInv'
<1>. DEFINE item == Head(agent.work)
<1>1. /\ Good(Rest) /\ Rest \in AgentType
      /\ Rest.synced = agent.synced /\ Rest.ready = agent.ready
      /\ item \in Item
  BY RestGood DEF RunInstall, Good
<1>2. /\ item.policy \in Policy /\ item.app \in Apps
      /\ item.field \in Field \cup {NoField}
  <2>1. item \in InstallItem
    BY <1>1, ItemKinds DEF RunInstall
  <2>. QED  BY <2>1 DEF InstallItem
<1>3. /\ agent' \in {Rest, InstallContext(Rest, item.policy, item.app, item.field),
                     Degrade(Rest, item)}
      /\ notices' \in {notices, notices \ {"focus"}}
      /\ UNCHANGED <<capturing, field, run, os_layout>>
  BY Zenon DEF RunInstall
<1>. HIDE DEF item
<1>4. Follows(Rest, Rest)
  BY <1>1, FollowsTransitive, Zenon
<1>5. Follows(InstallContext(Rest, item.policy, item.app, item.field), Rest)
  BY <1>1, <1>2, InstallContextObeys, FollowsTransitive, Zenon
<1>6. Follows(Degrade(Rest, item), Rest)
  <2>. DEFINE d == [Rest EXCEPT !.degraded_app = item.app]
              t == TeardownObserver(d)
              b == InstallBase(t)
              n == IF Disabled(b.snapshot) THEN NoTimer ELSE b.accessibility_generation
  <2>1. Follows(d, Rest) /\ d \in AgentType
    BY <1>1, <1>2, UpdateKeeps, FollowsTransitive, Zenon
  <2>2. Degrade(Rest, item) = [b EXCEPT !.recovery = n]
    BY Zenon DEF Degrade
  <2>. HIDE DEF d
  <2>3. Follows(t, d) /\ t \in AgentType
    BY <2>1, TeardownObserverKeeps, FollowsTransitive, Zenon
  <2>. HIDE DEF t
  <2>4. Follows(b, t) /\ b \in AgentType
    BY <2>3, InstallBaseObeys, FollowsTransitive, Zenon
  <2>. HIDE DEF b
  <2>5. n \in Nat \cup {NoTimer}
    BY <2>4 DEF AgentType
  <2>. HIDE DEF n
  <2>6. Follows([b EXCEPT !.recovery = n], b)
    BY <2>4, <2>5, UpdateKeeps, FollowsTransitive, Zenon
  <2>7. Follows(b, Rest)
    BY <1>1, <2>1, <2>3, <2>4, FollowsTransitive, Zenon
  <2>. QED  BY <1>1, <2>2, <2>6, <2>7, FollowsTransitive, Zenon
<1>7. Good(agent') /\ agent'.synced = agent.synced /\ agent'.ready = agent.ready
  <2>1. Follows(agent', Rest)
    BY <1>3, <1>4, <1>5, <1>6, Zenon
  <2>. QED  BY <1>1, <2>1, FollowsGood, Zenon
<1>8. Surroundings' /\ notices \cap {"source"} \subseteq notices'
  BY <1>3 DEF AgentInv, Surroundings
<1>. QED  BY <1>3, <1>7, <1>8, SourceUntouched

LEMMA BackoffExpiresStep ==
    ASSUME AgentInv, BackoffExpires
    PROVE  AgentInv'
<1>. DEFINE a == [agent EXCEPT !.degraded_app = NoApp, !.recovery = NoTimer]
            b == InstallBase(a)
<1>1. Good(agent) /\ agent \in AgentType
  BY DEF AgentInv, Good
<1>2. Follows(a, agent) /\ a \in AgentType
  <2>1. a \in AgentType
    BY <1>1, Zenon DEF AgentType
  <2>2. /\ a.engine = agent.engine /\ a.work = agent.work
        /\ a.selection_generation = agent.selection_generation
        /\ a.synced = agent.synced /\ a.ready = agent.ready
        /\ a.snapshot = agent.snapshot /\ a.focus = agent.focus
        /\ a.replacement_generation = agent.replacement_generation
        /\ a.text_generation = agent.text_generation
        /\ a.text_pending = agent.text_pending
    BY <1>1, SMT DEF AgentType
  <2>. HIDE DEF a
  <2>3. Keeps(a, agent)
    BY <1>1, <2>1, <2>2, WorkTyped DEF Keeps, Continues, Lapses, SamePolicy
  <2>. QED  BY <1>1, <2>1, <2>3, FollowsTransitive, Zenon
<1>3. \/ \E attachable \in ObserverOutcomes :
            agent' = RequestRefresh(ConfigureObserver(b, attachable))
      \/ agent' = a
  BY Zenon DEF BackoffExpires
<1>. HIDE DEF a
<1>4. Follows(b, a) /\ b \in AgentType
  BY <1>2, InstallBaseObeys, FollowsTransitive, Zenon
<1>. HIDE DEF b
<1>5. ASSUME NEW attachable \in ObserverOutcomes,
             agent' = RequestRefresh(ConfigureObserver(b, attachable))
      PROVE  Follows(agent', agent)
  <2>. DEFINE c == ConfigureObserver(b, attachable)
  <2>1. attachable \in BOOLEAN
    BY SurfaceAssumption
  <2>2. Follows(c, b) /\ c \in AgentType
    BY <1>4, <2>1, ConfigureObserverKeeps, FollowsTransitive, Zenon
  <2>3. agent' = RequestRefresh(c)
    BY <1>5
  <2>. HIDE DEF c
  <2>4. Follows(agent', c)
    BY <2>2, <2>3, RequestRefreshKeeps, FollowsTransitive, Zenon
  <2>5. Follows(c, agent)
    BY <1>1, <1>2, <1>4, <2>2, FollowsTransitive, Zenon
  <2>. QED  BY <1>1, <2>4, <2>5, FollowsTransitive, Zenon
<1>6. Follows(agent', agent)
  BY <1>2, <1>3, <1>5, Zenon
<1>7. Good(agent') /\ agent'.synced = agent.synced /\ agent'.ready = agent.ready
  BY <1>1, <1>6, FollowsGood, Zenon
<1>8. UNCHANGED <<capturing, notices, field, run, os_layout>>
  BY DEF BackoffExpires
<1>. QED  BY <1>7, <1>8, AgentActs

LEMMA AgentInvStep == AgentInv /\ [Next]_vars => AgentInv'
<1>. SUFFICES ASSUME AgentInv, [Next]_vars PROVE AgentInv'
  OBVIOUS
<1>1. ASSUME NEW key \in Key, ProcessKey(key) PROVE AgentInv'
  BY <1>1, ProcessKeyStep
<1>2. CASE OtherModifierChanges
  BY <1>2, OtherModifierStep
<1>3. ASSUME NEW chord \in BOOLEAN, OptionDown(chord) \/ OptionUp(chord) PROVE AgentInv'
  BY <1>3, OptionDownStep, OptionUpStep
<1>4. ASSUME NEW f \in InSameApp, MouseDown(f) \/ FocusMoves(f) PROVE AgentInv'
  BY <1>4, UserMovesStep DEF InSameApp
<1>5. ASSUME NEW f \in Field, AppActivates(f) PROVE AgentInv'
  BY <1>5, UserMovesStep
<1>6. ASSUME NEW l \in Engine!Layout \cup {NoLayout}, InputSourceChanges(l) PROVE AgentInv'
  BY <1>6, InputSourceChangesStep
<1>7. CASE Deliver
  BY <1>7, DeliverFocusStep, DeliverAppStep, DeliverSourceStep DEF Deliver
<1>8. CASE StartRefresh \/ FinishRefresh
  BY <1>8, StartRefreshStep, FinishRefreshStep
<1>9. CASE RunWork
  BY <1>9, RunSelectionStep, RunReplacementStep, RunInstallStep DEF RunWork
<1>10. CASE BackoffExpires
  BY <1>10, BackoffExpiresStep
<1>11. CASE UNCHANGED vars
  BY <1>11, AgentActs DEF vars, AgentInv
<1>. QED  BY <1>1, <1>2, <1>3, <1>4, <1>5, <1>6, <1>7, <1>8, <1>9, <1>10, <1>11 DEF Next

LEMMA StartTyped == Start \in AgentType
<1>1. AppOf(FirstField) \in Apps
  BY SurfaceAssumption DEF Apps
<1>2. Engine!NewEngine \in Healthy
  <2>1. Engine!NewEngine \in EngineType
    <3>1. /\ [secure_input |-> FALSE, automatic_processing_disabled |-> FALSE,
              automatic_switching_disabled |-> FALSE] \in Engine!Context
          /\ "English" \in Engine!Layout
      BY DEF Engine!Context, Engine!Layout
    <3>2. FALSE \in BOOLEAN
      OBVIOUS
    <3>. QED  BY <3>1, <3>2, Members, Zenon DEF Engine!NewEngine, EngineType
  <2>2. Engine!NewEngine.token_len = 0
    BY DEF Engine!NewEngine
  <2>. QED  BY <2>1, <2>2, Zenon DEF Healthy
<1>. QED
  <2>1. <<>> \in Seq(Item) /\ 0 \in Nat /\ {TRUE, FALSE} \subseteq BOOLEAN
    OBVIOUS
  <2>2. "English" \in Engine!Layout
    BY DEF Engine!Layout
  <2>. QED  BY <1>1, <1>2, <2>1, <2>2, Zenon DEF Start, AgentType, Item

LEMMA AgentInvInit == Init => AgentInv
<1>. SUFFICES ASSUME Init PROVE AgentInv
  OBVIOUS
<1>. DEFINE b == InstallBase(Start)
<1>1. PICK attachable \in ObserverOutcomes :
         agent = RequestRefresh(ConfigureObserver(b, attachable))
  BY DEF Init
<1>2. attachable \in BOOLEAN
  BY SurfaceAssumption
<1>3. Start \in AgentType
  BY StartTyped
<1>4. Start.work = <<>> /\ Start.synced = "English"
  BY DEF Start
<1>5. Continues(b, Start) /\ Obeys(b) /\ b \in AgentType
  BY <1>3, InstallBaseObeys, Zenon DEF Continues, Lapses
<1>6. Good(b)
  <2>1. QueueInv(Start)
    BY <1>4 DEF QueueInv
  <2>. QED  BY <1>3, <1>5, <2>1, LapsedQueue, Zenon DEF Good, Continues
<1>7. b.synced = "English"
  BY <1>4, <1>5 DEF Continues
<1>. HIDE DEF b
<1>8. Follows(agent, b)
  <2>. DEFINE c == ConfigureObserver(b, attachable)
  <2>1. Follows(c, b) /\ c \in AgentType
    BY <1>2, <1>5, ConfigureObserverKeeps, FollowsTransitive, Zenon
  <2>2. agent = RequestRefresh(c)
    BY <1>1
  <2>. HIDE DEF c
  <2>. QED  BY <1>5, <2>1, <2>2, RequestRefreshKeeps, FollowsTransitive, Zenon
<1>9. Good(agent) /\ agent.synced = "English"
  BY <1>6, <1>7, <1>8, FollowsGood, Zenon
<1>10. "English" \in Engine!Layout /\ "English" # NoLayout
  BY SurfaceAssumption DEF Engine!Layout
<1>11. Surroundings
  BY <1>10, SurfaceAssumption DEF Init, Surroundings
<1>. QED  BY <1>9, <1>10, <1>11 DEF AgentInv, InputSourceIsKnown, Init

-----------------------------------------------------------------------------
(* Theorems                                                                 *)

\* Between two callbacks the agent's engine obeys the cached policy, the
\* generations order everything queued, and the input source is known.
THEOREM AgentInvariance == Spec => []AgentInv
  BY AgentInvInit, AgentInvStep, PTL DEF Spec

\* The types of the agent's properties and of what waits in the main queue.
THEOREM AgentTypeCorrect == Spec => []TypeOK
<1>1. AgentInv => TypeOK
  <2>. SUFFICES ASSUME AgentInv PROVE TypeOK
    OBVIOUS
  <2>1. agent \in AgentType /\ Surroundings
    BY DEF AgentInv, Good
  <2>2. /\ agent.snapshot \in Policy \cup {"unknown"}
        /\ agent.engine \in EngineType
        /\ agent.option \in {"up", "armed", "cancelled"}
        /\ agent.toggle \in PlanType \cup {NoToggle}
        /\ agent.synced \in Engine!Layout \cup {NoLayout}
    BY <2>1 DEF AgentType, Healthy
  <2>3. agent.engine.token_len \in 0..MaxTokenLen /\ agent.engine.layout \in Engine!Layout
    BY <2>2 DEF EngineType
  <2>4. ASSUME NEW item \in Item
        PROVE  /\ item.kind \in {"select", "replace", "install"}
               /\ item.kind # "install" => item.plan \in PlanType \cup {NoPlan}
    BY <2>4 DEF Item, SelectItem, ReplaceItem, InstallItem
  <2>5. \A i \in 1..Len(agent.work) : agent.work[i] \in Item
    BY <2>1, WorkTyped
  <2>. QED  BY <2>1, <2>2, <2>3, <2>4, <2>5 DEF TypeOK, Surroundings, Notice
<1>. QED  BY <1>1, AgentInvariance, PTL

\* Whatever cancels, delays and reorders the work of the agent
\* (completeInputSourceSelection, replaceLastToken), no decision is carried out
\* twice and no two are on their way to the text.
THEOREM ReplacementsHappenOnce == Spec => []OneReplacementAtMost
<1>1. AgentInv => OneReplacementAtMost
  <2>. SUFFICES ASSUME AgentInv PROVE OneReplacementAtMost
    OBVIOUS
  <2>. DEFINE S == {i \in 1..Len(agent.work) : WillReplace(agent.work[i])}
  <2>1. QueueInv(agent) /\ agent \in AgentType
    BY DEF AgentInv, Good
  <2>2. ASSUME NEW i \in S, NEW j \in S PROVE i = j
    <3>1. /\ i \in 1..Len(agent.work) /\ j \in 1..Len(agent.work)
          /\ WillReplace(agent.work[i]) /\ WillReplace(agent.work[j])
      OBVIOUS
    <3>2. ASSUME NEW k \in 1..Len(agent.work), WillReplace(agent.work[k])
          PROVE  \/ /\ agent.work[k].kind = "select"
                    /\ agent.work[k].generation = agent.selection_generation
                    /\ ~agent.text_pending
                 \/ /\ agent.work[k].kind = "replace"
                    /\ agent.work[k].generation = agent.text_generation
                    /\ agent.text_pending
      BY <2>1, <3>2, Zenon DEF QueueInv, WillReplace, SelectionIsCurrent, ReplacementIsCurrent
    <3>3. /\ agent.work[i].kind = agent.work[j].kind
          /\ agent.work[i].kind \in {"select", "replace"}
          /\ agent.work[i].generation = agent.work[j].generation
      BY <3>1, <3>2
    <3>. QED  BY <2>1, <3>1, <3>3 DEF QueueInv
  <2>3. S = {} \/ \E i : S = {i}
    <3>. HIDE DEF S
    <3>. QED  BY <2>2
  <2>4. Cardinality(S) <= 1
    <3>. HIDE DEF S
    <3>1. Cardinality(S) \in {0, 1}
      BY <2>3, FS_EmptySet, FS_Singleton, Zenon
    <3>. QED  BY <3>1
  <2>. QED  BY <2>4 DEF OneReplacementAtMost
<1>. QED  BY <1>1, AgentInvariance, PTL

\* A policy that disables processing leaves the engine without a token.
LEMMA DisabledHoldsNothing ==
    ASSUME AgentInv, Disabled(agent.snapshot)
    PROVE  agent.engine.token_len = 0
<1>1. Obeys(agent) /\ agent.engine \in Healthy
  BY DEF AgentInv, Good, AgentType
<1>2. EngineContext(agent.snapshot).automatic_processing_disabled = TRUE
  BY DEF EngineContext
<1>3. Engine!Bypassing(agent.engine)
  BY <1>1, <1>2 DEF Obeys, Engine!Bypassing
<1>. QED  BY <1>1, <1>3 DEF Healthy

\* docs/invariants.md: unknown, secure and disabled surfaces bypass, whichever
\* way the agent came to cache their policy (installHostContext,
\* invalidateHostContext, currentHostContext).
THEOREM EngineFollowsPolicy == Spec => []EngineObeysCachedPolicy
<1>1. AgentInv => EngineObeysCachedPolicy
  BY DisabledHoldsNothing DEF AgentInv, Good, Obeys, EngineObeysCachedPolicy
<1>. QED  BY <1>1, AgentInvariance, PTL

\* syncCurrentInputSource and the two outcomes of a selection keep the agent
\* right about the input source until the next change is announced.
THEOREM InputSourceStaysKnown == Spec => []InputSourceIsKnown
<1>1. AgentInv => InputSourceIsKnown
  BY DEF AgentInv
<1>. QED  BY <1>1, AgentInvariance, PTL

-----------------------------------------------------------------------------
(* Engine and input source                                                  *)

\* Everything queued is a refresh that has ended.
OnlyInstalls == \A i \in 1..Len(agent.work) : agent.work[i].kind = "install"

Idle == capturing = NoRefresh /\ agent.refresh = NoRefresh

Agreed == OnlyInstalls /\ (os_layout = NoLayout \/ agent.engine.layout = os_layout)

\* The engine has switched, and what carries the switch out is all that is to
\* be done, current and valid.
Deciding ==
    /\ Idle /\ notices = {} /\ Len(agent.work) = 1
    /\ LET item == agent.work[1]
       IN /\ item.kind \in {"select", "replace"}
          /\ item.layout = agent.engine.layout
          /\ item.replacement = agent.replacement_generation
          /\ item.kind = "select" =>
                /\ SelectionIsCurrent(item)
                /\ item.plan # NoPlan => FocusIsStillValid(agent, item.plan.focus)
          /\ item.kind = "replace" => ReplacementIsCurrent(item)

\* The input source has changed, and the agent is yet to hear of it.
Informing ==
    Idle /\ notices = {"source"} /\ agent.work = <<>> /\ agent.synced # os_layout

\* What LayoutsAgree follows from, as long as the user waits between events.
LayoutsFollow == Agreed \/ Deciding \/ Informing

LEMMA EngineKeepsLayout ==
    ASSUME NEW en \in EngineType
    PROVE  /\ \A l \in Engine!Layout : Engine!ResetLayout(en, l).layout = l
           /\ Engine!ResetToken(en).layout = en.layout
           /\ Engine!Discarded(en).layout = en.layout
           /\ Engine!Ignored(en).layout = en.layout
           /\ Engine!TakePendingReplacement(en).layout = en.layout
           /\ \A c \in Engine!Context : Engine!SetHostContext(en, c).layout = en.layout
<1>1. \A e \in EngineType, l \in Engine!Layout : Engine!ResetLayout(e, l).layout = l
  BY SMT DEF Engine!ResetLayout, EngineType
<1>2. \A e \in EngineType : Engine!ResetToken(e).layout = e.layout
  BY <1>1, Zenon DEF Engine!ResetToken, EngineType
<1>3. Engine!Discarded(en).layout = en.layout
  <2>. DEFINE reset == Engine!ResetToken(en)
  <2>1. reset \in EngineType /\ reset.layout = en.layout
    BY <1>2, ResetTokenReaches DEF Reachable, Healthy
  <2>. HIDE DEF reset
  <2>2. \A said : [reset EXCEPT !.action = said].layout = reset.layout
    BY <2>1, SMT DEF EngineType
  <2>. QED  BY <2>1, <2>2 DEF Engine!Discarded, reset
<1>4. /\ Engine!Ignored(en).layout = en.layout
      /\ Engine!TakePendingReplacement(en).layout = en.layout
  BY SMT DEF Engine!Ignored, Engine!TakePendingReplacement, EngineType
<1>5. ASSUME NEW c \in Engine!Context
      PROVE  Engine!SetHostContext(en, c).layout = en.layout
  <2>. DEFINE set == [en EXCEPT !.context = c, !.action = Engine!None, !.pending = 0]
  <2>1. set \in EngineType
    BY Members, Zenon DEF EngineType
  <2>2. set.layout = en.layout
    BY SMT DEF EngineType
  <2>3. Engine!SetHostContext(en, c) \in {set, Engine!ResetToken(set)}
    BY DEF Engine!SetHostContext
  <2>. HIDE DEF set
  <2>. QED  BY <1>2, <2>1, <2>2, <2>3
<1>. QED  BY <1>1, <1>2, <1>3, <1>4, <1>5

\* A key that does not make the engine switch leaves its layout; one that does
\* tells the host the layout it is now in.
LEMMA SwitchesAreSaid ==
    ASSUME NEW en \in Healthy, NEW key \in Key, NEW next \in Observe(en, key)
    PROVE  IF next.action.tag = "SwitchFutureLayout"
           THEN key \in {"letter", "backspace"} /\ next.action.layout = next.layout
           ELSE next.layout = en.layout
<1>1. en \in EngineType
  BY DEF Healthy
<1>. DEFINE Said(mid) == IF mid.action.tag = "SwitchFutureLayout"
                         THEN mid.action.layout = mid.layout
                         ELSE mid.layout = en.layout
<1>2. ASSUME NEW mid \in EngineType
      PROVE  /\ Engine!Discarded(mid).action.tag # "SwitchFutureLayout"
             /\ Engine!Ignored(mid).action.tag # "SwitchFutureLayout"
  <2>1. Engine!ResetToken(mid) \in EngineType
    BY ResetTokenReaches DEF Reachable, Healthy
  <2>2. \A r \in EngineType : \A said : [r EXCEPT !.action = said].action = said
    BY SMT DEF EngineType
  <2>3. Engine!Discarded(mid).action \in {Engine!None, Engine!Reset}
    BY <2>1, <2>2 DEF Engine!Discarded
  <2>4. Engine!Ignored(mid).action = Engine!None
    BY SMT DEF Engine!Ignored, EngineType
  <2>. QED  BY <2>3, <2>4 DEF Engine!None, Engine!Reset
<1>3. Said(Engine!Discarded(en)) /\ Said(Engine!Ignored(en))
  BY <1>1, <1>2, EngineKeepsLayout
<1>4. Engine!Overflown(en).action.tag # "SwitchFutureLayout"
      /\ Engine!Overflown(en).layout = en.layout
  <2>. DEFINE d == Engine!Discarded(en)
  <2>1. d \in EngineType
    BY DiscardedReaches DEF Reachable, Healthy
  <2>2. Engine!Overflown(en).action = d.action /\ Engine!Overflown(en).layout = d.layout
    <3>. HIDE DEF d
    <3>1. /\ [d EXCEPT !.ignoring = TRUE].action = d.action
          /\ [d EXCEPT !.ignoring = TRUE].layout = d.layout
      BY <2>1, SMT DEF EngineType
    <3>. QED  BY <3>1 DEF Engine!Overflown, d
  <2>. QED  BY <1>1, <1>2, <2>2, EngineKeepsLayout
<1>5. ASSUME NEW mid \in EngineType, mid.layout = en.layout, NEW l \in Engine!Layout
      PROVE  Said(Engine!Inferring(mid, l))
  <2>1. CASE l = mid.layout
    BY <1>2, <1>5, <2>1, EngineKeepsLayout DEF Engine!Inferring
  <2>2. CASE l # mid.layout
    <3>. DEFINE said == Engine!Switch(l)
                n == mid.token_len
                s == [mid EXCEPT !.layout = l, !.action = said, !.pending = n]
    <3>1. s.action = said /\ s.layout = l
      <4>. HIDE DEF said, n
      <4>. QED  BY SMT DEF EngineType
    <3>2. Engine!Inferring(mid, l) = s
      BY <2>2 DEF Engine!Inferring
    <3>3. said.tag = "SwitchFutureLayout" /\ said.layout = l
      BY DEF Engine!Switch
    <3>. HIDE DEF s, said
    <3>. QED  BY <3>1, <3>2, <3>3
  <2>. QED  BY <2>1, <2>2
<1>6. /\ Engine!Grown(en).layout = en.layout
      /\ Engine!Shrunk(en).layout = en.layout
  BY <1>1, SMT DEF Engine!Grown, Engine!Shrunk, EngineType
<1>7. ASSUME ~Engine!Bypassing(en), ~en.ignoring, ~Engine!AtLimit(en),
             NEW l \in Engine!Inferable(Engine!Grown(en))
      PROVE  Said(Engine!Inferring(Engine!Grown(en), l))
  <2>1. Engine!Grown(en) \in Healthy
    BY <1>7, GrownReaches DEF Reachable
  <2>2. Engine!Grown(en) \in EngineType /\ l \in Engine!Layout
    BY <1>7, <2>1, InferableLayouts DEF Healthy
  <2>. QED  BY <1>5, <1>6, <2>2
<1>8. ASSUME ~Engine!Bypassing(en), ~en.ignoring, en.token_len # 0,
             NEW l \in Engine!Inferable(Engine!Shrunk(en))
      PROVE  Said(Engine!Inferring(Engine!Shrunk(en), l))
  <2>1. Engine!Shrunk(en) \in Healthy
    BY <1>8, ShrunkReaches DEF Reachable
  <2>2. Engine!Shrunk(en) \in EngineType /\ l \in Engine!Layout
    BY <1>8, <2>1, InferableLayouts DEF Healthy
  <2>. QED  BY <1>5, <1>6, <2>2
<1>9. ASSUME key = "letter" PROVE Said(next)
  <2>1. next \in Engine!AfterLetter(en)
    BY <1>9 DEF Observe
  <2>. HIDE DEF Said
  <2>2. Said(Engine!Overflown(en))
    BY <1>4 DEF Said
  <2>. QED  BY <1>3, <1>7, <2>1, <2>2, Zenon DEF Engine!AfterLetter
<1>10. ASSUME key = "backspace" PROVE Said(next)
  <2>1. next \in Engine!AfterBackspace(en)
    BY <1>10 DEF Observe
  <2>. HIDE DEF Said
  <2>. QED  BY <1>3, <1>8, <2>1, Zenon DEF Engine!AfterBackspace
<1>11. CASE key \notin {"letter", "backspace"}
  <2>1. next = Engine!Discarded(en)
    BY <1>11 DEF Observe
  <2>. QED  BY <1>1, <1>2, <2>1, EngineKeepsLayout
<1>. QED  BY <1>9, <1>10, <1>11

LEMMA EngineUntouched ==
    ASSUME NEW a \in AgentType
    PROVE  /\ CancelText(a).engine = a.engine /\ CancelText(a).refresh = a.refresh
           /\ \A c \in BOOLEAN : /\ CancelReplacement(a, c).engine = a.engine
                                 /\ CancelReplacement(a, c).refresh = a.refresh
           /\ CancelSelection(a).engine = a.engine
           /\ CancelManualSwitch(a).engine = a.engine
           /\ CancelManualSwitch(a).refresh = a.refresh
           /\ ResetManualSwitch(a).engine = a.engine
           /\ ResetManualSwitch(a).refresh = a.refresh
           /\ RequestRefresh(a).engine = a.engine
           /\ TeardownObserver(a).engine = a.engine
           /\ \A b \in BOOLEAN : ConfigureObserver(a, b).engine = a.engine
<1>1. \A x \in AgentType : CancelText(x).engine = x.engine /\ CancelText(x).refresh = x.refresh
  BY SMT DEF CancelText, AgentType
<1>2. ASSUME NEW c \in BOOLEAN
      PROVE  /\ CancelReplacement(a, c).engine = a.engine
             /\ CancelReplacement(a, c).refresh = a.refresh
  <2>. DEFINE n == a.replacement_generation + 1
              t == IF c THEN NoToggle ELSE a.toggle
              b == [a EXCEPT !.replacement_generation = n, !.toggle = t]
  <2>1. n \in Nat /\ t \in PlanType \cup {NoToggle}
    BY DEF AgentType
  <2>2. CancelReplacement(a, c) = CancelText(b)
    BY DEF CancelReplacement
  <2>. HIDE DEF n, t
  <2>3. b \in AgentType
    BY <2>1, Zenon DEF AgentType
  <2>4. b.engine = a.engine /\ b.refresh = a.refresh
    BY SMT DEF AgentType
  <2>. HIDE DEF b
  <2>. QED  BY <1>1, <2>2, <2>3, <2>4
<1>3. CancelSelection(a).engine = a.engine
  BY SMT DEF CancelSelection, AgentType
<1>4. /\ CancelManualSwitch(a).engine = a.engine
      /\ CancelManualSwitch(a).refresh = a.refresh
      /\ ResetManualSwitch(a).engine = a.engine
      /\ ResetManualSwitch(a).refresh = a.refresh
  BY SMT DEF CancelManualSwitch, ResetManualSwitch, AgentType
<1>5. RequestRefresh(a).engine = a.engine
  BY SMT DEF RequestRefresh, AgentType
<1>6. TeardownObserver(a).engine = a.engine
  BY SMT DEF TeardownObserver, AgentType
<1>7. ASSUME NEW b \in BOOLEAN
      PROVE  ConfigureObserver(a, b).engine = a.engine
  <2>1. TeardownObserver(a) \in AgentType
    BY TeardownObserverKeeps DEF Keeps, Continues, Lapses
  <2>. DEFINE t == TeardownObserver(a)
  <2>. HIDE DEF t
  <2>2. \A o : [t EXCEPT !.observer = o].engine = t.engine
    BY <2>1, SMT DEF t, AgentType
  <2>. QED  BY <1>6, <2>2 DEF ConfigureObserver, t
<1>. QED  BY <1>1, <1>2, <1>3, <1>4, <1>5, <1>6, <1>7

LEMMA ContextSet ==
    ASSUME NEW a \in AgentType, NEW c \in Engine!Context
    PROVE  /\ [a EXCEPT !.engine = Engine!SetHostContext(@, c)] \in AgentType
           /\ [a EXCEPT !.engine = Engine!SetHostContext(@, c)].engine.layout
                 = a.engine.layout
<1>. DEFINE en == Engine!SetHostContext(a.engine, c)
<1>1. en \in Healthy /\ en.layout = a.engine.layout
  BY SetHostContextObeys, EngineKeepsLayout DEF AgentType, Healthy
<1>. HIDE DEF en
<1>2. [a EXCEPT !.engine = en] \in AgentType /\ [a EXCEPT !.engine = en].engine = en
  BY <1>1, EngineSet
<1>. QED  BY <1>1, <1>2 DEF en

\* Whatever becomes of the token and of the policy, the engine's layout stays.
LEMMA LayoutKept ==
    ASSUME NEW a \in AgentType
    PROVE  /\ EngineReset(a).engine.layout = a.engine.layout
           /\ \A policy \in Policy, app \in Apps, f \in Field \cup {NoField} :
                 /\ InstallContext(a, policy, app, f).engine.layout = a.engine.layout
                 /\ InstallContext(a, policy, app, f).refresh = a.refresh
           /\ InstallBase(a).engine.layout = a.engine.layout
           /\ InstallBase(a).refresh = a.refresh
           /\ InvalidateContext(a).engine.layout = a.engine.layout
<1>1. \A x \in AgentType : EngineReset(x).engine.layout = x.engine.layout
  <2>. SUFFICES ASSUME NEW x \in AgentType
                PROVE  EngineReset(x).engine.layout = x.engine.layout
    OBVIOUS
  <2>. DEFINE en == Engine!ResetToken(x.engine)
  <2>1. en \in Healthy /\ en.layout = x.engine.layout
    BY ResetTokenReaches, EngineKeepsLayout DEF AgentType, Healthy, Reachable
  <2>. HIDE DEF en
  <2>2. [x EXCEPT !.engine = en].engine = en
    BY <2>1, EngineSet
  <2>. QED  BY <2>1, <2>2 DEF EngineReset, en
<1>2. ASSUME NEW policy \in Policy, NEW app \in Apps, NEW f \in Field \cup {NoField}
      PROVE  /\ InstallContext(a, policy, app, f).engine.layout = a.engine.layout
             /\ InstallContext(a, policy, app, f).refresh = a.refresh
  <2>. DEFINE c == EngineContext(policy)
              en == Engine!SetHostContext(a.engine, c)
  <2>1. en.layout = a.engine.layout
    BY ContextGiven, EngineKeepsLayout DEF AgentType, Healthy
  <2>2. InstallContext(a, policy, app, f).engine = en
        /\ InstallContext(a, policy, app, f).refresh = a.refresh
    <3>. HIDE DEF en
    <3>1. \A s, g : /\ [a EXCEPT !.engine = en, !.snapshot = s, !.focus = g].engine = en
                    /\ [a EXCEPT !.engine = en, !.snapshot = s, !.focus = g].refresh = a.refresh
      BY SMT DEF AgentType
    <3>. QED  BY <3>1 DEF InstallContext, en
  <2>. QED  BY <2>1, <2>2
<1>3. InstallBase(a).engine.layout = a.engine.layout /\ InstallBase(a).refresh = a.refresh
  <2>1. (IF IsSecure THEN "secure" ELSE BasePolicy(a.frontmost)) \in Policy
        /\ a.frontmost \in Apps /\ NoField \in Field \cup {NoField}
    BY ContextGiven DEF AgentType
  <2>. QED  BY <1>2, <2>1 DEF InstallBase
<1>4. InvalidateContext(a).engine.layout = a.engine.layout
  <2>. DEFINE b == [a EXCEPT !.snapshot = "unknown", !.focus = NoFocus]
              r == CancelReplacement(b, TRUE)
              c == CancelSelection(r)
              d == [c EXCEPT !.engine = Engine!SetHostContext(@, EngineContext("unknown"))]
  <2>1. b \in AgentType
    BY Zenon DEF AgentType
  <2>2. b.engine = a.engine
    BY SMT DEF AgentType
  <2>. HIDE DEF b
  <2>3. r \in AgentType /\ r.engine = b.engine
    BY <2>1, CancelReplacementKeeps, EngineUntouched DEF Keeps, Continues, Lapses
  <2>. HIDE DEF r
  <2>4. c \in AgentType /\ c.engine = r.engine
    BY <2>3, CancelSelectionKeeps, EngineUntouched DEF Keeps, Continues, Lapses
  <2>. HIDE DEF c
  <2>5. d \in AgentType /\ d.engine.layout = c.engine.layout
    BY <2>4, ContextGiven, ContextSet
  <2>6. InvalidateContext(a) = EngineReset(d)
    BY DEF InvalidateContext, b, r, c
  <2>. HIDE DEF d
  <2>. QED  BY <1>1, <2>2, <2>3, <2>4, <2>5, <2>6
<1>. QED  BY <1>1, <1>2, <1>3, <1>4

LEMMA CallbacksKeepLayout ==
    ASSUME NEW a \in AgentType
    PROVE  /\ RequestRefresh(InvalidateContext(a)).engine.layout = a.engine.layout
           /\ HandlePotentialFocusChange(a).engine.layout = a.engine.layout
           /\ CheckContext(a).engine.layout = a.engine.layout
           /\ ~Disabled(CheckedSnapshot(a)) =>
                 /\ ~Disabled(CheckContext(a).snapshot)
                 /\ CheckContext(a).refresh = a.refresh
                 /\ CheckContext(a).replacement_generation >= a.replacement_generation
<1>1. \A x \in AgentType : RequestRefresh(InvalidateContext(x)).engine.layout = x.engine.layout
  BY LayoutKept, InvalidateContextObeys, EngineUntouched DEF Continues, Lapses
<1>2. HandlePotentialFocusChange(a).engine.layout = a.engine.layout
  <2>. DEFINE m == ResetManualSwitch(a)
              c == [m EXCEPT !.toggle = NoToggle]
  <2>1. m \in AgentType /\ m.engine = a.engine
    BY CancelManualSwitchKeeps, EngineUntouched DEF Keeps, Continues, Lapses
  <2>. HIDE DEF m
  <2>2. c \in AgentType
    BY <2>1, UpdateKeeps DEF Keeps, Continues, Lapses
  <2>3. c.engine = m.engine
    BY <2>1, SMT DEF AgentType
  <2>4. HandlePotentialFocusChange(a) \in {c, RequestRefresh(InvalidateContext(c))}
    BY DEF HandlePotentialFocusChange, m
  <2>. HIDE DEF c
  <2>. QED  BY <1>1, <2>1, <2>2, <2>3, <2>4
<1>3. CheckContext(a).engine.layout = a.engine.layout
  BY <1>1, LayoutKept DEF CheckContext
<1>4. ASSUME ~Disabled(CheckedSnapshot(a))
      PROVE  /\ ~Disabled(CheckContext(a).snapshot)
             /\ CheckContext(a).refresh = a.refresh
             /\ CheckContext(a).replacement_generation >= a.replacement_generation
  <2>1. ~IsSecure /\ ~Disabled(CheckContext(a).snapshot)
    BY <1>4 DEF CheckedSnapshot, Disabled
  <2>2. CheckContext(a).replacement_generation >= a.replacement_generation
    BY CheckContextFollows DEF Follows, Continues, Lapses
  <2>3. RequestRefresh(InvalidateContext(a)).snapshot = "unknown"
    <3>. DEFINE i == InvalidateContext(a)
    <3>1. i \in AgentType
      BY InvalidateContextObeys DEF Continues, Lapses
    <3>2. i.snapshot = "unknown"
      <4>. DEFINE b == [a EXCEPT !.snapshot = "unknown", !.focus = NoFocus]
                  r == CancelReplacement(b, TRUE)
                  c == CancelSelection(r)
                  d == [c EXCEPT !.engine = Engine!SetHostContext(@, EngineContext("unknown"))]
      <4>1. b \in AgentType /\ b.snapshot = "unknown"
        BY ForgetContinues DEF Continues, Lapses
      <4>. HIDE DEF b
      <4>2. r \in AgentType /\ r.snapshot = b.snapshot
        BY <4>1, CancelReplacementKeeps DEF Keeps, Continues, Lapses, SamePolicy
      <4>. HIDE DEF r
      <4>3. c \in AgentType /\ c.snapshot = r.snapshot
        BY <4>2, CancelSelectionKeeps DEF Keeps, Continues, Lapses, SamePolicy
      <4>. HIDE DEF c
      <4>4. d \in AgentType
        BY <4>3, ContextGiven, ContextSet
      <4>5. d.snapshot = c.snapshot
        BY <4>3, SMT DEF AgentType
      <4>6. i = EngineReset(d)
        BY DEF InvalidateContext, b, r, c
      <4>. HIDE DEF d, i
      <4>. QED  BY <4>1, <4>2, <4>3, <4>4, <4>5, <4>6, EngineResetKeeps DEF Keeps, SamePolicy
    <3>. HIDE DEF i
    <3>3. RequestRefresh(i).snapshot = i.snapshot
      BY <3>1, RequestRefreshKeeps DEF Keeps, SamePolicy
    <3>. QED  BY <3>2, <3>3 DEF i
  <2>4. CheckContext(a) \in {a, InstallBase(a)}
    BY <2>1, <2>3, Zenon DEF CheckContext, Disabled
  <2>. QED  BY <2>1, <2>2, <2>4, LayoutKept
<1>. QED  BY <1>1, <1>2, <1>3, <1>4

LEMMA PlanIsValid ==
    ASSUME NEW a \in AgentType, NEW manual \in BOOLEAN, ~Disabled(a.snapshot),
           PlanFor(a, manual) # NoPlan
    PROVE  FocusIsStillValid(a, PlanFor(a, manual).focus)
<1>1. CASE a.focus # NoFocus /\ a.engine.pending > 0
  <2>1. PlanFor(a, manual) = [count |-> a.engine.pending, focus |-> a.focus]
    BY <1>1 DEF PlanFor
  <2>2. PlanFor(a, manual).focus = a.focus
    BY <2>1
  <2>. QED  BY <2>2 DEF FocusIsStillValid
<1>2. CASE ~(a.focus # NoFocus /\ a.engine.pending > 0)
  <2>1. /\ FocusIsStillValid(a, a.toggle.focus)
        /\ PlanFor(a, manual) = [count |-> a.toggle.count, focus |-> a.toggle.focus]
    BY <1>2 DEF PlanFor
  <2>2. PlanFor(a, manual).focus = a.toggle.focus
    BY <2>1
  <2>. QED  BY <2>1, <2>2
<1>. QED  BY <1>1, <1>2

\* A switch of the engine is on its way to the input source as soon as it is
\* applied.
LEMMA AppliedIsDeciding ==
    ASSUME NEW a, Good(a), ~a.text_pending, NEW manual \in BOOLEAN,
           a.engine.action.tag = "SwitchFutureLayout",
           a.engine.action.layout = a.engine.layout,
           ~Disabled(a.snapshot), a.work = <<>>, a.refresh = NoRefresh,
           agent' = Apply(a, manual), capturing' = NoRefresh, notices' = {}
    PROVE  Deciding'
<1>. DEFINE plan == PlanFor(a, manual)
            en == Engine!TakePendingReplacement(a.engine)
            t == IF manual /\ plan = NoPlan THEN NoToggle ELSE a.toggle
            n == a.selection_generation + 1
            item == [kind |-> "select", layout |-> a.engine.action.layout,
                     manual |-> manual, plan |-> plan,
                     replacement |-> a.replacement_generation, generation |-> n]
            w == Append(a.work, item)
            b == [a EXCEPT !.engine = en, !.toggle = t, !.selection_generation = n,
                           !.selection_pending = TRUE, !.work = w]
<1>1. a \in AgentType
  BY DEF Good
<1>2. agent' = b
  BY DEF Apply
<1>3. en.layout = a.engine.layout
  BY <1>1, EngineKeepsLayout DEF AgentType, Healthy
<1>4. w = <<item>> /\ Len(w) = 1 /\ w[1] = item
  <2>. HIDE DEF item
  <2>. QED  OBVIOUS
<1>5. /\ item.kind = "select" /\ item.layout = a.engine.layout
      /\ item.replacement = a.replacement_generation /\ item.generation = n
      /\ item.plan = plan
  OBVIOUS
<1>6. plan # NoPlan => FocusIsStillValid(a, plan.focus)
  BY <1>1, PlanIsValid
<1>. HIDE DEF plan, en, t, n, item, w
<1>7. /\ b.engine = en /\ b.work = w /\ b.selection_generation = n
      /\ b.replacement_generation = a.replacement_generation
      /\ b.snapshot = a.snapshot /\ b.focus = a.focus /\ b.refresh = a.refresh
  BY <1>1, SMT DEF AgentType
<1>. HIDE DEF b
<1>8. /\ agent'.engine.layout = a.engine.layout
      /\ agent'.work = w /\ agent'.refresh = NoRefresh
      /\ agent'.selection_generation = n
      /\ agent'.replacement_generation = a.replacement_generation
      /\ agent'.snapshot = a.snapshot /\ agent'.focus = a.focus
  BY <1>2, <1>3, <1>7
<1>9. Len(agent'.work) = 1 /\ agent'.work[1] = item
  BY <1>4, <1>8
<1>10. item.plan # NoPlan => agent'.focus = item.plan.focus /\ ~Disabled(agent'.snapshot)
  BY <1>5, <1>6, <1>8 DEF FocusIsStillValid
<1>11. Idle' /\ notices' = {}
  BY <1>8 DEF Idle
<1>. QED  BY <1>5, <1>8, <1>9, <1>10, <1>11
          DEF Deciding, SelectionIsCurrent, FocusIsStillValid

LEMMA AgreedKept ==
    ASSUME Agreed, agent'.engine.layout = agent.engine.layout,
           agent'.work = agent.work, os_layout' = os_layout
    PROVE  LayoutsFollow'
  BY DEF Agreed, OnlyInstalls, LayoutsFollow

LEMMA SettledAgrees ==
    ASSUME LayoutsFollow, Settled
    PROVE  Agreed /\ Idle /\ notices = {} /\ agent.work = <<>>
  BY DEF LayoutsFollow, Deciding, Informing, Settled, Idle

LEMMA KeysFollow ==
    ASSUME AgentInv, Undisturbed, LayoutsFollow, NEW key \in Key, ProcessKey(key)
    PROVE  LayoutsFollow'
<1>. DEFINE r == CancelReplacement(agent, TRUE)
            cancelled == CancelManualSwitch(r)
            a == CheckContext(cancelled)
<1>1. Good(agent) /\ agent \in AgentType
  BY DEF AgentInv, Good
<1>2. Settled /\ Agreed /\ Idle /\ notices = {} /\ agent.work = <<>>
  <2>1. Settled
    BY DEF ProcessKey, Act, MayAct
  <2>. QED  BY <2>1, SettledAgrees
<1>3. /\ Follows(r, agent) /\ ~r.text_pending /\ r \in AgentType
      /\ r.engine = agent.engine /\ r.refresh = agent.refresh
  BY <1>1, CancelReplacementKeeps, FollowsTransitive, EngineUntouched, Zenon
<1>4. agent' = IF Disabled(CheckedSnapshot(cancelled)) \/ ~a.ready
               THEN EngineReset(a)
               ELSE agent'
  BY DEF ProcessKey
<1>5. ~(Disabled(CheckedSnapshot(cancelled)) \/ ~a.ready) =>
         \E en \in Observe(a.engine, key) :
            LET applied == Apply([a EXCEPT !.engine = en], FALSE)
            IN agent' = IF key = "focusKey"
                        THEN HandlePotentialFocusChange(applied)
                        ELSE applied
  BY DEF ProcessKey
<1>. HIDE DEF r
<1>6. /\ Follows(cancelled, r) /\ cancelled \in AgentType /\ ~cancelled.text_pending
      /\ cancelled.engine = r.engine /\ cancelled.refresh = r.refresh
  BY <1>3, CancelManualSwitchKeeps, FollowsTransitive, EngineUntouched, Zenon
<1>. HIDE DEF cancelled
<1>7. /\ Follows(a, cancelled) /\ a \in AgentType /\ ~a.text_pending
      /\ a.engine.layout = cancelled.engine.layout
  BY <1>6, CheckContextFollows, CallbacksKeepLayout, FollowsTransitive, Zenon
<1>8. ~Disabled(CheckedSnapshot(cancelled)) =>
         ~Disabled(a.snapshot) /\ a.refresh = cancelled.refresh
  BY <1>6, CallbacksKeepLayout
<1>. HIDE DEF a
<1>9. Follows(a, agent) /\ Good(a)
  BY <1>1, <1>3, <1>6, <1>7, FollowsTransitive, FollowsGood, Zenon
<1>10. a.work = <<>> /\ a.engine.layout = agent.engine.layout
  BY <1>2, <1>3, <1>6, <1>7, <1>9 DEF Follows, Continues, Lapses
<1>11. os_layout' = os_layout /\ capturing' = capturing
       /\ (key # "focusKey" => notices' = notices)
  BY DEF ProcessKey, KeyTypes
<1>12. CASE Disabled(CheckedSnapshot(cancelled)) \/ ~a.ready
  <2>1. agent' = EngineReset(a)
    BY <1>4, <1>12
  <2>2. agent'.engine.layout = a.engine.layout /\ agent'.work = a.work
    BY <1>7, <2>1, LayoutKept, EngineResetKeeps DEF Keeps, Continues, Lapses
  <2>. QED  BY <1>2, <1>10, <1>11, <2>2, AgreedKept
<1>13. CASE ~Disabled(CheckedSnapshot(cancelled)) /\ a.ready
  <2>1. PICK en \in Observe(a.engine, key) :
           LET applied == Apply([a EXCEPT !.engine = en], FALSE)
           IN agent' = IF key = "focusKey"
                       THEN HandlePotentialFocusChange(applied)
                       ELSE applied
    BY <1>5, <1>13
  <2>. DEFINE b == [a EXCEPT !.engine = en]
              applied == Apply(b, FALSE)
  <2>2. agent' = IF key = "focusKey" THEN HandlePotentialFocusChange(applied)
                                     ELSE applied
    BY <2>1
  <2>3. a.engine \in Healthy /\ en \in Reachable(a.engine) /\ en \in Healthy
    BY <1>7, <2>1, ObserveReaches DEF AgentType, Reachable
  <2>4. Follows(b, a) /\ b \in AgentType /\ ~b.text_pending
    BY <1>7, <2>3, UpdateKeeps, FollowsTransitive, Zenon
  <2>5. b.engine = en /\ b.work = a.work /\ b.snapshot = a.snapshot
    BY <1>7, <2>3, EngineSet
  <2>6. b.refresh = a.refresh
    BY <1>7, SMT DEF AgentType
  <2>7. IF en.action.tag = "SwitchFutureLayout"
        THEN key \in {"letter", "backspace"} /\ en.action.layout = en.layout
        ELSE en.layout = a.engine.layout
    BY <2>1, <2>3, SwitchesAreSaid
  <2>8. Good(b)
    BY <1>9, <2>4, FollowsGood, Zenon
  <2>9. b.engine.action.tag # "SwitchFutureLayout" => applied = b
    BY DEF Apply
  <2>10. b.engine.action.tag = "SwitchFutureLayout" => agent' = Apply(b, FALSE)
    <3>. HIDE DEF b
    <3>. QED  BY <2>2, <2>5, <2>7
  <2>. HIDE DEF b, applied
  <2>11. CASE en.action.tag = "SwitchFutureLayout"
    <3>1. /\ agent' = Apply(b, FALSE) /\ capturing' = NoRefresh /\ notices' = {}
          /\ b.work = <<>> /\ b.refresh = NoRefresh
      BY <1>2, <1>3, <1>6, <1>8, <1>10, <1>11, <1>13, <2>5, <2>6, <2>7, <2>10, <2>11 DEF Idle
    <3>2. ~Disabled(b.snapshot) /\ FALSE \in BOOLEAN
      BY <1>8, <1>13, <2>5
    <3>3. /\ b.engine.action.tag = "SwitchFutureLayout"
          /\ b.engine.action.layout = b.engine.layout
      BY <2>5, <2>7, <2>11
    <3>4. Deciding'
      BY <2>4, <2>8, <3>1, <3>2, <3>3, AppliedIsDeciding
    <3>. QED  BY <3>4 DEF LayoutsFollow
  <2>12. CASE en.action.tag # "SwitchFutureLayout"
    <3>1. agent' \in {b, HandlePotentialFocusChange(b)}
      BY <2>2, <2>5, <2>9, <2>12
    <3>2. agent'.engine.layout = b.engine.layout /\ agent'.work = b.work
      BY <2>4, <3>1, CallbacksKeepLayout, HandlePotentialFocusChangeFollows
         DEF Follows, Continues, Lapses
    <3>3. agent'.engine.layout = agent.engine.layout /\ agent'.work = agent.work
      BY <1>2, <1>10, <2>5, <2>7, <2>12, <3>2
    <3>. QED  BY <1>2, <1>11, <3>3, AgreedKept
  <2>. QED  BY <2>11, <2>12
<1>. QED  BY <1>12, <1>13

LEMMA ForcedSwitchIsSaid ==
    ASSUME NEW en \in Healthy
    PROVE  LET forced == Engine!ForceSwitchLayout(en) IN
           IF forced.action.tag = "SwitchFutureLayout"
           THEN forced.action.layout = forced.layout
           ELSE forced.layout = en.layout
<1>. DEFINE other == Engine!Opposite(en.layout)
            reset == Engine!ResetLayout(en, other)
            said  == Engine!Switch(other)
            n     == en.token_len
            forced == Engine!ForceSwitchLayout(en)
<1>0. en \in EngineType
  BY DEF Healthy
<1>1. CASE Engine!Bypassing(en)
  <2>1. Engine!ResetToken(en) \in EngineType
    BY <1>0, ResetTokenReaches DEF Reachable, Healthy
  <2>2. \A r \in EngineType : \A s : [r EXCEPT !.action = s].action = s
    BY SMT DEF EngineType
  <2>3. Engine!Discarded(en).action \in {Engine!None, Engine!Reset}
    BY <2>1, <2>2 DEF Engine!Discarded
  <2>4. Engine!Discarded(en).action.tag # "SwitchFutureLayout"
    BY <2>3 DEF Engine!None, Engine!Reset
  <2>. QED  BY <1>0, <1>1, <2>4, EngineKeepsLayout DEF Engine!ForceSwitchLayout
<1>2. CASE ~Engine!Bypassing(en)
  <2>1. other \in Engine!Layout
    BY DEF Engine!Opposite, Engine!Layout
  <2>2. reset \in EngineType /\ reset.layout = other
    BY <1>0, <2>1, ResetLayoutReaches, EngineKeepsLayout DEF Reachable, Healthy
  <2>3. forced = [reset EXCEPT !.action = said, !.pending = n]
    BY <1>2 DEF Engine!ForceSwitchLayout
  <2>4. said.layout = other /\ said.tag = "SwitchFutureLayout"
    BY DEF Engine!Switch
  <2>. HIDE DEF other, reset, said, n, forced
  <2>5. forced.action = said /\ forced.layout = reset.layout
    BY <2>2, <2>3, SMT DEF EngineType
  <2>. QED  BY <2>2, <2>4, <2>5 DEF forced
<1>. QED  BY <1>1, <1>2

LEMMA OptionUpFollows ==
    ASSUME AgentInv, Undisturbed, LayoutsFollow, NEW chord \in BOOLEAN, OptionUp(chord)
    PROVE  LayoutsFollow'
<1>. DEFINE a == CancelReplacement(agent, FALSE)
            reset == ResetManualSwitch(a)
            checked == CheckContext(reset)
            en == Engine!ForceSwitchLayout(checked.engine)
            forced == [checked EXCEPT !.engine = en]
            untoggled == [reset EXCEPT !.toggle = NoToggle]
<1>1. Good(agent) /\ agent \in AgentType
  BY DEF AgentInv, Good
<1>2. Settled /\ Agreed /\ Idle /\ notices = {} /\ agent.work = <<>>
  <2>1. Settled
    BY DEF OptionUp, Act, MayAct
  <2>. QED  BY <2>1, SettledAgrees
<1>3. UNCHANGED <<capturing, notices, os_layout>>
  BY DEF OptionUp
<1>4. \/ agent' \in {a, untoggled, checked, EngineReset(checked)}
      \/ ~Disabled(CheckedSnapshot(reset)) /\ agent' = Apply(forced, TRUE)
  BY Zenon DEF OptionUp
<1>5. /\ Follows(a, agent) /\ a \in AgentType /\ ~a.text_pending
      /\ a.engine = agent.engine /\ a.refresh = agent.refresh
  BY <1>1, CancelReplacementKeeps, FollowsTransitive, EngineUntouched, Zenon
<1>. HIDE DEF a
<1>6. /\ Follows(reset, a) /\ reset \in AgentType /\ ~reset.text_pending
      /\ reset.engine = a.engine /\ reset.refresh = a.refresh
  BY <1>5, CancelManualSwitchKeeps, FollowsTransitive, EngineUntouched, Zenon
<1>. HIDE DEF reset
<1>7. /\ Follows(checked, reset) /\ checked \in AgentType /\ ~checked.text_pending
      /\ checked.engine.layout = reset.engine.layout
  BY <1>6, CheckContextFollows, CallbacksKeepLayout, FollowsTransitive, Zenon
<1>8. ~Disabled(CheckedSnapshot(reset)) =>
         ~Disabled(checked.snapshot) /\ checked.refresh = reset.refresh
  BY <1>6, CallbacksKeepLayout
<1>9. untoggled.work = reset.work /\ untoggled.engine = reset.engine
  BY <1>6, SMT DEF AgentType
<1>. HIDE DEF checked, untoggled
<1>10. Follows(checked, agent) /\ Good(checked)
  BY <1>1, <1>5, <1>6, <1>7, FollowsTransitive, FollowsGood, Zenon
<1>11. a.work = <<>> /\ reset.work = <<>> /\ checked.work = <<>>
  BY <1>2, <1>5, <1>6, <1>7 DEF Follows, Continues, Lapses
<1>12. CASE agent' \in {a, untoggled, checked, EngineReset(checked)}
  <2>1. /\ EngineReset(checked).engine.layout = checked.engine.layout
        /\ EngineReset(checked).work = checked.work
    BY <1>7, LayoutKept, EngineResetKeeps DEF Keeps, Continues, Lapses
  <2>2. agent'.engine.layout = agent.engine.layout /\ agent'.work = agent.work
    BY <1>2, <1>5, <1>6, <1>7, <1>9, <1>11, <1>12, <2>1
  <2>. QED  BY <1>2, <1>3, <2>2, AgreedKept
<1>13. CASE ~Disabled(CheckedSnapshot(reset)) /\ agent' = Apply(forced, TRUE)
  <2>1. checked.engine \in Healthy
    BY <1>7 DEF AgentType
  <2>2. en \in Reachable(checked.engine) /\ en \in Healthy
    BY <2>1, ForceSwitchLayoutReaches DEF Reachable
  <2>3. IF en.action.tag = "SwitchFutureLayout"
        THEN en.action.layout = en.layout
        ELSE en.layout = checked.engine.layout
    BY <2>1, ForcedSwitchIsSaid
  <2>. HIDE DEF en
  <2>4. Follows(forced, checked) /\ forced \in AgentType /\ ~forced.text_pending
    BY <1>7, <2>2, UpdateKeeps, FollowsTransitive, Zenon
  <2>5. forced.engine = en /\ forced.work = checked.work /\ forced.snapshot = checked.snapshot
    BY <1>7, <2>2, EngineSet
  <2>6. forced.refresh = checked.refresh
    BY <1>7, SMT DEF AgentType
  <2>7. Good(forced)
    BY <1>10, <2>4, FollowsGood, Zenon
  <2>. HIDE DEF forced
  <2>8. CASE en.action.tag = "SwitchFutureLayout"
    <3>1. /\ agent' = Apply(forced, TRUE) /\ capturing' = NoRefresh /\ notices' = {}
          /\ forced.work = <<>> /\ forced.refresh = NoRefresh
      BY <1>2, <1>3, <1>5, <1>6, <1>8, <1>11, <1>13, <2>5, <2>6 DEF Idle
    <3>2. ~Disabled(forced.snapshot) /\ TRUE \in BOOLEAN
      BY <1>8, <1>13, <2>5
    <3>3. /\ forced.engine.action.tag = "SwitchFutureLayout"
          /\ forced.engine.action.layout = forced.engine.layout
      BY <2>3, <2>5, <2>8
    <3>4. Deciding'
      BY <2>4, <2>7, <3>1, <3>2, <3>3, AppliedIsDeciding
    <3>. QED  BY <3>4 DEF LayoutsFollow
  <2>9. CASE en.action.tag # "SwitchFutureLayout"
    <3>1. agent' = forced
      BY <1>13, <2>5, <2>9 DEF Apply
    <3>2. agent'.engine.layout = agent.engine.layout /\ agent'.work = agent.work
      BY <1>2, <1>5, <1>6, <1>7, <1>11, <2>3, <2>5, <2>9, <3>1
    <3>. QED  BY <1>2, <1>3, <3>2, AgreedKept
  <2>. QED  BY <2>8, <2>9
<1>. QED  BY <1>4, <1>12, <1>13

\* Callbacks that decide nothing leave the engine's layout and the queue.
LEMMA UserFollows ==
    ASSUME AgentInv, Undisturbed, LayoutsFollow,
           \/ OtherModifierChanges
           \/ \E chord \in BOOLEAN : OptionDown(chord)
           \/ \E f \in Field : MouseDown(f) \/ FocusMoves(f) \/ AppActivates(f)
    PROVE  LayoutsFollow'
<1>1. Good(agent) /\ agent \in AgentType
  BY DEF AgentInv, Good
<1>2. MayAct /\ os_layout' = os_layout
  BY DEF OtherModifierChanges, OptionDown, MouseDown, FocusMoves, AppActivates, Act
<1>3. Agreed
  BY <1>2, SettledAgrees DEF MayAct
<1>4. ASSUME NEW b \in AgentType
      PROVE  /\ \A t \in PlanType \cup {NoToggle} :
                   /\ [b EXCEPT !.toggle = t].engine = b.engine
                   /\ [b EXCEPT !.toggle = t].work = b.work
                   /\ [b EXCEPT !.toggle = t] \in AgentType
  <2>1. \A t \in PlanType \cup {NoToggle} : [b EXCEPT !.toggle = t] \in AgentType
    BY UpdateKeeps, Zenon DEF Keeps, Continues, Lapses
  <2>. QED  BY <2>1, SMT DEF AgentType
<1>5. LET r == CancelReplacement(agent, FALSE) IN
      r \in AgentType /\ r.engine = agent.engine /\ r.work = agent.work
  BY <1>1, CancelReplacementKeeps, EngineUntouched DEF Keeps, Continues, Lapses
<1>. DEFINE r == CancelReplacement(agent, FALSE)
<1>6. CASE OtherModifierChanges
  <2>. DEFINE c == [r EXCEPT !.toggle = NoToggle]
  <2>1. agent' = CancelManualSwitch(c)
    BY <1>6 DEF OtherModifierChanges
  <2>2. r \in AgentType /\ r.engine = agent.engine /\ r.work = agent.work
    BY <1>5
  <2>. HIDE DEF r
  <2>3. c \in AgentType /\ c.engine = r.engine /\ c.work = r.work
    BY <1>4, <2>2
  <2>. HIDE DEF c
  <2>4. agent'.engine = c.engine /\ agent'.work = c.work
    BY <2>1, <2>3, CancelManualSwitchKeeps, EngineUntouched DEF Keeps, Continues, Lapses
  <2>. QED  BY <1>2, <1>3, <2>2, <2>3, <2>4, AgreedKept
<1>7. ASSUME NEW chord \in BOOLEAN, OptionDown(chord)
      PROVE  LayoutsFollow'
  <2>1. agent' \in {[r EXCEPT !.toggle = NoToggle, !.option = "up"],
                    [r EXCEPT !.option = "armed"]}
    BY <1>7 DEF OptionDown
  <2>2. r \in AgentType /\ r.engine = agent.engine /\ r.work = agent.work
    BY <1>5
  <2>. HIDE DEF r
  <2>3. /\ [r EXCEPT !.toggle = NoToggle, !.option = "up"].engine = r.engine
        /\ [r EXCEPT !.toggle = NoToggle, !.option = "up"].work = r.work
        /\ [r EXCEPT !.option = "armed"].engine = r.engine
        /\ [r EXCEPT !.option = "armed"].work = r.work
    BY <2>2, SMT DEF AgentType
  <2>4. agent'.engine = r.engine /\ agent'.work = r.work
    BY <2>1, <2>3, Zenon
  <2>. QED  BY <1>2, <1>3, <2>2, <2>4, AgreedKept
<1>8. ASSUME NEW f \in Field, MouseDown(f) \/ FocusMoves(f) \/ AppActivates(f)
      PROVE  LayoutsFollow'
  <2>1. agent' \in {agent, HandlePotentialFocusChange(agent)}
    BY <1>8 DEF MouseDown, FocusMoves, AppActivates
  <2>2. agent'.engine.layout = agent.engine.layout /\ agent'.work = agent.work
    BY <1>1, <2>1, CallbacksKeepLayout, HandlePotentialFocusChangeFollows
       DEF Follows, Continues, Lapses
  <2>. QED  BY <1>2, <1>3, <2>2, AgreedKept
<1>. QED  BY <1>6, <1>7, <1>8

LEMMA InputSourceChangesFollows ==
    ASSUME AgentInv, Undisturbed, LayoutsFollow,
           NEW l \in Engine!Layout \cup {NoLayout}, InputSourceChanges(l)
    PROVE  LayoutsFollow'
<1>1. /\ Settled /\ os_layout' = l /\ l # os_layout
      /\ notices' = notices \cup {"source"} /\ UNCHANGED <<agent, capturing>>
  BY DEF InputSourceChanges, Act, MayAct
<1>2. Agreed /\ Idle /\ notices = {} /\ agent.work = <<>>
  BY <1>1, SettledAgrees
<1>3. agent.synced \in {os_layout, NoLayout}
  BY <1>2 DEF AgentInv, InputSourceIsKnown
<1>4. CASE l = NoLayout
  BY <1>1, <1>2, <1>4 DEF LayoutsFollow, Agreed, OnlyInstalls
<1>5. CASE l # NoLayout
  BY <1>1, <1>2, <1>3, <1>5 DEF LayoutsFollow, Informing, Idle
<1>. QED  BY <1>4, <1>5

LEMMA BackoffFollows ==
    ASSUME AgentInv, Undisturbed, LayoutsFollow, BackoffExpires
    PROVE  LayoutsFollow'
<1>. DEFINE a == [agent EXCEPT !.degraded_app = NoApp, !.recovery = NoTimer]
            b == InstallBase(a)
<1>1. Good(agent) /\ agent \in AgentType
  BY DEF AgentInv, Good
<1>2. MayAct /\ os_layout' = os_layout
  BY DEF BackoffExpires, Act
<1>3. Agreed
  BY <1>2, SettledAgrees DEF MayAct
<1>4. a \in AgentType
  BY <1>1, Zenon DEF AgentType
<1>5. a.engine = agent.engine /\ a.work = agent.work
  BY <1>1, SMT DEF AgentType
<1>6. \/ agent' = a
      \/ \E attachable \in ObserverOutcomes :
            agent' = RequestRefresh(ConfigureObserver(b, attachable))
  BY DEF BackoffExpires
<1>. HIDE DEF a
<1>7. b \in AgentType /\ b.engine.layout = a.engine.layout /\ b.work = a.work
  BY <1>4, InstallBaseObeys, LayoutKept DEF Continues, Lapses
<1>. HIDE DEF b
<1>8. ASSUME NEW attachable \in ObserverOutcomes,
             agent' = RequestRefresh(ConfigureObserver(b, attachable))
      PROVE  agent'.engine = b.engine /\ agent'.work = b.work
  <2>. DEFINE c == ConfigureObserver(b, attachable)
  <2>0. attachable \in BOOLEAN
    BY SurfaceAssumption
  <2>1. c \in AgentType /\ c.engine = b.engine /\ c.work = b.work
    BY <1>7, <2>0, ConfigureObserverKeeps, EngineUntouched DEF Keeps, Continues, Lapses
  <2>2. agent' = RequestRefresh(c)
    BY <1>8
  <2>. HIDE DEF c
  <2>. QED  BY <2>1, <2>2, RequestRefreshKeeps, EngineUntouched DEF Keeps, Continues, Lapses
<1>9. agent'.engine.layout = agent.engine.layout /\ agent'.work = agent.work
  BY <1>5, <1>6, <1>7, <1>8
<1>. QED  BY <1>2, <1>3, <1>9, AgreedKept

LEMMA SyncLayoutSets ==
    ASSUME NEW a \in AgentType, NEW l \in Engine!Layout
    PROVE  SyncLayout(a, l).engine.layout = IF l = a.synced THEN a.engine.layout ELSE l
<1>0. l # NoLayout
  BY SurfaceAssumption DEF Engine!Layout
<1>1. CASE l = a.synced
  <2>1. [a EXCEPT !.ready = TRUE].engine = a.engine
    BY SMT DEF AgentType
  <2>. QED  BY <1>0, <1>1, <2>1 DEF SyncLayout
<1>2. CASE l # a.synced
  <2>. DEFINE en == Engine!ResetLayout(a.engine, l)
  <2>1. en.layout = l
    BY EngineKeepsLayout DEF AgentType, Healthy
  <2>2. SyncLayout(a, l) = [a EXCEPT !.ready = TRUE, !.synced = l, !.engine = en]
    BY <1>0, <1>2 DEF SyncLayout
  <2>. HIDE DEF en
  <2>3. [a EXCEPT !.ready = TRUE, !.synced = l, !.engine = en].engine = en
    BY SMT DEF AgentType
  <2>. QED  BY <1>2, <2>1, <2>2, <2>3
<1>. QED  BY <1>1, <1>2

LEMMA DeliverFollows ==
    ASSUME AgentInv, LayoutsFollow, Deliver
    PROVE  LayoutsFollow'
<1>1. /\ Good(agent) /\ agent \in AgentType /\ field \in Field
      /\ os_layout \in Engine!Layout \cup {NoLayout}
  BY DEF AgentInv, Good, Surroundings
<1>2. CASE DeliverFocusNotice
  <2>. DEFINE i == InvalidateContext(agent)
  <2>1. Agreed /\ agent' = RequestRefresh(i) /\ os_layout' = os_layout
    BY <1>2 DEF DeliverFocusNotice, LayoutsFollow, Deciding, Informing
  <2>2. i \in AgentType /\ i.engine.layout = agent.engine.layout /\ i.work = agent.work
    BY <1>1, InvalidateContextObeys, LayoutKept DEF Continues, Lapses
  <2>. HIDE DEF i
  <2>3. agent'.engine = i.engine /\ agent'.work = i.work
    BY <2>1, <2>2, RequestRefreshKeeps, EngineUntouched DEF Keeps, Continues, Lapses
  <2>. QED  BY <2>1, <2>2, <2>3, AgreedKept
<1>3. CASE DeliverAppNotice
  <2>. DEFINE m == ResetManualSwitch(agent)
              u == [m EXCEPT !.snapshot = "unknown", !.focus = NoFocus]
              r == CancelReplacement(u, TRUE)
              forgotten == CancelSelection(r)
              t == TeardownObserver(forgotten)
              e == EngineReset(t)
              f == [e EXCEPT !.frontmost = AppOf(field)]
              based == InstallBase(f)
  <2>1. Agreed /\ os_layout' = os_layout
    BY <1>3 DEF DeliverAppNotice, LayoutsFollow, Deciding, Informing
  <2>2. PICK attachable \in ObserverOutcomes :
           agent' = RequestRefresh(ConfigureObserver(based, attachable))
    BY <1>3 DEF DeliverAppNotice
  <2>3. m \in AgentType /\ m.engine = agent.engine /\ m.work = agent.work
    BY <1>1, CancelManualSwitchKeeps, EngineUntouched DEF Keeps, Continues, Lapses
  <2>. HIDE DEF m
  <2>4. u \in AgentType /\ u.work = m.work
    BY <2>3, ForgetContinues DEF Continues, Lapses
  <2>5. u.engine = m.engine
    BY <2>3, SMT DEF AgentType
  <2>. HIDE DEF u
  <2>6. r \in AgentType /\ r.engine = u.engine /\ r.work = u.work
    BY <2>4, CancelReplacementKeeps, EngineUntouched DEF Keeps, Continues, Lapses
  <2>. HIDE DEF r
  <2>7. forgotten \in AgentType /\ forgotten.engine = r.engine /\ forgotten.work = r.work
    BY <2>6, CancelSelectionKeeps, EngineUntouched DEF Keeps, Continues, Lapses
  <2>. HIDE DEF forgotten
  <2>8. t \in AgentType /\ t.engine = forgotten.engine /\ t.work = forgotten.work
    BY <2>7, TeardownObserverKeeps, EngineUntouched DEF Keeps, Continues, Lapses
  <2>. HIDE DEF t
  <2>9. e \in AgentType /\ e.engine.layout = t.engine.layout /\ e.work = t.work
    BY <2>8, EngineResetKeeps, LayoutKept DEF Keeps, Continues, Lapses
  <2>. HIDE DEF e
  <2>10. f \in AgentType /\ f.work = e.work
    <3>1. AppOf(field) \in Apps
      BY <1>1 DEF Apps
    <3>. QED  BY <2>9, <3>1, UpdateKeeps, Zenon DEF Keeps, Continues, Lapses
  <2>11. f.engine = e.engine
    BY <2>9, SMT DEF AgentType
  <2>. HIDE DEF f
  <2>12. /\ based \in AgentType /\ based.engine.layout = f.engine.layout
         /\ based.work = f.work
    BY <2>10, InstallBaseObeys, LayoutKept DEF Continues, Lapses
  <2>. HIDE DEF based
  <2>. DEFINE c == ConfigureObserver(based, attachable)
  <2>13. attachable \in BOOLEAN
    BY SurfaceAssumption
  <2>14. c \in AgentType /\ c.engine = based.engine /\ c.work = based.work
    BY <2>12, <2>13, ConfigureObserverKeeps, EngineUntouched DEF Keeps, Continues, Lapses
  <2>15. agent' = RequestRefresh(c)
    BY <2>2
  <2>. HIDE DEF c
  <2>16. agent'.engine = c.engine /\ agent'.work = c.work
    BY <2>14, <2>15, RequestRefreshKeeps, EngineUntouched DEF Keeps, Continues, Lapses
  <2>17. agent'.engine.layout = agent.engine.layout
    BY <2>3, <2>5, <2>6, <2>7, <2>8, <2>9, <2>11, <2>12, <2>14, <2>16
  <2>18. agent'.work = agent.work
    BY <2>3, <2>4, <2>6, <2>7, <2>8, <2>9, <2>10, <2>12, <2>14, <2>16
  <2>. QED  BY <2>1, <2>17, <2>18, AgreedKept
<1>4. CASE DeliverSourceNotice
  <2>1. Agreed \/ Informing
    BY <1>4 DEF DeliverSourceNotice, LayoutsFollow, Deciding
  <2>2. agent' = SyncLayout(agent, os_layout) /\ os_layout' = os_layout
    BY <1>4 DEF DeliverSourceNotice
  <2>3. agent'.work = agent.work
    BY <1>1, <2>2, SyncLayoutKnows DEF Lapses
  <2>4. OnlyInstalls'
    <3>1. OnlyInstalls
      BY <2>1 DEF Agreed, Informing, OnlyInstalls
    <3>. QED  BY <2>3, <3>1 DEF OnlyInstalls
  <2>5. CASE os_layout = NoLayout
    BY <2>2, <2>4, <2>5 DEF LayoutsFollow, Agreed
  <2>6. CASE os_layout \in Engine!Layout
    <3>1. agent'.engine.layout = IF os_layout = agent.synced THEN agent.engine.layout
                                                             ELSE os_layout
      BY <1>1, <2>2, <2>6, SyncLayoutSets
    <3>2. os_layout = agent.synced => agent.engine.layout = os_layout
      BY <2>1, <2>6, SurfaceAssumption DEF Agreed, Informing, Engine!Layout
    <3>. QED  BY <2>2, <2>4, <3>1, <3>2 DEF LayoutsFollow, Agreed
  <2>. QED  BY <1>1, <2>5, <2>6
<1>. QED  BY <1>2, <1>3, <1>4 DEF Deliver

LEMMA RefreshFollows ==
    ASSUME AgentInv, LayoutsFollow, StartRefresh \/ FinishRefresh
    PROVE  LayoutsFollow'
<1>1. /\ agent \in AgentType /\ Surroundings /\ os_layout' = os_layout
  BY DEF AgentInv, Good, StartRefresh, FinishRefresh
<1>2. Agreed
  BY DEF LayoutsFollow, Deciding, Informing, Idle, StartRefresh, FinishRefresh
<1>3. CASE StartRefresh
  <2>1. agent' = [agent EXCEPT !.refresh = NoRefresh]
    BY <1>3 DEF StartRefresh
  <2>2. agent'.engine = agent.engine /\ agent'.work = agent.work
    BY <1>1, <2>1, SMT DEF AgentType
  <2>. QED  BY <1>1, <1>2, <2>2, AgreedKept
<1>4. CASE FinishRefresh
  <2>. DEFINE w == Append(agent.work, capturing)
  <2>1. agent' = [agent EXCEPT !.work = w] /\ capturing.kind = "install"
    BY <1>1, <1>4 DEF FinishRefresh, Surroundings, InstallItem
  <2>2. /\ Len(w) = Len(agent.work) + 1 /\ Len(agent.work) \in Nat
        /\ \A i \in 1..Len(agent.work) : w[i] = agent.work[i]
        /\ w[Len(agent.work) + 1] = capturing
    BY <1>1, WorkTyped
  <2>. HIDE DEF w
  <2>3. agent'.engine = agent.engine /\ agent'.work = w
    BY <1>1, <2>1, SMT DEF AgentType
  <2>4. \A i \in 1..Len(w) : w[i].kind = "install"
    BY <1>2, <2>1, <2>2 DEF Agreed, OnlyInstalls
  <2>. QED  BY <1>1, <1>2, <2>3, <2>4 DEF LayoutsFollow, Agreed, OnlyInstalls
<1>. QED  BY <1>3, <1>4

LEMMA RestOfWork ==
    ASSUME AgentInv, agent.work # <<>>
    PROVE  /\ Rest \in AgentType /\ Rest.engine = agent.engine
           /\ Rest.work = Tail(agent.work)
           /\ Rest.snapshot = agent.snapshot /\ Rest.focus = agent.focus
           /\ Rest.refresh = agent.refresh /\ Rest.text_pending = agent.text_pending
           /\ Rest.replacement_generation = agent.replacement_generation
           /\ Rest.text_generation = agent.text_generation
           /\ Rest.selection_generation = agent.selection_generation
           /\ agent.work \in Seq(Item) /\ Head(agent.work) = agent.work[1]
           /\ Len(Rest.work) = Len(agent.work) - 1
<1>. DEFINE w == Tail(agent.work)
<1>1. agent \in AgentType /\ Rest \in AgentType
  BY RestGood DEF AgentInv, Good
<1>2. /\ agent.work \in Seq(Item) /\ Head(agent.work) = agent.work[1]
      /\ Len(w) = Len(agent.work) - 1
  BY <1>1, WorkTyped
<1>3. Rest = [agent EXCEPT !.work = w]
  BY DEF Rest
<1>. HIDE DEF w
<1>4. /\ Rest.engine = agent.engine /\ Rest.work = w
      /\ Rest.snapshot = agent.snapshot /\ Rest.focus = agent.focus
      /\ Rest.refresh = agent.refresh /\ Rest.text_pending = agent.text_pending
      /\ Rest.replacement_generation = agent.replacement_generation
      /\ Rest.text_generation = agent.text_generation
      /\ Rest.selection_generation = agent.selection_generation
  BY <1>1, <1>3, SMT DEF AgentType
<1>. QED  BY <1>1, <1>2, <1>4 DEF w

LEMMA InstallFollows ==
    ASSUME AgentInv, LayoutsFollow, RunInstall
    PROVE  LayoutsFollow'
<1>. DEFINE item == Head(agent.work)
<1>1. /\ Rest \in AgentType /\ Rest.engine = agent.engine /\ item = agent.work[1]
      /\ Rest.work = Tail(agent.work) /\ agent.work \in Seq(Item)
      /\ item \in Item /\ item.kind = "install" /\ agent.work # <<>>
  BY RestOfWork, WorkTyped DEF RunInstall, AgentInv, Good
<1>2. /\ item.policy \in Policy /\ item.app \in Apps
      /\ item.field \in Field \cup {NoField}
  <2>1. item \in InstallItem
    BY <1>1, ItemKinds
  <2>. QED  BY <2>1 DEF InstallItem
<1>3. /\ agent' \in {Rest, InstallContext(Rest, item.policy, item.app, item.field),
                     Degrade(Rest, item)}
      /\ os_layout' = os_layout
  BY Zenon DEF RunInstall
<1>4. Agreed
  BY <1>1 DEF LayoutsFollow, Deciding, Informing
<1>5. \A i \in 1..Len(Tail(agent.work)) : Tail(agent.work)[i].kind = "install"
  BY <1>1, <1>4 DEF Agreed, OnlyInstalls
<1>. HIDE DEF item
<1>6. LET i == InstallContext(Rest, item.policy, item.app, item.field) IN
      i.engine.layout = Rest.engine.layout /\ i.work = Rest.work
  BY <1>1, <1>2, LayoutKept, InstallContextObeys DEF Continues, Lapses
<1>7. /\ Degrade(Rest, item).engine.layout = Rest.engine.layout
      /\ Degrade(Rest, item).work = Rest.work
  <2>. DEFINE d == [Rest EXCEPT !.degraded_app = item.app]
              t == TeardownObserver(d)
              b == InstallBase(t)
              n == IF Disabled(b.snapshot) THEN NoTimer ELSE b.accessibility_generation
  <2>1. Degrade(Rest, item) = [b EXCEPT !.recovery = n]
    BY Zenon DEF Degrade
  <2>2. d \in AgentType /\ d.work = Rest.work
    <3>1. Keeps(d, Rest)
      BY <1>1, <1>2, UpdateKeeps, Zenon
    <3>. QED  BY <3>1 DEF Keeps, Continues, Lapses
  <2>3. d.engine = Rest.engine
    BY <1>1, SMT DEF AgentType
  <2>. HIDE DEF d
  <2>4. t \in AgentType /\ t.work = d.work /\ t.engine = d.engine
    BY <2>2, TeardownObserverKeeps, EngineUntouched DEF Keeps, Continues, Lapses
  <2>. HIDE DEF t
  <2>5. b \in AgentType /\ b.work = t.work /\ b.engine.layout = t.engine.layout
    BY <2>4, InstallBaseObeys, LayoutKept DEF Continues, Lapses
  <2>. HIDE DEF b, n
  <2>6. [b EXCEPT !.recovery = n].engine = b.engine /\ [b EXCEPT !.recovery = n].work = b.work
    BY <2>5, SMT DEF AgentType
  <2>. QED  BY <2>1, <2>2, <2>3, <2>4, <2>5, <2>6
<1>8. agent'.engine.layout = agent.engine.layout /\ agent'.work = Tail(agent.work)
  BY <1>1, <1>3, <1>6, <1>7
<1>. QED  BY <1>3, <1>4, <1>5, <1>8 DEF LayoutsFollow, Agreed, OnlyInstalls

\* Both outcomes of the selection the engine decided on leave the two agreed.
LEMMA SelectionAgrees ==
    ASSUME NEW a \in AgentType, a.work = <<>>, NEW l \in Engine!Layout,
           a.engine.layout = l, os_layout \in Engine!Layout \cup {NoLayout},
           SelectFutureLayout(a, l)
    PROVE  LayoutsFollow'
<1>1. ASSUME os_layout' = l, agent' = [a EXCEPT !.synced = l, !.ready = TRUE]
      PROVE  LayoutsFollow'
  <2>1. agent'.engine = a.engine /\ agent'.work = a.work
    BY <1>1, SMT DEF AgentType
  <2>. QED  BY <1>1, <2>1 DEF LayoutsFollow, Agreed, OnlyInstalls
<1>2. ASSUME agent' = SelectionFailed(a), os_layout' = os_layout
      PROVE  LayoutsFollow'
  <2>. DEFINE b == [a EXCEPT !.synced = NoLayout]
              c == SyncLayout(b, os_layout)
              d == CancelReplacement(c, TRUE)
  <2>1. b \in AgentType
    BY Zenon DEF AgentType
  <2>2. b.work = a.work /\ b.synced = NoLayout
    BY SMT DEF AgentType
  <2>3. agent' = d
    BY <1>2 DEF SelectionFailed
  <2>. HIDE DEF b
  <2>4. c \in AgentType /\ c.work = b.work
    BY <2>1, SyncLayoutKnows DEF Lapses
  <2>5. os_layout # NoLayout => c.engine.layout = os_layout
    BY <2>1, <2>2, SyncLayoutSets
  <2>. HIDE DEF c
  <2>6. d.work = c.work /\ d.engine = c.engine
    BY <2>4, CancelReplacementKeeps, EngineUntouched DEF Keeps, Continues, Lapses
  <2>. HIDE DEF d
  <2>7. agent'.work = <<>> /\ (os_layout # NoLayout => agent'.engine.layout = os_layout)
    BY <2>2, <2>3, <2>4, <2>5, <2>6
  <2>. QED  BY <1>2, <2>7 DEF LayoutsFollow, Agreed, OnlyInstalls
<1>. QED  BY <1>1, <1>2 DEF SelectFutureLayout

LEMMA SelectionFollows ==
    ASSUME AgentInv, LayoutsFollow, RunSelection
    PROVE  LayoutsFollow'
<1>. DEFINE item == Head(agent.work)
            own  == item.generation = agent.selection_generation
            p    == Rest.selection_pending /\ ~own
            a    == [Rest EXCEPT !.selection_pending = p]
<1>1. /\ Rest \in AgentType /\ Rest.engine = agent.engine /\ item = agent.work[1]
      /\ agent.work \in Seq(Item) /\ item.kind = "select" /\ agent.work # <<>>
      /\ Len(Rest.work) = Len(agent.work) - 1
      /\ Rest.snapshot = agent.snapshot /\ Rest.focus = agent.focus
      /\ Rest.refresh = agent.refresh
      /\ Rest.replacement_generation = agent.replacement_generation
  BY RestOfWork DEF RunSelection
<1>2. Deciding
  BY <1>1 DEF LayoutsFollow, Agreed, OnlyInstalls, Informing
<1>3. /\ item.layout = agent.engine.layout
      /\ item.replacement = agent.replacement_generation
      /\ SelectionIsCurrent(item)
      /\ item.plan # NoPlan => FocusIsStillValid(agent, item.plan.focus)
      /\ Idle /\ notices = {} /\ Len(agent.work) = 1
  BY <1>1, <1>2 DEF Deciding
<1>4. item \in SelectItem /\ item.layout \in Engine!Layout
  <2>1. item \in Item
    BY <1>1, WorkTyped DEF AgentInv, Good
  <2>. QED  BY <1>1, <2>1, ItemKinds DEF SelectItem
<1>5. os_layout \in Engine!Layout \cup {NoLayout} /\ capturing' = capturing
  BY DEF AgentInv, Surroundings, RunSelection
<1>6. \/ /\ item.plan # NoPlan
         /\ agent' = IF FocusIsStillValid(a, item.plan.focus)
                     THEN ReplaceLastToken(a, item)
                     ELSE CancelReplacement(a, TRUE)
         /\ UNCHANGED <<notices, os_layout>>
      \/ SelectFutureLayout(a, item.layout)
  BY <1>3, Zenon DEF RunSelection
<1>7. Rest.work = <<>>
  <2>1. Rest.work \in Seq(Item)
    BY <1>1, WorkTyped
  <2>. QED  BY <1>1, <1>3, <2>1
<1>8. p \in BOOLEAN
  BY Zenon
<1>. HIDE DEF item, p
<1>9. a \in AgentType
  BY <1>1, <1>8, Zenon DEF AgentType
<1>10. /\ a.engine = Rest.engine /\ a.work = Rest.work
       /\ a.snapshot = Rest.snapshot /\ a.focus = Rest.focus
       /\ a.refresh = Rest.refresh
       /\ a.replacement_generation = Rest.replacement_generation
  BY <1>1, SMT DEF AgentType
<1>. HIDE DEF a
<1>11. CASE SelectFutureLayout(a, item.layout)
  BY <1>1, <1>3, <1>4, <1>5, <1>7, <1>9, <1>10, <1>11, SelectionAgrees
<1>12. ASSUME item.plan # NoPlan,
              agent' = IF FocusIsStillValid(a, item.plan.focus)
                       THEN ReplaceLastToken(a, item)
                       ELSE CancelReplacement(a, TRUE),
              UNCHANGED <<notices, os_layout>>
       PROVE  LayoutsFollow'
  <2>. DEFINE c    == CancelText(a)
              n    == c.text_generation + 1
              next == [item EXCEPT !.kind = "replace", !.generation = n]
              w    == Append(c.work, next)
              b    == [c EXCEPT !.text_generation = n, !.text_pending = TRUE, !.work = w]
  <2>1. agent' = ReplaceLastToken(a, item)
    BY <1>1, <1>3, <1>10, <1>12 DEF FocusIsStillValid
  <2>2. agent' = b
    BY <2>1 DEF ReplaceLastToken
  <2>3. /\ c \in AgentType /\ c.work = a.work /\ c.engine = a.engine
        /\ c.snapshot = a.snapshot /\ c.focus = a.focus /\ c.refresh = a.refresh
    BY <1>9, CancelTextKeeps, EngineUntouched DEF Keeps, Continues, Lapses, SamePolicy
  <2>4. c.replacement_generation = a.replacement_generation
    <3>1. [a EXCEPT !.text_generation = @ + 1, !.text_pending = FALSE].replacement_generation
              = a.replacement_generation
      BY <1>9, SMT DEF AgentType
    <3>. QED  BY <3>1, Zenon DEF CancelText
  <2>. HIDE DEF c, n
  <2>5. /\ next.kind = "replace" /\ next.generation = n /\ next.plan = item.plan
        /\ next.layout = item.layout /\ next.replacement = item.replacement
    BY <1>4, SMT DEF SelectItem
  <2>6. c.work = <<>>
    BY <1>7, <1>10, <2>3
  <2>. HIDE DEF next
  <2>7. Len(w) = 1 /\ w[1] = next
    BY <2>6
  <2>. HIDE DEF w
  <2>8. /\ b.work = w /\ b.engine = c.engine /\ b.text_generation = n
        /\ b.snapshot = c.snapshot /\ b.focus = c.focus /\ b.refresh = c.refresh
        /\ b.replacement_generation = c.replacement_generation
    BY <2>3, SMT DEF AgentType
  <2>. HIDE DEF b
  <2>9. /\ Len(agent'.work) = 1 /\ agent'.work[1] = next
        /\ agent'.engine = agent.engine /\ agent'.refresh = agent.refresh
        /\ agent'.replacement_generation = agent.replacement_generation
        /\ agent'.text_generation = n
        /\ agent'.snapshot = agent.snapshot /\ agent'.focus = agent.focus
    BY <1>1, <1>10, <2>2, <2>3, <2>4, <2>7, <2>8
  <2>10. Idle' /\ notices' = {}
    BY <1>3, <1>5, <1>12, <2>9 DEF Idle
  <2>11. FocusIsStillValid(agent, next.plan.focus)
    BY <1>3, <1>12, <2>5
  <2>. QED  BY <1>3, <2>5, <2>9, <2>10, <2>11
            DEF LayoutsFollow, Deciding, ReplacementIsCurrent, FocusIsStillValid
<1>. QED  BY <1>6, <1>11, <1>12

LEMMA ReplacementFollows ==
    ASSUME AgentInv, LayoutsFollow, RunReplacement
    PROVE  LayoutsFollow'
<1>. DEFINE item == Head(agent.work)
            done == [Rest EXCEPT !.text_pending = FALSE]
            t    == IF item.manual
                    THEN [count |-> item.plan.count, focus |-> item.plan.focus]
                    ELSE NoToggle
            next == [done EXCEPT !.toggle = t]
<1>1. /\ Rest \in AgentType /\ Rest.engine = agent.engine /\ item = agent.work[1]
      /\ agent.work \in Seq(Item) /\ item.kind = "replace" /\ agent.work # <<>>
      /\ Len(Rest.work) = Len(agent.work) - 1
  BY RestOfWork DEF RunReplacement
<1>2. Deciding
  BY <1>1 DEF LayoutsFollow, Agreed, OnlyInstalls, Informing
<1>3. /\ item.layout = agent.engine.layout
      /\ item.replacement = agent.replacement_generation
      /\ ReplacementIsCurrent(item) /\ Len(agent.work) = 1
  BY <1>1, <1>2 DEF Deciding
<1>4. item \in ReplaceItem /\ item.layout \in Engine!Layout /\ item.plan \in PlanType
  <2>1. item \in Item
    BY <1>1, WorkTyped DEF AgentInv, Good
  <2>. QED  BY <1>1, <2>1, ItemKinds DEF ReplaceItem
<1>5. os_layout \in Engine!Layout \cup {NoLayout}
  BY DEF AgentInv, Surroundings
<1>6. SelectFutureLayout(next, item.layout)
  BY <1>3, Zenon DEF RunReplacement
<1>7. Rest.work = <<>>
  <2>1. Rest.work \in Seq(Item)
    BY <1>1, WorkTyped
  <2>. QED  BY <1>1, <1>3, <2>1
<1>8. t \in PlanType \cup {NoToggle}
  BY <1>4 DEF PlanType
<1>9. done \in AgentType
  BY <1>1, Zenon DEF AgentType
<1>10. done.engine = Rest.engine /\ done.work = Rest.work
  BY <1>1, SMT DEF AgentType
<1>. HIDE DEF item, t, done
<1>11. next \in AgentType
  BY <1>8, <1>9, Zenon DEF AgentType
<1>12. next.engine = done.engine /\ next.work = done.work
  BY <1>9, SMT DEF AgentType
<1>. HIDE DEF next
<1>. QED  BY <1>1, <1>3, <1>4, <1>5, <1>6, <1>7, <1>10, <1>11, <1>12, SelectionAgrees

LEMMA LayoutsFollowStep ==
    ASSUME AgentInv, Undisturbed, LayoutsFollow, [Next]_vars
    PROVE  LayoutsFollow'
<1>1. ASSUME NEW key \in Key, ProcessKey(key) PROVE LayoutsFollow'
  BY <1>1, KeysFollow
<1>2. ASSUME NEW chord \in BOOLEAN, OptionUp(chord) PROVE LayoutsFollow'
  BY <1>2, OptionUpFollows
<1>3. CASE \/ OtherModifierChanges
           \/ \E chord \in BOOLEAN : OptionDown(chord)
           \/ \E f \in Field : MouseDown(f) \/ FocusMoves(f) \/ AppActivates(f)
  BY <1>3, UserFollows
<1>4. ASSUME NEW l \in Engine!Layout \cup {NoLayout}, InputSourceChanges(l)
      PROVE  LayoutsFollow'
  BY <1>4, InputSourceChangesFollows
<1>5. CASE Deliver
  BY <1>5, DeliverFollows
<1>6. CASE StartRefresh \/ FinishRefresh
  BY <1>6, RefreshFollows
<1>7. CASE RunWork
  BY <1>7, SelectionFollows, ReplacementFollows, InstallFollows DEF RunWork
<1>8. CASE BackoffExpires
  BY <1>8, BackoffFollows
<1>9. CASE UNCHANGED vars
  BY <1>9 DEF vars, LayoutsFollow, Agreed, OnlyInstalls, Deciding, Informing, Idle,
              SelectionIsCurrent, ReplacementIsCurrent, FocusIsStillValid
<1>. QED  BY <1>1, <1>2, <1>3, <1>4, <1>5, <1>6, <1>7, <1>8, <1>9 DEF Next, InSameApp

LEMMA LayoutsFollowInit == Init => LayoutsFollow
<1>. SUFFICES ASSUME Init PROVE LayoutsFollow
  OBVIOUS
<1>. DEFINE b == InstallBase(Start)
<1>1. PICK attachable \in ObserverOutcomes :
         agent = RequestRefresh(ConfigureObserver(b, attachable))
  BY DEF Init
<1>2. attachable \in BOOLEAN /\ os_layout = "English"
  BY SurfaceAssumption DEF Init
<1>3. Start \in AgentType /\ Start.work = <<>> /\ Start.engine.layout = "English"
  BY StartTyped DEF Start, Engine!NewEngine
<1>4. b \in AgentType /\ b.engine.layout = "English" /\ b.work = <<>>
  BY <1>3, InstallBaseObeys, LayoutKept DEF Continues, Lapses
<1>. HIDE DEF b
<1>. DEFINE c == ConfigureObserver(b, attachable)
<1>5. c \in AgentType /\ c.engine = b.engine /\ c.work = b.work
  BY <1>2, <1>4, ConfigureObserverKeeps, EngineUntouched DEF Keeps, Continues, Lapses
<1>6. agent = RequestRefresh(c)
  BY <1>1
<1>. HIDE DEF c
<1>7. agent.engine = c.engine /\ agent.work = c.work
  BY <1>5, <1>6, RequestRefreshKeeps, EngineUntouched DEF Keeps, Continues, Lapses
<1>. QED  BY <1>2, <1>4, <1>5, <1>7 DEF LayoutsFollow, Agreed, OnlyInstalls

\* As long as the user waits for the agent between events, the engine infers
\* from the layout that is selected whenever nothing is left to do: every
\* decision (applyObservation) reaches selectFutureLayout, a failed selection
\* is taken back (syncCurrentInputSource), and a change from outside is heard
\* of (handleInputSourceChangedNotification).
THEOREM LayoutsAlwaysAgree ==
    ASSUME Undisturbed
    PROVE  Spec => []LayoutsAgree
<1>1. AgentInv /\ LayoutsFollow /\ [Next]_vars => LayoutsFollow'
  BY LayoutsFollowStep
<1>2. LayoutsFollow => LayoutsAgree
  BY SettledAgrees DEF LayoutsAgree, Agreed
<1>. QED  BY <1>1, <1>2, LayoutsFollowInit, AgentInvariance, PTL DEF Spec

=============================================================================
