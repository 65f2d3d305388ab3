------------------------ MODULE SynchronousHostProofs -----------------------
(***************************************************************************)
(* The C ABI and a host that uses it, for every keyboard, every two languages,*)
(* every scoring and every configuration.  A pending replacement is always that*)
(* of the last call, and the engine behind the ABI implements TokenContract; a*)
(* host that carries out each switch before the next key has the active token*)
(* right before the caret, and deletes exactly that.                       *)
(***************************************************************************)
EXTENDS SynchronousHost, TypeClawEngineProofs

-----------------------------------------------------------------------------
(* The steps of the ABI                                                     *)

\* What an event that cannot be decoded does: the engine does not see it.
Undecoded ==
    /\ output' = NoOutput
    /\ UNCHANGED <<tokenVars, score_cache, layout, token_start_layout,
                   bypass_until_boundary, host_context>>

\* Nothing is pending after a call that returns no switch.
LEMMA NoSwitchNothingPending ==
    ASSUME pending' = PendingAfterObserve,
           \/ \E d \in {"Keep", "Bypass"} : Discard(d)
           \/ Ignore("Bypass")
           \/ LetterOverLimit
    PROVE  pending' = NoReplacement
<1>1. output'.action \in {NoAction, ResetTokenAction}
  BY DEF Discard, Ignore, LetterOverLimit, Observed, ResetAction
<1>2. output'.action.tag # "SwitchFutureLayout"
  BY <1>1 DEF NoAction, ResetTokenAction
<1> QED
  BY <1>2 DEF PendingAfterObserve

\* Every call of the ABI, as the cases the proofs go through.
LEMMA FfiStepCases ==
    ASSUME FfiNext
    PROVE  \/ /\ pending' = NoReplacement
              /\ \/ \E d \in {"Keep", "Bypass"} : Discard(d)
                 \/ Ignore("Bypass")
                 \/ LetterOverLimit
                 \/ \E l \in Layout : ResetLayout(l)
                 \/ ResetLayout(layout)
                 \/ \E c \in HostContext : SetHostContext(c)
                 \/ UNCHANGED vars
                 \/ Undecoded
           \/ /\ pending' = PendingAfterObserve
              /\ ~BypassesEngine(host_context)
              /\ \/ \E e \in LetterEvent : LetterAppended(e)
                 \/ BackspaceShortens
           \/ /\ pending' = PendingAfterForce
              /\ ~BypassesEngine(host_context)
              /\ ForceSwitchLayout
<1>1. ASSUME NEW ev \in TcEvent, NEW e \in LetterEvent, TypeclawObserve(ev, e),
             ~(Undecoded /\ pending' = NoReplacement)
      PROVE  /\ pending' = PendingAfterObserve
             /\ \/ \E d \in {"Keep", "Bypass"} : Discard(d)
                \/ Ignore("Bypass")
                \/ LetterOverLimit
                \/ ~BypassesEngine(host_context) /\ LetterAppended(e)
                \/ ~BypassesEngine(host_context) /\ BackspaceShortens
  <2>1. /\ pending' = PendingAfterObserve
        /\ ObserveHostBypass \/ ObserveLetter(e) \/ ObserveBoundary \/ ObserveBackspace
    BY <1>1, Zenon DEF TypeclawObserve, Undecoded
  <2>2. CASE ObserveHostBypass \/ ObserveBoundary
    BY <2>1, <2>2 DEF ObserveBoundary, ObserveHostBypass, ObserveBypassed
  <2>3. CASE ObserveLetter(e)
    BY <2>1, <2>3 DEF ObserveLetter, ObserveBypassed, StepLetter, LetterWhileBypassing
  <2>4. CASE ObserveBackspace
    BY <2>1, <2>4 DEF ObserveBackspace, ObserveBypassed, StepBackspace,
                      BackspaceIgnored, BackspaceToEmpty
  <2> QED
    BY <2>1, <2>2, <2>3, <2>4
<1>2. CASE \E ev \in TcEvent, e \in LetterEvent : TypeclawObserve(ev, e)
  BY <1>1, <1>2, NoSwitchNothingPending
<1>3. CASE TypeclawForceSwitchLayout
  <2>1. CASE BypassesEngine(host_context)
    <3>1. Discard("Bypass") /\ pending' = PendingAfterForce
      BY <1>3, <2>1, Zenon DEF TypeclawForceSwitchLayout, ForceSwitchLayout
    <3>2. output'.action \in {NoAction, ResetTokenAction}
      BY <3>1 DEF Discard, Observed, ResetAction
    <3>3. output'.action.tag # "SwitchFutureLayout"
      BY <3>2 DEF NoAction, ResetTokenAction
    <3> QED
      BY <3>1, <3>3 DEF PendingAfterForce
  <2>2. CASE ~BypassesEngine(host_context)
    BY <1>3, <2>2 DEF TypeclawForceSwitchLayout
  <2> QED
    BY <2>1, <2>2
<1>4. CASE TypeclawResetToken
  BY <1>4 DEF TypeclawResetToken, ResetToken
<1>5. CASE \E l \in Layout : TypeclawResetLayout(l)
  BY <1>5 DEF TypeclawResetLayout
<1>6. CASE \E c \in HostContext : TypeclawSetHostContext(c)
  BY <1>6 DEF TypeclawSetHostContext
<1>7. CASE TypeclawTakePendingReplacement
  BY <1>7 DEF TypeclawTakePendingReplacement
<1> QED
  BY <1>2, <1>3, <1>4, <1>5, <1>6, <1>7 DEF FfiNext

-----------------------------------------------------------------------------
(* The engine's invariant, whatever the ABI calls                           *)

\* IInv with the calls of the ABI: a call that is undecodable, or takes the
\* replacement, leaves the token alone.
LEMMA FfiKeepsEngineInv ==
    ASSUME IInv, [FfiNext]_ffiVars
    PROVE  IInv'
<1>1. CASE UNCHANGED vars
  BY <1>1, InvStep
<1>2. CASE Undecoded
  <2>1. NoOutput \in [action : ObservationAction, decision : Decision,
                      returned : BOOLEAN]
    BY DEF NoOutput, ObservationAction, Decision
  <2>2. TypeOK'
    BY <1>2, <2>1 DEF Undecoded, tokenVars, IInv, TypeOK
  <2> QED
    BY <1>2, <2>2 DEF Undecoded, tokenVars, IInv, CopiesAgree, Shape, BypassesEngine,
                      SwitchingDisabledKeepsLayout, SwitchIsEarned
<1>3. CASE Next
  BY <1>3, InvStep
<1>4. CASE ~Next /\ ~Undecoded /\ FfiNext
  <2>1. TypeclawTakePendingReplacement
    BY <1>4 DEF FfiNext, Next, TypeclawObserve, TypeclawForceSwitchLayout,
                TypeclawResetToken, ResetToken, TypeclawResetLayout,
                TypeclawSetHostContext, Undecoded, IInv, TypeOK
  <2> QED
    BY <1>1, <2>1 DEF TypeclawTakePendingReplacement
<1> QED
  BY <1>1, <1>2, <1>3, <1>4 DEF ffiVars

-----------------------------------------------------------------------------
(* The pending replacement                                                  *)

\* What is pending is the snapshot of a switch that the context allows.
PendingInv ==
    /\ pending \in PendingReplacement \cup {NoReplacement}
    /\ PendingIsTheLastSwitch
    /\ pending # NoReplacement => ~BypassesEngine(host_context)

FfiInv == IInv /\ PendingInv

\* A snapshot of a token and its renderings.
LEMMA CaptureIsTheToken ==
    ASSUME NEW t \in Seq(LetterEvent), Len(t) <= MaxTokenLen, NEW l \in Layout
    PROVE  LET r == CaptureReplacement(l, t, Rendered(t))
           IN  /\ t = <<>> => r = NoReplacement
               /\ t # <<>> => /\ r \in PendingReplacement
                              /\ r # NoReplacement
                              /\ r.delete_count = Len(t)
                              /\ r.text = Rendered(t)[l]
                              /\ r.inverse_text = Rendered(t)[Opposite(l)]
                              /\ Len(r.text) = Len(t)
                              /\ Len(r.inverse_text) = Len(t)
<1>1. CASE t = <<>>
  BY <1>1 DEF CaptureReplacement
<1>2. CASE t # <<>>
  <2> DEFINE cs == Rendered(t)
             r == [delete_count |-> Len(t), text |-> cs[l],
                   inverse_text |-> cs[Opposite(l)]]
  <2>1. Len(t) \in 1..MaxTokenLen
    BY <1>2, LenProperties, EmptySeq, ConfigAssumption
  <2>2. Opposite(l) \in Layout
    BY DEF Opposite, Layout
  <2>3. /\ cs[l] \in Seq(Char) /\ Len(cs[l]) = Len(t)
        /\ cs[Opposite(l)] \in Seq(Char) /\ Len(cs[Opposite(l)]) = Len(t)
    BY <2>2, RenderedType
  <2>4. cs[l] # <<>>
    BY <2>1, <2>3
  <2> HIDE DEF cs
  <2>5. CaptureReplacement(l, t, cs) = r
    BY <1>2, <2>4 DEF CaptureReplacement
  <2>6. r \in PendingReplacement /\ r # NoReplacement
    BY <2>1, <2>3, ReplacementAssumption DEF PendingReplacement
  <2>7. r.delete_count = Len(t) /\ r.text = cs[l] /\ r.inverse_text = cs[Opposite(l)]
    OBVIOUS
  <2> HIDE DEF r
  <2> QED
    BY <1>2, <2>3, <2>5, <2>6, <2>7 DEF cs
<1> QED
  BY <1>1, <1>2

\* An observation that switches the layout leaves the token it was decided on,
\* and what is pending is that token; one that does not leaves nothing pending.
LEMMA ObservedSwitchPends ==
    ASSUME IInv', pending' = PendingAfterObserve, token' # <<>>, output'.returned,
           output'.action = SwitchAction(layout, layout') \/ output'.action = NoAction
    PROVE  \/ pending' = NoReplacement /\ output'.action = NoAction
           \/ /\ pending' \in PendingReplacement /\ pending' # NoReplacement
              /\ layout' # layout
              /\ output'.action = SwitchFutureLayout(layout')
              /\ pending'.delete_count = Len(token')
              /\ PendingIsTheLastSwitch'
<1>1. CASE output'.action = NoAction
  BY <1>1 DEF PendingAfterObserve, NoAction
<1>2. CASE output'.action # NoAction
  <2>1. output'.action = SwitchFutureLayout(layout') /\ layout' # layout
    BY <1>2 DEF SwitchAction
  <2>2. /\ output'.action.tag = "SwitchFutureLayout"
        /\ output'.action.layout = layout'
    BY <2>1 DEF SwitchFutureLayout
  <2>3. pending' = CaptureReplacement(layout', token', Rendered(token'))
    BY <2>2 DEF PendingAfterObserve, IInv, CopiesAgree
  <2>4. token' \in Seq(LetterEvent) /\ Len(token') <= MaxTokenLen /\ layout' \in Layout
    BY DEF IInv, TypeOK
  <2>5. /\ pending' \in PendingReplacement /\ pending' # NoReplacement
        /\ pending'.delete_count = Len(token')
        /\ pending'.text = Rendered(token')[layout']
        /\ pending'.inverse_text = Rendered(token')[Opposite(layout')]
        /\ Len(pending'.text) = Len(token')
        /\ Len(pending'.inverse_text) = Len(token')
    BY <2>3, <2>4, CaptureIsTheToken
  <2>6. PendingIsTheLastSwitch'
    BY <2>1, <2>5 DEF PendingIsTheLastSwitch, Rendered
  <2> QED
    BY <2>1, <2>5, <2>6
<1> QED
  BY <1>1, <1>2

\* A letter or a backspace that leaves a token, as the ABI sees it.
LEMMA TokenStepShape ==
    ASSUME IInv, \/ \E e \in LetterEvent : LetterAppended(e)
                 \/ BackspaceShortens
    PROVE  \/ Discard("Keep")
           \/ /\ token' # <<>> /\ output'.returned /\ host_context' = host_context
              /\ output'.action = SwitchAction(layout, layout') \/ output'.action = NoAction
<1>1. ASSUME NEW e \in LetterEvent, LetterAppended(e), ~Discard("Keep")
      PROVE  /\ token' # <<>> /\ output'.returned /\ host_context' = host_context
             /\ output'.action = SwitchAction(layout, layout')
  <2>1. Append(token, e) # <<>>
    BY AppendProperties DEF IInv, TypeOK
  <2> QED
    BY <1>1, <2>1 DEF LetterAppended, Observed
<1>2. CASE BackspaceShortens
  <2>1. Shorter(token) # <<>>
    BY <1>2, ShorterProperties, LenProperties, EmptySeq DEF BackspaceShortens, IInv, TypeOK
  <2> QED
    BY <1>2, <2>1 DEF BackspaceShortens, Observed
<1> QED
  BY <1>1, <1>2

\* A forced switch leaves nothing of the token but the snapshot taken before.
LEMMA ForcedSwitchPends ==
    ASSUME IInv, ForceSwitchLayout, ~BypassesEngine(host_context),
           pending' = PendingAfterForce
    PROVE  /\ token' = <<>> /\ layout' = Opposite(layout)
           /\ token_start_layout' = Opposite(layout)
           /\ bypass_until_boundary' = FALSE /\ host_context' = host_context
           /\ output' = Observed(SwitchFutureLayout(Opposite(layout)), Opposite(layout))
           /\ \/ token = <<>> /\ pending' = NoReplacement
              \/ /\ token # <<>> /\ pending' # NoReplacement
                 /\ pending' \in PendingReplacement
                 /\ pending'.delete_count = Len(token)
                 /\ Len(pending'.text) = Len(token)
                 /\ Len(pending'.inverse_text) = Len(token)
<1>1. /\ ClearToken(Opposite(layout))
      /\ output' = Observed(SwitchFutureLayout(Opposite(layout)), Opposite(layout))
      /\ bypass_until_boundary' = FALSE /\ host_context' = host_context
  BY Zenon DEF ForceSwitchLayout
<1>2. output'.action.tag = "SwitchFutureLayout"
  BY <1>1 DEF Observed, SwitchFutureLayout
<1>3. pending' = CaptureReplacement(Opposite(layout), token, Rendered(token))
  BY <1>2 DEF PendingAfterForce, IInv, CopiesAgree
<1>4. /\ token \in Seq(LetterEvent) /\ Len(token) <= MaxTokenLen
      /\ Opposite(layout) \in Layout
  BY DEF IInv, TypeOK, Opposite, Layout
<1>5. \/ token = <<>> /\ pending' = NoReplacement
      \/ /\ token # <<>> /\ pending' # NoReplacement
         /\ pending' \in PendingReplacement
         /\ pending'.delete_count = Len(token)
         /\ Len(pending'.text) = Len(token)
         /\ Len(pending'.inverse_text) = Len(token)
  BY <1>3, <1>4, CaptureIsTheToken
<1> QED
  BY <1>1, <1>5 DEF ClearToken

\* The invariant of the engine and its pending replacement.
LEMMA FfiInvStep ==
    ASSUME FfiInv, [FfiNext]_ffiVars
    PROVE  FfiInv'
<1>1. IInv /\ IInv'
  BY FfiKeepsEngineInv DEF FfiInv
<1>2. CASE pending' = NoReplacement
  BY <1>1, <1>2 DEF FfiInv, PendingInv, PendingIsTheLastSwitch
<1>3. CASE UNCHANGED ffiVars
  BY <1>1, <1>3 DEF ffiVars, vars, FfiInv, PendingInv, PendingIsTheLastSwitch,
                    BypassesEngine, Rendered
<1>4. CASE /\ pending' = PendingAfterObserve
           /\ ~BypassesEngine(host_context)
           /\ \/ \E e \in LetterEvent : LetterAppended(e)
              \/ BackspaceShortens
  <2>1. CASE Discard("Keep")
    BY <1>2, <1>4, <2>1, NoSwitchNothingPending
  <2>2. CASE ~Discard("Keep")
    <3>1. /\ token' # <<>> /\ output'.returned /\ host_context' = host_context
          /\ output'.action = SwitchAction(layout, layout') \/ output'.action = NoAction
      BY <1>1, <1>4, <2>2, TokenStepShape
    <3>2. \/ pending' = NoReplacement
          \/ pending' \in PendingReplacement /\ PendingIsTheLastSwitch'
      BY <1>1, <1>4, <3>1, ObservedSwitchPends
    <3> QED
      BY <1>1, <1>2, <1>4, <3>1, <3>2 DEF FfiInv, PendingInv, BypassesEngine
  <2> QED
    BY <2>1, <2>2
<1>5. CASE pending' = PendingAfterForce /\ ~BypassesEngine(host_context) /\ ForceSwitchLayout
  <2>1. /\ token' = <<>> /\ layout' = Opposite(layout) /\ host_context' = host_context
        /\ output' = Observed(SwitchFutureLayout(Opposite(layout)), Opposite(layout))
        /\ \/ pending' = NoReplacement
           \/ /\ pending' \in PendingReplacement
              /\ Len(pending'.text) = pending'.delete_count
              /\ Len(pending'.inverse_text) = pending'.delete_count
    BY <1>1, <1>5, ForcedSwitchPends
  <2>2. output'.returned /\ output'.action = SwitchFutureLayout(layout')
    BY <2>1 DEF Observed
  <2> QED
    BY <1>1, <1>2, <1>5, <2>1, <2>2 DEF FfiInv, PendingInv, PendingIsTheLastSwitch,
                                        BypassesEngine
<1> QED
  BY <1>2, <1>3, <1>4, <1>5, FfiStepCases

\* The invariant holds of a new engine.
LEMMA FfiInvInit == FfiInit => FfiInv
  BY InvInit DEF FfiInit, FfiInv, PendingInv, PendingIsTheLastSwitch

\* The inductive invariant of the engine behind the C ABI.
THEOREM FfiInvariance == FfiSpec => []FfiInv
  BY FfiInvInit, FfiInvStep, PTL DEF FfiSpec

\* Every reachable state behind the C ABI is type-correct (TcEngine).
THEOREM FfiTypeCorrect == FfiSpec => []FfiTypeOK
<1>1. FfiInv => FfiTypeOK
  BY DEF FfiInv, IInv, PendingInv, FfiTypeOK
<1> QED
  BY FfiInvariance, <1>1, PTL

\* A replacement is pending only right after the call that authorised it, and
\* its texts are those of the token (typeclaw_observe,
\* typeclaw_force_switch_layout, capture_replacement).
THEOREM PendingIsOfTheLastSwitch == FfiSpec => []PendingIsTheLastSwitch
<1>1. FfiInv => PendingIsTheLastSwitch
  BY DEF FfiInv, PendingInv
<1> QED
  BY FfiInvariance, <1>1, PTL

-----------------------------------------------------------------------------
(* The engine implements the contract                                       *)

\* delete_count of what is pending.
PendingCount == IF pending = NoReplacement THEN 0 ELSE pending.delete_count

\* The state of the abstract engine that a state of the engine stands for.
AbstractEngine ==
    [token_len |-> Len(token), layout |-> layout, start |-> token_start_layout,
     ignoring |-> bypass_until_boundary, context |-> host_context,
     action |-> output.action, pending |-> PendingCount]

EngineState ==
    [token_len : Nat, layout : Layout, start : Layout, ignoring : BOOLEAN,
     context : HostContext, action : ObservationAction, pending : Nat]

\* A state of the abstract engine, told by its fields.
Is(r, n, l, st, ig, c, a, p) ==
    /\ r \in EngineState
    /\ r.token_len = n /\ r.layout = l /\ r.start = st /\ r.ignoring = ig
    /\ r.context = c /\ r.action = a /\ r.pending = p

\* The fields tell the state.
LEMMA FieldsTellTheState ==
    ASSUME NEW n, NEW l, NEW st, NEW ig, NEW c, NEW a, NEW p, NEW r, NEW s,
           Is(r, n, l, st, ig, c, a, p), Is(s, n, l, st, ig, c, a, p)
    PROVE  r = s
<1>1. ASSUME NEW x \in EngineState
      PROVE  x = [token_len |-> x.token_len, layout |-> x.layout, start |-> x.start,
                  ignoring |-> x.ignoring, context |-> x.context,
                  action |-> x.action, pending |-> x.pending]
  BY DEF EngineState
<1>2. /\ r \in EngineState /\ s \in EngineState
      /\ r.token_len = s.token_len /\ r.layout = s.layout /\ r.start = s.start
      /\ r.ignoring = s.ignoring /\ r.context = s.context
      /\ r.action = s.action /\ r.pending = s.pending
  BY Zenon DEF Is
<1> QED
  BY <1>1, <1>2, Zenon

\* The two specifications name the same actions, contexts and layouts.
LEMMA SameVocabulary ==
    /\ Contract!None = NoAction /\ Contract!Reset = ResetTokenAction
    /\ \A l : Contract!Switch(l) = SwitchFutureLayout(l)
    /\ \A l : Contract!Opposite(l) = Opposite(l)
    /\ Contract!Layout = Layout /\ Contract!Context = HostContext
    /\ \A en : Contract!Bypassing(en) <=> BypassesEngine(en.context)
BY DEF Contract!None, NoAction, Contract!Reset, ResetTokenAction, Contract!Switch,
       SwitchFutureLayout, Contract!Opposite, Opposite, Contract!Layout, Layout,
       Contract!Context, HostContext, Contract!Bypassing, BypassesEngine

\* What the contract's calls do to a state.
LEMMA ContractResetLayout ==
    ASSUME NEW en \in EngineState, NEW m \in Layout
    PROVE  Is(Contract!ResetLayout(en, m), 0, m, m, FALSE, en.context, NoAction, 0)
<1>1. ASSUME NEW r, r = [en EXCEPT !.token_len = 0, !.layout = m, !.start = m,
                                   !.ignoring = FALSE, !.action = NoAction, !.pending = 0]
      PROVE  Is(r, 0, m, m, FALSE, en.context, NoAction, 0)
  <2>1. 0 \in Nat /\ FALSE \in BOOLEAN /\ NoAction \in ObservationAction
    BY ActionType
  <2>2. r \in EngineState
    BY <1>1, <2>1, Zenon DEF EngineState
  <2>3. /\ r.token_len = 0 /\ r.layout = m /\ r.start = m /\ r.ignoring = FALSE
        /\ r.context = en.context /\ r.action = NoAction /\ r.pending = 0
    BY <1>1 DEF EngineState
  <2> QED
    BY <2>2, <2>3, Zenon DEF Is
<1> QED
  BY <1>1, SameVocabulary, Zenon DEF Contract!ResetLayout

LEMMA ContractDiscarded ==
    ASSUME NEW en \in EngineState
    PROVE  Is(Contract!Discarded(en), 0, en.layout, en.layout, FALSE, en.context,
              IF en.token_len = 0 THEN NoAction ELSE ResetTokenAction, 0)
<1> DEFINE act == IF en.token_len = 0 THEN NoAction ELSE ResetTokenAction
           z   == Contract!ResetLayout(en, en.layout)
<1>1. Is(z, 0, en.layout, en.layout, FALSE, en.context, NoAction, 0)
  BY ContractResetLayout DEF EngineState
<1>2. act \in ObservationAction
  BY ActionType
<1>3. Contract!Discarded(en) = [z EXCEPT !.action = act]
  BY SameVocabulary DEF Contract!Discarded, Contract!ResetToken
<1> HIDE DEF act, z
<1>4. ASSUME NEW r, r = [z EXCEPT !.action = act]
      PROVE  Is(r, 0, en.layout, en.layout, FALSE, en.context, act, 0)
  <2>1. r \in EngineState
    BY <1>1, <1>2, <1>4, Zenon DEF EngineState, Is
  <2>2. /\ r.token_len = z.token_len /\ r.layout = z.layout /\ r.start = z.start
        /\ r.ignoring = z.ignoring /\ r.context = z.context /\ r.action = act
        /\ r.pending = z.pending
    BY <1>1, <1>4 DEF EngineState, Is
  <2> QED
    BY <1>1, <2>1, <2>2, Zenon DEF Is
<1> QED
  BY <1>3, <1>4, Zenon DEF act

LEMMA ContractIgnored ==
    ASSUME NEW en \in EngineState
    PROVE  Is(Contract!Ignored(en), en.token_len, en.layout, en.start, en.ignoring,
              en.context, NoAction, 0)
<1>1. ASSUME NEW r, r = [en EXCEPT !.action = NoAction, !.pending = 0]
      PROVE  Is(r, en.token_len, en.layout, en.start, en.ignoring, en.context, NoAction, 0)
  <2>1. 0 \in Nat /\ NoAction \in ObservationAction
    BY ActionType
  <2>2. r \in EngineState
    BY <1>1, <2>1, Zenon DEF EngineState
  <2>3. /\ r.token_len = en.token_len /\ r.layout = en.layout /\ r.start = en.start
        /\ r.ignoring = en.ignoring /\ r.context = en.context /\ r.action = NoAction
        /\ r.pending = 0
    BY <1>1 DEF EngineState
  <2> QED
    BY <2>2, <2>3, Zenon DEF Is
<1> QED
  BY <1>1, SameVocabulary, Zenon DEF Contract!Ignored

LEMMA ContractInferring ==
    ASSUME NEW en \in EngineState, NEW m \in Layout
    PROVE  IF m = en.layout
           THEN Is(Contract!Inferring(en, m), en.token_len, en.layout, en.start,
                   en.ignoring, en.context, NoAction, 0)
           ELSE Is(Contract!Inferring(en, m), en.token_len, m, en.start,
                   en.ignoring, en.context, SwitchFutureLayout(m), en.token_len)
<1> DEFINE act == SwitchFutureLayout(m)
<1>1. CASE m = en.layout
  BY <1>1, ContractIgnored, Zenon DEF Contract!Inferring
<1>2. CASE m # en.layout
  <2>1. act \in ObservationAction
    BY ActionType
  <2>2. Contract!Inferring(en, m)
          = [en EXCEPT !.layout = m, !.action = act, !.pending = en.token_len]
    BY <1>2, SameVocabulary, Zenon DEF Contract!Inferring
  <2> HIDE DEF act
  <2>3. ASSUME NEW r, r = [en EXCEPT !.layout = m, !.action = act, !.pending = en.token_len]
        PROVE  Is(r, en.token_len, m, en.start, en.ignoring, en.context, act, en.token_len)
    <3>1. en.token_len \in Nat
      BY DEF EngineState
    <3>2. r \in EngineState
      BY <2>1, <2>3, <3>1, Zenon DEF EngineState
    <3>3. /\ r.token_len = en.token_len /\ r.layout = m /\ r.start = en.start
          /\ r.ignoring = en.ignoring /\ r.context = en.context /\ r.action = act
          /\ r.pending = en.token_len
      BY <2>3 DEF EngineState
    <3> QED
      BY <3>2, <3>3, Zenon DEF Is
  <2> QED
    BY <1>2, <2>2, <2>3, Zenon DEF act
<1> QED
  BY <1>1, <1>2

LEMMA ContractGrown ==
    ASSUME NEW en \in EngineState
    PROVE  Is(Contract!Grown(en), en.token_len + 1, en.layout,
              IF en.token_len = 0 THEN en.layout ELSE en.start,
              en.ignoring, en.context, en.action, en.pending)
<1> DEFINE n  == en.token_len + 1
           st == IF en.token_len = 0 THEN en.layout ELSE en.start
<1>1. n \in Nat /\ st \in Layout
  BY DEF EngineState
<1>2. Contract!Grown(en) = [en EXCEPT !.token_len = n, !.start = st]
  BY DEF Contract!Grown
<1> HIDE DEF n, st
<1>3. ASSUME NEW r, r = [en EXCEPT !.token_len = n, !.start = st]
      PROVE  Is(r, n, en.layout, st, en.ignoring, en.context, en.action, en.pending)
  <2>1. r \in EngineState
    BY <1>1, <1>3, Zenon DEF EngineState
  <2>2. /\ r.token_len = n /\ r.layout = en.layout /\ r.start = st
        /\ r.ignoring = en.ignoring /\ r.context = en.context /\ r.action = en.action
        /\ r.pending = en.pending
    BY <1>3 DEF EngineState
  <2> QED
    BY <2>1, <2>2, Zenon DEF Is
<1> QED
  BY <1>2, <1>3, Zenon DEF n, st

LEMMA ContractShrunk ==
    ASSUME NEW en \in EngineState, en.token_len > 0
    PROVE  Is(Contract!Shrunk(en), en.token_len - 1, en.layout, en.start,
              en.ignoring, en.context, en.action, en.pending)
<1> DEFINE n == en.token_len - 1
<1>1. n \in Nat
  BY DEF EngineState
<1>2. Contract!Shrunk(en) = [en EXCEPT !.token_len = n]
  BY DEF Contract!Shrunk
<1> HIDE DEF n
<1>3. ASSUME NEW r, r = [en EXCEPT !.token_len = n]
      PROVE  Is(r, n, en.layout, en.start, en.ignoring, en.context, en.action, en.pending)
  <2>1. r \in EngineState
    BY <1>1, <1>3, Zenon DEF EngineState
  <2>2. /\ r.token_len = n /\ r.layout = en.layout /\ r.start = en.start
        /\ r.ignoring = en.ignoring /\ r.context = en.context /\ r.action = en.action
        /\ r.pending = en.pending
    BY <1>3 DEF EngineState
  <2> QED
    BY <2>1, <2>2, Zenon DEF Is
<1> QED
  BY <1>2, <1>3, Zenon DEF n

LEMMA ContractTake ==
    ASSUME NEW en \in EngineState
    PROVE  Is(Contract!TakePendingReplacement(en), en.token_len, en.layout, en.start,
              en.ignoring, en.context, en.action, 0)
<1>1. ASSUME NEW r, r = [en EXCEPT !.pending = 0]
      PROVE  Is(r, en.token_len, en.layout, en.start, en.ignoring, en.context, en.action, 0)
  <2>1. r \in EngineState
    BY <1>1, Zenon, 0 \in Nat DEF EngineState
  <2>2. /\ r.token_len = en.token_len /\ r.layout = en.layout /\ r.start = en.start
        /\ r.ignoring = en.ignoring /\ r.context = en.context /\ r.action = en.action
        /\ r.pending = 0
    BY <1>1 DEF EngineState
  <2> QED
    BY <2>1, <2>2, Zenon DEF Is
<1> QED
  BY <1>1, Zenon DEF Contract!TakePendingReplacement

LEMMA ContractOverflown ==
    ASSUME NEW en \in EngineState
    PROVE  Is(Contract!Overflown(en), 0, en.layout, en.layout, TRUE, en.context,
              IF en.token_len = 0 THEN NoAction ELSE ResetTokenAction, 0)
<1> DEFINE act == IF en.token_len = 0 THEN NoAction ELSE ResetTokenAction
           z   == Contract!Discarded(en)
<1>1. Is(z, 0, en.layout, en.layout, FALSE, en.context, act, 0)
  BY ContractDiscarded
<1>2. Contract!Overflown(en) = [z EXCEPT !.ignoring = TRUE]
  BY DEF Contract!Overflown
<1> HIDE DEF act, z
<1>3. ASSUME NEW r, r = [z EXCEPT !.ignoring = TRUE]
      PROVE  Is(r, 0, en.layout, en.layout, TRUE, en.context, act, 0)
  <2>1. r \in EngineState
    BY <1>1, <1>3, Zenon, TRUE \in BOOLEAN DEF EngineState, Is
  <2>2. /\ r.token_len = z.token_len /\ r.layout = z.layout /\ r.start = z.start
        /\ r.ignoring = TRUE /\ r.context = z.context /\ r.action = z.action
        /\ r.pending = z.pending
    BY <1>1, <1>3 DEF EngineState, Is
  <2> QED
    BY <1>1, <2>1, <2>2, Zenon DEF Is
<1> QED
  BY <1>2, <1>3, Zenon DEF act

LEMMA ContractForced ==
    ASSUME NEW en \in EngineState, ~BypassesEngine(en.context)
    PROVE  Is(Contract!ForceSwitchLayout(en), 0, Opposite(en.layout), Opposite(en.layout),
              FALSE, en.context, SwitchFutureLayout(Opposite(en.layout)), en.token_len)
<1> DEFINE o   == Opposite(en.layout)
           act == SwitchFutureLayout(o)
           z   == Contract!ResetLayout(en, o)
<1>1. o \in Layout /\ act \in ObservationAction /\ en.token_len \in Nat
  BY ActionType DEF Opposite, Layout, EngineState
<1>2. Is(z, 0, o, o, FALSE, en.context, NoAction, 0)
  BY <1>1, ContractResetLayout
<1>3. Contract!ForceSwitchLayout(en)
        = [z EXCEPT !.action = act, !.pending = en.token_len]
  BY SameVocabulary, Zenon DEF Contract!ForceSwitchLayout
<1> HIDE DEF o, act, z
<1>4. ASSUME NEW r, r = [z EXCEPT !.action = act, !.pending = en.token_len]
      PROVE  Is(r, 0, o, o, FALSE, en.context, act, en.token_len)
  <2>1. r \in EngineState
    BY <1>1, <1>2, <1>4, Zenon DEF EngineState, Is
  <2>2. /\ r.token_len = z.token_len /\ r.layout = z.layout /\ r.start = z.start
        /\ r.ignoring = z.ignoring /\ r.context = z.context /\ r.action = act
        /\ r.pending = en.token_len
    BY <1>2, <1>4 DEF EngineState, Is
  <2> QED
    BY <1>2, <2>1, <2>2, Zenon DEF Is
<1> QED
  BY <1>3, <1>4, Zenon DEF o, act

LEMMA ContractSetHostContext ==
    ASSUME NEW en \in EngineState, NEW c \in HostContext
    PROVE  IF en.context = c /\ ~BypassesEngine(c)
           THEN Is(Contract!SetHostContext(en, c), en.token_len, en.layout, en.start,
                   en.ignoring, c, NoAction, 0)
           ELSE Is(Contract!SetHostContext(en, c), 0, en.layout, en.layout,
                   FALSE, c, NoAction, 0)
<1> DEFINE set == [en EXCEPT !.context = c, !.action = NoAction, !.pending = 0]
<1>1. ASSUME NEW r, r = set
      PROVE  Is(r, en.token_len, en.layout, en.start, en.ignoring, c, NoAction, 0)
  <2>1. 0 \in Nat /\ NoAction \in ObservationAction
    BY ActionType
  <2>2. r \in EngineState
    BY <1>1, <2>1, Zenon DEF EngineState
  <2>3. /\ r.token_len = en.token_len /\ r.layout = en.layout /\ r.start = en.start
        /\ r.ignoring = en.ignoring /\ r.context = c /\ r.action = NoAction
        /\ r.pending = 0
    BY <1>1 DEF EngineState
  <2> QED
    BY <2>2, <2>3, Zenon DEF Is
<1>2. Contract!SetHostContext(en, c) =
         IF en.context = c /\ ~BypassesEngine(en.context)
         THEN set ELSE Contract!ResetLayout(set, set.layout)
  <2>1. /\ Contract!None = NoAction
        /\ Contract!Bypassing(en) <=> BypassesEngine(en.context)
    BY SameVocabulary
  <2> QED
    BY <2>1 DEF Contract!SetHostContext, Contract!ResetToken
<1>3. Is(set, en.token_len, en.layout, en.start, en.ignoring, c, NoAction, 0)
  BY <1>1
<1> HIDE DEF set
<1>4. Is(Contract!ResetLayout(set, set.layout), 0, en.layout, en.layout, FALSE, c, NoAction, 0)
  <2>1. set \in EngineState /\ set.layout = en.layout /\ set.context = c
    BY <1>3, Zenon DEF Is
  <2>2. en.layout \in Layout
    BY DEF EngineState
  <2> QED
    BY <2>1, <2>2, ContractResetLayout, Zenon
<1> QED
  BY <1>2, <1>3, <1>4, Zenon

\* The abstract state of a reachable state, field by field.
LEMMA AbstractEngineIs ==
    FfiInv => Is(AbstractEngine, Len(token), layout, token_start_layout,
                 bypass_until_boundary, host_context, output.action, PendingCount)
<1> SUFFICES ASSUME FfiInv
             PROVE  Is(AbstractEngine, Len(token), layout, token_start_layout,
                       bypass_until_boundary, host_context, output.action, PendingCount)
  OBVIOUS
<1>1. PendingCount \in Nat
  BY DEF PendingCount, FfiInv, PendingInv, PendingReplacement
<1>2. Len(token) \in Nat /\ output.action \in ObservationAction
  BY LenProperties DEF FfiInv, IInv, TypeOK
<1>3. AbstractEngine \in EngineState
  BY <1>1, <1>2, Zenon DEF FfiInv, IInv, TypeOK, EngineState, AbstractEngine
<1>4. /\ AbstractEngine.token_len = Len(token) /\ AbstractEngine.layout = layout
      /\ AbstractEngine.start = token_start_layout
      /\ AbstractEngine.context = host_context
      /\ AbstractEngine.action = output.action /\ AbstractEngine.pending = PendingCount
  BY DEF AbstractEngine
<1>5. AbstractEngine.ignoring = bypass_until_boundary
  BY Zenon DEF AbstractEngine
<1> QED
  BY <1>3, <1>4, <1>5, Zenon DEF Is

\* A short token is in the layout it began in, because nothing can have earned
\* another.
LEMMA ShortTokenKeepsLayout ==
    IInv => (Len(token) < MinTokenLen \/ host_context.automatic_switching_disabled
                => layout = token_start_layout)
<1> SUFFICES ASSUME IInv, Len(token) < MinTokenLen
                          \/ host_context.automatic_switching_disabled
             PROVE  layout = token_start_layout
  OBVIOUS
<1>1. CASE host_context.automatic_switching_disabled
  BY <1>1 DEF IInv, SwitchingDisabledKeepsLayout
<1>2. CASE Len(token) < MinTokenLen
  <2>1. ~ \E n \in MinTokenLen..Len(token) : DecisionFor(SubSeq(token, 1, n)) = layout
    BY <1>2, LenProperties, ConfigAssumption DEF IInv, TypeOK
  <2> QED
    BY <2>1 DEF IInv, SwitchIsEarned
<1> QED
  BY <1>1, <1>2

\* A layout the engine infers is one the contract lets it infer, and what is
\* pending then is what the contract makes pending.
LEMMA InferenceRefines ==
    ASSUME FfiInv', pending' = PendingAfterObserve, token' # <<>>, output'.returned,
           output'.action = SwitchAction(layout, layout') \/ output'.action = NoAction,
           output'.action = NoAction => layout' = layout, layout \in Layout,
           NEW en \in EngineState,
           en.token_len = Len(token)', en.layout = layout, en.start = token_start_layout',
           en.ignoring = bypass_until_boundary', en.context = host_context',
           host_context.automatic_switching_disabled => layout' = layout,
           host_context' = host_context
    PROVE  AbstractEngine' \in {Contract!Inferring(en, l) : l \in Contract!Inferable(en)}
<1>1. layout' \in Contract!Inferable(en)
  <2>1. layout' \in Layout
    BY DEF FfiInv, IInv, TypeOK
  <2>2. (Len(token') < MinTokenLen \/ host_context'.automatic_switching_disabled)
            => layout' = token_start_layout'
    <3>1. IInv'
      BY DEF FfiInv
    <3>2. (Len(token) < MinTokenLen \/ host_context.automatic_switching_disabled
              => layout = token_start_layout)'
      BY <3>1, ShortTokenKeepsLayout, PTL
    <3> QED
      BY <3>2
  <2>3. Len(token') \in Nat
    BY LenProperties DEF FfiInv, IInv, TypeOK
  <2> QED
    BY <2>1, <2>2, <2>3, SameVocabulary, ConfigAssumption DEF Contract!Inferable
<1>2. AbstractEngine' = Contract!Inferring(en, layout')
  <2>1. Is(AbstractEngine, Len(token), layout, token_start_layout,
           bypass_until_boundary, host_context, output.action, PendingCount)'
    BY AbstractEngineIs, PTL
  <2>2. \/ pending' = NoReplacement /\ output'.action = NoAction
        \/ /\ pending' # NoReplacement /\ layout' # layout
           /\ output'.action = SwitchFutureLayout(layout')
           /\ pending'.delete_count = Len(token')
    BY ObservedSwitchPends DEF FfiInv
  <2>3. layout' \in Layout
    BY DEF FfiInv, IInv, TypeOK
  <2>4. CASE pending' = NoReplacement /\ output'.action = NoAction
    <3>1. PendingCount' = 0 /\ layout' = en.layout
      BY <2>4 DEF PendingCount
    <3>2. Is(Contract!Inferring(en, layout'), en.token_len, en.layout, en.start,
             en.ignoring, en.context, NoAction, 0)
      BY <2>3, <3>1, ContractInferring, Zenon
    <3> QED
      BY <2>1, <2>4, <3>1, <3>2, FieldsTellTheState, Zenon
  <2>5. CASE /\ pending' # NoReplacement /\ layout' # layout
             /\ output'.action = SwitchFutureLayout(layout')
             /\ pending'.delete_count = Len(token')
    <3>1. PendingCount' = Len(token')
      BY <2>5 DEF PendingCount
    <3>2. Is(Contract!Inferring(en, layout'), en.token_len, layout', en.start,
             en.ignoring, en.context, SwitchFutureLayout(layout'), en.token_len)
      BY <2>3, <2>5, ContractInferring, Zenon
    <3> QED
      BY <2>1, <2>5, <3>1, <3>2, FieldsTellTheState, Zenon
  <2> QED
    BY <2>2, <2>4, <2>5
<1> QED
  BY <1>1, <1>2

\* Every call of the ABI is a call of the contract, or changes nothing of it.
LEMMA ContractStep ==
    ASSUME FfiInv, FfiInv', FfiNext
    PROVE  \/ AbstractEngine' \in Contract!AfterLetter(AbstractEngine)
           \/ AbstractEngine' \in Contract!AfterBackspace(AbstractEngine)
           \/ AbstractEngine' = Contract!Discarded(AbstractEngine)
           \/ AbstractEngine' = Contract!Ignored(AbstractEngine)
           \/ AbstractEngine' = Contract!ForceSwitchLayout(AbstractEngine)
           \/ \E l \in Contract!Layout :
                 AbstractEngine' = Contract!ResetLayout(AbstractEngine, l)
           \/ \E c \in Contract!Context :
                 AbstractEngine' = Contract!SetHostContext(AbstractEngine, c)
           \/ AbstractEngine' = Contract!TakePendingReplacement(AbstractEngine)
<1> DEFINE en == AbstractEngine
<1>1. Is(en, Len(token), layout, token_start_layout,
         bypass_until_boundary, host_context, output.action, PendingCount)
  BY AbstractEngineIs
<1>2. Is(en', Len(token)', layout', token_start_layout',
         bypass_until_boundary', host_context', output'.action, PendingCount')
  <2>1. Is(en, Len(token), layout, token_start_layout,
           bypass_until_boundary, host_context, output.action, PendingCount)'
    BY AbstractEngineIs, PTL
  <2> QED
    BY <2>1
<1>3. /\ en \in EngineState /\ en.token_len = Len(token) /\ en.layout = layout
      /\ en.start = token_start_layout /\ en.ignoring = bypass_until_boundary
      /\ en.context = host_context /\ en.action = output.action
  BY <1>1, Zenon DEF Is
<1> HIDE DEF en
<1>4. /\ token \in Seq(LetterEvent) /\ Len(token) \in Nat /\ layout \in Layout
      /\ (token = <<>> <=> Len(token) = 0) /\ Len(<<>>) = 0
      /\ bypass_until_boundary \in BOOLEAN
  BY LenProperties, EmptySeq DEF FfiInv, IInv, TypeOK
<1>5. Contract!Bypassing(en) <=> BypassesEngine(host_context)
  BY <1>3, SameVocabulary
<1>6. pending' = NoReplacement => PendingCount' = 0
  BY DEF PendingCount
<1>7. ASSUME NEW d \in {"Keep", "Bypass"}, Discard(d), pending' = NoReplacement
      PROVE  en' = Contract!Discarded(en)
  <2>1. /\ token' = <<>> /\ layout' = layout /\ token_start_layout' = layout
        /\ bypass_until_boundary' = FALSE /\ host_context' = host_context
        /\ output'.action = ResetAction
    BY <1>7 DEF Discard, ClearToken, Observed
  <2>2. ResetAction = IF Len(token) = 0 THEN NoAction ELSE ResetTokenAction
    BY <1>4 DEF ResetAction
  <2>3. Len(token)' = 0
    BY <1>4, <2>1
  <2>4. Is(Contract!Discarded(en), 0, layout, layout, FALSE, host_context,
           IF Len(token) = 0 THEN NoAction ELSE ResetTokenAction, 0)
    BY <1>3, ContractDiscarded, Zenon
  <2> QED
    BY <1>2, <1>6, <1>7, <2>1, <2>2, <2>3, <2>4, FieldsTellTheState, Zenon
<1>8. ASSUME UNCHANGED <<token, layout, token_start_layout, bypass_until_boundary,
                         host_context>>,
             output'.action = NoAction, pending' = NoReplacement
      PROVE  en' = Contract!Ignored(en)
  <2>1. Is(Contract!Ignored(en), Len(token), layout, token_start_layout,
           bypass_until_boundary, host_context, NoAction, 0)
    BY <1>3, ContractIgnored, Zenon
  <2>2. /\ Len(token)' = Len(token) /\ layout' = layout
        /\ token_start_layout' = token_start_layout
        /\ host_context' = host_context /\ output'.action = NoAction
    BY <1>8
  <2>3. bypass_until_boundary' = bypass_until_boundary
    BY <1>8, Zenon
  <2> QED
    BY <1>2, <1>6, <1>8, <2>1, <2>2, <2>3, FieldsTellTheState, Zenon
<1>9. ASSUME LetterOverLimit, pending' = NoReplacement
      PROVE  en' \in Contract!AfterLetter(en)
  <2>1. /\ token' = <<>> /\ layout' = layout /\ token_start_layout' = layout
        /\ bypass_until_boundary' = TRUE /\ host_context' = host_context
        /\ output'.action = ResetAction /\ ~bypass_until_boundary
    BY <1>9 DEF LetterOverLimit, ClearToken, Observed
  <2>2. Len(token) >= MaxTokenLen /\ token # <<>> /\ ~BypassesEngine(host_context)
    BY <1>4, <1>9, ConfigAssumption DEF LetterOverLimit, AtLimit, FfiInv, IInv, Shape
  <2>3. ResetAction = IF Len(token) = 0 THEN NoAction ELSE ResetTokenAction
    BY <1>4 DEF ResetAction
  <2>4. Len(token)' = 0
    BY <1>4, <2>1
  <2>5. Is(Contract!Overflown(en), 0, layout, layout, TRUE, host_context,
           IF Len(token) = 0 THEN NoAction ELSE ResetTokenAction, 0)
    BY <1>3, ContractOverflown, Zenon
  <2>6. en' = Contract!Overflown(en)
    BY <1>2, <1>6, <1>9, <2>1, <2>3, <2>4, <2>5, FieldsTellTheState, Zenon
  <2> QED
    BY <1>3, <1>5, <2>1, <2>2, <2>6 DEF Contract!AfterLetter, Contract!AtLimit
<1>10. ASSUME NEW e \in LetterEvent, LetterAppended(e), ~Discard("Keep"),
              ~BypassesEngine(host_context), pending' = PendingAfterObserve
       PROVE  en' \in Contract!AfterLetter(en)
  <2> DEFINE g == Contract!Grown(en)
  <2>1. /\ token' = Append(token, e) /\ ~bypass_until_boundary
        /\ token_start_layout' = IF token = <<>> THEN layout ELSE token_start_layout
        /\ output' = Observed(SwitchAction(layout, layout'), output'.decision)
        /\ host_context.automatic_switching_disabled => layout' = layout
        /\ Len(token) < MaxTokenLen
        /\ UNCHANGED <<bypass_until_boundary, host_context>>
    BY <1>4, <1>10, ConfigAssumption DEF LetterAppended, AtLimit, Observed, Layout
  <2>2. Len(token)' = Len(token) + 1 /\ token' # <<>>
    BY <1>4, <2>1, AppendProperties
  <2>3. /\ output'.returned /\ output'.action = SwitchAction(layout, layout')
        /\ output'.action = NoAction => layout' = layout
    BY <2>1 DEF Observed, SwitchAction, SwitchFutureLayout, NoAction
  <2>4. Is(g, Len(token) + 1, layout, IF Len(token) = 0 THEN layout ELSE token_start_layout,
           bypass_until_boundary, host_context, en.action, en.pending)
    BY <1>3, ContractGrown, Zenon
  <2>5. /\ g \in EngineState /\ g.token_len = Len(token) + 1 /\ g.layout = layout
        /\ g.start = (IF Len(token) = 0 THEN layout ELSE token_start_layout)
        /\ g.context = host_context
    BY <2>4, Zenon DEF Is
  <2>6. g.ignoring = bypass_until_boundary
    BY <2>4, Zenon DEF Is
  <2> HIDE DEF g
  <2>7. g.start = token_start_layout'
    BY <1>4, <2>1, <2>5
  <2>8. g.ignoring = bypass_until_boundary' /\ host_context' = host_context
    BY <2>1, <2>6, Zenon
  <2>9. AbstractEngine' \in {Contract!Inferring(g, l) : l \in Contract!Inferable(g)}
    BY <1>4, <1>10, <2>1, <2>2, <2>3, <2>5, <2>7, <2>8, InferenceRefines
  <2>10. Contract!AfterLetter(en) = {Contract!Discarded(en)} \cup
            {Contract!Inferring(Contract!Grown(en), l) :
                l \in Contract!Inferable(Contract!Grown(en))}
    BY <1>3, <1>4, <1>5, <1>10, <2>1, ConfigAssumption
       DEF Contract!AfterLetter, Contract!AtLimit
  <2> QED
    BY <2>9, <2>10, Zenon DEF g, en
<1>11. ASSUME BackspaceShortens, ~BypassesEngine(host_context),
              pending' = PendingAfterObserve
       PROVE  en' \in Contract!AfterBackspace(en)
  <2> DEFINE g == Contract!Shrunk(en)
  <2>1. /\ token' = Shorter(token) /\ ~bypass_until_boundary /\ Len(token) > 1
        /\ UNCHANGED <<token_start_layout, bypass_until_boundary, host_context>>
    BY <1>11 DEF BackspaceShortens
  <2>2. Len(token)' = Len(token) - 1 /\ token' # <<>>
    BY <1>4, <2>1, ShorterProperties
  <2>3. /\ output'.returned
        /\ output'.action = SwitchAction(layout, layout') \/ output'.action = NoAction
        /\ output'.action = NoAction => layout' = layout
        /\ host_context.automatic_switching_disabled => layout' = layout
    BY <1>11 DEF BackspaceShortens, Observed, SwitchAction, SwitchFutureLayout, NoAction
  <2>4. Is(g, Len(token) - 1, layout, token_start_layout,
           bypass_until_boundary, host_context, en.action, en.pending)
    BY <1>3, <2>1, ContractShrunk
  <2>5. /\ g \in EngineState /\ g.token_len = Len(token) - 1 /\ g.layout = layout
        /\ g.start = token_start_layout /\ g.context = host_context
    BY <2>4, Zenon DEF Is
  <2>6. g.ignoring = bypass_until_boundary
    BY <2>4, Zenon DEF Is
  <2> HIDE DEF g
  <2>7. /\ g.ignoring = bypass_until_boundary' /\ host_context' = host_context
        /\ token_start_layout' = token_start_layout
    BY <2>1, <2>6, Zenon
  <2>8. AbstractEngine' \in {Contract!Inferring(g, l) : l \in Contract!Inferable(g)}
    BY <1>4, <1>11, <2>2, <2>3, <2>5, <2>7, InferenceRefines
  <2>9. Contract!AfterBackspace(en) =
            {Contract!Inferring(Contract!Shrunk(en), l) :
                l \in Contract!Inferable(Contract!Shrunk(en))}
    <3>1. ~Contract!Bypassing(en) /\ ~en.ignoring
      BY <1>3, <1>5, <1>11, <2>1, Zenon
    <3>2. en.token_len # 0 /\ en.token_len # 1
      <4>1. en.token_len = Len(token)
        BY <1>3
      <4>2. Len(token) > 1
        BY <1>11 DEF BackspaceShortens
      <4>3. Len(token) \in Nat
        BY <1>4, Zenon
      <4>4. \A n \in Nat : n > 1 => n # 0 /\ n # 1
        OBVIOUS
      <4> QED
        BY <4>1, <4>2, <4>3, <4>4, Zenon
    <3> QED
      BY <3>1, <3>2, Zenon DEF Contract!AfterBackspace
  <2> QED
    BY <2>8, <2>9, Zenon DEF g, en
<1>12. ASSUME NEW l \in Layout, ResetLayout(l), pending' = NoReplacement
       PROVE  en' = Contract!ResetLayout(en, l)
  <2>1. /\ token' = <<>> /\ layout' = l /\ token_start_layout' = l
        /\ bypass_until_boundary' = FALSE /\ host_context' = host_context
        /\ output'.action = NoAction
    BY <1>12 DEF ResetLayout, ClearToken, NoOutput
  <2>2. Len(token)' = 0
    BY <1>4, <2>1
  <2>3. Is(Contract!ResetLayout(en, l), 0, l, l, FALSE, host_context, NoAction, 0)
    BY <1>3, ContractResetLayout, Zenon
  <2> QED
    BY <1>2, <1>6, <1>12, <2>1, <2>2, <2>3, FieldsTellTheState, Zenon
<1>13. ASSUME NEW c \in HostContext, SetHostContext(c), pending' = NoReplacement
       PROVE  en' = Contract!SetHostContext(en, c)
  <2>1. host_context' = c /\ output'.action = NoAction
    BY <1>13 DEF SetHostContext, NoOutput
  <2>2. CASE host_context = c /\ ~BypassesEngine(c)
    <3>1. UNCHANGED <<token, layout, token_start_layout, bypass_until_boundary>>
      BY <1>13, <2>2, Zenon DEF SetHostContext, tokenVars
    <3>2. Is(Contract!SetHostContext(en, c), Len(token), layout, token_start_layout,
             bypass_until_boundary, c, NoAction, 0)
      BY <1>3, <2>2, ContractSetHostContext, Zenon
    <3>3. Len(token)' = Len(token)
      BY <3>1
    <3> QED
      BY <1>2, <1>6, <1>13, <2>1, <3>1, <3>2, <3>3, FieldsTellTheState, Zenon
  <2>3. CASE ~(host_context = c /\ ~BypassesEngine(c))
    <3>1. /\ token' = <<>> /\ layout' = layout /\ token_start_layout' = layout
          /\ bypass_until_boundary' = FALSE
      BY <1>13, <2>3, Zenon DEF SetHostContext, ClearToken
    <3>2. Is(Contract!SetHostContext(en, c), 0, layout, layout, FALSE, c, NoAction, 0)
      BY <1>3, <2>3, ContractSetHostContext, Zenon
    <3>3. Len(token)' = 0
      BY <1>4, <3>1
    <3> QED
      BY <1>2, <1>6, <1>13, <2>1, <3>1, <3>2, <3>3, FieldsTellTheState, Zenon
  <2> QED
    BY <2>2, <2>3
<1>14. ASSUME UNCHANGED vars, pending' = NoReplacement
       PROVE  en' = Contract!TakePendingReplacement(en)
  <2>1. UNCHANGED <<token, layout, token_start_layout, bypass_until_boundary,
                    host_context, output>>
    BY <1>14, Zenon DEF vars
  <2>2. Is(Contract!TakePendingReplacement(en), Len(token), layout, token_start_layout,
           bypass_until_boundary, host_context, output.action, 0)
    BY <1>3, ContractTake, Zenon
  <2>3. Len(token)' = Len(token) /\ output'.action = output.action
    BY <2>1
  <2> QED
    BY <1>2, <1>6, <1>14, <2>1, <2>2, <2>3, FieldsTellTheState, Zenon
<1>15. ASSUME ForceSwitchLayout, ~BypassesEngine(host_context), pending' = PendingAfterForce
       PROVE  en' = Contract!ForceSwitchLayout(en)
  <2> DEFINE o == Opposite(layout)
  <2>1. /\ token' = <<>> /\ layout' = o /\ token_start_layout' = o
        /\ bypass_until_boundary' = FALSE /\ host_context' = host_context
        /\ output' = Observed(SwitchFutureLayout(o), o)
        /\ \/ token = <<>> /\ pending' = NoReplacement
           \/ token # <<>> /\ pending' # NoReplacement /\ pending'.delete_count = Len(token)
    BY <1>15, ForcedSwitchPends DEF FfiInv
  <2>2. output'.action = SwitchFutureLayout(o) /\ Len(token)' = 0
    BY <1>4, <2>1 DEF Observed
  <2>3. PendingCount' = Len(token)
    BY <1>4, <2>1 DEF PendingCount
  <2>4. Is(Contract!ForceSwitchLayout(en), 0, o, o, FALSE, host_context,
           SwitchFutureLayout(o), Len(token))
    BY <1>3, <1>15, ContractForced, Zenon
  <2> QED
    BY <1>2, <2>1, <2>2, <2>3, <2>4, FieldsTellTheState, Zenon
<1>16. Ignore("Bypass") \/ Undecoded =>
          /\ UNCHANGED <<token, layout, token_start_layout, bypass_until_boundary,
                         host_context>>
          /\ output'.action = NoAction
  BY DEF Ignore, Undecoded, Observed, NoOutput, tokenVars
<1>17. CASE pending' = PendingAfterObserve /\ Discard("Keep")
  BY <1>7, <1>17, NoSwitchNothingPending DEF en
<1> QED
  BY <1>4, <1>7, <1>8, <1>9, <1>10, <1>11, <1>12, <1>13, <1>14, <1>15, <1>16, <1>17,
     FfiStepCases, SameVocabulary DEF en

\* A new engine is a new engine of the contract.
LEMMA ContractInit == FfiInit => AbstractEngine = Contract!NewEngine
<1> SUFFICES ASSUME FfiInit PROVE AbstractEngine = Contract!NewEngine
  OBVIOUS
<1>1. /\ Len(token) = 0 /\ layout = "English" /\ token_start_layout = "English"
      /\ bypass_until_boundary = FALSE /\ host_context = DefaultContext
      /\ output.action = NoAction /\ PendingCount = 0
  BY DEF FfiInit, Init, NoOutput, PendingCount
<1> QED
  BY <1>1, SameVocabulary, Zenon DEF AbstractEngine, Contract!NewEngine, DefaultContext

\* The engine behind the C ABI implements the contract that a host relies on,
\* for every keyboard, language and configuration.
THEOREM FfiImplementsContract == FfiSpec => ImplementsContract
<1>1. FfiInit => Contract!Init
  BY ContractInit, Zenon DEF AbstractEngine, PendingCount, Contract!Init
<1>2. FfiInv /\ FfiInv' /\ [FfiNext]_ffiVars
          => [Contract!Next]_AbstractEngine
  <2> SUFFICES ASSUME FfiInv, FfiInv', [FfiNext]_ffiVars
               PROVE  [Contract!Next]_AbstractEngine
    OBVIOUS
  <2>1. CASE UNCHANGED ffiVars
    BY <2>1 DEF ffiVars, vars, AbstractEngine, PendingCount
  <2>2. CASE FfiNext
    BY <2>2, ContractStep, Zenon DEF Contract!Next, AbstractEngine, PendingCount
  <2> QED
    BY <2>1, <2>2
<1> QED
  BY <1>1, <1>2, FfiInvariance, PTL
     DEF FfiSpec, ImplementsContract, Contract!Spec, AbstractEngine, PendingCount

\* docs/invariants.md, Switching Rules, behind the ABI: a short token, or one
\* typed while switching is disabled, is in the layout it began in.
THEOREM ShortTokensAlwaysKeepTheirLayout == FfiSpec => []ShortTokensKeepTheirLayout
<1>1. FfiInv => ShortTokensKeepTheirLayout
  BY ShortTokenKeepsLayout DEF FfiInv, ShortTokensKeepTheirLayout,
                               Contract!ShortTokensKeepTheirLayout
<1> QED
  BY <1>1, FfiInvariance, PTL

\* A host may replace text only on the authority of the very last call, which
\* switched to the layout the engine is in, in a context that bypasses nothing,
\* and what it replaces is the whole of a token that is still active.
THEOREM OnlyTheLastCallAuthorises == FfiSpec => []OnlyTheLastSwitchAuthorises
<1>1. FfiInv => OnlyTheLastSwitchAuthorises
  <2> SUFFICES ASSUME FfiInv, PendingCount # 0
               PROVE  /\ AbstractEngine.action = SwitchFutureLayout(AbstractEngine.layout)
                      /\ ~BypassesEngine(AbstractEngine.context)
                      /\ AbstractEngine.token_len \in {0, AbstractEngine.pending}
    BY SameVocabulary, Zenon DEF OnlyTheLastSwitchAuthorises, PendingCount,
       Contract!OnlyTheLastSwitchAuthorises, AbstractEngine
  <2>1. pending # NoReplacement /\ PendingCount = pending.delete_count
    BY DEF PendingCount
  <2>2. /\ output.action = SwitchFutureLayout(layout)
        /\ ~BypassesEngine(host_context)
        /\ token # <<>> => Len(token) = PendingCount
    BY <2>1 DEF FfiInv, PendingInv, PendingIsTheLastSwitch
  <2>3. Len(token) \in {0, PendingCount}
    BY <2>2
  <2>4. /\ AbstractEngine.action = output.action /\ AbstractEngine.layout = layout
        /\ AbstractEngine.context = host_context
        /\ AbstractEngine.token_len = Len(token) /\ AbstractEngine.pending = PendingCount
    BY DEF AbstractEngine
  <2> QED
    BY <2>2, <2>3, <2>4
<1> QED
  BY <1>1, FfiInvariance, PTL

-----------------------------------------------------------------------------
(* The host                                                                 *)

FieldChar == Char \cup {Other}

-----------------------------------------------------------------------------
(* Ends of a text                                                           *)

\* The text ends with s: character by character, what LastOf says at once.
EndsWith(text, s) ==
    /\ Len(s) <= Len(text)
    /\ \A i \in 1..Len(s) : text[Len(text) - Len(s) + i] = s[i]

\* EndsWith is what LastOf says.
LEMMA EndsWithIsLastOf ==
    ASSUME NEW S, NEW text \in Seq(S), NEW s \in Seq(S), EndsWith(text, s)
    PROVE  LastOf(text, Len(s)) = s
<1>1. Len(text) \in Nat /\ Len(s) \in Nat /\ Len(s) <= Len(text)
  BY LenProperties DEF EndsWith
<1> DEFINE m == Len(text) - Len(s) + 1
           last == SubSeq(text, m, Len(text))
<1>2. \A i \in m..Len(text) : text[i] \in S
  BY <1>1, ElementOfSeq
<1>3. m \in Int /\ Len(text) \in Int
  BY <1>1
<1>4. /\ last \in Seq(S)
      /\ Len(last) = IF m <= Len(text) THEN Len(text) - m + 1 ELSE 0
      /\ \A i \in 1..(Len(text) - m + 1) : last[i] = text[m + i - 1]
  <2> HIDE DEF m
  <2> QED
    BY <1>2, <1>3, SubSeqProperties
<1>5. LastOf(text, Len(s)) = last
  BY DEF LastOf
<1> HIDE DEF last
<1>6. Len(last) = Len(s)
  BY <1>1, <1>4
<1>7. \A i \in 1..Len(last) : last[i] = s[i]
  BY <1>1, <1>4, <1>6 DEF EndsWith
<1> QED
  BY <1>4, <1>5, <1>6, <1>7, SeqEqual

\* Every text ends with nothing.
LEMMA EndsWithNothing ==
    ASSUME NEW S, NEW text \in Seq(S)
    PROVE  EndsWith(text, <<>>)
  BY LenProperties, EmptySeq DEF EndsWith

\* One character more in both.
LEMMA EndsWithAppend ==
    ASSUME NEW S, NEW text \in Seq(S), NEW s \in Seq(S), NEW c \in S, EndsWith(text, s)
    PROVE  EndsWith(Append(text, c), Append(s, c))
<1>1. Len(text) \in Nat /\ Len(s) \in Nat /\ Len(s) <= Len(text)
  BY LenProperties DEF EndsWith
<1> DEFINE t == Append(text, c)
           u == Append(s, c)
<1>2. /\ Len(t) = Len(text) + 1 /\ t[Len(text) + 1] = c
      /\ \A i \in 1..Len(text) : t[i] = text[i]
  BY AppendProperties
<1>3. /\ Len(u) = Len(s) + 1 /\ u[Len(s) + 1] = c
      /\ \A i \in 1..Len(s) : u[i] = s[i]
  BY AppendProperties
<1> HIDE DEF t, u
<1>4. ASSUME NEW i \in 1..Len(u) PROVE t[Len(t) - Len(u) + i] = u[i]
  <2>1. CASE i = Len(s) + 1
    BY <1>1, <1>2, <1>3, <2>1
  <2>2. CASE i \in 1..Len(s)
    <3>1. text[Len(text) - Len(s) + i] = s[i]
      BY <2>2 DEF EndsWith
    <3>2. /\ Len(t) - Len(u) + i = Len(text) - Len(s) + i
          /\ Len(text) - Len(s) + i \in 1..Len(text)
      BY <1>1, <1>2, <1>3, <2>2
    <3>3. t[Len(text) - Len(s) + i] = text[Len(text) - Len(s) + i] /\ u[i] = s[i]
      BY <1>2, <1>3, <2>2, <3>2
    <3> QED
      BY <3>1, <3>2, <3>3
  <2> QED
    BY <1>1, <1>3, <2>1, <2>2
<1>5. Len(u) <= Len(t)
  BY <1>1, <1>2, <1>3
<1>6. EndsWith(t, u)
  BY <1>4, <1>5 DEF EndsWith
<1> QED
  BY <1>6 DEF t, u

\* One character less in both.
LEMMA EndsWithShorter ==
    ASSUME NEW S, NEW text \in Seq(S), NEW s \in Seq(S), Len(s) > 0, EndsWith(text, s)
    PROVE  EndsWith(Shorter(text), Shorter(s))
<1>1. Len(text) \in Nat /\ Len(s) \in Nat /\ Len(s) <= Len(text) /\ Len(text) > 0
  BY LenProperties DEF EndsWith
<1> DEFINE t == Shorter(text)
           u == Shorter(s)
<1>2. Len(t) = Len(text) - 1 /\ \A i \in 1..(Len(text) - 1) : t[i] = text[i]
  BY <1>1, ShorterProperties
<1>3. Len(u) = Len(s) - 1 /\ \A i \in 1..(Len(s) - 1) : u[i] = s[i]
  BY <1>1, ShorterProperties
<1> HIDE DEF t, u
<1>4. ASSUME NEW i \in 1..Len(u) PROVE t[Len(t) - Len(u) + i] = u[i]
  <2>1. text[Len(text) - Len(s) + i] = s[i]
    BY <1>1, <1>3 DEF EndsWith
  <2>2. Len(t) - Len(u) + i = Len(text) - Len(s) + i
    BY <1>1, <1>2, <1>3
  <2>3. Len(text) - Len(s) + i \in 1..(Len(text) - 1) /\ i \in 1..(Len(s) - 1)
    BY <1>1, <1>3
  <2> QED
    BY <2>1, <2>2, <2>3, <1>2, <1>3
<1> QED
  BY <1>1, <1>2, <1>3, <1>4 DEF EndsWith, t, u

\* What was appended is at the end.
LEMMA EndsWithConcat ==
    ASSUME NEW S, NEW text \in Seq(S), NEW s \in Seq(S)
    PROVE  EndsWith(text \o s, s)
<1> DEFINE t == text \o s
<1>1. Len(text) \in Nat /\ Len(s) \in Nat
  BY LenProperties
<1>2. /\ Len(t) = Len(text) + Len(s)
      /\ \A i \in 1..(Len(text) + Len(s)) :
            t[i] = IF i <= Len(text) THEN text[i] ELSE s[i - Len(text)]
  BY ConcatProperties
<1> HIDE DEF t
<1>3. ASSUME NEW i \in 1..Len(s) PROVE t[Len(t) - Len(s) + i] = s[i]
  BY <1>1, <1>2, <1>3
<1> QED
  BY <1>1, <1>2, <1>3 DEF EndsWith, t

\* What is left of a text when its end is deleted.
LEMMA DeletedType ==
    ASSUME NEW S, NEW text \in Seq(S), NEW n \in Nat, n <= Len(text)
    PROVE  SubSeq(text, 1, Len(text) - n) \in Seq(S)
<1>1. Len(text) \in Nat /\ Len(text) - n \in Int /\ 1 \in Int
  BY LenProperties
<1>2. \A i \in 1..(Len(text) - n) : text[i] \in S
  BY <1>1, ElementOfSeq
<1> QED
  BY <1>1, <1>2, SubSeqProperties

-----------------------------------------------------------------------------
(* The invariant                                                            *)

\* Between switches the field ends with the token in the layout of the input
\* source.  While a switch waits to be carried out it still ends with the text
\* that is to be deleted, and a token that goes on has a replacement.
ScreenInv ==
    /\ document \in Seq(FieldChar)
    /\ os_layout \in Layout
    /\ switching \in BOOLEAN
    /\ ~switching => /\ layout = os_layout
                     /\ EndsWith(document, Rendered(token)[layout])
    /\ switching => /\ output.action = SwitchFutureLayout(layout)
                    /\ token # <<>> => pending # NoReplacement
                    /\ pending # NoReplacement =>
                          EndsWith(document, pending.inverse_text)

HostInv == FfiInv /\ ScreenInv

\* The rendering of a token is a text a field may hold.
LEMMA RenderedInField ==
    ASSUME NEW t \in Seq(LetterEvent), NEW l \in Layout
    PROVE  Rendered(t)[l] \in Seq(FieldChar)
  BY RenderedType, SeqMonotonic DEF FieldChar

\* A call that drops the token and switches nothing: whatever the key did to
\* the field, the field ends with the empty token.
LEMMA NothingToShow ==
    ASSUME ScreenInv, ~switching, document' \in Seq(FieldChar), switching' = MustSwitch,
           token' = <<>>, layout' = layout, os_layout' = os_layout,
           output'.action \in {NoAction, ResetTokenAction}
    PROVE  ScreenInv'
<1>1. output'.action.tag # "SwitchFutureLayout"
  BY DEF NoAction, ResetTokenAction
<1>2. switching' = FALSE
  BY <1>1, Zenon DEF MustSwitch
<1>3. Rendered(token')[layout'] = <<>>
  BY RenderedEmpty DEF ScreenInv, NoText
<1>4. EndsWith(document', Rendered(token')[layout'])
  BY <1>3, EndsWithNothing
<1>5. (EndsWith(document, Rendered(token)[layout]))'
  BY <1>4 DEF EndsWith, Rendered
<1> QED
  BY <1>2, <1>5 DEF ScreenInv

\* The calls that drop the token.
LEMMA DroppedTokenFields ==
    ASSUME \/ \E d \in {"Keep", "Bypass"} : Discard(d)
           \/ LetterOverLimit
           \/ ResetLayout(layout)
    PROVE  /\ token' = <<>> /\ layout' = layout
           /\ output'.action \in {NoAction, ResetTokenAction}
  BY DEF Discard, LetterOverLimit, ResetLayout, ClearToken, Observed, ResetAction, NoOutput

\* A call that leaves a token, in a field that ends with that token: either
\* nothing is switched, or what is to be deleted is at the end of the field.
LEMMA TokenToShow ==
    ASSUME HostInv, IInv', ~switching,
           document' \in Seq(FieldChar), switching' = MustSwitch, os_layout' = os_layout,
           EndsWith(document', Rendered(token')[layout]),
           pending' = PendingAfterObserve, token' # <<>>, output'.returned,
           \/ output'.action = SwitchAction(layout, layout')
           \/ output'.action = NoAction /\ layout' = layout
    PROVE  ScreenInv'
<1>1. CASE output'.action = NoAction
  <2>1. switching' = FALSE
    <3>1. output'.action.tag # "SwitchFutureLayout"
      BY <1>1 DEF NoAction
    <3> QED
      BY <3>1, Zenon DEF MustSwitch
  <2>2. layout' = layout
    BY <1>1 DEF SwitchAction, NoAction, SwitchFutureLayout
  <2>3. (EndsWith(document, Rendered(token)[layout]))'
    BY <2>2 DEF EndsWith, Rendered
  <2> QED
    BY <2>1, <2>2, <2>3 DEF HostInv, ScreenInv
<1>2. CASE output'.action # NoAction
  <2>1. /\ pending' # NoReplacement
        /\ layout' # layout
        /\ output'.action = SwitchFutureLayout(layout')
        /\ PendingIsTheLastSwitch'
    BY <1>2, ObservedSwitchPends
  <2>2. switching' = TRUE
    <3>1. output'.action.tag = "SwitchFutureLayout"
      BY <2>1 DEF SwitchFutureLayout
    <3> QED
      BY <3>1, Zenon DEF MustSwitch
  <2>3. Opposite(layout') = layout
    BY <2>1 DEF HostInv, ScreenInv, IInv, TypeOK, Opposite, Layout
  <2>4. pending'.inverse_text = Rendered(token')[layout]
    BY <2>1, <2>3 DEF PendingIsTheLastSwitch, Rendered
  <2>5. (EndsWith(document, pending.inverse_text))'
    BY <2>4 DEF EndsWith
  <2> QED
    BY <2>1, <2>2, <2>5 DEF HostInv, ScreenInv
<1> QED
  BY <1>1, <1>2

-----------------------------------------------------------------------------
(* The keys                                                                 *)

\* A letter that joins the token joins the text before the caret.
LEMMA LetterAppendedShows ==
    ASSUME HostInv, IInv', ~switching, NEW e \in LetterEvent, LetterAppended(e),
           document' = Append(document, Render(e, os_layout)),
           switching' = MustSwitch, os_layout' = os_layout,
           pending' = PendingAfterObserve
    PROVE  ScreenInv'
<1>1. /\ token \in Seq(LetterEvent) /\ layout \in Layout /\ os_layout = layout
      /\ document \in Seq(FieldChar) /\ Render(e, layout) \in Char
      /\ EndsWith(document, Rendered(token)[layout])
  BY RenderAssumption DEF HostInv, FfiInv, IInv, TypeOK, ScreenInv
<1>2. document' \in Seq(FieldChar)
  BY <1>1, AppendProperties DEF FieldChar
<1>3. CASE Discard("Keep")
  BY <1>2, <1>3, DroppedTokenFields, NothingToShow DEF HostInv
<1>4. CASE ~Discard("Keep")
  <2>1. /\ token' = Append(token, e)
        /\ output'.returned
        /\ output'.action = SwitchAction(layout, layout')
    BY <1>4 DEF LetterAppended, Observed
  <2>2. token' # <<>>
    BY <1>1, <2>1, AppendProperties
  <2>3. Rendered(token')[layout] = Append(Rendered(token)[layout], Render(e, layout))
    BY <1>1, <2>1, RenderedAppend DEF PushCandidateChars
  <2>4. EndsWith(document', Rendered(token')[layout])
    BY <1>1, <2>3, RenderedInField, EndsWithAppend DEF FieldChar
  <2> QED
    BY <1>2, <2>1, <2>2, <2>4, TokenToShow
<1> QED
  BY <1>3, <1>4

\* A backspace takes one character off both.
LEMMA BackspaceShortensShows ==
    ASSUME HostInv, IInv', ~switching, BackspaceShortens,
           document' = IF document = <<>> THEN <<>> ELSE Shorter(document),
           switching' = MustSwitch, os_layout' = os_layout,
           pending' = PendingAfterObserve
    PROVE  ScreenInv'
<1>1. /\ token \in Seq(LetterEvent) /\ Len(token) > 1 /\ layout \in Layout
      /\ document \in Seq(FieldChar)
      /\ EndsWith(document, Rendered(token)[layout])
  BY DEF HostInv, FfiInv, IInv, TypeOK, ScreenInv, BackspaceShortens
<1>2. Len(Rendered(token)[layout]) = Len(token) /\ Len(token) \in Nat /\ Len(document) \in Nat
  BY <1>1, RenderedType, LenProperties
<1>3. Len(document) > 0 /\ document # <<>>
  BY <1>1, <1>2, EmptySeq DEF EndsWith
<1>4. document' = Shorter(document) /\ document' \in Seq(FieldChar)
  BY <1>1, <1>3, ShorterProperties
<1>5. Rendered(Shorter(token))[layout] = Shorter(Rendered(token)[layout])
  BY <1>1, <1>2, RenderedShorter DEF PopCandidateChars
<1>6. token' = Shorter(token) /\ output'.returned
      /\ \/ output'.action = SwitchAction(layout, layout')
         \/ output'.action = NoAction /\ layout' = layout
  BY DEF BackspaceShortens, Observed
<1>7. token' # <<>>
  BY <1>1, <1>2, <1>6, ShorterProperties, EmptySeq
<1>8. EndsWith(document', Rendered(token')[layout])
  BY <1>1, <1>2, <1>4, <1>5, <1>6, RenderedInField, EndsWithShorter
<1> QED
  BY <1>4, <1>6, <1>7, <1>8, TokenToShow

\* A key that the engine ignores finds no token.
LEMMA IgnoredShows ==
    ASSUME HostInv, ~switching, Ignore("Bypass"), bypass_until_boundary \/ token = <<>>,
           document' \in Seq(FieldChar), switching' = MustSwitch, os_layout' = os_layout
    PROVE  ScreenInv'
<1>1. token' = <<>> /\ layout' = layout
  BY DEF Ignore, tokenVars, HostInv, FfiInv, IInv, Shape
<1>2. output'.action = NoAction
  BY DEF Ignore, Observed
<1> QED
  BY <1>1, <1>2, NothingToShow DEF HostInv

LEMMA TypeLetterShows ==
    ASSUME HostInv, IInv', NEW e \in LetterEvent, TypeLetter(e)
    PROVE  ScreenInv'
<1>1. /\ ~switching /\ switching' = MustSwitch /\ os_layout' = os_layout
      /\ document' = Append(document, Render(e, os_layout))
  BY DEF TypeLetter, ProcessKey
<1>2. document' \in Seq(FieldChar)
  BY <1>1, AppendProperties, RenderAssumption DEF FieldChar, HostInv, ScreenInv
<1>3. CASE BypassesEngine(host_context)
  <2>1. ResetLayout(layout)
    BY <1>3 DEF TypeLetter, ProcessKey, TypeclawResetToken, ResetToken
  <2> QED
    BY <1>1, <1>2, <2>1, DroppedTokenFields, NothingToShow DEF HostInv
<1>4. CASE ~BypassesEngine(host_context)
  <2>1. TypeclawObserve(Event("Letter", FALSE), e)
    BY <1>4 DEF TypeLetter, ProcessKey
  <2>2. Decoded(Event("Letter", FALSE)) = "Letter"
    BY DEF Decoded, Event
  <2>3. StepLetter(e) /\ pending' = PendingAfterObserve
    BY <1>4, <2>1, <2>2 DEF TypeclawObserve, ObserveLetter, ObserveBypassed
  <2>4. CASE LetterWhileBypassing(e)
    <3>1. \/ Discard("Bypass")
          \/ Ignore("Bypass") /\ bypass_until_boundary
      BY <2>4 DEF LetterWhileBypassing
    <3> QED
      BY <1>1, <1>2, <3>1, DroppedTokenFields, NothingToShow, IgnoredShows DEF HostInv
  <2>5. CASE LetterOverLimit
    BY <1>1, <1>2, <2>5, DroppedTokenFields, NothingToShow DEF HostInv
  <2>6. CASE LetterAppended(e)
    BY <1>1, <2>3, <2>6, LetterAppendedShows
  <2> QED
    BY <2>3, <2>4, <2>5, <2>6 DEF StepLetter
<1> QED
  BY <1>3, <1>4

LEMMA PressBackspaceShows ==
    ASSUME HostInv, IInv', PressBackspace
    PROVE  ScreenInv'
<1>1. /\ ~switching /\ switching' = MustSwitch /\ os_layout' = os_layout
      /\ document' = IF document = <<>> THEN <<>> ELSE Shorter(document)
  BY DEF PressBackspace, ProcessKey
<1>2. document' \in Seq(FieldChar)
  <2>1. document \in Seq(FieldChar)
    BY DEF HostInv, ScreenInv
  <2> QED
    BY <1>1, <2>1, EmptySeq, ShorterProperties
<1>3. CASE BypassesEngine(host_context)
  <2>1. ResetLayout(layout)
    BY <1>3 DEF PressBackspace, ProcessKey, TypeclawResetToken, ResetToken
  <2> QED
    BY <1>1, <1>2, <2>1, DroppedTokenFields, NothingToShow DEF HostInv
<1>4. CASE ~BypassesEngine(host_context)
  <2>1. PICK e \in LetterEvent : TypeclawObserve(Event("Backspace", FALSE), e)
    BY <1>4 DEF PressBackspace, ProcessKey
  <2>2. Decoded(Event("Backspace", FALSE)) = "Backspace"
    BY DEF Decoded, Event
  <2>3. StepBackspace /\ pending' = PendingAfterObserve
    BY <1>4, <2>1, <2>2 DEF TypeclawObserve, ObserveBackspace, ObserveBypassed
  <2>4. CASE BackspaceIgnored
    BY <1>1, <1>2, <2>4, IgnoredShows DEF BackspaceIgnored
  <2>5. CASE BackspaceToEmpty
    BY <1>1, <1>2, <2>5, DroppedTokenFields, NothingToShow DEF BackspaceToEmpty, HostInv
  <2>6. CASE BackspaceShortens
    BY <1>1, <2>3, <2>6, BackspaceShortensShows
  <2> QED
    BY <2>3, <2>4, <2>5, <2>6 DEF StepBackspace
<1> QED
  BY <1>3, <1>4

\* The ends of a token and chords, which may erase the field.
LEMMA TokenEndsShows ==
    ASSUME HostInv, TypeOther \/ PressChord
    PROVE  ScreenInv'
<1>1. ~switching /\ switching' = MustSwitch /\ os_layout' = os_layout
  BY DEF TypeOther, PressChord, ProcessKey
<1>2. document \in Seq(FieldChar) /\ Other \in FieldChar
  BY DEF HostInv, ScreenInv, FieldChar
<1>3. document' \in Seq(FieldChar)
  <2>1. Append(document, Other) \in Seq(FieldChar)
    BY <1>2, AppendProperties
  <2>2. document' \in {Append(document, Other), document, <<>>}
    BY DEF TypeOther, PressChord
  <2> QED
    BY <1>2, <2>1, <2>2, EmptySeq
<1>4. \/ ResetLayout(layout)
      \/ \E d \in {"Keep", "Bypass"} : Discard(d)
  <2>1. /\ Decoded(Event("EndToken", FALSE)) = "EndToken"
        /\ Decoded(Event("Letter", TRUE)) = "HostBypass"
    BY DEF Decoded, Event
  <2>2. ASSUME NEW e \in LetterEvent, TypeclawObserve(Event("EndToken", FALSE), e)
        PROVE  \E d \in {"Keep", "Bypass"} : Discard(d)
    BY <2>1, <2>2 DEF TypeclawObserve, ObserveBoundary, ObserveBypassed
  <2>3. ASSUME NEW e \in LetterEvent, TypeclawObserve(Event("Letter", TRUE), e)
        PROVE  \E d \in {"Keep", "Bypass"} : Discard(d)
    BY <2>1, <2>3 DEF TypeclawObserve, ObserveHostBypass
  <2> QED
    BY <2>2, <2>3 DEF TypeOther, PressChord, ProcessKey, TypeclawResetToken, ResetToken
<1> QED
  BY <1>1, <1>3, <1>4, DroppedTokenFields, NothingToShow DEF HostInv

-----------------------------------------------------------------------------
(* Switches                                                                 *)

\* The snapshot of a forced switch is the text before the caret.
LEMMA TapOptionShows ==
    ASSUME HostInv, TapOption
    PROVE  ScreenInv'
<1>1. /\ ~switching /\ switching' = MustSwitch /\ os_layout' = os_layout
      /\ document' = document /\ ~BypassesEngine(host_context)
      /\ ForceSwitchLayout /\ pending' = PendingAfterForce
  BY DEF TapOption, TypeclawForceSwitchLayout
<1>2. /\ token' = <<>> /\ layout' = Opposite(layout)
      /\ output' = Observed(SwitchFutureLayout(Opposite(layout)), Opposite(layout))
      /\ token = <<>> => pending' = NoReplacement
  BY <1>1, ForcedSwitchPends DEF HostInv, FfiInv
<1>3. /\ output'.action = SwitchFutureLayout(layout')
      /\ output'.action.tag = "SwitchFutureLayout"
  BY <1>2 DEF Observed, SwitchFutureLayout
<1>4. pending' = CaptureReplacement(Opposite(layout), token, Rendered(token))
  BY <1>1, <1>3 DEF PendingAfterForce, HostInv, FfiInv, IInv, CopiesAgree
<1>5. /\ token \in Seq(LetterEvent) /\ Len(token) <= MaxTokenLen
      /\ Opposite(layout) \in Layout /\ Opposite(Opposite(layout)) = layout
  BY DEF HostInv, FfiInv, IInv, TypeOK, Opposite, Layout
<1>6. pending' # NoReplacement => pending'.inverse_text = Rendered(token)[layout]
  BY <1>2, <1>4, <1>5, CaptureIsTheToken
<1>7. (pending # NoReplacement => EndsWith(document, pending.inverse_text))'
  BY <1>1, <1>6 DEF HostInv, ScreenInv, EndsWith
<1> QED
  BY <1>1, <1>2, <1>3, <1>7 DEF HostInv, ScreenInv, MustSwitch

\* A replacement deletes the text that is to be replaced, and a token that goes
\* on is what was typed instead.
LEMMA CarryOutSwitchShows ==
    ASSUME HostInv, CarryOutSwitch
    PROVE  ScreenInv'
<1>1. /\ switching /\ switching' = FALSE /\ os_layout' = output.action.layout
      /\ token' = token /\ layout' = layout
      /\ document' = IF pending = NoReplacement THEN document
                     ELSE SubSeq(document, 1, Len(document) - pending.delete_count)
                              \o pending.text
  BY DEF CarryOutSwitch, TypeclawTakePendingReplacement, vars, tokenVars
<1>2. /\ token \in Seq(LetterEvent) /\ layout \in Layout /\ document \in Seq(FieldChar)
      /\ output.action = SwitchFutureLayout(layout)
  BY <1>1 DEF HostInv, FfiInv, IInv, TypeOK, ScreenInv
<1>3. os_layout' = layout
  BY <1>1, <1>2 DEF SwitchFutureLayout
<1>4. Rendered(token)[layout] \in Seq(FieldChar)
  BY <1>2, RenderedInField
<1>5. document' \in Seq(FieldChar) /\ EndsWith(document', Rendered(token)[layout])
  <2>1. CASE token = <<>>
    <3>1. Rendered(token)[layout] = <<>>
      BY <1>2, <2>1, RenderedEmpty DEF NoText
    <3>2. document' \in Seq(FieldChar)
      <4>1. CASE pending = NoReplacement
        BY <1>1, <1>2, <4>1
      <4>2. CASE pending # NoReplacement
        <5>1. /\ pending.delete_count \in Nat /\ pending.text \in Seq(Char)
              /\ pending.delete_count <= Len(document)
          BY <1>1, <4>2, ConfigAssumption DEF HostInv, FfiInv, PendingInv,
             PendingReplacement, PendingIsTheLastSwitch, ScreenInv, EndsWith
        <5>2. pending.text \in Seq(FieldChar)
          BY <5>1, SeqMonotonic DEF FieldChar
        <5>3. SubSeq(document, 1, Len(document) - pending.delete_count) \in Seq(FieldChar)
          BY <1>2, <5>1, DeletedType
        <5> QED
          BY <1>1, <4>2, <5>2, <5>3, ConcatProperties
      <4> QED
        BY <4>1, <4>2
    <3> QED
      BY <3>1, <3>2, EndsWithNothing
  <2>2. CASE token # <<>>
    <3>1. /\ pending # NoReplacement
          /\ pending.delete_count \in Nat
          /\ pending.delete_count <= Len(document)
          /\ pending.text = Rendered(token)[layout]
      BY <1>1, <2>2, ConfigAssumption DEF HostInv, FfiInv, PendingInv,
         PendingReplacement, PendingIsTheLastSwitch, ScreenInv, EndsWith
    <3>2. SubSeq(document, 1, Len(document) - pending.delete_count) \in Seq(FieldChar)
      BY <1>2, <3>1, DeletedType
    <3> QED
      BY <1>1, <1>4, <3>1, <3>2, ConcatProperties, EndsWithConcat
  <2> QED
    BY <2>1, <2>2
<1>6. (EndsWith(document, Rendered(token)[layout]))'
  BY <1>1, <1>5 DEF EndsWith, Rendered
<1> QED
  BY <1>1, <1>2, <1>3, <1>5, <1>6 DEF ScreenInv

\* A focus change empties the field the model looks at, and the token with it;
\* another input source resets the engine to it.
LEMMA OthersShow ==
    ASSUME HostInv, \/ \E c \in HostContext : ChangeFocus(c)
                    \/ UserSelectsInputSource
    PROVE  ScreenInv'
<1>1. /\ ~switching /\ switching' = switching /\ token' = <<>>
      /\ layout' = os_layout' /\ os_layout' \in Layout
      /\ document' \in {<<>>, document}
  BY DEF ChangeFocus, TypeclawSetHostContext, SetHostContext, UserSelectsInputSource,
         TypeclawResetLayout, ResetLayout, ClearToken, HostInv, ScreenInv, Opposite, Layout
<1>2. document' \in Seq(FieldChar)
  BY <1>1, EmptySeq DEF HostInv, ScreenInv
<1>3. Rendered(token')[layout'] = <<>>
  BY <1>1, RenderedEmpty DEF NoText
<1>4. EndsWith(document', Rendered(token')[layout'])
  BY <1>2, <1>3, EndsWithNothing
<1>5. (EndsWith(document, Rendered(token)[layout]))'
  BY <1>4 DEF EndsWith, Rendered
<1>6. switching' = FALSE
  BY <1>1 DEF HostInv, ScreenInv
<1> QED
  BY <1>1, <1>2, <1>5, <1>6 DEF ScreenInv

-----------------------------------------------------------------------------
(* Theorems                                                                 *)

\* Every step of the host is a call of the ABI, or none.
LEMMA HostCallsTheAbi ==
    ASSUME [HostNext]_hostVars
    PROVE  [FfiNext]_ffiVars
<1>1. ASSUME NEW tag \in {"Letter", "Backspace", "EndToken"}, NEW modifier \in BOOLEAN
      PROVE  Event(tag, modifier) \in TcEvent
  BY DEF Event, TcEvent
<1>2. ASSUME NEW observe, ProcessKey(observe), observe => FfiNext
      PROVE  FfiNext
  BY <1>2 DEF ProcessKey, FfiNext
<1>3. CASE \E e \in LetterEvent : TypeLetter(e)
  BY <1>1, <1>3, Zenon DEF TypeLetter, ProcessKey, FfiNext
<1>4. CASE TypeOther
  BY <1>1, <1>4, Zenon DEF TypeOther, ProcessKey, FfiNext
<1>5. CASE PressBackspace
  BY <1>1, <1>5, Zenon DEF PressBackspace, ProcessKey, FfiNext
<1>6. CASE PressChord
  BY <1>1, <1>6, Zenon DEF PressChord, ProcessKey, FfiNext
<1>7. CASE TapOption \/ CarryOutSwitch
  BY <1>7 DEF TapOption, CarryOutSwitch, FfiNext
<1>8. CASE \E c \in HostContext : ChangeFocus(c)
  BY <1>8 DEF ChangeFocus, FfiNext
<1>9. CASE UserSelectsInputSource
  <2>1. TypeclawResetLayout(os_layout') /\ os_layout' \in Layout
    BY <1>9 DEF UserSelectsInputSource, Opposite, Layout
  <2> QED
    BY <2>1 DEF FfiNext
<1>10. CASE UNCHANGED hostVars
  BY <1>10 DEF hostVars
<1> QED
  BY <1>3, <1>4, <1>5, <1>6, <1>7, <1>8, <1>9, <1>10 DEF HostNext

LEMMA HostInvStep == HostInv /\ [HostNext]_hostVars => HostInv'
<1> SUFFICES ASSUME HostInv, [HostNext]_hostVars PROVE HostInv'
  OBVIOUS
<1>1. FfiInv' /\ IInv'
  BY HostCallsTheAbi, FfiInvStep, FfiKeepsEngineInv DEF HostInv, FfiInv
<1>2. CASE UNCHANGED hostVars
  <2>1. /\ UNCHANGED <<token, layout, output, pending>>
        /\ UNCHANGED <<document, os_layout, switching>>
    BY <1>2 DEF hostVars, ffiVars, vars, tokenVars
  <2> QED
    BY <1>1, <2>1 DEF HostInv, ScreenInv, EndsWith, Rendered
<1>3. ASSUME HostNext PROVE ScreenInv'
  <2>1. CASE \E e \in LetterEvent : TypeLetter(e)
    BY <1>1, <2>1, TypeLetterShows
  <2>2. CASE PressBackspace
    BY <1>1, <2>2, PressBackspaceShows
  <2>3. CASE TypeOther \/ PressChord
    BY <2>3, TokenEndsShows
  <2>4. CASE TapOption
    BY <2>4, TapOptionShows
  <2>5. CASE CarryOutSwitch
    BY <2>5, CarryOutSwitchShows
  <2>6. CASE \/ \E c \in HostContext : ChangeFocus(c)
             \/ UserSelectsInputSource
    BY <2>6, OthersShow
  <2> QED
    BY <1>1, <1>3, <2>1, <2>2, <2>3, <2>4, <2>5, <2>6 DEF HostNext
<1> QED
  BY <1>1, <1>2, <1>3 DEF HostInv

LEMMA HostInvInit == HostInit => HostInv
<1> SUFFICES ASSUME HostInit PROVE HostInv
  OBVIOUS
<1>1. Rendered(token)[layout] = <<>> /\ layout \in Layout
  BY RenderedEmpty DEF HostInit, FfiInit, Init, NoText, Layout
<1>2. document \in Seq(FieldChar)
  BY EmptySeq DEF HostInit
<1> QED
  BY <1>1, <1>2, FfiInvInit, EndsWithNothing DEF HostInit, FfiInit, Init, HostInv, ScreenInv

\* The invariant of a host that keeps up.
THEOREM HostInvariance == HostSpec => []HostInv
  BY HostInvInit, HostInvStep, PTL DEF HostSpec

\* Every state of a host that keeps up is type-correct, however long its field.
THEOREM HostTypeCorrect == HostSpec => []HostTypeOK
<1>1. HostInv => HostTypeOK
  BY DEF HostInv, FfiInv, IInv, PendingInv, FfiTypeOK, ScreenInv, HostTypeOK, FieldChar
<1> QED
  BY <1>1, HostInvariance, PTL

\* Between switches the text before the caret is the engine's token in the
\* layout of the input source (processKey, applyObservation).
THEOREM ScreenAlwaysShowsToken == HostSpec => []ScreenShowsToken
<1>1. ASSUME HostInv, ~switching
      PROVE  /\ layout = os_layout
             /\ Len(token) <= Len(document)
             /\ LastOf(document, Len(token)) = candidates[layout]
  <2>1. /\ token \in Seq(LetterEvent) /\ layout \in Layout
        /\ document \in Seq(FieldChar)
        /\ candidates = Rendered(token)
        /\ layout = os_layout
        /\ EndsWith(document, Rendered(token)[layout])
    BY <1>1 DEF HostInv, FfiInv, IInv, TypeOK, CopiesAgree, ScreenInv
  <2>2. /\ Rendered(token)[layout] \in Seq(FieldChar)
        /\ Len(Rendered(token)[layout]) = Len(token)
    BY <2>1, RenderedInField, RenderedType
  <2>3. LastOf(document, Len(Rendered(token)[layout])) = Rendered(token)[layout]
    BY <2>1, <2>2, EndsWithIsLastOf
  <2> QED
    BY <2>1, <2>2, <2>3 DEF EndsWith
<1>2. HostInv => ScreenShowsToken
  BY <1>1 DEF ScreenShowsToken
<1> QED
  BY <1>2, HostInvariance, PTL

\* What a host deletes is the text the ABI says is there, no character more
\* and no other (capture_replacement, completeInputSourceSelection).
THEOREM ReplacementsDeleteTheirInverse == HostSpec => []ReplacementDeletesItsInverse
<1>1. ASSUME HostInv, switching, pending # NoReplacement
      PROVE  /\ pending.delete_count <= Len(document)
             /\ LastOf(document, pending.delete_count) = pending.inverse_text
  <2>1. /\ document \in Seq(FieldChar)
        /\ pending.inverse_text \in Seq(Char)
        /\ Len(pending.inverse_text) = pending.delete_count
        /\ EndsWith(document, pending.inverse_text)
    BY <1>1 DEF HostInv, FfiInv, PendingInv, PendingReplacement, PendingIsTheLastSwitch,
                ScreenInv
  <2>2. pending.inverse_text \in Seq(FieldChar)
    BY <2>1, SeqMonotonic DEF FieldChar
  <2>3. LastOf(document, Len(pending.inverse_text)) = pending.inverse_text
    BY <2>1, <2>2, EndsWithIsLastOf
  <2> QED
    BY <2>1, <2>3 DEF EndsWith
<1>2. HostInv => ReplacementDeletesItsInverse
  BY <1>1 DEF ReplacementDeletesItsInverse
<1> QED
  BY <1>2, HostInvariance, PTL

=============================================================================
