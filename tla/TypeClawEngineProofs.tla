----------------------- MODULE TypeClawEngineProofs -----------------------
(***************************************************************************)
(* What TypeClawEngine's runs check on a small keyboard, for every          *)
(* keyboard, every two languages, every scoring and every configuration.    *)
(***************************************************************************)
EXTENDS TypeClawEngine, SequenceTheorems, TLAPS

-----------------------------------------------------------------------------
(* Sequences                                                                *)

\* Dropping the last element keeps the others.
LEMMA ShorterProperties ==
    ASSUME NEW S, NEW s \in Seq(S), Len(s) > 0
    PROVE  /\ Shorter(s) \in Seq(S)
           /\ Len(Shorter(s)) = Len(s) - 1
           /\ \A i \in 1..(Len(s) - 1) : Shorter(s)[i] = s[i]
<1>1. Len(s) \in Nat \ {0} /\ \A i \in 1..(Len(s) - 1) : s[i] \in S
  BY LenProperties, ElementOfSeq
<1>2. Len(s) - 1 \in Int /\ 1 \in Int
  BY <1>1
<1>. DEFINE t == SubSeq(s, 1, Len(s) - 1)
<1>3. /\ t \in Seq(S)
      /\ Len(t) = IF 1 <= Len(s) - 1 THEN Len(s) - 1 - 1 + 1 ELSE 0
      /\ \A i \in 1..(Len(s) - 1 - 1 + 1) : t[i] = s[1 + i - 1]
  BY <1>1, <1>2, SubSeqProperties
<1>. HIDE DEF t
<1>4. Shorter(s) = t
  BY DEF t, Shorter
<1>. QED  BY <1>1, <1>3, <1>4

\* A prefix of a token that has grown by a letter.
LEMMA PrefixOfAppend ==
    ASSUME NEW S, NEW s \in Seq(S), NEW x \in S, NEW n \in 0..Len(s)
    PROVE  SubSeq(Append(s, x), 1, n) = SubSeq(s, 1, n)
  OBVIOUS

\* A prefix of a token that has lost a letter.
LEMMA PrefixOfShorter ==
    ASSUME NEW S, NEW s \in Seq(S), Len(s) > 0, NEW n \in 0..(Len(s) - 1)
    PROVE  SubSeq(Shorter(s), 1, n) = SubSeq(s, 1, n)
  BY DEF Shorter

-----------------------------------------------------------------------------
(* Renderings                                                               *)

\* A rendering has the characters of the token's letters, in their order.
LEMMA RenderedType ==
    ASSUME NEW t \in Seq(LetterEvent), NEW l \in Layout
    PROVE  /\ Rendered(t)[l] \in Seq(Char)
           /\ Len(Rendered(t)[l]) = Len(t)
           /\ \A i \in 1..Len(t) : Rendered(t)[l][i] = Render(t[i], l)
<1>. DEFINE r == [i \in 1..Len(t) |-> Render(t[i], l)]
<1>1. Len(t) \in Nat /\ \A i \in 1..Len(t) : Render(t[i], l) \in Char
  BY LenProperties, ElementOfSeq, RenderAssumption
<1>2. r \in [1..Len(t) -> Char]
  BY <1>1
<1>3. r \in Seq(Char)
  BY <1>1, <1>2, SeqDef
<1>4. Len(r) = Len(t)
  BY <1>1, <1>2, <1>3
<1>5. Rendered(t)[l] = r
  BY DEF Rendered
<1>. QED  BY <1>3, <1>4, <1>5

LEMMA RenderedEmpty == Rendered(<<>>) = NoText
<1>1. \A l \in Layout : Rendered(<<>>)[l] = NoText[l]
  <2>1. SUFFICES ASSUME NEW l \in Layout PROVE Rendered(<<>>)[l] = <<>>
    BY DEF NoText
  <2>2. <<>> \in Seq(LetterEvent)
    OBVIOUS
  <2>3. Rendered(<<>>)[l] \in Seq(Char) /\ Len(Rendered(<<>>)[l]) = 0
    BY <2>2, RenderedType, Len(<<>>) = 0
  <2>. QED  BY <2>3, EmptySeq
<1>. QED  BY <1>1 DEF Rendered, NoText

LEMMA RenderedAppend ==
    ASSUME NEW t \in Seq(LetterEvent), NEW e \in LetterEvent
    PROVE  PushCandidateChars(Rendered(t), e) = Rendered(Append(t, e))
<1>. DEFINE u == Append(t, e)
<1>1. /\ u \in Seq(LetterEvent)
      /\ Len(u) = Len(t) + 1
      /\ \A i \in 1..Len(t) : u[i] = t[i]
      /\ u[Len(t) + 1] = e
  BY AppendProperties
<1>. HIDE DEF u
<1>2. ASSUME NEW l \in Layout
      PROVE  Append(Rendered(t)[l], Render(e, l)) = Rendered(u)[l]
  <2>. DEFINE a == Append(Rendered(t)[l], Render(e, l))
  <2>1. Render(e, l) \in Char /\ Len(t) \in Nat
    BY RenderAssumption, LenProperties
  <2>2. /\ a \in Seq(Char)
        /\ Len(a) = Len(t) + 1
        /\ \A i \in 1..Len(t) : a[i] = Render(t[i], l)
        /\ a[Len(t) + 1] = Render(e, l)
    BY <2>1, RenderedType, AppendProperties
  <2>3. /\ Rendered(u)[l] \in Seq(Char)
        /\ Len(Rendered(u)[l]) = Len(t) + 1
        /\ \A i \in 1..(Len(t) + 1) : Rendered(u)[l][i] = Render(u[i], l)
    BY <1>1, RenderedType
  <2>. HIDE DEF a
  <2>4. ASSUME NEW i \in 1..(Len(t) + 1) PROVE a[i] = Rendered(u)[l][i]
    <3>1. CASE i \in 1..Len(t)
      BY <1>1, <2>2, <2>3, <3>1
    <3>2. CASE i = Len(t) + 1
      BY <1>1, <2>2, <2>3, <3>2
    <3>. QED  BY <2>1, <3>1, <3>2
  <2>5. a = Rendered(u)[l]
    BY <2>2, <2>3, <2>4, SeqEqual
  <2>. QED  BY <2>5 DEF a
<1>3. PushCandidateChars(Rendered(t), e)
        = [l \in Layout |-> Append(Rendered(t)[l], Render(e, l))]
  BY DEF PushCandidateChars
<1>4. Rendered(u) = [l \in Layout |-> Rendered(u)[l]]
  BY DEF Rendered
<1>. QED  BY <1>2, <1>3, <1>4 DEF u

LEMMA RenderedShorter ==
    ASSUME NEW t \in Seq(LetterEvent), Len(t) > 0
    PROVE  PopCandidateChars(Rendered(t)) = Rendered(Shorter(t))
<1>. DEFINE u == Shorter(t)
<1>1. /\ u \in Seq(LetterEvent)
      /\ Len(u) = Len(t) - 1
      /\ \A i \in 1..(Len(t) - 1) : u[i] = t[i]
  BY ShorterProperties
<1>. HIDE DEF u
<1>2. Len(t) \in Nat
  BY LenProperties
<1>3. ASSUME NEW l \in Layout
      PROVE  Shorter(Rendered(t)[l]) = Rendered(u)[l]
  <2>. DEFINE a == Shorter(Rendered(t)[l])
  <2>1. /\ Rendered(t)[l] \in Seq(Char)
        /\ Len(Rendered(t)[l]) = Len(t)
        /\ \A i \in 1..Len(t) : Rendered(t)[l][i] = Render(t[i], l)
    BY RenderedType
  <2>2. /\ a \in Seq(Char)
        /\ Len(a) = Len(t) - 1
        /\ \A i \in 1..(Len(t) - 1) : a[i] = Rendered(t)[l][i]
    BY <2>1, ShorterProperties
  <2>3. /\ Rendered(u)[l] \in Seq(Char)
        /\ Len(Rendered(u)[l]) = Len(t) - 1
        /\ \A i \in 1..(Len(t) - 1) : Rendered(u)[l][i] = Render(u[i], l)
    BY <1>1, RenderedType
  <2>. HIDE DEF a
  <2>4. \A i \in 1..(Len(t) - 1) : a[i] = Rendered(u)[l][i]
    BY <1>1, <1>2, <2>1, <2>2, <2>3
  <2>5. a = Rendered(u)[l]
    BY <2>2, <2>3, <2>4, SeqEqual
  <2>. QED  BY <2>5 DEF a
<1>4. Rendered(u) = [l \in Layout |-> Rendered(u)[l]]
  BY DEF Rendered
<1>. QED  BY <1>3, <1>4 DEF u, PopCandidateChars

-----------------------------------------------------------------------------
(* Type correctness                                                         *)

LEMMA NoTextType == NoText \in [Layout -> Seq(Char)]
  BY DEF NoText

LEMMA DecideType == ASSUME NEW t, NEW score PROVE Decide(t, score) \in Decision
  BY DEF Decide, Decision, Layout

LEMMA OutputType ==
    ASSUME NEW a \in ObservationAction, NEW d \in Decision
    PROVE  /\ Observed(a, d) \in [action : ObservationAction,
                                  decision : Decision, returned : BOOLEAN]
           /\ NoOutput \in [action : ObservationAction,
                            decision : Decision, returned : BOOLEAN]
  BY DEF Observed, NoOutput, ObservationAction, Decision

LEMMA ActionType ==
    /\ ResetAction \in ObservationAction
    /\ ResetTokenAction \in ObservationAction
    /\ NoAction \in ObservationAction
    /\ \A l \in Layout : SwitchFutureLayout(l) \in ObservationAction
    /\ \A l, m \in Layout : SwitchAction(l, m) \in ObservationAction
  BY DEF ResetAction, ObservationAction, SwitchAction

LEMMA EmptyTokenType ==
    /\ <<>> \in Seq(LetterEvent)
    /\ Len(<<>>) = 0
    /\ 0 <= MaxTokenLen
  BY ConfigAssumption

\* A cleared token has its type, whatever layout it is cleared to.
LEMMA ClearTokenType ==
    ASSUME NEW l \in Layout, ClearToken(l)
    PROVE  /\ token' \in Seq(LetterEvent) /\ Len(token') <= MaxTokenLen
           /\ candidates' \in [Layout -> Seq(Char)]
           /\ ngrams' \in [Layout -> Seq(Char)]
           /\ layout' \in Layout
           /\ token_start_layout' \in Layout
  BY NoTextType, EmptyTokenType DEF ClearToken

LEMMA DiscardType ==
    ASSUME TypeOK, NEW d \in {"Keep", "Bypass"}, Discard(d)
    PROVE  TypeOK'
<1>1. d \in Decision
  BY DEF Decision
<1>. QED  BY <1>1, ClearTokenType, ActionType, OutputType DEF TypeOK, Discard

LEMMA IgnoreType ==
    ASSUME TypeOK, Ignore("Bypass")
    PROVE  TypeOK'
<1>1. "Bypass" \in Decision
  BY DEF Decision
<1>. QED  BY <1>1, ActionType, OutputType DEF TypeOK, Ignore, tokenVars

LEMMA LetterAppendedType ==
    ASSUME TypeOK, NEW e \in LetterEvent, LetterAppended(e)
    PROVE  TypeOK'
<1>. DEFINE t     == Append(token, e)
            cs    == PushCandidateChars(candidates, e)
            ns    == PushCandidateChars(ngrams, e)
            score == Fresh(cs, ns)
            d     == IF host_context.automatic_switching_disabled
                     THEN "Bypass" ELSE Decide(t, score)
<1>1. CASE ShouldResetOnSeparator(e, score)
  <2>1. Discard("Keep")
    BY <1>1 DEF LetterAppended
  <2>. QED  BY <2>1, DiscardType
<1>2. CASE ~ShouldResetOnSeparator(e, score)
  <2>1. /\ t \in Seq(LetterEvent)
        /\ Len(t) <= MaxTokenLen
    <3>1. t \in Seq(LetterEvent) /\ Len(t) = Len(token) + 1
      BY AppendProperties DEF TypeOK
    <3>2. Len(token) < MaxTokenLen
      BY LenProperties, ConfigAssumption DEF LetterAppended, AtLimit, TypeOK
    <3>. QED  BY <3>1, <3>2, LenProperties, ConfigAssumption DEF TypeOK
  <2>2. ASSUME NEW x \in [Layout -> Seq(Char)]
        PROVE  PushCandidateChars(x, e) \in [Layout -> Seq(Char)]
    BY AppendProperties, RenderAssumption DEF PushCandidateChars
  <2>3. d \in Decision
    BY DecideType DEF Decision
  <2>. HIDE DEF d
  <2>4. layout' \in Layout /\ token_start_layout' \in Layout
    BY <1>2 DEF LetterAppended, TypeOK, d
  <2>5. output' = Observed(SwitchAction(layout, layout'), d)
    BY <1>2 DEF LetterAppended, d
  <2>6. output' \in [action : ObservationAction, decision : Decision,
                     returned : BOOLEAN]
    BY <2>3, <2>4, <2>5, ActionType, OutputType DEF TypeOK
  <2>7. token' = t /\ candidates' = cs /\ ngrams' = ns
        /\ UNCHANGED <<bypass_until_boundary, host_context>>
    BY <1>2 DEF LetterAppended
  <2>. QED  BY <2>1, <2>2, <2>4, <2>6, <2>7 DEF TypeOK
<1>. QED  BY <1>1, <1>2

LEMMA BackspaceShortensType ==
    ASSUME TypeOK, BackspaceShortens
    PROVE  TypeOK'
<1>. DEFINE cs    == PopCandidateChars(candidates)
            ns    == PopCandidateChars(ngrams)
            score == ScoreCurrent(CacheAfterPop, cs, ns)
            d     == Decide(Shorter(token), score)
<1>1. token' \in Seq(LetterEvent) /\ Len(token') <= MaxTokenLen
  BY ShorterProperties, LenProperties, ConfigAssumption DEF BackspaceShortens, TypeOK
<1>2. ASSUME NEW s \in Seq(Char) PROVE Shorter(s) \in Seq(Char)
  <2>1. CASE Len(s) > 0
    BY <2>1, ShorterProperties
  <2>2. CASE ~(Len(s) > 0)
    <3>1. Len(s) = 0
      BY <2>2, LenProperties
    <3>. QED  BY <3>1, SubSeqEmpty DEF Shorter
  <2>. QED  BY <2>1, <2>2
<1>3. candidates' \in [Layout -> Seq(Char)] /\ ngrams' \in [Layout -> Seq(Char)]
  BY <1>2 DEF BackspaceShortens, PopCandidateChars, TypeOK
<1>4. d \in Decision /\ "Bypass" \in Decision
  BY DecideType DEF Decision
<1>. HIDE DEF d
<1>5. layout' \in Layout
  BY DEF BackspaceShortens, TypeOK, LayoutWithoutWinner, d
<1>6. \/ output' = Observed(NoAction, "Bypass")
      \/ output' = Observed(SwitchAction(layout, layout'), d)
  BY DEF BackspaceShortens, d
<1>7. output' \in [action : ObservationAction, decision : Decision,
                   returned : BOOLEAN]
  BY <1>4, <1>5, <1>6, ActionType, OutputType DEF TypeOK
<1>. QED  BY <1>1, <1>3, <1>5, <1>7 DEF BackspaceShortens, TypeOK

LEMMA TypeInit == Init => TypeOK
<1>1. NoOutput \in [action : ObservationAction, decision : Decision,
                    returned : BOOLEAN]
  BY DEF NoOutput, ObservationAction, Decision
<1>2. DefaultContext \in HostContext
  BY DEF DefaultContext, HostContext
<1>. QED  BY <1>1, <1>2, NoTextType, EmptyTokenType DEF Init, TypeOK, Layout

\* Every step of the engine, as the cases the proofs go through: a letter joins
\* the token, or a backspace shortens it, only in a context that does not
\* bypass the engine.
LEMMA StepCases ==
    ASSUME Next
    PROVE  \/ \E d \in {"Keep", "Bypass"} : Discard(d)
           \/ Ignore("Bypass")
           \/ LetterOverLimit
           \/ \E e \in LetterEvent :
                 LetterAppended(e) /\ ~BypassesEngine(host_context)
           \/ BackspaceShortens /\ ~BypassesEngine(host_context)
           \/ ForceSwitchLayout /\ ~BypassesEngine(host_context)
           \/ \E l \in Layout : ResetLayout(l)
           \/ \E c \in HostContext : SetHostContext(c)
           \/ TokenScore
<1>1. CASE \E e \in LetterEvent : ObserveLetter(e)
  BY <1>1 DEF ObserveLetter, ObserveBypassed, StepLetter, LetterWhileBypassing
<1>2. CASE ObserveBackspace
  BY <1>2 DEF ObserveBackspace, ObserveBypassed, StepBackspace, BackspaceIgnored,
              BackspaceToEmpty
<1>3. CASE ObserveBoundary \/ ObserveHostBypass
  BY <1>3 DEF ObserveBoundary, ObserveHostBypass, ObserveBypassed
<1>4. CASE ForceSwitchLayout
  BY <1>4 DEF ForceSwitchLayout
<1>. QED  BY <1>1, <1>2, <1>3, <1>4 DEF Next

LEMMA TypeStep == TypeOK /\ [Next]_vars => TypeOK'
<1>. SUFFICES ASSUME TypeOK, [Next]_vars PROVE TypeOK'
  OBVIOUS
<1>1. ASSUME NEW d \in {"Keep", "Bypass"}, Discard(d) PROVE TypeOK'
  BY <1>1, DiscardType
<1>2. CASE Ignore("Bypass")
  BY <1>2, IgnoreType
<1>3. CASE LetterOverLimit
  <2>1. "Bypass" \in Decision
    BY DEF Decision
  <2>. QED  BY <1>3, <2>1, ClearTokenType, ActionType, OutputType
            DEF LetterOverLimit, TypeOK
<1>4. ASSUME NEW e \in LetterEvent, LetterAppended(e) PROVE TypeOK'
  BY <1>4, LetterAppendedType
<1>5. CASE BackspaceShortens
  BY <1>5, BackspaceShortensType
<1>6. CASE ForceSwitchLayout /\ ~BypassesEngine(host_context)
  <2>1. Opposite(layout) \in Layout /\ Opposite(layout) \in Decision
    BY DEF Opposite, Layout, Decision
  <2>2. /\ ClearToken(Opposite(layout))
        /\ output' = Observed(SwitchFutureLayout(Opposite(layout)), Opposite(layout))
        /\ bypass_until_boundary' = FALSE
        /\ UNCHANGED host_context
    BY <1>6, Zenon DEF ForceSwitchLayout
  <2>. QED  BY <2>1, <2>2, ClearTokenType, ActionType, OutputType DEF TypeOK
<1>7. ASSUME NEW l \in Layout, ResetLayout(l) PROVE TypeOK'
  BY <1>7, ClearTokenType, ActionType, OutputType DEF ResetLayout, TypeOK, Decision
<1>8. ASSUME NEW c \in HostContext, SetHostContext(c) PROVE TypeOK'
  <2>1. NoOutput \in [action : ObservationAction, decision : Decision,
                      returned : BOOLEAN]
    BY DEF NoOutput, ObservationAction, Decision
  <2>. QED  BY <1>8, <2>1, ClearTokenType DEF SetHostContext, TypeOK, tokenVars
<1>9. CASE TokenScore
  <2>1. NoOutput \in [action : ObservationAction, decision : Decision,
                      returned : BOOLEAN]
    BY DEF NoOutput, ObservationAction, Decision
  <2>. QED  BY <1>9, <2>1 DEF TokenScore, TypeOK, tokenVars
<1>10. CASE UNCHANGED vars
  BY <1>10 DEF vars, TypeOK
<1>. QED  BY <1>1, <1>2, <1>3, <1>4, <1>5, <1>6, <1>7, <1>8, <1>9, <1>10, StepCases

\* The token is a sequence of letter events no longer than max_token_len, and
\* everything else has its type, for every keyboard and scoring.
THEOREM TypeCorrect == Spec => []TypeOK
  BY TypeInit, TypeStep, PTL DEF Spec

-----------------------------------------------------------------------------
(* The inductive invariant                                                  *)

\* What ties the token to the flags and layouts around it: it is empty while
\* the engine is bypassed or ignores an over-long run, and an empty token has
\* the current layout for its start.
Shape ==
    /\ bypass_until_boundary => token = <<>>
    /\ BypassesEngine(host_context) => token = <<>>
    /\ token = <<>> => token_start_layout = layout

\* The inductive invariant.  SwitchIsEarned needs CopiesAgree: the decision is
\* taken from the cached score.
IInv ==
    /\ TypeOK
    /\ CopiesAgree
    /\ Shape
    /\ SwitchingDisabledKeepsLayout
    /\ SwitchIsEarned

\* A state whose token is empty, as every reset leaves it.
LEMMA EmptyTokenInv ==
    ASSUME TypeOK,
           token = <<>>, candidates = NoText, ngrams = NoText,
           score_cache \in {NoScore, Fresh(NoText, NoText)},
           token_start_layout = layout
    PROVE  IInv
<1>1. CopiesAgree
  BY RenderedEmpty DEF CopiesAgree
<1>. QED  BY <1>1 DEF IInv, Shape, SwitchingDisabledKeepsLayout, SwitchIsEarned

LEMMA ClearTokenInv ==
    ASSUME TypeOK', NEW l \in Layout, ClearToken(l),
           score_cache' \in {NoScore, Fresh(NoText, NoText)}
    PROVE  IInv'
<1>1. /\ token' = <<>>
      /\ candidates' = NoText
      /\ ngrams' = NoText
      /\ layout' = token_start_layout'
  BY DEF ClearToken
<1>2. CopiesAgree'
  BY <1>1, RenderedEmpty DEF CopiesAgree
<1>3. Shape' /\ SwitchingDisabledKeepsLayout' /\ SwitchIsEarned'
  BY <1>1 DEF Shape, SwitchingDisabledKeepsLayout, SwitchIsEarned
<1>. QED  BY <1>2, <1>3 DEF IInv

\* A decision for a layout is one that a long enough token has won.
LEMMA DecisionIsEarned ==
    ASSUME NEW t \in Seq(LetterEvent), NEW l \in Layout, DecisionFor(t) = l
    PROVE  \E n \in MinTokenLen..Len(t) : DecisionFor(SubSeq(t, 1, n)) = l
<1>1. Len(t) \in Nat /\ SubSeq(t, 1, Len(t)) = t
  BY LenProperties, SubSeqFull
<1>2. Len(t) >= MinTokenLen
  <2>. SUFFICES ASSUME Len(t) < MinTokenLen PROVE FALSE
    BY <1>1, ConfigAssumption
  <2>1. DecisionFor(t) = "Keep"
    BY DEF DecisionFor, Decide
  <2>. QED  BY <2>1 DEF Layout
<1>3. Len(t) \in MinTokenLen..Len(t)
  BY <1>1, <1>2, ConfigAssumption
<1>. QED  BY <1>1, <1>3

LEMMA LetterAppendedInv ==
    ASSUME IInv, TypeOK', NEW e \in LetterEvent, LetterAppended(e),
           ~BypassesEngine(host_context)
    PROVE  IInv'
<1>. DEFINE t     == Append(token, e)
            cs    == PushCandidateChars(candidates, e)
            ns    == PushCandidateChars(ngrams, e)
            score == Fresh(cs, ns)
            d     == IF host_context.automatic_switching_disabled
                     THEN "Bypass" ELSE Decide(t, score)
<1>1. CASE ShouldResetOnSeparator(e, score)
  <2>1. Discard("Keep")
    BY <1>1 DEF LetterAppended
  <2>2. layout \in Layout
    BY DEF IInv, TypeOK
  <2>. QED  BY <2>1, <2>2, ClearTokenInv DEF Discard
<1>2. CASE ~ShouldResetOnSeparator(e, score)
  <2>1. /\ t \in Seq(LetterEvent)
        /\ t # <<>>
        /\ Len(t) = Len(token) + 1
    <3>1. token \in Seq(LetterEvent)
      BY DEF IInv, TypeOK
    <3>. QED  BY <3>1, AppendProperties
  <2>2. cs = Rendered(t) /\ ns = Rendered(t)
    BY RenderedAppend DEF IInv, TypeOK, CopiesAgree
  <2>3. /\ token' = t
        /\ candidates' = cs
        /\ ngrams' = ns
        /\ score_cache' = score
        /\ token_start_layout' = IF token = <<>> THEN layout ELSE token_start_layout
        /\ layout' = IF d \in Layout THEN d ELSE layout
        /\ bypass_until_boundary' = bypass_until_boundary
        /\ host_context' = host_context
        /\ ~bypass_until_boundary
    BY <1>2 DEF LetterAppended
  <2>4. CopiesAgree'
    BY <2>2, <2>3 DEF CopiesAgree
  <2>5. Shape'
    BY <2>1, <2>3 DEF Shape, BypassesEngine
  <2>6. token_start_layout' = token_start_layout
    BY <2>3 DEF IInv, Shape
  <2>7. SwitchingDisabledKeepsLayout'
    BY <2>3, <2>6 DEF IInv, SwitchingDisabledKeepsLayout, Layout
  <2>8. SwitchIsEarned'
    <3>. SUFFICES ASSUME layout' # token_start_layout'
                  PROVE  \E n \in MinTokenLen..Len(t) :
                             DecisionFor(SubSeq(t, 1, n)) = layout'
      BY <2>3 DEF SwitchIsEarned
    <3>1. CASE d \in Layout
      <4>1. DecisionFor(t) = d
        BY <2>2, <3>1 DEF DecisionFor, Layout
      <4>. QED  BY <2>1, <2>3, <3>1, <4>1, DecisionIsEarned
    <3>2. CASE d \notin Layout
      <4>1. layout' = layout /\ layout # token_start_layout
        BY <2>3, <2>6, <3>2
      <4>2. PICK n \in MinTokenLen..Len(token) :
                   DecisionFor(SubSeq(token, 1, n)) = layout
        BY <4>1 DEF IInv, SwitchIsEarned
      <4>3. n \in 0..Len(token) /\ n \in MinTokenLen..Len(t)
        BY <2>1, LenProperties, ConfigAssumption DEF IInv, TypeOK
      <4>4. SubSeq(t, 1, n) = SubSeq(token, 1, n)
        BY <4>3, PrefixOfAppend DEF IInv, TypeOK
      <4>. QED  BY <4>1, <4>2, <4>3, <4>4
    <3>. QED  BY <3>1, <3>2
  <2>. QED  BY <2>4, <2>5, <2>7, <2>8 DEF IInv
<1>. QED  BY <1>1, <1>2

LEMMA BackspaceShortensInv ==
    ASSUME IInv, TypeOK', BackspaceShortens, ~BypassesEngine(host_context)
    PROVE  IInv'
<1>. DEFINE t     == Shorter(token)
            cs    == PopCandidateChars(candidates)
            ns    == PopCandidateChars(ngrams)
            score == ScoreCurrent(CacheAfterPop, cs, ns)
            d     == Decide(t, score)
<1>1. /\ t \in Seq(LetterEvent)
      /\ Len(t) = Len(token) - 1
      /\ Len(token) > 1
  BY ShorterProperties, LenProperties DEF BackspaceShortens, IInv, TypeOK
<1>2. t # <<>>
  BY <1>1, LenProperties, EmptySeq DEF IInv, TypeOK
<1>3. cs = Rendered(t) /\ ns = Rendered(t)
  BY <1>1, RenderedShorter DEF IInv, TypeOK, CopiesAgree
<1>4. score = Fresh(cs, ns)
  BY DEF ScoreCurrent, CacheAfterPop
<1>5. /\ token' = t
      /\ candidates' = cs
      /\ ngrams' = ns
      /\ score_cache' = score
      /\ UNCHANGED <<token_start_layout, bypass_until_boundary, host_context>>
      /\ ~bypass_until_boundary
  BY DEF BackspaceShortens
<1>6. IF host_context.automatic_switching_disabled
      THEN layout' = layout
      ELSE layout' = IF d \in Layout THEN d ELSE token_start_layout
  BY DEF BackspaceShortens, LayoutWithoutWinner
<1>7. CopiesAgree'
  BY <1>3, <1>4, <1>5 DEF CopiesAgree
<1>8. Shape'
  BY <1>2, <1>5 DEF Shape, BypassesEngine
<1>9. SwitchingDisabledKeepsLayout'
  BY <1>5, <1>6 DEF IInv, SwitchingDisabledKeepsLayout
<1>10. SwitchIsEarned'
  <2>. SUFFICES ASSUME layout' # token_start_layout'
                PROVE  \E n \in MinTokenLen..Len(t) :
                           DecisionFor(SubSeq(t, 1, n)) = layout'
    BY <1>5 DEF SwitchIsEarned
  <2>1. d \in Layout /\ layout' = d
    BY <1>5, <1>6 DEF IInv, SwitchingDisabledKeepsLayout
  <2>2. DecisionFor(t) = d
    BY <1>3, <1>4 DEF DecisionFor
  <2>. QED  BY <1>1, <2>1, <2>2, DecisionIsEarned
<1>. QED  BY <1>7, <1>8, <1>9, <1>10 DEF IInv

LEMMA InvInit == Init => IInv
<1>. SUFFICES ASSUME Init PROVE IInv
  OBVIOUS
<1>. QED  BY TypeInit, EmptyTokenInv DEF Init

\* The cache is filled from the characters that are there; nothing else moves.
LEMMA CacheFilledInv ==
    ASSUME IInv, TypeOK',
           score_cache' = ScoreCurrent(score_cache, candidates, ngrams),
           UNCHANGED <<tokenVars, layout, token_start_layout,
                       bypass_until_boundary, host_context>>
    PROVE  IInv'
<1>1. UNCHANGED <<token, candidates, ngrams>>
  BY DEF tokenVars
<1>2. CopiesAgree'
  BY <1>1 DEF IInv, CopiesAgree, ScoreCurrent
<1>3. Shape' /\ SwitchingDisabledKeepsLayout' /\ SwitchIsEarned'
  BY <1>1 DEF IInv, Shape, SwitchingDisabledKeepsLayout, SwitchIsEarned,
              BypassesEngine
<1>. QED  BY <1>2, <1>3 DEF IInv

LEMMA InvStep == IInv /\ [Next]_vars => IInv'
<1>. SUFFICES ASSUME IInv, [Next]_vars PROVE IInv'
  OBVIOUS
<1>0. TypeOK' /\ layout \in Layout
  BY TypeStep DEF IInv, TypeOK
<1>1. ASSUME NEW d \in {"Keep", "Bypass"}, Discard(d) PROVE IInv'
  BY <1>0, <1>1, ClearTokenInv DEF Discard
<1>2. CASE Ignore("Bypass")
  BY <1>0, <1>2, CacheFilledInv DEF Ignore
<1>3. CASE LetterOverLimit
  BY <1>0, <1>3, ClearTokenInv DEF LetterOverLimit
<1>4. ASSUME NEW e \in LetterEvent, LetterAppended(e), ~BypassesEngine(host_context)
      PROVE IInv'
  BY <1>0, <1>4, LetterAppendedInv
<1>5. CASE BackspaceShortens /\ ~BypassesEngine(host_context)
  BY <1>0, <1>5, BackspaceShortensInv
<1>6. CASE ForceSwitchLayout /\ ~BypassesEngine(host_context)
  <2>1. Opposite(layout) \in Layout
    BY DEF Opposite, Layout
  <2>2. ClearToken(Opposite(layout)) /\ score_cache' = Fresh(NoText, NoText)
    BY <1>6, Zenon DEF ForceSwitchLayout
  <2>. QED  BY <1>0, <2>1, <2>2, ClearTokenInv
<1>7. ASSUME NEW l \in Layout, ResetLayout(l) PROVE IInv'
  BY <1>0, <1>7, ClearTokenInv DEF ResetLayout
<1>8. ASSUME NEW c \in HostContext, SetHostContext(c) PROVE IInv'
  <2>1. CASE host_context = c /\ ~BypassesEngine(c)
    <3>1. UNCHANGED <<tokenVars, score_cache, layout, token_start_layout,
                      bypass_until_boundary, host_context>>
      BY <1>8, <2>1, Zenon DEF SetHostContext
    <3>. QED  BY <1>0, <3>1 DEF IInv, CopiesAgree, Shape, BypassesEngine, tokenVars,
                                SwitchingDisabledKeepsLayout, SwitchIsEarned
  <2>2. CASE ~(host_context = c /\ ~BypassesEngine(c))
    <3>1. ClearToken(layout) /\ score_cache' = NoScore
      BY <1>8, <2>2, Zenon DEF SetHostContext
    <3>. QED  BY <1>0, <3>1, ClearTokenInv
  <2>. QED  BY <2>1, <2>2
<1>9. CASE TokenScore
  BY <1>0, <1>9, CacheFilledInv DEF TokenScore
<1>10. CASE UNCHANGED vars
  BY <1>0, <1>10 DEF vars, IInv, CopiesAgree, Shape, BypassesEngine,
                     SwitchingDisabledKeepsLayout, SwitchIsEarned
<1>. QED  BY <1>1, <1>2, <1>3, <1>4, <1>5, <1>6, <1>7, <1>8, <1>9, <1>10,
             StepCases

\* The inductive invariant holds in every reachable state.
THEOREM Invariance == Spec => []IInv
  BY InvInit, InvStep, PTL DEF Spec

-----------------------------------------------------------------------------
(* The safety properties                                                    *)

\* The candidates, the n-gram history and the cached analysis are those of the
\* token, after any calls in any order.
THEOREM CopiesAlwaysAgree == Spec => []CopiesAgree
<1>1. IInv => CopiesAgree
  BY DEF IInv
<1>. QED  BY <1>1, Invariance, PTL

\* The engine never stands in a layout no prefix of the token has earned.
THEOREM SwitchesAreEarned == Spec => []SwitchIsEarned
<1>1. IInv => SwitchIsEarned
  BY DEF IInv
<1>. QED  BY <1>1, Invariance, PTL

\* With automatic switching disabled the layout is the one the token began in.
THEOREM DisabledSwitchingKeepsLayout == Spec => []SwitchingDisabledKeepsLayout
<1>1. IInv => SwitchingDisabledKeepsLayout
  BY DEF IInv
<1>. QED  BY <1>1, Invariance, PTL

\* Nothing typed is retained in a secure field, in a disabled application or
\* during an over-long run, in any copy.
THEOREM NothingIsRetained == Spec => []NothingRetained
<1>1. IInv => NothingRetained
  BY RenderedEmpty DEF IInv, Shape, CopiesAgree, NothingRetained
<1>. QED  BY <1>1, Invariance, PTL

LEMMA OppositeDiffers == ASSUME NEW l \in Layout PROVE Opposite(l) # l
  BY DEF Opposite, Layout

LEMMA ActionTellsStep == IInv /\ [Next]_vars => [ReturnedActionIsTheChange]_vars
<1>. SUFFICES ASSUME IInv, Next PROVE ReturnedActionIsTheChange
  BY DEF vars
<1>. USE DEF ReturnedActionIsTheChange
<1>1. ASSUME NEW d \in {"Keep", "Bypass"}, Discard(d)
      PROVE  ReturnedActionIsTheChange
  BY <1>1 DEF Discard, ClearToken, Observed, ResetAction
<1>2. CASE Ignore("Bypass")
  <2>1. token' = token /\ layout' = layout /\ output'.action = NoAction
    BY <1>2 DEF Ignore, tokenVars, Observed
  <2>. QED  BY <2>1
<1>3. CASE LetterOverLimit
  <2>1. token # <<>>
    BY <1>3, ConfigAssumption DEF LetterOverLimit, AtLimit
  <2>. QED  BY <1>3, <2>1 DEF LetterOverLimit, ClearToken, Observed, ResetAction
<1>4. ASSUME NEW e \in LetterEvent, LetterAppended(e)
      PROVE  ReturnedActionIsTheChange
  <2>1. Append(token, e) # <<>>
    BY AppendProperties DEF IInv, TypeOK
  <2>2. \/ Discard("Keep")
        \/ /\ token' = Append(token, e)
           /\ output'.action = SwitchAction(layout, layout')
    BY <1>4 DEF LetterAppended, Observed
  <2>. QED  BY <1>1, <2>1, <2>2 DEF SwitchAction
<1>5. CASE BackspaceShortens
  <2>1. Shorter(token) # <<>>
    BY <1>5, ShorterProperties, LenProperties, EmptySeq
       DEF BackspaceShortens, IInv, TypeOK
  <2>2. /\ token' = Shorter(token)
        /\ \/ layout' = layout /\ output'.action = NoAction
           \/ output'.action = SwitchAction(layout, layout')
    BY <1>5 DEF BackspaceShortens, Observed
  <2>. QED  BY <2>1, <2>2 DEF SwitchAction
<1>6. CASE ForceSwitchLayout /\ ~BypassesEngine(host_context)
  <2>1. /\ ClearToken(Opposite(layout))
        /\ output' = Observed(SwitchFutureLayout(Opposite(layout)), Opposite(layout))
    BY <1>6, Zenon DEF ForceSwitchLayout
  <2>2. Opposite(layout) # layout
    BY OppositeDiffers DEF IInv, TypeOK
  <2>. QED  BY <2>1, <2>2 DEF ClearToken, Observed
<1>7. ASSUME NEW l \in Layout, ResetLayout(l) PROVE ReturnedActionIsTheChange
  BY <1>7 DEF ResetLayout, NoOutput
<1>8. ASSUME NEW c \in HostContext, SetHostContext(c)
      PROVE  ReturnedActionIsTheChange
  BY <1>8 DEF SetHostContext, NoOutput
<1>9. CASE TokenScore
  BY <1>9 DEF TokenScore, NoOutput
<1>. QED  BY <1>1, <1>2, <1>3, <1>4, <1>5, <1>6, <1>7, <1>8, <1>9, StepCases

\* Whatever a call returns says what the call did to the layout and the token.
THEOREM ActionsAlwaysTell == Spec => ActionsTellTheChange
  BY Invariance, ActionTellsStep, PTL DEF Spec, ActionsTellTheChange

=============================================================================
