--------------------------- MODULE TypeClawEngine ---------------------------
(***************************************************************************)
(* The keyboard-layout engine of crates/typeclaw-core: one active token of  *)
(* physical key events, its rendering under both keyboard maps, the n-gram  *)
(* history and the score computed from them, and the inferred layout.       *)
(*                                                                         *)
(* One action per call of the engine's public interface.  A call that       *)
(* returns an ObservationOutput leaves its action and decision in `output`. *)
(*                                                                         *)
(* Abstracted data: a character is a member of Char; a score is a constant  *)
(* operator of a candidate and of its n-gram history, in integer units      *)
(* (f32 rounding is not modelled); `ngrams` holds the characters the        *)
(* rolling n-gram totals stand for, which RollingNgrams justifies.          *)
(***************************************************************************)
EXTENDS Integers, Sequences

CONSTANTS
    LetterEvent,                \* key events [physical_key, shift] of letter keys
    Char,                       \* characters of the two keyboard maps
    Render(_, _),               \* the character a letter event types in a layout
    PunctuationLetterKeys,      \* English characters the secondary pack lists
    ScoreLayout(_, _, _),       \* layout, text, n-gram history -> score record
    MinTokenLen,
    MaxTokenLen,
    ConfidenceMargin,
    NgramOnlyConfidenceMargin,
    DisableOnInternalCaps,
    NoScore                     \* the empty score cache

Layout == {"English", "Secondary"}

\* EngineConfig::validate, and the keyboard maps the bundle loader accepts.
ASSUME ConfigAssumption ==
    /\ MinTokenLen \in Nat \ {0}
    /\ MaxTokenLen \in Nat
    /\ MinTokenLen <= MaxTokenLen
    /\ MaxTokenLen <= 1024
ASSUME RenderAssumption ==
    /\ \A e \in LetterEvent : e.shift \in BOOLEAN
    /\ \A e \in LetterEvent, l \in Layout : Render(e, l) \in Char

Opposite(l) == IF l = "English" THEN "Secondary" ELSE "English"

HostContext == [secure_input : BOOLEAN,
                automatic_processing_disabled : BOOLEAN,
                automatic_switching_disabled : BOOLEAN]

BypassesEngine(c) == c.secure_input \/ c.automatic_processing_disabled

\* ObservationAction as the host reads it: a tag, and a layout that only
\* SwitchFutureLayout uses.
NoAction              == [tag |-> "None", layout |-> "English"]
ResetTokenAction      == [tag |-> "ResetToken", layout |-> "English"]
SwitchFutureLayout(l) == [tag |-> "SwitchFutureLayout", layout |-> l]
ObservationAction     == {NoAction, ResetTokenAction}
                             \cup {SwitchFutureLayout(l) : l \in Layout}

\* Decision::Use(l) is written l.
Decision == Layout \cup {"Keep", "Bypass"}

Observed(a, d) == [action |-> a, decision |-> d, returned |-> TRUE]
NoOutput       == [action |-> NoAction, decision |-> "Keep", returned |-> FALSE]

VARIABLES
    token,                  \* sequence of letter events
    candidates,             \* the token rendered in each layout
    ngrams,                 \* per layout, the characters in the rolling totals
    score_cache,            \* NoScore or an analysis
    layout,                 \* the inferred layout of future keys
    token_start_layout,     \* the layout the active token began in
    bypass_until_boundary,  \* an over-long run is being ignored
    host_context,
    output                  \* what the last call returned

tokenVars == <<token, candidates, ngrams>>
vars == <<token, candidates, ngrams, score_cache, layout, token_start_layout,
          bypass_until_boundary, host_context, output>>

-----------------------------------------------------------------------------
(* Scoring and the switching decision                                       *)

NoText == [l \in Layout |-> <<>>]

Fresh(cs, ns) == [l \in Layout |-> ScoreLayout(l, cs[l], ns[l])]

\* score_current: the cached analysis if there is one.
ScoreCurrent(cache, cs, ns) == IF cache # NoScore THEN cache ELSE Fresh(cs, ns)

MarginFor(score, l) == score[l].total - score[Opposite(l)].total

\* prefix_sum.saturating_sub(exact_count) > 0 is prefix_sum > exact_count.
HasDictionaryEvidence(s) == s.exact_count > 0 \/ s.prefix_sum > s.exact_count

CanSwitchTo(l, score) ==
    MarginFor(score, l) >= IF HasDictionaryEvidence(score[l])
                           THEN ConfidenceMargin
                           ELSE NgramOnlyConfidenceMargin

HasInternalCaps(t) == \E i \in 2..Len(t) : t[i].shift
IsAcronymLike(t)   == Len(t) >= 2 /\ \A i \in 1..Len(t) : t[i].shift
ShouldBypassToken(t) ==
    (DisableOnInternalCaps /\ HasInternalCaps(t)) \/ IsAcronymLike(t)

Decide(t, score) ==
    IF Len(t) < MinTokenLen THEN "Keep"
    ELSE IF ShouldBypassToken(t) THEN "Bypass"
    ELSE IF CanSwitchTo("English", score) THEN "English"
    ELSE IF CanSwitchTo("Secondary", score) THEN "Secondary"
    ELSE "Keep"

IsEnglishPunctuationLetterKey(e) == Render(e, "English") \in PunctuationLetterKeys

ShouldResetOnSeparator(e, score) ==
    /\ layout = "English"
    /\ IsEnglishPunctuationLetterKey(e)
    /\ ~HasDictionaryEvidence(score["Secondary"])

\* Mistake: the action read after the reset, when the token is already empty.
ResetActionAfterReset == NoAction

ResetAction == IF token = <<>> THEN NoAction ELSE ResetTokenAction

SwitchAction(previous, now) ==
    IF now = previous THEN NoAction ELSE SwitchFutureLayout(now)

-----------------------------------------------------------------------------
(* Clearing the token                                                       *)

\* reset_token, and reset_layout when l is not the current layout.
ClearToken(l) ==
    /\ token' = <<>>
    /\ candidates' = NoText
    /\ ngrams' = NoText
    /\ layout' = l
    /\ token_start_layout' = l

\* Every path of `observe` that discards the token: the action is taken from
\* the token before the reset, and the snapshot scores the empty candidates.
Discard(decision) ==
    /\ output' = Observed(ResetAction, decision)
    /\ ClearToken(layout)
    /\ score_cache' = Fresh(NoText, NoText)
    /\ bypass_until_boundary' = FALSE
    /\ UNCHANGED host_context

\* A path that changes nothing but fills the score cache in the snapshot.
Ignore(decision) ==
    /\ output' = Observed(NoAction, decision)
    /\ score_cache' = ScoreCurrent(score_cache, candidates, ngrams)
    /\ UNCHANGED <<tokenVars, layout, token_start_layout,
                   bypass_until_boundary, host_context>>

-----------------------------------------------------------------------------
(* observe(event)                                                           *)

\* A letter while an over-long run is ignored: only a punctuation-position
\* key ends the run.
LetterWhileBypassing(e) ==
    /\ bypass_until_boundary
    /\ IF IsEnglishPunctuationLetterKey(e) THEN Discard("Bypass")
                                           ELSE Ignore("Bypass")

\* Mistake: a token may grow one letter past the limit.
AtLimitOffByOne == Len(token) > MaxTokenLen

AtLimit == Len(token) >= MaxTokenLen

\* The letter after the longest token.
LetterOverLimit ==
    /\ ~bypass_until_boundary
    /\ AtLimit
    /\ output' = Observed(ResetAction, "Bypass")
    /\ ClearToken(layout)
    /\ score_cache' = Fresh(NoText, NoText)
    /\ bypass_until_boundary' = TRUE
    /\ UNCHANGED host_context

PushCandidateChars(text, e) == [l \in Layout |-> Append(text[l], Render(e, l))]

\* The letter joins the token, then ends it as a separator, or is scored.
LetterAppended(e) ==
    /\ ~bypass_until_boundary
    /\ ~AtLimit
    /\ LET t     == Append(token, e)
           cs    == PushCandidateChars(candidates, e)
           ns    == PushCandidateChars(ngrams, e)
           score == Fresh(cs, ns)
           d     == IF host_context.automatic_switching_disabled
                    THEN "Bypass" ELSE Decide(t, score)
       IN IF ShouldResetOnSeparator(e, score)
          THEN Discard("Keep")
          ELSE /\ token' = t
               /\ candidates' = cs
               /\ ngrams' = ns
               /\ score_cache' = score
               /\ token_start_layout' =
                      IF token = <<>> THEN layout ELSE token_start_layout
               /\ layout' = IF d \in Layout THEN d ELSE layout
               /\ output' = Observed(SwitchAction(layout, layout'), d)
               /\ UNCHANGED <<bypass_until_boundary, host_context>>

StepLetter(e) ==
    \/ LetterWhileBypassing(e)
    \/ LetterOverLimit
    \/ LetterAppended(e)

Shorter(s) == SubSeq(s, 1, Len(s) - 1)
PopCandidateChars(text) == [l \in Layout |-> Shorter(text[l])]

\* Backspace with nothing to shorten.
BackspaceIgnored ==
    /\ bypass_until_boundary \/ token = <<>>
    /\ Ignore("Bypass")

\* Backspace over the token's only letter: a reset that keeps the layout.
BackspaceToEmpty ==
    /\ ~bypass_until_boundary
    /\ Len(token) = 1
    /\ Discard("Keep")

\* Mistake: the analysis of the longer token is still in the cache.
CacheKeptAfterPop == score_cache

CacheAfterPop == NoScore

\* Mistake: the layout the longer token earned is kept.
LayoutWithoutWinnerKept == layout

LayoutWithoutWinner == token_start_layout

\* Backspace within the token, and the re-scoring of what is left.  A layout
\* that no longer wins gives way to the layout the token began in.
BackspaceShortens ==
    /\ ~bypass_until_boundary
    /\ Len(token) > 1
    /\ LET cs    == PopCandidateChars(candidates)
           ns    == PopCandidateChars(ngrams)
           score == ScoreCurrent(CacheAfterPop, cs, ns)
           d     == Decide(Shorter(token), score)
       IN /\ token' = Shorter(token)
          /\ candidates' = cs
          /\ ngrams' = ns
          /\ score_cache' = score
          /\ IF host_context.automatic_switching_disabled
             THEN /\ layout' = layout
                  /\ output' = Observed(NoAction, "Bypass")
             ELSE /\ layout' = IF d \in Layout THEN d ELSE LayoutWithoutWinner
                  /\ output' = Observed(SwitchAction(layout, layout'), d)
          /\ UNCHANGED <<token_start_layout, bypass_until_boundary, host_context>>

StepBackspace ==
    \/ BackspaceIgnored
    \/ BackspaceToEmpty
    \/ BackspaceShortens

\* In a bypassing context every event discards the token.
ObserveBypassed ==
    /\ BypassesEngine(host_context)
    /\ Discard("Bypass")

ObserveLetter(e) ==
    \/ ObserveBypassed
    \/ ~BypassesEngine(host_context) /\ StepLetter(e)

ObserveBackspace ==
    \/ ObserveBypassed
    \/ ~BypassesEngine(host_context) /\ StepBackspace

\* Literal(char) and EndToken.
ObserveBoundary ==
    \/ ObserveBypassed
    \/ ~BypassesEngine(host_context) /\ Discard("Keep")

ObserveHostBypass == Discard("Bypass")

-----------------------------------------------------------------------------
(* The other calls                                                          *)

\* force_switch_layout: no scoring, the opposite layout, an empty token.
ForceSwitchLayout ==
    IF BypassesEngine(host_context)
    THEN Discard("Bypass")
    ELSE LET target == Opposite(layout)
         IN /\ ClearToken(target)
            /\ score_cache' = Fresh(NoText, NoText)
            /\ bypass_until_boundary' = FALSE
            /\ output' = Observed(SwitchFutureLayout(target), target)
            /\ UNCHANGED host_context

\* reset_layout(l); reset_token is ResetLayout(layout).
ResetLayout(l) ==
    /\ ClearToken(l)
    /\ score_cache' = NoScore
    /\ bypass_until_boundary' = FALSE
    /\ output' = NoOutput
    /\ UNCHANGED host_context

ResetToken == ResetLayout(layout)

\* Mistake: only a context that bypasses the engine clears the token.
SetHostContextKeepsToken(c) ==
    /\ host_context' = c
    /\ output' = NoOutput
    /\ IF ~BypassesEngine(c)
       THEN UNCHANGED <<tokenVars, score_cache, layout, token_start_layout,
                        bypass_until_boundary>>
       ELSE /\ ClearToken(layout)
            /\ score_cache' = NoScore
            /\ bypass_until_boundary' = FALSE

\* Mistake: the token is left for the next observed event to clear.
SetHostContextLazily(c) ==
    /\ host_context' = c
    /\ output' = NoOutput
    /\ IF host_context = c \/ BypassesEngine(c)
       THEN UNCHANGED <<tokenVars, score_cache, layout, token_start_layout,
                        bypass_until_boundary>>
       ELSE /\ ClearToken(layout)
            /\ score_cache' = NoScore
            /\ bypass_until_boundary' = FALSE

\* set_host_context: a repeated context keeps the token unless it bypasses.
SetHostContext(c) ==
    /\ host_context' = c
    /\ output' = NoOutput
    /\ IF host_context = c /\ ~BypassesEngine(c)
       THEN UNCHANGED <<tokenVars, score_cache, layout, token_start_layout,
                        bypass_until_boundary>>
       ELSE /\ ClearToken(layout)
            /\ score_cache' = NoScore
            /\ bypass_until_boundary' = FALSE

\* token_score: a query that fills the cache.
TokenScore ==
    /\ score_cache' = ScoreCurrent(score_cache, candidates, ngrams)
    /\ output' = NoOutput
    /\ UNCHANGED <<tokenVars, layout, token_start_layout,
                   bypass_until_boundary, host_context>>

-----------------------------------------------------------------------------

DefaultContext == [secure_input |-> FALSE,
                   automatic_processing_disabled |-> FALSE,
                   automatic_switching_disabled |-> FALSE]

Init ==
    /\ token = <<>>
    /\ candidates = NoText
    /\ ngrams = NoText
    /\ score_cache = NoScore
    /\ layout = "English"
    /\ token_start_layout = "English"
    /\ bypass_until_boundary = FALSE
    /\ host_context = DefaultContext
    /\ output = NoOutput

Next ==
    \/ \E e \in LetterEvent : ObserveLetter(e)
    \/ ObserveBackspace
    \/ ObserveBoundary
    \/ ObserveHostBypass
    \/ ForceSwitchLayout
    \/ \E l \in Layout : ResetLayout(l)
    \/ \E c \in HostContext : SetHostContext(c)
    \/ TokenScore

Spec == Init /\ [][Next]_vars

-----------------------------------------------------------------------------
(* Properties                                                               *)

\* Type correctness; the token never outgrows max_token_len, which is what
\* bounds the scoring of one key event.
TypeOK ==
    /\ token \in Seq(LetterEvent)
    /\ Len(token) <= MaxTokenLen
    /\ candidates \in [Layout -> Seq(Char)]
    /\ ngrams \in [Layout -> Seq(Char)]
    /\ layout \in Layout
    /\ token_start_layout \in Layout
    /\ bypass_until_boundary \in BOOLEAN
    /\ host_context \in HostContext
    /\ output \in [action : ObservationAction, decision : Decision,
                   returned : BOOLEAN]

Rendered(t) == [l \in Layout |-> [i \in 1..Len(t) |-> Render(t[i], l)]]

\* The four copies of the token agree: both candidates are its renderings,
\* the n-gram history holds the same characters, and a cached analysis is the
\* one a scoring from scratch of the current token gives.
CopiesAgree ==
    /\ candidates = Rendered(token)
    /\ ngrams = Rendered(token)
    /\ score_cache # NoScore => score_cache = Fresh(Rendered(token), Rendered(token))

DecisionFor(t) == Decide(t, Fresh(Rendered(t), Rendered(t)))

\* Whatever was typed, erased and retyped, the engine is away from the layout
\* the token began in only if some prefix of the token that is there now, at
\* least min_token_len long, won the decision for the layout it is in.
SwitchIsEarned ==
    layout # token_start_layout =>
        \E n \in MinTokenLen..Len(token) :
            DecisionFor(SubSeq(token, 1, n)) = layout

\* While automatic switching is disabled the engine keeps observing, but
\* never stands in a layout other than the one the token began in: no switch
\* made before the context changed survives in the token.
SwitchingDisabledKeepsLayout ==
    host_context.automatic_switching_disabled => layout = token_start_layout

\* In a secure field or a disabled app nothing typed is retained, in any of
\* the copies; nor is it while an over-long run is being ignored.
NothingRetained ==
    BypassesEngine(host_context) \/ bypass_until_boundary =>
        /\ token = <<>>
        /\ candidates = NoText
        /\ ngrams = NoText
        /\ score_cache \in {NoScore, Fresh(NoText, NoText)}

\* What a call returns is what happened: SwitchFutureLayout(l) exactly when
\* the layout changed, to l; ResetToken exactly when a token was discarded
\* without a switch; None otherwise.
ReturnedActionIsTheChange ==
    output'.returned =>
        output'.action =
            IF layout' # layout THEN SwitchFutureLayout(layout')
            ELSE IF token # <<>> /\ token' = <<>> THEN ResetTokenAction
            ELSE NoAction

ActionsTellTheChange == [][ReturnedActionIsTheChange]_vars

=============================================================================
