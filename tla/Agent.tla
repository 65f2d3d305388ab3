------------------------------- MODULE Agent -------------------------------
(***************************************************************************)
(* TypeClawAgent of the macOS host: the callbacks its main run loop runs    *)
(* and the work they leave for later turns of the loop, around an engine    *)
(* that keeps TokenContract.                                               *)
(*                                                                         *)
(* A callback runs to its end before another starts, so each is one action. *)
(* The tap hands over a user event as it happens; queued work, the          *)
(* notifications of the system and the accessibility queue take their time, *)
(* in any order with the next user event.  A callback is a composition of   *)
(* operators on the agent's state, one per method of the class.             *)
(*                                                                         *)
(* Texts are abstracted to their lengths.  Cancelling a DispatchWorkItem is *)
(* left to the generation check that goes with it, which has the same       *)
(* effect: the item runs and does nothing.                                 *)
(***************************************************************************)
EXTENDS Integers, Sequences, FiniteSets

CONSTANTS
    Field,                  \* text fields of the user's applications
    AppOf(_),               \* the application of a field
    FieldPolicy(_),         \* its policy, from all accessibility facts
    BasePolicy(_),          \* an application's policy without such facts
    FirstField,             \* the field focused when the agent starts
    ObserverOutcomes,       \* whether an AXObserver can be attached
    RefreshOutcomes,        \* whether a refresh may find accessibility degraded
    Undisturbed,            \* the user waits for the agent to settle
    MinTokenLen, MaxTokenLen,
    MaxEvents,              \* bound: events of the user and of the clock
    NoField, NoLayout, NoPlan, NoToggle, NoRefresh, NoApp, NoTimer

Policy == {"normal", "autoOff", "disabled", "secure"}

ASSUME SurfaceAssumption ==
    /\ FirstField \in Field
    /\ \A f \in Field : FieldPolicy(f) \in Policy
    /\ \A f \in Field : BasePolicy(AppOf(f)) \in Policy \ {"secure"}
    /\ ObserverOutcomes \subseteq BOOLEAN /\ ObserverOutcomes # {}
    /\ RefreshOutcomes \subseteq {"installed", "degraded"}
    /\ \A f \in Field : AppOf(f) # NoApp
    /\ NoLayout \notin {"English", "Secondary"}
    /\ NoTimer \notin Nat

ASSUME TokenLengthAssumption == /\ MinTokenLen \in Nat \ {0}
                                /\ MaxTokenLen \in Nat
                                /\ MinTokenLen <= MaxTokenLen

VARIABLES
    agent,          \* the properties of TypeClawAgent, as a record
    capturing,      \* what the accessibility queue is looking at, or NoRefresh
    notices,        \* notifications posted and not yet delivered
    field,          \* the focused field
    run,            \* letters typed before the caret, in one piece
    os_layout,      \* the selected input source; NoLayout: neither layout's
    events

vars == <<agent, capturing, notices, field, run, os_layout, events>>

Engine == INSTANCE TokenContract WITH engine <- agent.engine

IsSecure == FieldPolicy(field) = "secure"      \* IsSecureEventInputEnabled()

\* HostContextSnapshot: automaticProcessingDisabled and manualSwitchDisabled
\* hold together for every policy and for the unknown snapshot.
Disabled(snapshot) == snapshot \in {"unknown", "disabled", "secure"}

\* The flags resolveHostContext and invalidateHostContext give the engine.
EngineContext(snapshot) ==
    [secure_input |-> snapshot = "secure",
     automatic_processing_disabled |-> Disabled(snapshot),
     automatic_switching_disabled |-> snapshot = "autoOff"]

-----------------------------------------------------------------------------
(* Cancelling                                                               *)

\* TextReplacer.cancelPending
CancelText(a) ==
    IF a.text_pending
    THEN [a EXCEPT !.text_generation = @ + 1, !.text_pending = FALSE]
    ELSE a

\* Mistake: only the text replacer is told.
CancelReplacementTextOnly(a, clears) ==
    CancelText(IF clears THEN [a EXCEPT !.toggle = NoToggle] ELSE a)

\* Mistake: the text replacer is not told.
CancelReplacementButText(a, clears) ==
    [a EXCEPT !.replacement_generation = @ + 1,
              !.toggle = IF clears THEN NoToggle ELSE @]

CancelReplacement(a, clears) ==
    CancelText([a EXCEPT !.replacement_generation = @ + 1,
                         !.toggle = IF clears THEN NoToggle ELSE @])

CancelSelection(a) ==
    IF a.selection_pending
    THEN [a EXCEPT !.selection_generation = @ + 1, !.selection_pending = FALSE]
    ELSE a

\* cancelPendingManualSwitch; an Option press that is not pending is "up".
CancelManualSwitch(a) ==
    [a EXCEPT !.option = IF @ = "up" THEN "up" ELSE "cancelled"]

ResetManualSwitch(a) == [a EXCEPT !.option = "up"]

EngineReset(a) == [a EXCEPT !.engine = Engine!ResetToken(@)]

-----------------------------------------------------------------------------
(* The host context and its refinement by accessibility                     *)

\* installHostContext; f is NoField for facts of the application alone.
InstallContext(a, policy, app, f) ==
    [a EXCEPT !.engine = Engine!SetHostContext(@, EngineContext(policy)),
              !.snapshot = policy,
              !.focus = [app |-> app, field |-> f]]

InstallBase(a) ==
    InstallContext(a, IF IsSecure THEN "secure" ELSE BasePolicy(a.frontmost),
                   a.frontmost, NoField)

NoFocus == [app |-> NoApp, field |-> NoField]

\* Mistake: the cached policy goes, the engine's token stays.
InvalidateContextOfHostOnly(a) ==
    CancelSelection(CancelReplacement(
        [a EXCEPT !.snapshot = "unknown", !.focus = NoFocus], TRUE))

InvalidateContext(a) ==
    LET c == CancelSelection(CancelReplacement(
                 [a EXCEPT !.snapshot = "unknown", !.focus = NoFocus], TRUE))
    IN EngineReset([c EXCEPT
           !.engine = Engine!SetHostContext(@, EngineContext("unknown"))])

\* Mistake: no refresh when some policy is cached.
RequestRefreshWhenUnknown(a) ==
    IF a.observer /\ a.snapshot = "unknown"
    THEN [a EXCEPT !.refresh = [app |-> a.frontmost,
                                generation |-> a.accessibility_generation]]
    ELSE a

\* A later request replaces one that has not started.
RequestRefresh(a) ==
    IF a.observer
    THEN [a EXCEPT !.refresh = [app |-> a.frontmost,
                                generation |-> a.accessibility_generation]]
    ELSE a

TeardownObserver(a) ==
    [a EXCEPT !.refresh = NoRefresh,
              !.accessibility_generation = @ + 1,
              !.observer = FALSE]

\* configureAccessibilityObserver, from the base policy just installed.
ConfigureObserver(a, attachable) ==
    [TeardownObserver(a) EXCEPT
        !.observer = /\ attachable
                     /\ ~Disabled(a.snapshot)
                     /\ a.degraded_app # a.frontmost]

HandlePotentialFocusChange(a) ==
    LET c == [ResetManualSwitch(a) EXCEPT !.toggle = NoToggle]
    IN IF c.observer THEN RequestRefresh(InvalidateContext(c)) ELSE c

\* currentHostContext: what it does to the agent, and the snapshot it returns.
CheckContext(a) ==
    IF IsSecure THEN EngineReset(a)
    ELSE IF a.snapshot # "secure" THEN a
    ELSE IF a.observer THEN RequestRefresh(InvalidateContext(a))
    ELSE InstallBase(a)

CheckedSnapshot(a) ==
    IF IsSecure THEN "unknown" ELSE CheckContext(a).snapshot

FocusIsStillValid(a, f) == a.focus = f /\ ~Disabled(a.snapshot)

-----------------------------------------------------------------------------
(* Switching                                                                *)

\* Mistake: a plan for an empty token.
PlanForAnyToken(a, manual) ==
    IF a.focus # NoFocus
    THEN [count |-> a.engine.pending, focus |-> a.focus]
    ELSE NoPlan

\* replacementPlan, and manualToggleReplacementPlan when it gives nothing.
PlanFor(a, manual) ==
    IF a.focus # NoFocus /\ a.engine.pending > 0
    THEN [count |-> a.engine.pending, focus |-> a.focus]
    ELSE IF /\ manual
            /\ a.toggle # NoToggle
            /\ FocusIsStillValid(a, a.toggle.focus)
         THEN [count |-> a.toggle.count, focus |-> a.toggle.focus]
         ELSE NoPlan

\* applyObservation and scheduleInputSourceSelection.
Apply(a, manual) ==
    IF a.engine.action.tag # "SwitchFutureLayout" THEN a
    ELSE LET plan == PlanFor(a, manual)
         IN [a EXCEPT
               !.engine = Engine!TakePendingReplacement(@),
               !.toggle = IF manual /\ plan = NoPlan THEN NoToggle ELSE @,
               !.selection_generation = @ + 1,
               !.selection_pending = TRUE,
               !.work = Append(@, [kind |-> "select",
                                   layout |-> a.engine.action.layout,
                                   manual |-> manual,
                                   plan |-> plan,
                                   replacement |-> a.replacement_generation,
                                   generation |-> a.selection_generation + 1])]

\* Mistake: the last known input source is kept while none is recognised.
SyncLayoutKeepsLast(a, l) ==
    IF l = NoLayout THEN EngineReset([a EXCEPT !.ready = FALSE])
    ELSE IF l = a.synced THEN [a EXCEPT !.ready = TRUE]
    ELSE [a EXCEPT !.ready = TRUE, !.synced = l,
                   !.engine = Engine!ResetLayout(@, l)]

\* Mistake: the engine is reset in the layout it has.
SyncLayoutOfHostOnly(a, l) ==
    IF l = NoLayout
    THEN EngineReset([a EXCEPT !.ready = FALSE, !.synced = NoLayout])
    ELSE IF l = a.synced THEN [a EXCEPT !.ready = TRUE]
    ELSE EngineReset([a EXCEPT !.ready = TRUE, !.synced = l])

\* The input source of l or of neither layout is current.
SyncLayout(a, l) ==
    IF l = NoLayout
    THEN EngineReset([a EXCEPT !.ready = FALSE, !.synced = NoLayout])
    ELSE IF l = a.synced THEN [a EXCEPT !.ready = TRUE]
    ELSE [a EXCEPT !.ready = TRUE, !.synced = l,
                   !.engine = Engine!ResetLayout(@, l)]

\* Mistake: a failed selection leaves the engine in the layout it wanted.
SelectionFailedUnsynced(a) == CancelReplacement([a EXCEPT !.synced = NoLayout], TRUE)

SelectionFailed(a) ==
    CancelReplacement(SyncLayout([a EXCEPT !.synced = NoLayout], os_layout), TRUE)

\* TextReplacer.replaceLastToken
ReplaceLastToken(a, item) ==
    LET c == CancelText(a)
    IN [c EXCEPT !.text_generation = @ + 1,
                 !.text_pending = TRUE,
                 !.work = Append(@, [item EXCEPT !.kind = "replace",
                                     !.generation = c.text_generation + 1])]

\* selectFutureLayout, with the two outcomes of the selection.
SelectFutureLayout(a, l) ==
    \/ /\ os_layout' = l
       /\ notices' = notices \cup (IF l = os_layout THEN {} ELSE {"source"})
       /\ agent' = [a EXCEPT !.synced = l, !.ready = TRUE]
    \/ /\ agent' = SelectionFailed(a)
       /\ UNCHANGED <<os_layout, notices>>

-----------------------------------------------------------------------------
(* The user and the system                                                  *)

Settled ==
    /\ agent.work = <<>>
    /\ agent.refresh = NoRefresh
    /\ capturing = NoRefresh
    /\ notices = {}

MayAct == events < MaxEvents /\ (Undisturbed => Settled)

Act == MayAct /\ events' = events + 1

InSameApp == {f \in Field : AppOf(f) = AppOf(field)}

\* The focus moves, or only the caret when f is the focused field already.
MoveCaret(f) ==
    /\ field' = f
    /\ run' = 0
    /\ notices' = notices \cup
           (IF f # field /\ agent.observer /\ agent.frontmost = AppOf(f)
            THEN {"focus"} ELSE {})

\* What the engine may answer to a key, and what the key does to the text.
Key == {"letter", "backspace", "boundary", "chord", "focusKey"}

Observe(en, key) ==
    CASE key = "letter"    -> Engine!AfterLetter(en)
      [] key = "backspace" -> Engine!AfterBackspace(en)
      [] OTHER             -> {Engine!Discarded(en)}

\* A chord or a focus key may erase the text or move the caret.
KeyTypes(key) ==
    \/ key = "letter" /\ run' = run + 1 /\ UNCHANGED <<field, notices>>
    \/ key = "backspace" /\ run' = (IF run = 0 THEN 0 ELSE run - 1)
                          /\ UNCHANGED <<field, notices>>
    \/ key \in {"boundary", "chord"} /\ run' = 0 /\ UNCHANGED <<field, notices>>
    \/ key = "focusKey" /\ \E f \in InSameApp : MoveCaret(f)

\* processKey
ProcessKey(key) ==
    /\ Act
    /\ KeyTypes(key)
    /\ LET cancelled == CancelManualSwitch(CancelReplacement(agent, TRUE))
           a         == CheckContext(cancelled)
       IN IF Disabled(CheckedSnapshot(cancelled)) \/ ~a.ready
          THEN agent' = EngineReset(a)
          ELSE \E en \in Observe(a.engine, key) :
                  LET applied == Apply([a EXCEPT !.engine = en], FALSE)
                  IN agent' = IF key = "focusKey"
                              THEN HandlePotentialFocusChange(applied)
                              ELSE applied
    /\ UNCHANGED <<capturing, os_layout>>

\* processFlagsChanged for a key other than Option.
OtherModifierChanges ==
    /\ Act
    /\ agent' = CancelManualSwitch([CancelReplacement(agent, FALSE)
                                       EXCEPT !.toggle = NoToggle])
    /\ UNCHANGED <<capturing, notices, field, run, os_layout>>

\* processFlagsChanged, Option going down; chord: another modifier is held.
\* The bound counts only the release of a standalone tap.
OptionDown(chord) ==
    /\ MayAct
    /\ events' = IF chord \/ agent.option # "up" THEN events + 1 ELSE events
    /\ LET a == CancelReplacement(agent, FALSE)
       IN agent' = IF chord THEN [a EXCEPT !.toggle = NoToggle, !.option = "up"]
                            ELSE [a EXCEPT !.option = "armed"]
    /\ UNCHANGED <<capturing, notices, field, run, os_layout>>

\* processFlagsChanged, Option going up: the manual switch.
OptionUp(chord) ==
    /\ Act
    /\ LET a       == CancelReplacement(agent, FALSE)
           reset   == ResetManualSwitch(a)
           checked == CheckContext(reset)
       IN agent' =
            IF a.option = "up" THEN a
            ELSE IF a.option = "cancelled" \/ chord
                 THEN [reset EXCEPT !.toggle = NoToggle]
            ELSE IF Disabled(CheckedSnapshot(reset)) THEN checked
            ELSE IF ~checked.ready THEN EngineReset(checked)
            ELSE Apply([checked EXCEPT !.engine = Engine!ForceSwitchLayout(@)], TRUE)
    /\ UNCHANGED <<capturing, notices, field, run, os_layout>>

MouseDown(f) ==
    /\ Act
    /\ MoveCaret(f)
    /\ agent' = HandlePotentialFocusChange(agent)
    /\ UNCHANGED <<capturing, os_layout>>

\* The application moves the focus without a key or a click.
FocusMoves(f) ==
    /\ Act
    /\ f # field
    /\ MoveCaret(f)
    /\ UNCHANGED <<agent, capturing, os_layout>>

AppActivates(f) ==
    /\ Act
    /\ AppOf(f) # AppOf(field)
    /\ field' = f
    /\ run' = 0
    /\ notices' = notices \cup {"app"}
    /\ UNCHANGED <<agent, capturing, os_layout>>

InputSourceChanges(l) ==
    /\ Act
    /\ l # os_layout
    /\ os_layout' = l
    /\ notices' = notices \cup {"source"}
    /\ UNCHANGED <<agent, capturing, field, run>>

-----------------------------------------------------------------------------
(* Notifications                                                            *)

\* handleAccessibilityNotification
DeliverFocusNotice ==
    /\ "focus" \in notices
    /\ notices' = notices \ {"focus"}
    /\ agent' = RequestRefresh(InvalidateContext(agent))
    /\ UNCHANGED <<capturing, field, run, os_layout, events>>

\* frontmostApplicationChanged; the notices of the old observer are lost.
DeliverAppNotice ==
    /\ "app" \in notices
    /\ notices' = notices \ {"app", "focus"}
    /\ LET forgotten == CancelSelection(CancelReplacement(
                [ResetManualSwitch(agent) EXCEPT !.snapshot = "unknown",
                                                 !.focus = NoFocus], TRUE))
           based     == InstallBase([EngineReset(TeardownObserver(forgotten))
                                        EXCEPT !.frontmost = AppOf(field)])
       IN \E attachable \in ObserverOutcomes :
              agent' = RequestRefresh(ConfigureObserver(based, attachable))
    /\ UNCHANGED <<capturing, field, run, os_layout, events>>

\* handleInputSourceChangedNotification
DeliverSourceNotice ==
    /\ "source" \in notices
    /\ notices' = notices \ {"source"}
    /\ agent' = SyncLayout(agent, os_layout)
    /\ UNCHANGED <<capturing, field, run, os_layout, events>>

-----------------------------------------------------------------------------
(* Queued work                                                              *)

\* The refresh starts on the accessibility queue, which takes one at a time.
\* An application that is not in front shows the field it last had focused.
StartRefresh ==
    /\ agent.refresh # NoRefresh
    /\ capturing = NoRefresh
    /\ \E f \in Field :
          /\ AppOf(f) = agent.refresh.app
          /\ AppOf(field) = agent.refresh.app => f = field
          /\ capturing' = [kind |-> "install",
                           app |-> agent.refresh.app,
                           generation |-> agent.refresh.generation,
                           field |-> f,
                           policy |-> IF IsSecure THEN "secure" ELSE FieldPolicy(f)]
    /\ agent' = [agent EXCEPT !.refresh = NoRefresh]
    /\ UNCHANGED <<notices, field, run, os_layout, events>>

FinishRefresh ==
    /\ capturing # NoRefresh
    /\ agent' = [agent EXCEPT !.work = Append(@, capturing)]
    /\ capturing' = NoRefresh
    /\ UNCHANGED <<notices, field, run, os_layout, events>>

\* The agent when the item at the head of the main queue has been taken off.
Rest == [agent EXCEPT !.work = Tail(@)]

\* The work item's own check, then that of completeInputSourceSelection.
SelectionIsCurrent(item) ==
    /\ item.generation = agent.selection_generation
    /\ item.replacement = agent.replacement_generation

\* completeInputSourceSelection
RunSelection ==
    /\ agent.work # <<>>
    /\ LET item == Head(agent.work)
           own  == item.generation = agent.selection_generation
           a    == [Rest EXCEPT !.selection_pending = @ /\ ~own]
       IN /\ item.kind = "select"
          /\ \/ /\ ~SelectionIsCurrent(item)
                /\ agent' = a
                /\ UNCHANGED <<notices, os_layout>>
             \/ /\ SelectionIsCurrent(item)
                /\ item.plan # NoPlan
                /\ agent' = IF FocusIsStillValid(a, item.plan.focus)
                            THEN ReplaceLastToken(a, item)
                            ELSE CancelReplacement(a, TRUE)
                /\ UNCHANGED <<notices, os_layout>>
             \/ /\ SelectionIsCurrent(item)
                /\ item.plan = NoPlan
                /\ SelectFutureLayout(a, item.layout)
    /\ UNCHANGED <<capturing, field, run, events>>

ReplacementIsCurrent(item) ==
    /\ item.generation = agent.text_generation
    /\ FocusIsStillValid(agent, item.plan.focus)

\* The work item of replaceLastToken, with its didPost: the count characters
\* before the caret become as many others.
RunReplacement ==
    /\ agent.work # <<>>
    /\ LET item == Head(agent.work)
           done == [Rest EXCEPT !.text_pending = FALSE]
       IN /\ item.kind = "replace"
          /\ \/ /\ ~ReplacementIsCurrent(item)
                /\ agent' = IF item.generation = agent.text_generation
                            THEN CancelText(Rest) ELSE Rest
                /\ UNCHANGED <<notices, os_layout>>
             \/ /\ ReplacementIsCurrent(item)
                /\ item.replacement # agent.replacement_generation
                /\ agent' = done
                /\ UNCHANGED <<notices, os_layout>>
             \/ /\ ReplacementIsCurrent(item)
                /\ item.replacement = agent.replacement_generation
                /\ SelectFutureLayout(
                      [done EXCEPT !.toggle = IF item.manual
                                              THEN [count |-> item.plan.count,
                                                    focus |-> item.plan.focus]
                                              ELSE NoToggle],
                      item.layout)
    /\ UNCHANGED <<capturing, field, run, events>>

\* recordAccessibilityRefresh when it finds one slow refresh too many; a slow
\* terminal surface does not count.  Bound: one degraded application at a time.
Degrade(a, item) ==
    LET b == InstallBase(TeardownObserver([a EXCEPT !.degraded_app = item.app]))
    IN [b EXCEPT !.recovery = IF Disabled(b.snapshot) THEN NoTimer
                              ELSE b.accessibility_generation]

\* The end of a refresh, on the main queue.
RunInstall ==
    /\ agent.work # <<>>
    /\ LET item == Head(agent.work)
           current == /\ item.generation = agent.accessibility_generation
                      /\ item.app = agent.frontmost
       IN /\ item.kind = "install"
          /\ \/ ~current /\ agent' = Rest /\ UNCHANGED notices
             \/ /\ current
                /\ "installed" \in RefreshOutcomes
                /\ agent' = InstallContext(Rest, item.policy, item.app, item.field)
                /\ UNCHANGED notices
             \/ /\ current
                /\ "degraded" \in RefreshOutcomes
                /\ item.policy # "disabled"
                /\ agent.degraded_app = NoApp
                /\ agent' = Degrade(Rest, item)
                /\ notices' = notices \ {"focus"}
    /\ UNCHANGED <<capturing, field, run, os_layout, events>>

\* The backoff is over; its timer attaches an observer again if nothing has
\* replaced the one that was torn down.
BackoffExpires ==
    /\ Act
    /\ agent.degraded_app # NoApp
    /\ LET a == [agent EXCEPT !.degraded_app = NoApp, !.recovery = NoTimer]
       IN IF /\ agent.recovery = agent.accessibility_generation
             /\ agent.degraded_app = agent.frontmost
          THEN \E attachable \in ObserverOutcomes :
                  agent' = RequestRefresh(ConfigureObserver(InstallBase(a), attachable))
          ELSE agent' = a
    /\ UNCHANGED <<capturing, notices, field, run, os_layout>>

-----------------------------------------------------------------------------

\* The end of start(), with the English input source selected.
Start ==
    [engine |-> Engine!NewEngine, snapshot |-> "unknown", focus |-> NoFocus,
     frontmost |-> AppOf(FirstField), observer |-> FALSE, refresh |-> NoRefresh,
     accessibility_generation |-> 0, degraded_app |-> NoApp, recovery |-> NoTimer,
     ready |-> TRUE, synced |-> "English", option |-> "up", toggle |-> NoToggle,
     replacement_generation |-> 0,
     selection_generation |-> 0, selection_pending |-> FALSE,
     text_generation |-> 0, text_pending |-> FALSE, work |-> <<>>]

Init ==
    /\ field = FirstField
    /\ run = 0
    /\ os_layout = "English"
    /\ capturing = NoRefresh
    /\ notices = {}
    /\ events = 0
    /\ \E attachable \in ObserverOutcomes :
          agent = RequestRefresh(ConfigureObserver(InstallBase(Start), attachable))

Deliver == DeliverFocusNotice \/ DeliverAppNotice \/ DeliverSourceNotice

RunWork == RunSelection \/ RunReplacement \/ RunInstall

Next ==
    \/ \E key \in Key : ProcessKey(key)
    \/ OtherModifierChanges
    \/ \E chord \in BOOLEAN : OptionDown(chord) \/ OptionUp(chord)
    \/ \E f \in InSameApp : MouseDown(f) \/ FocusMoves(f)
    \/ \E f \in Field : AppActivates(f)
    \/ \E l \in Engine!Layout \cup {NoLayout} : InputSourceChanges(l)
    \/ Deliver
    \/ StartRefresh
    \/ FinishRefresh
    \/ RunWork
    \/ BackoffExpires

\* The run loop serves its queue and its sources, and the accessibility queue
\* its refresh; nobody makes the user go on.
Fairness ==
    /\ WF_vars(RunWork)
    /\ WF_vars(DeliverFocusNotice)
    /\ WF_vars(DeliverAppNotice)
    /\ WF_vars(DeliverSourceNotice)
    /\ WF_vars(StartRefresh)
    /\ WF_vars(FinishRefresh)

Spec == Init /\ [][Next]_vars /\ Fairness

-----------------------------------------------------------------------------
(* Properties                                                               *)

PlanType == [count : 1..MaxTokenLen,
             focus : [app : {AppOf(f) : f \in Field}, field : Field \cup {NoField}]]

TypeOK ==
    /\ agent.snapshot \in Policy \cup {"unknown"}
    /\ agent.engine.token_len \in 0..MaxTokenLen
    /\ agent.engine.layout \in Engine!Layout
    /\ agent.option \in {"up", "armed", "cancelled"}
    /\ agent.toggle \in PlanType \cup {NoToggle}
    /\ agent.synced \in Engine!Layout \cup {NoLayout}
    /\ \A i \in 1..Len(agent.work) :
          /\ agent.work[i].kind \in {"select", "replace", "install"}
          /\ agent.work[i].kind # "install" =>
                agent.work[i].plan \in PlanType \cup {NoPlan}
    /\ notices \subseteq {"focus", "app", "source"}
    /\ field \in Field
    /\ run \in Nat
    /\ os_layout \in Engine!Layout \cup {NoLayout}

\* No notification tells of a focus the agent does not know of yet.
Informed == notices \cap {"focus", "app"} = {}

\* The item goes on to replace text when the main queue comes to it.
WillReplace(item) ==
    \/ /\ item.kind = "select"
       /\ item.plan # NoPlan
       /\ SelectionIsCurrent(item)
       /\ FocusIsStillValid(agent, item.plan.focus)
    \/ item.kind = "replace" /\ ReplacementIsCurrent(item)

\* What the agent would delete was typed in one piece right before the caret
\* of the focused field, whatever keys, clicks and focus changes came between
\* the decision and the replacement.  The same of the token it observes and
\* of the text an Option tap would turn back.  Only a focus change whose
\* notification is still on its way escapes it.
OnlyTypedTextIsReplaced ==
    Informed =>
        /\ agent.engine.token_len <= run
        /\ agent.toggle # NoToggle =>
              agent.toggle.count <= run \/ ~FocusIsStillValid(agent, agent.toggle.focus)
        /\ \A i \in 1..Len(agent.work) :
              WillReplace(agent.work[i]) => agent.work[i].plan.count <= run

\* A decision is carried out at most once: of all that is queued, no two items
\* would replace text.
OneReplacementAtMost ==
    Cardinality({i \in 1..Len(agent.work) : WillReplace(agent.work[i])}) <= 1

\* docs/invariants.md: stale or unknown policy bypasses.  The engine's context
\* is always the one of the policy the agent caches, so no token is kept and
\* no replacement decided on a surface that is unknown, secure or disabled.
EngineObeysCachedPolicy ==
    /\ agent.engine.context = EngineContext(agent.snapshot)
    /\ Disabled(agent.snapshot) => agent.engine.token_len = 0
    /\ agent.focus = NoFocus <=> agent.snapshot = "unknown"

\* What the agent believes of the input source is what is selected, as soon as
\* the notification of the last change has been handled.
InputSourceIsKnown ==
    "source" \notin notices =>
        /\ agent.synced \in {os_layout, NoLayout}
        /\ agent.ready => os_layout # NoLayout

\* The engine infers from the layout that is really selected, once everything
\* is carried out.
LayoutsAgree ==
    Settled /\ os_layout # NoLayout => agent.engine.layout = os_layout

\* A switch the engine has decided on, and a change of the input source, always
\* end with the two in agreement.
SwitchIsCarriedOut ==
    (agent.engine.layout # os_layout)
        ~> (agent.engine.layout = os_layout \/ os_layout = NoLayout)

\* An application that was activated, or found at the start, where nothing may
\* be processed gets no observer (refreshAccessibilityObserver), so nobody tells
\* of its focus: its policy stays secure until a key or an Option tap asks, and
\* is then that of the application alone.
KnownAsApplicationOnly ==
    /\ ~agent.observer
    /\ \E f \in InSameApp : FieldPolicy(f) = "secure" \/ Disabled(BasePolicy(AppOf(f)))
    /\ agent.snapshot \in {"secure", BasePolicy(agent.frontmost)}

\* When the user leaves the focus alone, the cached policy becomes that of the
\* focused field, whatever refreshes were in flight; only an application that
\* has a field where nothing may be processed can be left without an observer,
\* and then with a policy of its own.
ContextSettles ==
    <>[](/\ agent.frontmost = AppOf(field)
         /\ agent.snapshot = FieldPolicy(field) \/ KnownAsApplicationOnly)

\* docs/invariants.md: "stale or unknown policy defaults to bypass/no
\* replacement until the asynchronous refresh completes".
StalePolicyBypasses ==
    Informed /\ Disabled(FieldPolicy(field)) => Disabled(agent.snapshot)

=============================================================================
