-------------------------- MODULE SynchronousHost --------------------------
(***************************************************************************)
(* The engine and its C ABI driven by a host that does at once what the     *)
(* macOS agent does through its run loop: it reports every key to the       *)
(* engine as processKey and processFlagsChanged do, and when a call returns  *)
(* SwitchFutureLayout it takes the pending replacement, replaces the token   *)
(* in the focused field and selects the input source before the next key.   *)
(*                                                                         *)
(* It answers whether the engine and the ABI, given a host that keeps up,    *)
(* hold what they say of the text on screen.  Agent models the real order.  *)
(* The focused field, with its caret at the end, and the input source are   *)
(* external.                                                               *)
(***************************************************************************)
EXTENDS EngineFfi

CONSTANT MaxDocument        \* bound: the field takes this many characters

VARIABLES
    document,               \* the characters of the focused field
    os_layout,              \* the selected keyboard input source
    switching               \* a SwitchFutureLayout is still to be carried out

hostVars == <<ffiVars, document, os_layout, switching>>

Event(tag, modifier) == [tag |-> tag, host_modifier |-> modifier, valid |-> TRUE]
Other == " "                \* a character that is no letter of either layout

MustSwitch == output'.action.tag = "SwitchFutureLayout"

\* processKey, when the cached context lets it observe; a bypassed context
\* resets the token and observes nothing.
ProcessKey(observe) ==
    /\ ~switching
    /\ \/ BypassesEngine(host_context) /\ TypeclawResetToken
       \/ ~BypassesEngine(host_context) /\ observe
    /\ switching' = MustSwitch

\* The key types the character of the input source that is really selected.
TypeLetter(e) ==
    /\ Len(document) < MaxDocument
    /\ ProcessKey(TypeclawObserve(Event("Letter", FALSE), e))
    /\ document' = Append(document, Render(e, os_layout))
    /\ UNCHANGED os_layout

\* Space, Return, or a key that is no letter in either layout.
TypeOther ==
    /\ Len(document) < MaxDocument
    /\ ProcessKey(\E e \in LetterEvent : TypeclawObserve(Event("EndToken", FALSE), e))
    /\ document' = Append(document, Other)
    /\ UNCHANGED os_layout

PressBackspace ==
    /\ ProcessKey(\E e \in LetterEvent : TypeclawObserve(Event("Backspace", FALSE), e))
    /\ document' = IF document = <<>> THEN <<>> ELSE Shorter(document)
    /\ UNCHANGED os_layout

\* A Command or Control chord, or a navigation key: it may erase the field.
PressChord ==
    /\ ProcessKey(\E e \in LetterEvent : TypeclawObserve(Event("Letter", TRUE), e))
    /\ document' \in {document, <<>>}
    /\ UNCHANGED os_layout

\* A standalone Option tap.
TapOption ==
    /\ ~switching
    /\ ~BypassesEngine(host_context)
    /\ TypeclawForceSwitchLayout
    /\ switching' = MustSwitch
    /\ UNCHANGED <<document, os_layout>>

\* The rest of applyObservation and completeInputSourceSelection.
CarryOutSwitch ==
    /\ switching
    /\ switching' = FALSE
    /\ TypeclawTakePendingReplacement
    /\ os_layout' = output.action.layout
    /\ document' =
           IF pending = NoReplacement THEN document
           ELSE SubSeq(document, 1, Len(document) - pending.delete_count)
                    \o pending.text

\* Focus moves to an empty field with policy c: the token is reset with the
\* context.
ChangeFocus(c) ==
    /\ ~switching
    /\ host_context # c
    /\ TypeclawSetHostContext(c)
    /\ document' = <<>>
    /\ UNCHANGED <<os_layout, switching>>

\* The user picks the other input source; the agent resets the engine to it.
UserSelectsInputSource ==
    /\ ~switching
    /\ os_layout' = Opposite(os_layout)
    /\ TypeclawResetLayout(os_layout')
    /\ UNCHANGED <<document, switching>>

HostInit ==
    /\ FfiInit
    /\ document = <<>>
    /\ os_layout = "English"
    /\ switching = FALSE

HostNext ==
    \/ \E e \in LetterEvent : TypeLetter(e)
    \/ TypeOther
    \/ PressBackspace
    \/ PressChord
    \/ TapOption
    \/ CarryOutSwitch
    \/ \E c \in HostContext : ChangeFocus(c)
    \/ UserSelectsInputSource

HostSpec == HostInit /\ [][HostNext]_hostVars

-----------------------------------------------------------------------------
(* Properties                                                               *)

LastOf(s, n) == SubSeq(s, Len(s) - n + 1, Len(s))

HostTypeOK ==
    /\ FfiTypeOK
    /\ document \in Seq(Char \cup {Other})
    /\ os_layout \in Layout
    /\ switching \in BOOLEAN

\* Between switches the engine's layout is the input source, and the field
\* ends with the active token as that layout renders it, through every
\* sequence of letters, separators, corrections, erasures, roll-backs,
\* over-long runs and changes of context.
ScreenShowsToken ==
    ~switching =>
        /\ layout = os_layout
        /\ Len(token) <= Len(document)
        /\ LastOf(document, Len(token)) = candidates[layout]

\* lib.rs: the inverse text "is the text currently represented by the active
\* token before the pending replacement is applied".  What the host deletes is
\* exactly that text, so nothing else in the field is touched.
ReplacementDeletesItsInverse ==
    switching /\ pending # NoReplacement =>
        /\ pending.delete_count <= Len(document)
        /\ LastOf(document, pending.delete_count) = pending.inverse_text

=============================================================================
