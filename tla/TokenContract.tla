--------------------------- MODULE TokenContract ---------------------------
(***************************************************************************)
(* What an engine behind the C ABI promises its host, without keys,         *)
(* languages or scores: how long the active token is, which layout is       *)
(* inferred, and what the last call authorised.  The engine may change the  *)
(* layout only where the switching rules let it; why it does is left open.  *)
(*                                                                         *)
(* Each call is an operator from the engine's state to its next state, or   *)
(* to the set of those it may choose from, so that a host's handler can     *)
(* make several calls in one step.  EngineFfi implements it; Agent uses it.  *)
(***************************************************************************)
EXTENDS Integers

CONSTANTS MinTokenLen, MaxTokenLen

ASSUME LengthAssumption == /\ MinTokenLen \in Nat \ {0}
                           /\ MaxTokenLen \in Nat
                           /\ MinTokenLen <= MaxTokenLen

\* token_len: letters in the active token; start: the layout it began in;
\* ignoring: the rest of an over-long run is being ignored; action: what the
\* last call returned; pending: delete_count of the pending replacement or 0.
VARIABLE engine

Layout == {"English", "Secondary"}
Opposite(l) == IF l = "English" THEN "Secondary" ELSE "English"

Context == [secure_input : BOOLEAN,
            automatic_processing_disabled : BOOLEAN,
            automatic_switching_disabled : BOOLEAN]
Bypassing(en) == \/ en.context.secure_input
                 \/ en.context.automatic_processing_disabled

None      == [tag |-> "None", layout |-> "English"]
Reset     == [tag |-> "ResetToken", layout |-> "English"]
Switch(l) == [tag |-> "SwitchFutureLayout", layout |-> l]

NewEngine == [token_len |-> 0, layout |-> "English", start |-> "English",
              ignoring |-> FALSE,
              context |-> [secure_input |-> FALSE,
                           automatic_processing_disabled |-> FALSE,
                           automatic_switching_disabled |-> FALSE],
              action |-> None, pending |-> 0]

-----------------------------------------------------------------------------
(* The calls                                                                *)

ResetLayout(en, l) ==
    [en EXCEPT !.token_len = 0, !.layout = l, !.start = l,
               !.ignoring = FALSE, !.action = None, !.pending = 0]

ResetToken(en) == ResetLayout(en, en.layout)

\* The token is dropped, and the host told if there was one: literals, the
\* ends of tokens, keys with a host modifier, anything in a bypassing context.
Discarded(en) ==
    [ResetToken(en) EXCEPT !.action = IF en.token_len = 0 THEN None ELSE Reset]

\* Nothing to do; what an earlier call authorised has lapsed.
Ignored(en) == [en EXCEPT !.action = None, !.pending = 0]

\* A new layout authorises the replacement of the whole active token.
Inferring(en, l) ==
    IF l = en.layout THEN Ignored(en)
    ELSE [en EXCEPT !.layout = l, !.action = Switch(l), !.pending = en.token_len]

\* The layouts the engine may infer: a short token is in the layout it began in.
Inferable(en) ==
    IF en.context.automatic_switching_disabled THEN {en.layout}
    ELSE IF en.token_len >= MinTokenLen THEN Layout
    ELSE {en.start}

Grown(en) == [en EXCEPT !.token_len = @ + 1,
                        !.start = IF en.token_len = 0 THEN en.layout ELSE @]
Overflown(en) == [Discarded(en) EXCEPT !.ignoring = TRUE]
Shrunk(en) == [en EXCEPT !.token_len = @ - 1]

AtLimit(en) == en.token_len >= MaxTokenLen

\* A letter may also end the token or an over-long run, as a separator.
AfterLetter(en) ==
    IF Bypassing(en) THEN {Discarded(en)}
    ELSE IF en.ignoring THEN {Ignored(en), Discarded(en)}
    ELSE IF AtLimit(en) THEN {Overflown(en)}
    ELSE {Discarded(en)} \cup {Inferring(Grown(en), l) : l \in Inferable(Grown(en))}

AfterBackspace(en) ==
    IF Bypassing(en) THEN {Discarded(en)}
    ELSE IF en.ignoring \/ en.token_len = 0 THEN {Ignored(en)}
    ELSE IF en.token_len = 1 THEN {Discarded(en)}
    ELSE {Inferring(Shrunk(en), l) : l \in Inferable(Shrunk(en))}

ForceSwitchLayout(en) ==
    IF Bypassing(en) THEN Discarded(en)
    ELSE [ResetLayout(en, Opposite(en.layout)) EXCEPT
              !.action = Switch(Opposite(en.layout)), !.pending = en.token_len]

SetHostContext(en, c) ==
    LET set == [en EXCEPT !.context = c, !.action = None, !.pending = 0]
    IN IF en.context = c /\ ~Bypassing(en) THEN set ELSE ResetToken(set)

TakePendingReplacement(en) == [en EXCEPT !.pending = 0]

-----------------------------------------------------------------------------

Init == engine = NewEngine

Next ==
    \/ engine' \in AfterLetter(engine)
    \/ engine' \in AfterBackspace(engine)
    \/ engine' = Discarded(engine)
    \/ engine' = Ignored(engine)          \* an event that cannot be decoded
    \/ engine' = ForceSwitchLayout(engine)
    \/ \E l \in Layout : engine' = ResetLayout(engine, l)
    \/ \E c \in Context : engine' = SetHostContext(engine, c)
    \/ engine' = TakePendingReplacement(engine)

Spec == Init /\ [][Next]_engine

-----------------------------------------------------------------------------
(* Properties                                                               *)

\* Type correctness; the token never outgrows max_token_len, nor does what a
\* replacement deletes.
ContractTypeOK ==
    engine \in [token_len : 0..MaxTokenLen, layout : Layout, start : Layout,
               ignoring : BOOLEAN, context : Context,
               action : {None, Reset} \cup {Switch(l) : l \in Layout},
               pending : 0..MaxTokenLen]

\* docs/invariants.md, Switching Rules: tokens shorter than min_token_len do not
\* switch.  Through growing, shrinking and forced switches, a short token is in
\* the layout it began in; so is one typed while switching is disabled.
ShortTokensKeepTheirLayout ==
    \/ engine.token_len < MinTokenLen
    \/ engine.context.automatic_switching_disabled
    => engine.layout = engine.start

\* A host is authorised to replace text only by the very last call, which must
\* have switched to the layout the engine is now in, in a context that bypasses
\* nothing; a token that is still active is replaced as a whole.
OnlyTheLastSwitchAuthorises ==
    engine.pending # 0 =>
        /\ engine.action = Switch(engine.layout)
        /\ ~Bypassing(engine)
        /\ engine.token_len \in {0, engine.pending}

=============================================================================
