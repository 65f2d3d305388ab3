----------------------------- MODULE EngineFfi -----------------------------
(***************************************************************************)
(* The C ABI over one engine (crates/typeclaw-ffi): TcEngine is the engine  *)
(* and at most one pending replacement, the snapshot a host needs to        *)
(* replace the token on screen after a SwitchFutureLayout.                  *)
(*                                                                         *)
(* One action per exported function that changes state.  A call is serial:  *)
(* the ABI gives each call exclusive access to its engine.                  *)
(***************************************************************************)
EXTENDS TypeClawEngine

CONSTANT NoReplacement      \* pending_replacement is None

PendingReplacement == [delete_count : 1..MaxTokenLen,
                       text : Seq(Char), inverse_text : Seq(Char)]

ASSUME ReplacementAssumption == NoReplacement \notin PendingReplacement

VARIABLE pending            \* NoReplacement or a PendingReplacement

ffiVars == <<vars, pending>>

-----------------------------------------------------------------------------
(* TcEvent and its decoding                                                 *)

\* A TcEvent without its letter: the tag, whether Control, Option or Command is
\* held, and whether its key index or code point names a key or a character.
TcEvent == [tag : {"Letter", "Literal", "Backspace", "EndToken", "Unknown"},
            host_modifier : BOOLEAN,
            valid : BOOLEAN]

\* decode_event: host modifiers first, whatever the tag.
Decoded(ev) ==
    IF ev.host_modifier THEN "HostBypass"
    ELSE IF ev.tag = "Unknown" \/ (ev.tag \in {"Letter", "Literal"} /\ ~ev.valid)
         THEN "Invalid"
    ELSE ev.tag

-----------------------------------------------------------------------------
(* The pending replacement                                                  *)

\* Mistake: the two texts are exchanged.
CaptureReplacementSwapped(l, t, cs) ==
    IF t = <<>> \/ cs[l] = <<>>
    THEN NoReplacement
    ELSE [delete_count |-> Len(t),
          text         |-> cs[Opposite(l)],
          inverse_text |-> cs[l]]

\* Mistake: an empty token still makes a snapshot.
CaptureReplacementOfNothing(l, t, cs) ==
    [delete_count |-> Len(t),
     text         |-> cs[l],
     inverse_text |-> cs[Opposite(l)]]

CaptureReplacement(l, t, cs) ==
    IF t = <<>> \/ cs[l] = <<>>
    THEN NoReplacement
    ELSE [delete_count |-> Len(t),
          text         |-> cs[l],
          inverse_text |-> cs[Opposite(l)]]

\* Mistake: an observation without a switch keeps the earlier snapshot.
PendingAfterObserveSticky ==
    IF output'.action.tag = "SwitchFutureLayout"
    THEN CaptureReplacement(output'.action.layout, token', candidates')
    ELSE pending

\* Mistake: captured before the key that decided has joined the token.
PendingAfterObserveEarly ==
    IF output'.action.tag = "SwitchFutureLayout"
    THEN CaptureReplacement(output'.action.layout, token, candidates)
    ELSE NoReplacement

\* observe captures after the engine's step, from the token that includes it.
PendingAfterObserve ==
    IF output'.action.tag = "SwitchFutureLayout"
    THEN CaptureReplacement(output'.action.layout, token', candidates')
    ELSE NoReplacement

\* Mistake: captured after the forced switch has reset the token.
PendingAfterForceLate ==
    IF output'.action.tag = "SwitchFutureLayout"
    THEN CaptureReplacement(output'.action.layout, token', candidates')
    ELSE NoReplacement

\* force_switch_layout resets the token, so its snapshot is taken before.
PendingAfterForce ==
    IF output'.action.tag = "SwitchFutureLayout"
    THEN CaptureReplacement(Opposite(layout), token, candidates)
    ELSE NoReplacement

-----------------------------------------------------------------------------
(* Exported functions                                                       *)

\* e is the letter event the key index and Shift of a letter event denote.
TypeclawObserve(ev, e) ==
    \/ /\ Decoded(ev) = "HostBypass"
       /\ ObserveHostBypass
       /\ pending' = PendingAfterObserve
    \/ /\ Decoded(ev) = "Letter"
       /\ ObserveLetter(e)
       /\ pending' = PendingAfterObserve
    \/ /\ Decoded(ev) \in {"Literal", "EndToken"}
       /\ ObserveBoundary
       /\ pending' = PendingAfterObserve
    \/ /\ Decoded(ev) = "Backspace"
       /\ ObserveBackspace
       /\ pending' = PendingAfterObserve
    \/ /\ Decoded(ev) = "Invalid"     \* the engine does not see the event
       /\ output' = NoOutput
       /\ pending' = NoReplacement
       /\ UNCHANGED <<tokenVars, score_cache, layout, token_start_layout,
                      bypass_until_boundary, host_context>>

TypeclawForceSwitchLayout ==
    /\ ForceSwitchLayout
    /\ pending' = PendingAfterForce

TypeclawResetToken ==
    /\ ResetToken
    /\ pending' = NoReplacement

TypeclawResetLayout(l) ==
    /\ ResetLayout(l)
    /\ pending' = NoReplacement

TypeclawSetHostContext(c) ==
    /\ SetHostContext(c)
    /\ pending' = NoReplacement

\* The text is handed over once; output still tells what authorised it.
TypeclawTakePendingReplacement ==
    /\ pending' = NoReplacement
    /\ UNCHANGED vars

FfiInit == Init /\ pending = NoReplacement

FfiNext ==
    \/ \E ev \in TcEvent, e \in LetterEvent : TypeclawObserve(ev, e)
    \/ TypeclawForceSwitchLayout
    \/ TypeclawResetToken
    \/ \E l \in Layout : TypeclawResetLayout(l)
    \/ \E c \in HostContext : TypeclawSetHostContext(c)
    \/ TypeclawTakePendingReplacement

FfiSpec == FfiInit /\ [][FfiNext]_ffiVars

-----------------------------------------------------------------------------
(* Properties                                                               *)

FfiTypeOK == TypeOK /\ pending \in PendingReplacement \cup {NoReplacement}

\* A pending replacement exists only right after the call that authorised it,
\* a SwitchFutureLayout(l) that has not been followed by any other call; its
\* two texts are equally long and delete_count counts them.  When the switch
\* was automatic the token is still active: the snapshot is that token in the
\* new layout, and the inverse the same token in the old one.
PendingIsTheLastSwitch ==
    pending # NoReplacement =>
        /\ output.returned
        /\ output.action = SwitchFutureLayout(layout)
        /\ Len(pending.text) = pending.delete_count
        /\ Len(pending.inverse_text) = pending.delete_count
        /\ token # <<>> => /\ pending.delete_count = Len(token)
                           /\ pending.text = Rendered(token)[layout]
                           /\ pending.inverse_text = Rendered(token)[Opposite(layout)]

-----------------------------------------------------------------------------
(* The abstract specification                                               *)

Contract == INSTANCE TokenContract WITH
    engine <- [token_len |-> Len(token),
               layout    |-> layout,
               start     |-> token_start_layout,
               ignoring  |-> bypass_until_boundary,
               context   |-> host_context,
               action    |-> output.action,
               pending   |-> IF pending = NoReplacement
                             THEN 0 ELSE pending.delete_count]

\* Every call of the ABI is one of the steps the contract allows: the layout
\* changes only where the length of the token, its start layout and the context
\* let it, and a switch always comes with a replacement that covers the token.
ImplementsContract == Contract!Spec

\* docs/invariants.md, Switching Rules: a token shorter than min_token_len is in
\* the layout it began in, through growing, shrinking, forced switches and
\* roll-backs; so is one typed while switching is disabled.
ShortTokensKeepTheirLayout == Contract!ShortTokensKeepTheirLayout

\* A host is authorised to replace text only by the very last call, which must
\* have switched to the layout the engine is now in, in a context that bypasses
\* nothing; a token that is still active is replaced as a whole.
OnlyTheLastSwitchAuthorises == Contract!OnlyTheLastSwitchAuthorises

=============================================================================
