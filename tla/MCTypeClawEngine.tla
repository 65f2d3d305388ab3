------------------------- MODULE MCTypeClawEngine -------------------------
(***************************************************************************)
(* The engine on its own, over the keyboard of SmallKeyboard.              *)
(***************************************************************************)
EXTENDS TypeClawEngine, SmallKeyboard

=============================================================================
