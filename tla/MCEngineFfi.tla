---------------------------- MODULE MCEngineFfi ----------------------------
(***************************************************************************)
(* The engine behind its C ABI, over the keyboard of SmallKeyboard.        *)
(***************************************************************************)
EXTENDS EngineFfi, SmallKeyboard

=============================================================================
