----------------------------- MODULE MCDownload -----------------------------
(***************************************************************************)
(* A source of three blocks that may be replaced by one of two or of four.   *)
(***************************************************************************)
EXTENDS Download

MCVersion == {"new", "short", "long", "other"}
MCSize(v) == CASE v = "short" -> 2 [] v = "long" -> 4 [] OTHER -> 3

=============================================================================
