------------------------- MODULE MCSynchronousHost -------------------------
(***************************************************************************)
(* The keyboard and the languages of MCTypeClawEngine under the host.       *)
(***************************************************************************)
EXTENDS SynchronousHost, FiniteSets, SequencesExt

MCLetterEvent == {[physical_key |-> k, shift |-> FALSE] : k \in {"A", "B", "Comma"}}

MCRender(e, l) ==
    IF l = "English"
    THEN CASE e.physical_key = "A" -> "a" [] e.physical_key = "B" -> "b"
           [] e.physical_key = "Comma" -> ","
    ELSE CASE e.physical_key = "A" -> "f" [] e.physical_key = "B" -> "i"
           [] e.physical_key = "Comma" -> "w"

MCChar == {"a", "b", ",", "f", "i", "w"}
MCPunctuationLetterKeys == {","}

Words(l) == IF l = "English" THEN {<<"b", "b", "a">>}
                             ELSE {<<"i", "i">>, <<"f", "w", "i">>}

\* Dictionary evidence alone decides here.
MCScoreLayout(l, text, history) ==
    LET exact  == IF text \in Words(l) THEN 1 ELSE 0
        prefix == IF text = <<>> THEN 0
                  ELSE Cardinality({w \in Words(l) : IsPrefix(text, w)})
    IN [total       |-> 2 * exact + (IF prefix > exact THEN 1 ELSE 0),
        exact_count |-> exact,
        prefix_sum  |-> prefix]

=============================================================================
