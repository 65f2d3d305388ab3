------------------------------ MODULE MCAgent ------------------------------
(***************************************************************************)
(* Two applications: an editor with a text field, an embedded terminal pane *)
(* and a password field, and a mail program for which automatic switching is *)
(* off, with a text field and a password field.  What a field is becomes     *)
(* known only from its accessibility facts.                                  *)
(***************************************************************************)
EXTENDS Agent

MCField == {"text", "pane", "password", "mail"}
MCFieldFew == MCField \ {"text"}
MCAppOf(f) == IF f \in {"mail", "login"} THEN "mailer" ELSE "editor"
MCFieldPolicy(f) == CASE f = "text"     -> "normal"
                      [] f = "pane"     -> "disabled"
                      [] f \in {"password", "login"} -> "secure"
                      [] f = "mail"     -> "autoOff"
MCBasePolicy(app) == IF app = "mailer" THEN "autoOff" ELSE "normal"

-----------------------------------------------------------------------------
(* Generations are only compared for equality and only grow, so two states   *)
(* that differ in which numbers are current, and not in what is current,     *)
(* have the same future.  Safety runs may take them as one (VIEW).           *)

Currency(item) ==
    LET is(n, current) == IF n = current THEN 1 ELSE 0
        of == CASE item.kind = "select"  -> agent.selection_generation
                [] item.kind = "replace" -> agent.text_generation
                [] item.kind = "install" -> agent.accessibility_generation
    IN IF item.kind = "install"
       THEN [item EXCEPT !.generation = is(@, of)]
       ELSE [item EXCEPT !.generation = is(@, of),
                         !.replacement = is(@, agent.replacement_generation)]

View ==
    <<[agent EXCEPT
          !.replacement_generation = 0, !.selection_generation = 0,
          !.text_generation = 0, !.accessibility_generation = 0,
          !.work = [i \in 1..Len(agent.work) |-> Currency(agent.work[i])],
          !.recovery = IF @ = NoTimer THEN NoTimer
                       ELSE @ - agent.accessibility_generation,
          !.refresh = IF @ = NoRefresh THEN NoRefresh
                      ELSE [@ EXCEPT !.generation = @ - agent.accessibility_generation]],
      IF capturing = NoRefresh THEN NoRefresh ELSE Currency(capturing),
      notices, field, run, os_layout, events>>

=============================================================================
