---------------------------- MODULE MCTurnGraph ----------------------------
(***************************************************************************)
(* A few messages that bring every kind of turn about.                     *)
(***************************************************************************)
EXTENDS TurnGraph

Plain == [intent |-> "intake", action |-> "continue", facts |-> FALSE, query |-> NoQuery,
          uses |-> FALSE, kind |-> None, tasks |-> << >>, analysis |-> FALSE,
          hint |-> "auto", needs |-> {}]
Lookup == [Plain EXCEPT !.intent = "research", !.query = "q1", !.kind = "reference_lookup",
                        !.needs = {"search_law"}]

MCMessages ==
  {Lookup,
   [Lookup EXCEPT !.query = "q2", !.needs = {}],
   [Lookup EXCEPT !.kind = "consultation", !.hint = "dividend_consultation", !.uses = TRUE, !.facts = TRUE],
   [Plain EXCEPT !.hint = "reference_lookup", !.kind = "reference_lookup"],
   [Plain EXCEPT !.facts = TRUE],
   [Plain EXCEPT !.analysis = TRUE],
   [Plain EXCEPT !.action = "resume"],
   [Plain EXCEPT !.action = "retry_research"],
   [Plain EXCEPT !.action = "summary"],
   [Plain EXCEPT !.action = "pause"],
   [Lookup EXCEPT !.tasks = <<Job("reference_lookup", "q1", FALSE), Job("fact_intake", NoQuery, TRUE)>>],
   [Plain EXCEPT !.analysis = TRUE,
                 !.tasks = <<Job("consultation", NoQuery, TRUE), Job("fact_intake", NoQuery, TRUE)>>]}

MCModelUse == [id : {"a"}, ver : {1, 2}]
=============================================================================
