---------------------------- MODULE MCCaseDomain ----------------------------
(***************************************************************************)
(* One case with structure work: two chat fields, of which a calculation   *)
(* sets one, an event address they can be bound to, an answer the engine   *)
(* may ask for, one action and one ruling.                                 *)
(***************************************************************************)
EXTENDS CaseRegister, TLC

CONSTANTS amount, note, dividend, ratio, act, rule, v1, v2

MCBindings == (amount :> dividend) @@ (note :> None)

MCPatches == {amount :> v1, amount :> Conflict, note :> v1}

MCTurns ==
    {[intent |-> "intake", action |-> a, facts |-> << >>, corrections |-> {},
      usesCase |-> FALSE, analysis |-> a = "continue"] : a \in {"partial", "continue"}}

MCStructures ==
    {(dividend :> v1) @@ (ratio :> Unknown), (dividend :> v2) @@ (ratio :> Absent)}

MCBindingInputs == [{amount, note} -> {None, dividend}]

MCDataInputs == {<< >>, ratio :> v1, dividend :> v2}

MCActionInputs == {<< >>, act :> "yes"}

MCCalculations == {amount :> v2}

MCResults ==
    {[status |-> s, questions |-> {}] : s \in {"ready", "blocked"}}
    \cup {[status    |-> "needs_input",
           questions |-> {[kind |-> "data", key |-> ratio], [kind |-> "data", key |-> dividend],
                          [kind |-> "action", key |-> act], [kind |-> "ruling", key |-> rule]}]}
=============================================================================
