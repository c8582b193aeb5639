--------------------------- MODULE MCCaseService ---------------------------
(***************************************************************************)
(* Two handlers, two request ids and a few operations whose results differ *)
(* with the order they are committed in: an edit and a correction of the   *)
(* same fact, a confirmation, a request for a partial result and structure *)
(* work that binds the fact.                                               *)
(***************************************************************************)
EXTENDS CaseService, TLC

CONSTANTS amount, dividend, v1, v2

MCBindings      == amount :> None
MCBindingInputs == {amount :> dividend}
MCPatches       == {amount :> v1, amount :> v2}
MCStructures    == {dividend :> v1}
MCTurns ==
    {[intent |-> "intake", action |-> "partial", facts |-> << >>, corrections |-> {},
      usesCase |-> FALSE, analysis |-> FALSE]}

MCSymmetry == Permutations(Handlers) \cup Permutations(RequestIds)

MCOffered == Edits \cup Confirms \cup Messages \cup Setups
=============================================================================
