--------------------------- MODULE MCOrchestrator ---------------------------
(***************************************************************************)
(* Small cases for TLC: a complete package and an incomplete revision of   *)
(* it, one figure, one defect.                                             *)
(***************************************************************************)
EXTENDS Orchestrator

CONSTANTS p1, p2, r1

MCOneRun == [p \in Packages |-> r1]

MCDefect == {[agent |-> "analysis", symptom |-> "s", affects |-> TRUE]}

\* A draft is sound or not; the polished text may add a figure, which fails the
\* same self-check as a text that is not sound in itself.
Text(figures, sound) == [figures |-> figures, sound |-> sound]
MCDrafts == {Text({}, FALSE), Text({}, TRUE)}
MCPolishings == {Text({}, TRUE), Text({1}, TRUE)}
=============================================================================
