----------------------------- MODULE MCCaseChat -----------------------------
(***************************************************************************)
(* One case in the interview: a field that identifies the case (and can    *)
(* take it out of scope) and a detail field, two values and every edit of  *)
(* one field.                                                              *)
(***************************************************************************)
EXTENDS CaseRegister, TLC

CONSTANTS scope, detail, v1, out

MCPatches == UNION {[S -> {v1, out, Absent, Unknown, Conflict}] : S \in {{scope}, {detail}}}

Turn(intent, action, facts) ==
    [intent |-> intent, action |-> action, facts |-> facts, corrections |-> {},
     usesCase |-> FALSE, analysis |-> FALSE]

\* Controls, answers and corrections of one field, lookups, and requests to analyse.
MCTurns ==
    {Turn("intake", a, << >>) : a \in {"continue", "partial", "pause", "resume", "unknown", "unavailable", "new_case", "summary"}}
    \cup {Turn("intake", "continue", f :> v) : f \in Fields, v \in {v1, out, Unknown}}
    \cup {[Turn("intake", "continue", detail :> v) EXCEPT !.corrections = {detail}] : v \in {v1, out}}
    \cup {[Turn("research", "continue", p) EXCEPT !.usesCase = u] : u \in BOOLEAN, p \in {<< >>, detail :> out}}
    \cup {Turn(i, "continue", << >>) : i \in {"chat", "clarify", "unsupported"}}
    \cup {[Turn("intake", "continue", << >>) EXCEPT !.analysis = TRUE]}

MCBindings == [f \in Fields |-> None]
=============================================================================
