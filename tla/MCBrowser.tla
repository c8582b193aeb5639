------------------------------ MODULE MCBrowser ------------------------------
(***************************************************************************)
(* What the browser shows of a case: the workspace with its composer and   *)
(* its two-step analysis (Workspace), and the questions of the structure   *)
(* panel (EngineQuestions).  Each is a view on the case of its own, so a   *)
(* behaviour here is one of either, and the other rests.                   *)
(***************************************************************************)
EXTENDS Workspace, EngineQuestions

VARIABLE part

\* A fact with an action, one with two gates before it, a core fact, a group
\* fact stated by a member, and a question to a professional.
Yes(k) == {[key |-> k, want |-> {"yes"}]}
MCRequire ==
    [k \in Facts \cup Gates |->
        CASE k = "form" -> Yes("reinvested")
          [] k = "paid_on" -> Yes("paid")
          [] k = "paid" -> Yes("adjusted")
          [] k = "topup" -> Yes("group.revenue")
          [] k \notin {"form", "paid_on", "paid", "topup"} -> {}]
MCMembers == [k \in {"group.revenue"} |-> {"own.revenue"}]
MCActions == [feasible |-> [about |-> "reinvested", yes |-> "yes"]]

\* What nothing depends on has one answer, "unknown".
MCFactValues == [k \in Facts |-> CASE k = "reinvested" -> {"yes", "no"}
                                   [] k \in {"held", "group.revenue"} -> {"yes"}
                                   [] k \in {"form", "paid_on", "topup", "own.revenue"} -> {}]

MCQuestion(k, kind) == [key |-> k, kind |-> kind]
MCNeeds == {{MCQuestion("paid_on", "data"), MCQuestion("feasible", "action")},
            {MCQuestion("held", "data"), MCQuestion("topup", "data"), MCQuestion("form", "ruling")}}

MCFirstCases ==
    {[mode |-> "plan_structure", facts |-> [k \in Facts |-> Absent]],
     [mode |-> "assess_current",
      facts |-> [k \in Facts |-> IF k \in {"reinvested", "own.revenue"} THEN Conflict ELSE Absent]]}

MCInit == Init /\ QuestionsInit /\ part \in {"workspace", "questions"}

WorkspaceStep == part = "workspace" /\ Next /\ UNCHANGED <<part, questionVars>>
QuestionsStep == part = "questions" /\ QuestionsNext /\ UNCHANGED <<part, vars>>

MCSpec == /\ MCInit /\ [][WorkspaceStep \/ QuestionsStep]_<<vars, questionVars, part>>
          /\ WF_vars(Browser) /\ KeepsAnswering
=============================================================================
