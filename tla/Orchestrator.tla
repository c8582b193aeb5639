---------------------------- MODULE Orchestrator ----------------------------
(***************************************************************************)
(* One `run` of agent/tools/orchestrate.py over a case file: decide picks  *)
(* the next node from the files, an agent or the optimizer works on the    *)
(* node, the result is merged, and so on until a stop.  The interactive    *)
(* front session works beside it on the same files.                        *)
(*                                                                         *)
(* The lock file lets one run at a time work on a case.                    *)
(***************************************************************************)
EXTENDS CaseLedger

CONSTANT NodeLimit        \* runs of one node inside one run

ASSUME OrchestratorAssumption == NodeLimit \in Nat \ {0}

VARIABLES flow,     \* the node at work and the state of the graph
          stop      \* why the last run stopped

vars == <<ledger, package, checklist, report, bugs, calls, untimed, flow, stop>>

AgentNodes == {"review_intake", "analysis", "review_draft", "polish", "review_final"}
ReviewNodes == {"review_intake", "review_draft", "review_final"}
Nodes == AgentNodes \cup {"run"}
Stops == {"delivered", "need_front", "revision_limit", "agent_failed", "system_defect",
          "rate_limited", "unexpected"}

\* LEGAL: where the graph may go after a node.
Legal ==
  [dispatch      |-> Nodes,
   review_intake |-> {"run"},
   run           |-> {"analysis"},
   analysis      |-> {"analysis", "review_draft"},
   review_draft  |-> {"analysis", "polish"},
   polish        |-> {"analysis", "polish", "review_final"},
   review_final  |-> {"analysis", "polish"}]

Idle == [node |-> "idle", counts |-> [n \in Nodes |-> 0], run |-> NoRun,
         touched |-> FALSE, rendered |-> FALSE, grew |-> FALSE, done |-> FALSE, read |-> "none"]

Init ==
  /\ LedgerInit
  /\ flow = Idle
  /\ stop = "none"

----------------------------------------------------------------------------
(***************************************************************************)
(* decide: the node the files call for.  redo is the one thing a node      *)
(* passes on directly.                                                     *)
(***************************************************************************)
\* status and back are what Status and PendingReturn are when decide begins.
WantedWithoutSelfCheck(redo, status, back) ==
  CASE redo # "none" -> redo
    [] redo = "none" /\ back \in Nodes -> back
    [] OTHER ->
         CASE status = "intake" -> "review_intake"
           [] status = "intake_ok" -> "run"
           [] status = "ran" -> "analysis"
           [] status = "reviewed" -> "polish"
           [] status = "drafted" -> "review_draft"
           [] OTHER -> "review_final"

Wanted(redo, status, back) ==
  CASE redo # "none" -> redo
    [] redo = "none" /\ back \in Nodes -> back
    [] OTHER ->
         CASE status = "intake" -> "review_intake"
           [] status = "intake_ok" -> "run"
           [] status = "ran" -> "analysis"
           [] status = "reviewed" -> "polish"
           [] status = "drafted" ->
                IF DraftProblems(ledger.run) THEN "analysis" ELSE "review_draft"
           [] OTHER ->
                IF PolishedProblems(ledger.run) THEN "polish" ELSE "review_final"

\* Why the run stops here, "none" if it goes on to the node wanted.
StopFor(redo, counts, status, back, wanted) ==
  LET incomplete == status = "intake" /\ back = "none" /\ IntakeProblems
  IN CASE status # "delivered" /\ OpenDefects # {} -> "system_defect"
       [] status = "delivered" /\ redo = "none" -> "delivered"
       [] OTHER ->
            IF redo = "none" /\ (back = "front" \/ incomplete) THEN "need_front"
            ELSE IF counts[wanted] >= NodeLimit THEN "revision_limit" ELSE "none"

\* advance: a destination the graph does not allow ends the run.
StopAfter(node, wanted, reason) ==
  IF reason = "none" /\ wanted \notin Legal[node] THEN "unexpected" ELSE reason

\* run_input reads the package when the node begins.
InputOf(node) == IF node = "run" THEN package ELSE "none"

EnterUncounted(node, counts) ==
  flow' = [node |-> node, counts |-> counts, run |-> ledger.run,
           touched |-> FALSE, rendered |-> FALSE, grew |-> FALSE, done |-> FALSE, read |-> InputOf(node)]

Enter(node, counts) ==
  flow' = [node |-> node, counts |-> [counts EXCEPT ![node] = @ + 1], run |-> ledger.run,
           touched |-> FALSE, rendered |-> FALSE, grew |-> FALSE, done |-> FALSE, read |-> InputOf(node)]

GoTo(node, counts, wanted, reason) ==
  /\ stop' = StopAfter(node, wanted, reason)
  /\ IF stop' = "none" THEN Enter(wanted, counts) ELSE flow' = Idle

Decided(node, redo, counts, status, back, wanted) ==
  GoTo(node, counts, wanted, StopFor(redo, counts, status, back, wanted))

Advance(node, redo, counts) == UNCHANGED calls /\ \E status \in {Status}, back \in {PendingReturn} :
  Decided(node, redo, counts, status, back, Wanted(redo, status, back))

\* The run ends, and with it the call it may be in.
StopWith(reason) ==
  /\ stop' = reason
  /\ flow' = Idle
  /\ Drops("program")

StartRun ==
  /\ flow.node = "idle"
  /\ UNCHANGED ledgerVars
  /\ Advance("dispatch", "none", [n \in Nodes |-> 0])

----------------------------------------------------------------------------
(***************************************************************************)
(* Agents at work.  Each calls the tools its task text names, for the run  *)
(* it was given.                                                           *)
(***************************************************************************)
Noted(field) == flow' = [flow EXCEPT !.touched = TRUE, !.rendered = @ \/ field = "pdf"]
GivenRun == flow.run = ledger.run
\* The node is at work and between two calls.
Working(nodes) == flow.node \in nodes /\ ~flow.done /\ calls["program"].phase = "none"

WorkIntake ==
  /\ \/ Working({"review_intake"}) /\ Loads("program") /\ UNCHANGED flow
     \/ \E v \in IntakeVerdicts : ReviewIntake(v) /\ Noted("checklist")
     \/ ~flow.done /\ SaveProgram /\ UNCHANGED flow
  /\ UNCHANGED stop

WorkDraft == \E t \in Drafts :
  /\ Working({"analysis"}) /\ GivenRun
  /\ WriteReport(t)
  /\ Noted("draft")
  /\ UNCHANGED stop

WorkReview == \E v \in DraftVerdicts :
  /\ Working({"review_draft"}) /\ GivenRun
  /\ ReviewDraft(v)
  /\ Noted("review")
  /\ UNCHANGED stop

WorkPolish ==
  /\ Working({"polish"})
  /\ \/ \E t \in Polishings :
          /\ (GivenRun /\ WritePolished(t)) \/ EditPolished(flow.run, t)
          /\ Noted("polished")
     \/ RenderPdf(flow.run) /\ Noted("pdf")
     \/ flow' = [flow EXCEPT !.grew = TRUE] /\ UNCHANGED <<ledgerVars, calls>>   \* a note in issues.md
  /\ UNCHANGED stop

WorkFinal == \E v \in FinalVerdicts :
  /\ Working({"review_final"}) /\ GivenRun
  /\ ReviewFinal(v)
  /\ Noted("final")
  /\ UNCHANGED stop

ReportBug == \E d \in Defects :
  /\ Working(IF d.agent = "analysis" THEN {"analysis"} ELSE ReviewNodes)
  /\ BugAppend(d)
  /\ UNCHANGED <<flow, stop>>

\* The orchestrator's own call, of round_set_run or round_revise, is the last
\* thing a node does.
LastCall == flow' = [flow EXCEPT !.done = TRUE] /\ UNCHANGED stop

\* The agent's process ended well; a network error was retried within the
\* node.  A review that sends a report back to its author counts a revision
\* before the run goes on.
FinishAgent ==
  /\ Working(AgentNodes)
  /\ LET issue == flow.node = "polish" /\ flow.grew /\ ~flow.rendered
         sentBack == flow.node \in ReviewNodes /\ PendingReturn \in {"analysis", "polish"}
     IN \/ issue /\ UNCHANGED ledgerVars /\ Advance("polish", "analysis", flow.counts)
        \/ /\ ~issue /\ ~flow.touched
           /\ UNCHANGED ledgerVars
           /\ StopWith(IF OpenDefects # {} THEN "system_defect" ELSE "agent_failed")
        \/ ~issue /\ flow.touched /\ sentBack /\ RoundRevise /\ LastCall
        \/ /\ ~issue /\ flow.touched /\ ~sentBack
           /\ UNCHANGED ledgerVars
           /\ Advance(flow.node, "none", flow.counts)

\* A failed, limited or timed-out process ends the run, also within a call.
FailAgent == \E reason \in {"rate_limited", "agent_failed"} :
  /\ flow.node \in AgentNodes /\ ~flow.done
  /\ UNCHANGED ledgerVars
  /\ StopWith(reason)

\* optimizer_run: run_input was read when the node began; the products are
\* registered when they are ready, unless an earlier round has them.
FinishRun ==
  /\ Working({"run"})
  /\ LET r == RunOf[flow.read]
     IN \/ r \notin ledger.earlier /\ RoundSetRun(r) /\ LastCall
        \/ /\ r \in ledger.earlier
           /\ UNCHANGED ledgerVars
           /\ StopWith("need_front")
        \/ /\ r \notin ledger.earlier /\ ~CanSetRun
           /\ UNCHANGED ledgerVars
           /\ StopWith("agent_failed")

SaveLast == flow.done /\ SaveProgram /\ UNCHANGED <<flow, stop>>

GoOn ==
  /\ flow.done /\ calls["program"].phase = "none"
  /\ UNCHANGED ledgerVars
  /\ Advance(flow.node, "none", flow.counts)

\* The optimizer refuses the facts or fails, or the comparison with an
\* earlier run fails after the registration.
FailRun == \E reason \in {"need_front", "agent_failed"} :
  /\ flow.node = "run" /\ calls["program"].phase = "none"
  /\ flow.done => reason = "agent_failed" /\ ledger.earlier # {}
  /\ UNCHANGED ledgerVars
  /\ StopWith(reason)

\* The orchestrator is interrupted and ends its agent with it.
Interrupt ==
  /\ flow.node # "idle"
  /\ UNCHANGED ledgerVars
  /\ StopWith("none")

----------------------------------------------------------------------------
\* The front session and, for a cleared defect, the operator.  A call of the
\* front may be refused, and its server may end in it.
FrontWorks ==
  /\ \/ Loads("front")
     \/ \E p \in Packages : WriteIntake(p)
     \/ RoundNew
     \/ SaveFront
     \/ calls["front"].phase # "none" /\ Drops("front") /\ UNCHANGED ledgerVars
     \/ \E b \in bugs.open : ClearDefect(b.agent, b.symptom)
  /\ UNCHANGED <<flow, stop>>

Agent == WorkIntake \/ WorkDraft \/ WorkReview \/ WorkPolish \/ WorkFinal \/ ReportBug
Program == StartRun \/ FinishAgent \/ FailAgent \/ FinishRun \/ SaveLast \/ GoOn \/ FailRun

Next == Agent \/ Program \/ Interrupt \/ FrontWorks

\* The orchestrator goes on, and an agent's process ends: it has a turn limit
\* and a time limit.
NodeEnds == FailAgent \/ FailRun \/ SaveLast \/ GoOn \/ FinishRun \/ FinishAgent
Fairness == WF_vars(NodeEnds)

Spec == Init /\ [][Next]_vars /\ Fairness

----------------------------------------------------------------------------
OrchestratorTypeOK ==
  /\ LedgerTypeOK
  /\ flow.node \in Nodes \cup {"idle"}
  /\ flow.counts \in [Nodes -> 0 .. NodeLimit]
  /\ flow.run \in Runs \cup {NoRun} /\ flow.read \in Packages \cup {"none"}
  /\ stop \in Stops \cup {"none"}

\* What the check of round_set_run is worth although nothing is locked: a run
\* is registered under a RUNNABLE checklist, and for the package that stands,
\* unless the save undoes a save of the front or a write of the front has no
\* time in the ledger yet (write_intake).
RegisteredAsRead ==
  [][flow.node = "run" /\ SaveProgram =>
        /\ checklist = "RUNNABLE"
        /\ ledger' = Registered(ledger, RunOf[flow.read]) /\ ~untimed => flow.read = package]_vars

\* A delivered report passed its own check and its draft's: no figure the
\* draft does not hold, and a PDF of its last text (decide, report_check).
DeliveredSound ==
  Status = "delivered" => ~DraftProblems(ledger.run) /\ ~PolishedProblems(ledger.run)

\* The polished text changes only over a draft that a POLISHABLE checklist
\* followed, also by edit_polished, which asks for no status.
ReviewBeforePolish ==
  [][\A r \in Runs : report'[r].polished # report[r].polished =>
        /\ report[r].review = "POLISHABLE"
        /\ At(report[r].times, "review") > At(report[r].times, "draft")]_vars

\* Every run of the orchestrator ends, whatever its agents write.
RunEnds == flow.node # "idle" ~> flow.node = "idle"
=============================================================================
