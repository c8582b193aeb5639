----------------------------- MODULE RuleChain -----------------------------
(***************************************************************************)
(* The chain of candidate rules over the facts of a case                   *)
(* (packages/rule_engine): six nodes in the order of the rule package, the *)
(* terminal state of the run and the facts it asks for.  Three callers run *)
(* it: the evaluation of synthetic cases (rule_engine/cli.py) and the      *)
(* intake of a description (intake/cli.py) keep facts and outcome in the   *)
(* tables of a case, the analysis of the application (chat/analysis.py)    *)
(* shows the outcome with the evidence it found.                           *)
(*                                                                         *)
(* Of most facts it only matters whether they are known.  A known          *)
(* percentage or period is below the minimum of the package or not.        *)
(***************************************************************************)
EXTENDS Naturals

CONSTANTS ReceiptPaths,      \* the facts of receipt besides its place
          SubstanceFacts,
          HoldingDetails,    \* the facts of a holding besides its size and duration
          JudgementFacts,        \* foreign tax and main purpose
          OtherFacts,        \* of the dictionary, but of no node
          ValuesOf,          \* the values a fact may have when it is known
          BelowMinimum,      \* those of size and duration the package excludes
          ThresholdsGiven,   \* whether the package has the minima
          Ordinal,           \* the order of the nodes
          Cards,             \* what a case starts with
          Evidence,          \* sets of nodes an analysis may find the law of
          MaxSteps           \* bound of the model

Scope == {"entity_hk_business_status", "mne_group_status", "income_type"}
Character == {"income_type", "income_legal_character"}
Receipt == {"receipt_location"} \cup ReceiptPaths
HoldingSize == {"holding_percentage_pct", "continuous_holding_period_months"}
Participation == HoldingSize \cup HoldingDetails \cup JudgementFacts
Fields == Scope \cup Character \cup Receipt \cup SubstanceFacts \cup Participation \cup OtherFacts
          \cup {"expert_decision_status"}

Unresolved == {"absent", "unknown", "conflict"}
Facts == {x \in [Fields -> Unresolved \cup UNION {ValuesOf[f] : f \in Fields}] :
            \A f \in Fields : x[f] \in ValuesOf[f] \cup Unresolved}

Gates == {"scope", "income_characterisation", "receipt"}
Analytic == Gates \cup {"economic_substance", "participation_basic"}
ChainNodes == Analytic \cup {"human_gate"}

\* rules.json numbers scope, income and receipt 1 to 3, substance and participation 5 and 6.
ASSUME ChainAssumption ==
  /\ \A f \in Fields : ValuesOf[f] \cap Unresolved = {}
  /\ Cards \subseteq Facts /\ Evidence \subseteq SUBSET Analytic
  /\ Ordinal \in [ChainNodes -> Nat]
  /\ \A g \in Gates, n \in Analytic \ Gates : Ordinal[g] < Ordinal[n]

VARIABLES card,    \* of the case at hand
          file,     \* its rows in the database: facts, their newest versions, the status
          verdict,   \* the latest outcome, and how it was shown
          steps     \* bound of the model

chainVars == <<card, file, verdict, steps>>

----------------------------------------------------------------------------
(***************************************************************************)
(* The nodes.  A conflict goes before everything else; what is missing is  *)
(* never taken for "no".                                                   *)
(***************************************************************************)
Resolved(x, f) == x[f] \notin Unresolved
Conflicts(x, fields) == {f \in fields : x[f] = "conflict"}
Lacking(x, fields) == {f \in fields : ~Resolved(x, f)}
Found(output, blockers) == [output |-> output, blockers |-> blockers, escalation |-> {}]
Escalated(blockers) == [output |-> "human_review_required", blockers |-> {}, escalation |-> blockers]

OutsideUnlessStated(x) == \/ x["entity_hk_business_status"] = "no" \/ x["mne_group_status"] # "yes"
                          \/ Resolved(x, "income_type") /\ x["income_type"] # "dividend"
Outside(x) == \/ x["entity_hk_business_status"] = "no" \/ x["mne_group_status"] = "no"
              \/ Resolved(x, "income_type") /\ x["income_type"] # "dividend"

EvaluateScope(x) ==
  IF Conflicts(x, Scope) # {} THEN Found("conflict", Conflicts(x, Scope))
  ELSE IF Outside(x) THEN Found("not_satisfied", {})
  ELSE IF Lacking(x, Scope) # {} THEN Found("unknown", Lacking(x, Scope))
  ELSE Found("satisfied", {})

EvaluateIncome(x) ==
  IF Conflicts(x, Character) # {} THEN Found("conflict", Conflicts(x, Character))
  ELSE IF ~Resolved(x, "income_type") THEN Found("unknown", {"income_type"})
  ELSE Found(IF x["income_type"] = "dividend" THEN "satisfied" ELSE "not_satisfied", {})

EvaluateReceipt(x) ==
  IF Conflicts(x, Receipt) # {} THEN Found("conflict", Conflicts(x, Receipt))
  ELSE IF ~Resolved(x, "receipt_location") THEN Found("unknown", {"receipt_location"})
  ELSE Found(IF x["receipt_location"] \in {"received_in_hk", "deemed_received_in_hk"}
               THEN "satisfied" ELSE "not_satisfied", {})

GateOutcome(x, g) == CASE g = "scope" -> EvaluateScope(x)
                       [] g = "income_characterisation" -> EvaluateIncome(x)
                       [] g = "receipt" -> EvaluateReceipt(x)

\* What the runner knows when it comes to node n.
EstablishedByLast(x, n) == GateOutcome(x, "receipt").output = "satisfied"
Established(x, n) == \A g \in Gates : Ordinal[g] < Ordinal[n] => GateOutcome(x, g).output = "satisfied"

EvaluateSubstance(x, established) ==
  LET missing == Lacking(x, SubstanceFacts)
  IN IF Conflicts(x, SubstanceFacts) # {} THEN Found("conflict", Conflicts(x, SubstanceFacts))
     ELSE IF missing = SubstanceFacts THEN Found("unknown", {"hk_adequate_employees"})
     ELSE IF established THEN Escalated(missing) ELSE Found("unknown", missing)

EvaluateParticipation(x, established) ==
  IF Conflicts(x, Participation) # {} THEN Found("conflict", Conflicts(x, Participation))
  ELSE IF ~ThresholdsGiven THEN Found("unknown", {})
  ELSE IF Lacking(x, HoldingSize) # {} THEN Found("unknown", Lacking(x, HoldingSize))
  ELSE IF \E f \in HoldingSize : x[f] \in BelowMinimum THEN Found("condition_not_demonstrated", {})
  ELSE IF established THEN Escalated(JudgementFacts)
  ELSE Found("unknown", {"foreign_tax_on_dividend_or_underlying_profit"})

EvaluateHumanGate(x) ==
  IF x["expert_decision_status"] = "satisfied" THEN Found("satisfied", {})
  ELSE Found("human_review_required", Lacking(x, {"expert_decision_status"}))

NodeOutcome(x, n) ==
  CASE n \in Gates -> GateOutcome(x, n)
    [] n = "economic_substance" -> EvaluateSubstance(x, Established(x, n))
    [] n = "participation_basic" -> EvaluateParticipation(x, Established(x, n))
    [] n = "human_gate" -> EvaluateHumanGate(x)

(***************************************************************************)
(* run_chain: a conflict anywhere is told before all else; the human gate  *)
(* is recorded and never dominates.                                        *)
(***************************************************************************)
Says(outcome, output) == \E n \in Analytic : outcome[n].output = output

Terminal(x, outcome) ==
  IF Conflicts(x, Fields) # {} \/ Says(outcome, "conflict") THEN "stop_and_escalate"
  ELSE IF Says(outcome, "human_review_required") THEN "human_review_required"
  ELSE "research_only_output"

Blockers(x, outcome, terminal) ==
  CASE terminal = "stop_and_escalate" -> Conflicts(x, Fields)
    [] terminal = "human_review_required" -> UNION {outcome[n].escalation : n \in Analytic}
    [] terminal = "research_only_output" -> UNION {outcome[n].blockers : n \in Analytic}

Outcomes(x) == [n \in ChainNodes |-> NodeOutcome(x, n)]
RunChain(x) ==
  LET outcome == Outcomes(x)
      terminal == Terminal(x, outcome)
  IN [terminal |-> terminal, blockers |-> Blockers(x, outcome, terminal),
      outputs |-> [n \in ChainNodes |-> outcome[n].output]]

----------------------------------------------------------------------------
(***************************************************************************)
(* The rows of the case.  Sentinels become a status without a value; a row *)
(* is written when it differs.  The evaluation adds a version to each fact *)
(* it changes, the intake only to those it adds.                           *)
(***************************************************************************)
Stored(raw, claim) == IF raw \in Unresolved THEN [value |-> "null", status |-> raw]
                      ELSE [value |-> raw, status |-> claim]
NoFact == [by |-> "nobody"]
Differs(row, new) == row = NoFact \/ row.fact # new

OverwrittenAnonymously(row, fact, by) == [fact |-> fact, by |-> IF row = NoFact THEN by ELSE row.by]
Overwritten(row, fact, by) == [fact |-> fact, by |-> by]

Upserted(x, claim, by) ==
  [f \in Fields |-> IF x[f] # "absent" /\ Differs(file.rows[f], Stored(x[f], claim))
                    THEN Overwritten(file.rows[f], Stored(x[f], claim), by) ELSE file.rows[f]]
Versioned(x, claim, by) ==
  [f \in Fields |-> IF x[f] # "absent"
                       /\ (IF by = "synthetic_case_loader" THEN Differs(file.rows[f], Stored(x[f], claim))
                           ELSE file.rows[f] = NoFact)
                    THEN Stored(x[f], claim) ELSE file.versions[f]]
CaseStatus(terminal) == IF terminal = "research_only_output" THEN "pending_review" ELSE "needs_human_judgment"

Persist(claim, by) ==
  /\ LET run == RunChain(card)
     IN /\ file' = [rows |-> Upserted(card, claim, by), versions |-> Versioned(card, claim, by),
                    status |-> CaseStatus(run.terminal)]
        /\ verdict' = [run |-> run, shown |-> run.outputs, gate |-> "none"]

\* run_all for one case, and run_intake: facts, chain and records in one transaction.
EvaluateCase == Persist("client_statement", "synthetic_case_loader") /\ UNCHANGED card
IntakeCase == Persist("ai_candidate", "intake_llm") /\ UNCHANGED card

(***************************************************************************)
(* analyze: a node whose law was not found cannot appear resolved; without *)
(* a provider the outcome is shown as it is.                               *)
(***************************************************************************)
AwaitsJudgement(n, output) == n = "human_gate" \/ output = "human_review_required"
Paused(found, run) == {n \in ChainNodes : ~AwaitsJudgement(n, run.outputs[n]) /\ n \notin found}
Shown(found, run) == [n \in ChainNodes |-> IF n \in Paused(found, run) THEN "unknown" ELSE run.outputs[n]]

Analyze ==
  /\ LET run == RunChain(card)
     IN \/ verdict' = [run |-> run, shown |-> run.outputs, gate |-> "none"]
        \/ \E found \in Evidence, gate \in {"sufficient", "insufficient"} :
             /\ Paused(found, run) # {} => gate = "insufficient"
             /\ verdict' = [run |-> run, shown |-> Shown(found, run), gate |-> gate]
  /\ UNCHANGED <<card, file>>

\* The author of a case, the model that reads a description or the user.
ChangeFact ==
  /\ \E f \in Fields : \E v \in ValuesOf[f] \cup Unresolved :
       card[f] # v /\ card' = [card EXCEPT ![f] = v]
  /\ UNCHANGED <<file, verdict>>

----------------------------------------------------------------------------
NoVerdict == [gate |-> "new"]
ChainInit ==
  /\ card \in Cards /\ verdict = NoVerdict
  /\ file = [rows |-> [f \in Fields |-> NoFact], versions |-> [f \in Fields |-> Stored("absent", "")],
             status |-> "analyzing"]
  /\ steps = 0

ChainNext == /\ EvaluateCase \/ IntakeCase \/ Analyze \/ ChangeFact
             /\ steps < MaxSteps /\ steps' = steps + 1
ChainSpec == ChainInit /\ [][ChainNext]_chainVars

----------------------------------------------------------------------------
Findings == {"satisfied", "not_satisfied", "condition_not_demonstrated", "human_review_required"}
Supplied == /\ card' # card
            /\ \E f \in Fields : /\ card[f] \in {"absent", "unknown"} /\ Resolved(card', f)
                               /\ card' = [card EXCEPT ![f] = card'[f]]

\* What the chain has found stands when a fact that was missing is supplied:
\* nothing was concluded from its absence (evaluators.py, "missing facts are
\* never mapped to not satisfied").
FindingsStand ==
  [][Supplied =>
       \A n \in Analytic : NodeOutcome(card, n).output \in Findings =>
         NodeOutcome(card', n).output = NodeOutcome(card, n).output]_chainVars

\* A person is asked to judge only a case inside the scope, of a dividend
\* received; an escalation names the facts in conflict; a run that asks for
\* nothing has found why the rules do not apply (run_chain).
OutcomeJustified ==
  verdict # NoVerdict =>
    /\ verdict.run.terminal = "human_review_required" => \A g \in Gates : verdict.run.outputs[g] = "satisfied"
    /\ verdict.run.terminal = "stop_and_escalate" => verdict.run.blockers # {}
    /\ verdict.run.terminal = "research_only_output" /\ verdict.run.blockers = {} =>
         \E g \in Gates : verdict.run.outputs[g] = "not_satisfied"
    /\ verdict.gate = "sufficient" => verdict.shown = verdict.run.outputs

\* A fact the evaluation wrote last is what its newest version says, though an
\* intake may rewrite facts without a version (upsert_facts, run_intake).
VersionsFollow ==
  file.status # "analyzing" =>
    \A f \in Fields : file.rows[f].by = "synthetic_case_loader" => file.versions[f] = file.rows[f].fact
=============================================================================
