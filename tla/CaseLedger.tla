----------------------------- MODULE CaseLedger -----------------------------
(***************************************************************************)
(* The case file of the offline agents (agent/tools/case_server.py): the   *)
(* ledger of the current round, the intake package with its checklist, the *)
(* report of each optimizer run, and the status derived from them.         *)
(*                                                                         *)
(* Only the order of file times and ledger times matters.  A sequence      *)
(* keeps it: a write moves its name to the end, At is 0 for a file that    *)
(* does not exist (newest() of no path is 0).                              *)
(***************************************************************************)
EXTENDS Naturals, SequencesExt

CONSTANTS Packages,    \* contents of facts, sources, answers, notes, constraints
          Complete,    \* those in which intake_check finds no problem
          Runs,        \* ids of optimizer runs
          RunOf,       \* the run of a package: a hash of its facts and closing answers
          NoRun,
          Drafts, Polishings,   \* reports: the figures they state, and whether they are sound in themselves
          Defects,     \* what a defect report may say: agent, symptom, whether it holds the run
          DraftReturns, FinalReturns,   \* to whom a REVISE checklist of a report may send it
          MaxRounds    \* bound of the model on rounds

ASSUME LedgerAssumption ==
  /\ Complete \subseteq Packages
  /\ RunOf \in [Packages -> Runs]
  /\ NoRun \notin Runs
  /\ \A d \in Defects : d.agent \in {"analysis", "review"} /\ d.affects \in BOOLEAN
  /\ \A t \in Drafts \cup Polishings : t.sound \in BOOLEAN
  /\ DraftReturns \subseteq {"analysis", "front"}
  /\ FinalReturns \subseteq {"polish", "analysis", "front"}
  /\ MaxRounds \in Nat \ {0}

VARIABLES ledger,     \* the current round of rounds.json
          package,    \* the intake package
          checklist,  \* verdict of review_intake.md, "none" before it exists
          report,     \* for each run the files of report/<run_id>
          bugs,       \* the bug logs and cleared.md
          calls,      \* for each process how far its ledger call is, and the copy it loaded
          untimed     \* the package was written and its time is not in the ledger

ledgerVars == <<ledger, package, checklist, report, bugs, untimed>>

ReportFiles == {"draft", "review", "polished", "pdf", "final"}
LedgerTimes == {"written", "checked", "registered"}
\* The orchestrator waits for its agent, so they are one process here.
Processes == {"front", "program"}
Phases == {"none", "loaded", "changed"}
IntakeVerdicts == {"RUNNABLE", "REVISE"}
\* A REVISE checklist of the later stages is named by its RETURN line.
DraftVerdicts == {"POLISHABLE"} \cup DraftReturns
FinalVerdicts == {"DELIVERABLE"} \cup FinalReturns

Order(times, S) == IsInjective(times) /\ times \in Seq(S)
At(times, x) ==
  IF \E i \in DOMAIN times : times[i] = x
  THEN CHOOSE i \in DOMAIN times : times[i] = x
  ELSE 0
Stamp(times, x) == Append(IF At(times, x) = 0 THEN times ELSE RemoveAt(times, At(times, x)), x)

NewRound(n, earlier) ==
  [round |-> n, run |-> NoRun, earlier |-> earlier, times |-> << >>]
NoText == [figures |-> {}, sound |-> FALSE]
NoReport ==
  [times |-> << >>, draft |-> NoText, polished |-> NoText, review |-> "none", final |-> "none"]

NoCall == [phase |-> "none", copy |-> NewRound(1, {})]

LedgerInit ==
  /\ ledger = NewRound(1, {})
  /\ package \in Packages
  /\ checklist = "none"
  /\ report = [r \in Runs |-> NoReport]
  /\ bugs = [open |-> {}, cleared |-> {}]
  /\ calls = [c \in Processes |-> NoCall]
  /\ untimed = FALSE

----------------------------------------------------------------------------
TimeIn(l, x) == At(l.times, x)
Has(r, f) == At(report[r].times, f) > 0
Touched(r, f) == At(report[r].times, f)

DraftPassedOnce(r) == report[r].review = "POLISHABLE"
DraftPassed(r) ==
  /\ Has(r, "review")
  /\ Touched(r, "review") >= Touched(r, "draft")
  /\ report[r].review = "POLISHABLE"
FinalPassed(r) ==
  /\ Has(r, "final")
  /\ \A f \in {"polished", "pdf"} : Touched(r, "final") >= Touched(r, f)
  /\ report[r].final = "DELIVERABLE"

ReportStatus(r) ==
  CASE ~Has(r, "draft") -> "ran"
    [] Has(r, "draft") /\ ~DraftPassed(r) -> "drafted"
    [] /\ Has(r, "draft") /\ DraftPassed(r)
       /\ Touched(r, "polished") < Touched(r, "review") -> "reviewed"
    [] OTHER -> IF FinalPassed(r) THEN "delivered" ELSE "polished"

\* The branches of status() in their order, by a ledger as it was loaded.
StatusBy(l) ==
  LET runnable == checklist = "RUNNABLE"
  IN CASE l.run # NoRun /\ TimeIn(l, "written") > TimeIn(l, "checked") -> "intake"
       [] l.run # NoRun /\ ~(TimeIn(l, "written") > TimeIn(l, "checked")) ->
            IF runnable /\ TimeIn(l, "registered") > 0 /\ TimeIn(l, "checked") > TimeIn(l, "registered")
            THEN "intake_ok" ELSE ReportStatus(l.run)
       [] OTHER ->
            IF runnable /\ TimeIn(l, "checked") > TimeIn(l, "written") THEN "intake_ok" ELSE "intake"

\* The agent a current REVISE checklist names, "none" if there is none.
ReturnBy(l) ==
  LET r == l.run
      status == StatusBy(l)
  IN CASE status = "intake" ->
            IF checklist = "REVISE" /\ TimeIn(l, "checked") > TimeIn(l, "written") THEN "front" ELSE "none"
       [] status = "drafted" ->
            IF /\ Has(r, "review") /\ Touched(r, "review") >= Touched(r, "draft")
               /\ report[r].review # "POLISHABLE"
            THEN report[r].review ELSE "none"
       [] status = "polished" ->
            IF /\ Has(r, "final")
               /\ \A f \in {"polished", "pdf"} : Touched(r, "final") >= Touched(r, f)
               /\ report[r].final # "DELIVERABLE"
            THEN report[r].final ELSE "none"
       [] OTHER -> "none"

Status == StatusBy(ledger)
PendingReturn == ReturnBy(ledger)

\* intake_check and the hand-over note the run asks for.
IntakeProblems == package \notin Complete

\* report_check: what a self-check of the draft and of the polished report finds.
DraftProblems(r) == ~report[r].draft.sound
TextProblems(r) ==
  \/ ~report[r].polished.sound
  \/ ~(report[r].polished.figures \subseteq report[r].draft.figures)
PolishedProblems(r) == TextProblems(r) \/ Touched(r, "pdf") < Touched(r, "polished")

\* Defects of this round that hold the run.
Defect(b) == [agent |-> b.agent, symptom |-> b.symptom, affects |-> b.affects]
OpenDefects ==
  {b \in bugs.open : b.round = ledger.round /\ b.affects /\ <<b.agent, b.symptom>> \notin bugs.cleared}

----------------------------------------------------------------------------
(***************************************************************************)
(* The tools that save the ledger.  A call loads it, works on the files    *)
(* and on its copy, and saves the whole copy; no lock is taken, so it      *)
(* undoes whatever another process saved meanwhile.                        *)
(***************************************************************************)
Loads(c) ==
  /\ calls[c].phase = "none"
  /\ calls' = [calls EXCEPT ![c] = [phase |-> "loaded", copy |-> ledger]]
  /\ UNCHANGED ledgerVars

Changes(c, l) ==
  /\ calls[c].phase = "loaded"
  /\ calls' = [calls EXCEPT ![c] = [phase |-> "changed", copy |-> l]]

LoadsAndChanges(c, l) ==
  /\ calls[c].phase = "none"
  /\ calls' = [calls EXCEPT ![c] = [phase |-> "changed", copy |-> l]]
  /\ UNCHANGED ledgerVars

Saves(c) ==
  /\ calls[c].phase = "changed"
  /\ ledger' = calls[c].copy
  /\ calls' = [calls EXCEPT ![c] = NoCall]
  /\ UNCHANGED <<package, checklist, report, bugs>>

\* A call that is refused, or whose process ends in it.
Drops(c) == calls' = [calls EXCEPT ![c] = NoCall]

Timed(l, x) == [l EXCEPT !.times = Stamp(@, x)]

WriteIntake(p) ==
  /\ Changes("front", Timed(calls["front"].copy, "written"))
  /\ package' = p
  /\ untimed' = TRUE
  /\ UNCHANGED <<ledger, checklist, report, bugs>>

RoundNew ==
  LET l == calls["front"].copy
  IN /\ l.round < MaxRounds
     /\ \/ StatusBy(l) = "delivered"
        \/ StatusBy(l) # "intake" /\ ReturnBy(l) = "front"
     /\ Changes("front", NewRound(l.round + 1, l.earlier \cup ({l.run} \ {NoRun})))
     /\ UNCHANGED ledgerVars

\* The end of write_intake or round_new.
SaveFront ==
  /\ Saves("front")
  /\ untimed' = (untimed /\ TimeIn(calls["front"].copy, "written") = 0)

\* round_set_run loads and checks in one step here, because the files its
\* status is taken from are written by this process only.
CanSetRunByChecklist == checklist = "RUNNABLE"
CanSetRun == Status = "intake_ok"
Registered(l, r) == [Timed(l, "registered") EXCEPT !.run = r]
RoundSetRun(r) ==
  /\ CanSetRun
  /\ LoadsAndChanges("program", Registered(ledger, r))

\* round_revise counts a revision, nothing the status is taken from.
RoundRevise == LoadsAndChanges("program", ledger)

ReviewIntake(v) ==
  /\ Changes("program", Timed(calls["program"].copy, "checked"))
  /\ checklist' = v
  /\ UNCHANGED <<ledger, package, report, bugs, untimed>>

\* The end of write_review, round_set_run or round_revise.
SaveProgram == Saves("program") /\ UNCHANGED untimed

(***************************************************************************)
(* The other tools write one file each, of the agent whose turn it is.     *)
(***************************************************************************)
Written(f, r) == [report EXCEPT ![r].times = Stamp(@, f)]

ReviewDraft(v) ==
  /\ ledger.run # NoRun /\ Has(ledger.run, "draft")
  /\ report' = [Written("review", ledger.run) EXCEPT ![ledger.run].review = v]
  /\ UNCHANGED <<ledger, package, checklist, bugs, calls, untimed>>

ReviewFinal(v) ==
  /\ ledger.run # NoRun /\ Has(ledger.run, "polished")
  /\ report' = [Written("final", ledger.run) EXCEPT ![ledger.run].final = v]
  /\ UNCHANGED <<ledger, package, checklist, bugs, calls, untimed>>

WriteReport(t) ==
  /\ ledger.run # NoRun
  /\ report' = [Written("draft", ledger.run) EXCEPT ![ledger.run].draft = t]
  /\ UNCHANGED <<ledger, package, checklist, bugs, calls, untimed>>

\* An edit needs the file and, unlike a write, no status.
EditPolished(r, t) ==
  /\ Has(r, "polished")
  /\ report' = [Written("polished", r) EXCEPT ![r].polished = t]
  /\ UNCHANGED <<ledger, package, checklist, bugs, calls, untimed>>

WritePolished(t) ==
  /\ ledger.run # NoRun
  /\ Status \in {"reviewed", "polished", "delivered"}
  /\ Has(ledger.run, "draft")
  /\ report' = [Written("polished", ledger.run) EXCEPT ![ledger.run].polished = t]
  /\ UNCHANGED <<ledger, package, checklist, bugs, calls, untimed>>

RenderPdf(r) ==
  /\ Has(r, "polished")
  /\ ~TextProblems(r)
  /\ report' = Written("pdf", r)
  /\ UNCHANGED <<ledger, package, checklist, bugs, calls, untimed>>

\* A symptom the agent has reported before adds a line under the old entry.
BugAppend(d) ==
  /\ bugs' = IF \E b \in bugs.open : b.agent = d.agent /\ b.symptom = d.symptom
             THEN bugs
             ELSE [bugs EXCEPT !.open = @ \cup {[agent |-> d.agent, symptom |-> d.symptom,
                                            affects |-> d.affects, round |-> ledger.round]}]
  /\ UNCHANGED <<ledger, package, checklist, report, calls, untimed>>

ClearDefect(a, s) ==
  /\ bugs' = [bugs EXCEPT !.cleared = @ \cup {<<a, s>>}]
  /\ UNCHANGED <<ledger, package, checklist, report, calls, untimed>>

LedgerTypeOK ==
  /\ ledger.round \in 1 .. MaxRounds /\ ledger.run \in Runs \cup {NoRun}
  /\ ledger.earlier \subseteq Runs /\ Order(ledger.times, LedgerTimes)
  /\ package \in Packages
  /\ checklist \in IntakeVerdicts \cup {"none"}
  /\ \A r \in Runs : /\ Order(report[r].times, ReportFiles)
                     /\ report[r].draft \in Drafts \cup {NoText} /\ report[r].polished \in Polishings \cup {NoText}
                     /\ report[r].review \in DraftVerdicts \cup {"none"} /\ report[r].final \in FinalVerdicts \cup {"none"}
  /\ \A b \in bugs.open : b.round \in 1 .. MaxRounds /\ Defect(b) \in Defects
  /\ bugs.cleared \subseteq {<<d.agent, d.symptom>> : d \in Defects}
  /\ \A c \in Processes : calls[c].phase \in Phases
  /\ untimed \in BOOLEAN
=============================================================================
