# TLA+ models of the case workflow

Taxrora is a tax assistant. A user talks to it about one case; the program
collects facts, asks for what is missing, has the user confirm, analyses,
freezes a report and has an adviser review it. A case may also hold a company
structure on which a calculation engine works. Beside this application the
repository holds an offline workflow for agents (a case server with an
orchestrator), a rule layer with an optimizer, and a database package.

The models are about what can go wrong between steps: facts that change after
something was derived from them, requests that are repeated or race, queues and
budgets shared by the nodes of a turn, files written by several actors, and
searches that must not lose an answer. Paths below are relative to the
repository (`src/` in `PROJECT.json`).

## The system

| component | state it keeps | operations | what makes it correct |
|---|---|---|---|
| case facts: `packages/chat/facts.py`, `packages/domain_bridge/state.py` | canonical records by address, bindings of chat fields to addresses, competing values of conflicts | write, read back (`sync`), install a structure, gaps, next field | one record per fact, a binding never merges two fields |
| guided interview: `packages/agent/dialogue.py`, `workflow.py` | status, pending question, attempts, deferred fields, partial consent | one turn | a field is asked at most twice, no fact is overwritten without authority, a consent is about the present facts |
| case service: `packages/chat/service.py`, `agent/analysis_policy.py`, `agent/review.py` | state, confirmed facts, reports, receipts, revision | message, edit, organize, confirm, run, review | nothing derived outlives its inputs; only complete reports without gaps are approved |
| structure work: `packages/domain_bridge/coordinator.py`, `reporting.py` | structure, answers, rulings, confirmation, result, mode, pause | setup, plan, answer, batch, defer, control, confirm, report, professional | result, confirmation and report are about the same inputs |
| question order: `packages/domain_bridge/question_order.py` | questions asked, gates, deferred questions | order, add prerequisites, void | no question waits for nothing; the interview ends |
| chat calculation: `packages/domain_bridge/chat_calculation.py` | calculation context, what it was installed from | calculate, recalculate, answer, collect, cancel | never computes over a conflict |
| store and message route: `packages/chat/store.py`, `streaming.py`, `apps/api/chat.py` | one row per case: revision, document | get, conditional save; receipt lookup, preparation, commit in a thread, 90 s limit, disconnect | no lost update; an id takes effect at most once; a retry finds the result |
| turn graph, tool loop, budget: `packages/agent/hybrid.py`, `task_state.py`, `tool_harness.py`, `tools.py`, `budget.py` | focus, suspended and queued tasks; counters of one turn | route, execute, plan, observe, explain | no task is lost, every loop ends, a model call is left for the answer |
| knowledge: `packages/agent/providers.py`, `knowledge.py`, `grounded.py` | read slots; what a turn found | search, retry, merge, check of citations | slots are returned, late answers are ignored, a citation denotes one text |
| web client: `apps/web/src/hooks/useWorkspace.ts`, `api.ts` | case shown, draft, outbox, lock, retry | send, abort, edit, confirm and analyze, retry, reload | a retry repeats nothing, no text is lost, the lock is released |
| candidate rules: `packages/rule_engine`, `packages/intake/cli.py`, `packages/chat/analysis.py` | facts, versions and status of a case | evaluate, intake, analyze | no finding from a missing fact; versions follow the facts |
| case server and orchestrator: `agent/tools/case_server.py`, `orchestrate.py` | files of a case with their times, the ledger of rounds, bug logs | ledger operations, the graph of a run, the front session | the package that is run is the one that stands as far as the ledger can tell, only a reviewed and checked report is delivered, a run ends |
| rule layer: `rule/tools/build.py`, `common.py`, `eval.py` | tables of rules, variables, tests | build, evaluate | what the build accepts evaluates |
| optimizer: `optimization/tools/optimize.py` | labels, frontier, candidates | build, search, fork, rank, rerun | the frontier is exact; answers narrow the ranges |
| database package: `database/pull_database.py`, `tools/*.py` | a folder, remote tables and bucket | fetch, build, upload, resume, verify, pull | a finished pull is one published version, or shows that it was overtaken |

The client sends requests to the API, each with an id and the revision the
client saw. A handler loads the row, looks for the id among the receipts,
compares the revision, works on its copy of the document (a message runs the
turn graph, which may take a minute), and saves the copy where the row still has
the revision it read. There is no lock and no queue; the conditional update is
the only coordination. The offline agents have no server at all: they and the
orchestrator read and write the same files, and decide by file times.

`PROJECT.json` lists the hazards one by one, each at its line, with the
properties that would catch it.

## Modules

    CaseFacts                    records, bindings, facts, gaps
      Interview                  one turn of the interview
        CaseDocument             the document and the chat operations
          DomainDocument         the structure work and the chat calculation
            CaseOperations       every operation as a request
              CaseRegister       abstract: one operation at a time on one document
              CaseService        detailed: handlers over a row, implements CaseRegister
    EngineQuestions              the questions of the structure work
    Workspace                    the browser and its requests
    TaskFocus                    the tasks of a case
    Evidence                     what a turn may show and cite
      TurnGraph (with TaskFocus) the turns of a case
    KnowledgeSlots               searches at the providers
    CaseLedger                   the files of an offline case
      Orchestrator               one run over them, beside the front session
    RuleChain                    the chain of candidate rules
    RuleCell                     evaluation of one cell of the rule layer
      Optimizer                  the search over hops
    RuleLibrary                  the build of the rule layer
    DataSync                     the database package on its way

    CaseTypes, CaseRegisterProofs, CaseServiceProofs                  theorems: the case,
    TurnGraphProofs, BrowserProofs, OrchestratorProofs,               turns, the browser and its
    KnowledgeProofs, OptimizerProofs                                  questions, the offline parts
    MCCaseChat, MCCaseDomain, MCCaseService, MCTurnGraph, MCBrowser, MCOrchestrator,
    MCKnowledge, MCOptimizer, MCChain, MCRules                        instances for TLC

**CaseFacts** keeps a record for each chat field (the code's `legacy.` address)
and each structure address. A value is absent, unknown, conflict, or an abstract
answer; `Outside` stands for every answer that takes a case out of scope.
`NextFields` is the set `next_field` may return: the catalogue's order is
abstracted into a choice. **Interview** is `update_dialogue` and the facts node.
Message text is replaced by the routed turn that remains after the text guards;
`TurnPatch` is the patch made of it (a contradicting value becomes a conflict),
`FinalDialogues` the dialogues the graph may leave. **CaseDocument** has for
each chat operation X a guard `CanX(doc)` and the saved document `X(doc)`;
`Invalidate`, `PreparedTurns`, `CommitPrepared` carry the names of the code.
Trailing steps (`sync`, `state_for`, the freeze of a report) are part of the
operation. **DomainDocument** does the same for `coordinator.py` and
`chat_calculation.py`; the engine is external and returns any status and
questions `run_plan` and `run_domain` may return. `Fingerprint` is
`domain_fingerprint`: hashes are modelled by what they hash.

**CaseOperations** turns requests into records: `Results(doc, op)` is the set of
documents the handler may save, empty if it refuses. **CaseRegister** is the
case as users should see it, one variable, an accepted operation one step;
`ChatSpec` uses the interview alone, `Spec` everything. **CaseService** adds the
handlers: `Receive` (receipts first, then the revision), `Prepare`,
`Commit`/`LoseRace` (the conditional update), `Timeout` (the 90 s limit: the
commit runs on after it), `Abandon`, `Refuse`; `log` and `answer` are history.
Any request with a revision that has existed may arrive at any time, which
covers lost, delayed, repeated and reordered requests and reused ids.

**EngineQuestions** is `question_order.py` with what an answer, a deferral, an
edit or a ruling does to questions, gates and actions; the tables of
prerequisites are constants. The code's recursion along the prerequisites is
unfolded: `Above[k]` is all that key k depends on, and `Status` looks at what
those require. **Workspace** has the state of `useWorkspace.ts`
(view, draft, outbox, the operation that holds the lock, retry) and requests and
answers on a wire that loses, delays and reorders; the server is a log of
commits, which is what CaseService is proved to be; other clients append to it.

**TaskFocus** is `resolve` and the route node, **TurnGraph** the graph of
`hybrid.py` with the jobs of a message, the tool loop of `tool_harness.py`, and
the one budget; **Evidence** says which search results may be shown, merged and
cited. A turn proposes and `Commit` keeps; a turn that fails changes nothing.
**KnowledgeSlots** has a caller and a thread for each search, deadlines, slots
and the retry.

**CaseLedger** keeps for each case file the order of file times (`Stamp` moves a
name to the end) and has every ledger operation. The tools that save the ledger
(`write_intake`, `round_new`, `write_review` of the intake, `round_set_run`,
`round_revise`) load it, change a file and their copy, and save the whole copy,
in steps of their own: `calls` holds for the front session and for the
orchestrator with its agent how far such a call is and the copy it works on, so
one process may undo what the other saved. Two steps are joined where nothing
can come between them: `round_set_run` loads and checks at once, because the
files its status is taken from are written by its own process, and a tool that
writes one report file is one step, because the agents of a run take turns.
`untimed` is history: the package was written and no ledger saved since has its
time. **Orchestrator** is `decide`, `advance`, the nodes with their limits,
faults between two steps (a process may also end inside a ledger call), and the
front session working on the same files. `flow.read` is the package `run_input`
read when the node began; the reading of the earlier runs (`earlier_runs`) is
joined with the load of `round_set_run` that follows it.
**RuleChain** has the six nodes, `run_chain`
and what three callers keep or show of a run, the intake among them. **RuleCell**, **Optimizer** and
**RuleLibrary** are the evaluator, the search and the build of the rule layer;
**DataSync** fetching, building, uploading, resuming, verifying and pulling. A
pull takes its snapshot with its first statement and locks a table when it
counts it; the swap of the tables waits for those locks alone, so it may come
between, and the pull then reads tables without rows (`Replaced`). In
**Optimizer** a move is offered on an edge by `Possible`, which is
`precondition_ok`: preconditions are read on the facts of the hop with the moves
applied, and one that cannot be read ends the reading and permits the edge.

## What the runs check

| run | instance | shows |
|---|---|---|
| `case_chat` | 2 fields (one identifying, with an out-of-scope answer), edits and messages of all kinds, 7 operations | confirmation, reports, approval, conflicts, consent and displayed state agree with the facts; frozen reports stay frozen |
| `case_domain` | 2 chat fields, an event and an answer address, one action, one ruling, all operations, 6 of them | a live result and a confirmation of the structure work are about the present inputs |
| `case_service` | 2 handlers, 3 ids, 4 kinds of operation, 2 commits | at most once, no lost update (`ImplementsRegister`), receipts agree with commits, a retry is answered "done" |
| `turn` | 12 messages, 3 turns, 2 search tools, a corpus that moves once | no part of a request and no suspended task is lost, loop and budget hold, citations are single |
| `browser` | 1 text, 2 clicks, 2 commits of others; 7 facts, 2 gates, 2 sets of needs | the client repeats and loses nothing, analyses what was confirmed, releases its lock; the structure interview has no dead end and ends |
| `orchestrator` | 2 packages, 2 rounds, each node once again | delivered reports are sound, what is registered was read as it stands, polishing follows a review, a run ends |
| `knowledge` | 3 searches (one of the law service), 1 slot; 1 document in 2 formats and 2 contents, 3 runs of the tools | slots balance and searches end; a pull is whole or empty, an upload exact |
| `rules` | 4 nodes, 13 rules, two kinds of fact moves and two sets of limits; edits of four tables; cards two changes from every outcome | the frontier is exact, answers narrow ranges, accepted rules evaluate, the chain's outcomes are justified |
| `domain_state`, `domain_consent`, `service_done`, `service_twins` | as `case_domain`, `case_service` | the four disagreements below |

Three MC modules hold two or three components that share no state
(`MCBrowser`, `MCKnowledge`, `MCRules`): a variable `part`, fixed at the start,
says which of them moves, so the behaviours are those of each alone.

### Bounds

`MaxReceipts` is the code's own limit (1000 receipts, one per revision) made
small. Every hazard of the document needs few steps: to confirm, report, bind
and change a fact through the binding takes five operations, a conflict or a
consent that outlives its facts three to five. Two handlers are enough for a
race on a conditional update, three ids for a third request after two commits.
`MaxTurns`, `MaxMoves`, `MaxGestures`, `MaxOthers`, `MaxDetours`, `MaxRounds`,
`MaxEdits`, `MaxSteps`, `MaxFetches` and `MaxRuns` are bounds of the models, each
named in its module and used in a guard only. In `turn` the limits of the code
(four actions, three searches, a recursion limit of twelve) are scaled to two,
two and six, which keeps the relation the proof uses; `ModelLimit` is six as in
the code. `knowledge` has one slot where the code has two: with one, three
searches already compete for it, and the proof is for any number. In `orchestrator`
`DraftReturns` and `FinalReturns` hold one agent each: a checklist may name
others too (`RETURNS` in `case_server.py`), which lead to the same nodes as a
failed self-check or a note of the polisher does in this instance; the proofs are
for all of them. The moves of `rules` are one that cannot be read and
restructures (`holding_pct`, like the shipped one) and one whose precondition is
read (`wait_months`). Its limits are three hops with six moves, and two hops with
four moves, two labels and two forks, which cut what is kept; edges have at most
two moves, so in both the limit on moves cannot bind (`MovesFit`). Every property
has a mutant in `PROJECT.json`, a plausible slip in a modelled definition that
the same run finds, which shows that the instances reach the case.

`CHECK_DEADLOCK FALSE` is set where the system may rest: a case at its limit of
receipts accepts nothing more, handlers may be idle with all ids used, a search
thread may stall for ever, an interview with nothing left to ask stops, and the
rule layer waits for an edit. `orchestrator` and `turn` are checked for deadlock.

Symmetry is used in `case_service` only, on handlers and ids, which no property
names; no liveness is checked there.

### Fairness

* `Orchestrator`: `WF(NodeEnds)`. The orchestrator goes on and an agent's
  process ends, because it has a limit of turns and of time.
* `Workspace`: `WF(Browser)`. Each fetch has a time limit of 65 or 100 seconds,
  so the browser's own steps are never postponed for ever. Nothing is assumed of
  the server, the network or the user.
* `KnowledgeSlots`: `WF(Caller(s))` and `WF(Deadline(s))` for each search: the
  event loop runs and clocks go on. A thread may stall for ever.
* `EngineQuestions`: `WF(AnswerPending)` and `WF(Plan)`: `InterviewEnds` is
  asked only of a user who keeps answering the question on display and
  recalculates when facts changed.
* All other specifications have safety properties only and no fairness.

## Where code and documents disagree

1. `ConfirmedState` (run `domain_state`). `domain_setup` and the other structure
   operations withdraw the confirmation but leave the state "confirmed".
   `docs/superpowers/specs/2026-09-27-live-chat-design.md:34`: "Backend state
   controls confirmation and analysis buttons."
2. `ConsentNotRevived` (run `domain_consent`). Structure work changes facts and
   leaves the consent to a partial result in place; when the values return, the
   consent counts again. `docs/implementation/B_GUIDED_INTAKE_DESIGN_2026_10_02.md:51`:
   "... consent bound to the current fact snapshot; fact changes invalidate it."
3. `EveryDoneMeansCommitted` (run `service_done`). Edit, organize, confirm, run
   and review answer a reused id with the case whatever the payload.
   `docs/implementation/B_TEAM_HANDOFF.md:164`: "changed payload needs new ID".
   For messages and structure operations `DoneMeansCommitted` holds.
4. `NoConflictForCommitted` (run `service_twins`). The slower of two identical
   concurrent requests is told `revision_conflict`.
   `docs/implementation/B_AGENT_IMPLEMENTATION_PLAN_2026_10_02.md:131`:
   "Concurrent identical requests may recompute but commit once and return the
   same result." They do commit once (`AtMostOnce`), and asking again returns it
   (`RetryFindsResult`).

Met while modelling, in the models, without a run of their own:

* `agent/tools/case_server.py` 233-258 against `agent/tools/orchestration_cli_spec.en.md:62`
  (what a returned stage hands back), and a RUNNABLE verdict that can be stamped
  over a package no reviewer read (`case_mcp_spec.en.md:137`).
* The ledger tools load and save the whole of `rounds.json` without a lock, in the
  processes of the front session and of the orchestrator. `round_set_run` (loads
  at 355, saves at 367) can erase the time of a package written meanwhile, and
  `write_intake` writes the file (427) before its time (431-432), so a run may be
  registered for a package nobody checked, against the message at
  `agent/tools/case_server.py:359`. `RegisteredAsRead` names these two exceptions
  exactly; TLC finds it violated without either.
* `write_review` stamps when a checklist was written, not what was read: a package
  replaced while its reviewer reads counts as checked. A REVISE checklist over the
  package of a round that has a run falls through to the status of that run's
  report (`case_server.py` 240-245), and the old products go on.
* `database/pull_database.py`: a swap of the tables between the snapshot (126) and
  the first count (134) leaves a completed pull with tables of no row. `PulledWhole`
  says that this is the only other outcome.
* `agent/tools/orchestrate.py` 506-515: `take_lock` tests, reads and writes the
  lock file in separate steps.
* `packages/rule_engine/evaluators.py` 257-263 lists a judgement fact as missing
  though it is known; `packages/intake/cli.py` rewrites a fact without a version,
  which `VersionsFollow` therefore asks only of facts the evaluation wrote last.
* `database/tools/upload.py`: `--resume` does not send content that changed;
  `UploadExact` is about full uploads. Objects are deleted before the tables change.
* `optimization/tools/optimize.py` 448-451: dominance does not look at the number
  of moves; `FrontierExact` holds where that limit cannot bind, which the shipped
  limits (three of each) do not ensure on edges with two moves. The precondition
  of the shipped `move.csv` cannot be read (420-432) and so never forbids a move.
* `packages/agent/hybrid.py`: an open question may belong to a task that a queued
  part has taken the focus from; a job the budget no longer allows counts as
  refused. The tasks of a message that only pauses or asks for the summary are
  dropped. `QuestionBound` and `PartsKept` say exactly this.
* `packages/domain_bridge/question_order.py`: an answer to a gate is voided by an
  answer to a core fact later in the same batch.

## What is proved

For every value of the constants, from the named assumptions of the modules
(TLC evaluates each of them on some instance): `FactsAssumption`,
`DocumentAssumption`, `NoneIsNoConfirmation`, `CalculationAssumption`,
`InputsAssumption`, `ServiceAssumption` for the case; `FocusAssumption`,
`EvidenceAssumption`, `MessagesAssumption`, `LimitsAssumption` for turns;
`WorkspaceAssumption`; `RequireAssumption`, `NeedsAssumption`,
`CoreFactsAreFacts` for questions; `LedgerAssumption`, `OrchestratorAssumption`;
`SlotsAssumption`, `SyncAssumption`, `ChainAssumption`; `OptimizerAssumption`.

**Operations (`CaseTypes`).** Each result of each operation on a document is a
document of the same revision and relates to it in one of two ways (`Effect`):
the operation either *revokes* (no confirmation, every report stale, no live
result from before) or leaves facts, fingerprint and gaps alone.

**Register (`CaseTypes`, `CaseRegisterProofs`).** `Sound(doc)` is inductive:
type, injective bindings, a confirmation that is current and free of conflicts,
a structure whose outcome and confirmation carry the present fingerprint, and
reports that are well-formed, and current while live. No stated invariant is
inductive alone: that a live report is current needs that it was frozen from a
current confirmation, that an approval is sound needs that a report with gaps
has the lower gate, that the fingerprint stays needs injective bindings. Hence
`TypeOK`, `ConfirmationCurrent`, `OutcomeCurrent`, `ReportsCurrent`,
`ApprovalSound`, `BindingsInjective` (which is only proved, no run lists it) and
the action property `ReportsFrozen`.

For the interview alone, `Truthful` is added: competing values only for
conflicts, the state "needs_resolution" exactly with a conflict, "confirmed" only
over a confirmation, and no live report over a conflict, which is what keeps a
review from hiding one. Hence `StateTruthful` and `DisputesAreConflicts`.
`ConsentBoundToFacts` follows the dialogue through a turn: new facts end the
consent before anything else is done, and what is given later in the turn is for
the new facts. These three fail with structure work (disagreements 1 and 2; a
structure answer also resolves a conflict and leaves its competing values).

**Service (`CaseServiceProofs`).** A handler that can commit holds the row as it
stands (what it loaded at revision r is the row while the row has revision r),
its prepared document is a result of its operation, receipts follow the log,
and the last answer is true. Hence `AtMostOnce`, `RowMatchesLog`,
`DoneMeansCommitted`, `RetryFindsResult`, that the stored document is always
`Sound`, and the refinement `ServiceImplementsRegister`: `Spec` implies
`ImplementsRegister`, the specification of CaseRegister under
`doc <- row.doc`. The instance has operators of its own; the proof first equates
them, layer by layer from the interview up, with those of CaseOperations, then
shows that `Commit` is a step of the register and every other action a stutter.

**Turns (`TurnGraphProofs`).** `TurnInv` is a conjunction over the node at work.
The tool loop alternates between plan and execute and each round costs one
action, so `steps` is twice the actions, and `LimitsAssumption` puts it below the
recursion limit (`LoopEnds`). Before the first model call of the loop three calls
are left, before each later point one (`AnswerHasRoom`). A queued part is in the
queue, at work or done (`PartsKept`). The question of a turn is owned by the task
in focus, whose ids grow by four a turn (`QuestionBound`). Each bundle holds one
version of a passage, and merging keeps that (`CitationsSingle`). Only a resuming
message takes a suspended task (`SuspendedKept`).

**Browser (`BrowserProofs`).** The log holds an id once, an id names one click,
an answer that says "done" or "receipt" is about a prefix of the log that holds
the request, and the analysis of a click carries the revision its confirmation
was answered with. Hence `RetryRepeatsNothing`, `AnalysisOfConfirmed`,
`TextKept`.

**Questions (`BrowserProofs`).** `RequireAssumption` says that prerequisites do
not lead back to what they are for, as `tests/integration/test_question_order.py`
lines 149-168 check of the code's tables; `NeedsAssumption` that the engine asks
about keys of the tables. `QuestionsInv`: a current list of questions holds every
key without a value that a question on it depends on, unless the question fell
away, and the display is what `next_question` chooses from it. This is not kept
by an answer as such (answers void others) but made anew by the run of the engine
that follows each. From it, a question that waits has among the keys it depends
on one without a value that waits for nothing itself: among those that wait,
acyclicity gives one whose prerequisites do not wait, and the value it waits for
is that of such a prerequisite (`FirstWaiting`). It is on the list, or the user
does not know it: `NoDeadEnd`.
`DisplaySound` adds what a user sees: the question displayed can be answered now
and was not put off; and while nothing is displayed, whatever waits does so for
something the user does not know or put off, or for a person.

**Orchestrator (`OrchestratorProofs`).** The invariant relates the order of file
times, the checklists and the node at work: only the review nodes write the
checklists of a report and they are entered when the self-check is clean; the
front may write meanwhile, and then the new file is younger than the checklist.
Hence `DeliveredSound` and `ReviewBeforePolish`. What a write does to the order is
a set of lemmas about `Stamp` and `At`. For `RegisteredAsRead` the invariant says
what the copies of ledger calls under way hold (`CallFits`): a copy the front is
about to save has no check younger than its write, so whoever saves last, a
ledger that counts as checked is not one the front made; and while a run is
registered the package read is the one that stands, or a write has no time yet,
or the ledger counts as unchecked, which the save of the run would undo.

**Searches, package, chain (`KnowledgeProofs`).** `SlotsInv`: a caller that waits
for a slot has no thread, so every slot is free or held (`SlotsAccounted`, with
the finite-set theorems). `SyncInv`: what a pull has published so far is of the
one state its transaction sees (a version, or tables without rows once they were
replaced before it had counted one), and what an upload has done so far agrees with the folder unless
somebody wrote to it (`PulledWhole`, `UploadExact`). `ChainInv`: an outcome kept
or shown is justified by the facts it ran on, for every order of the nodes
behind the three gates (`OutcomeJustified`), rows the evaluation wrote agree with
their version (`VersionsFollow`), and each node keeps a finding when a missing
fact is supplied (`FindingsStand`).

**Optimizer (`OptimizerProofs`).** `SearchInv` says of the labels alive that each
is a walk within the limits, none dominates another, and whatever a label that no
longer waits leads to along an edge is covered: some label is no worse. A label
that is dropped or replaced is covered by the one that dominates it, and to be
"no worse" is transitive. By induction along the edges every walk is then covered
when the search ends, so `FrontierExact` holds on any graph, for any limits and
in any order. Two things this rests on are named. A walk that is dominated may
be extended only if what dominates it may: the limit on hops allows it because
dominance compares hops, the limit on moves need not, which is why
`FrontierExact` is about `MovesFit`. And what is extended must stay no worse:
`KeepsOrder(K)` says that no hop turns a smaller amount of K into a larger one.
`SearchIsExact` has this as its hypothesis (`OrderKept`); `FlatSearchIsExact`
needs it no more where each edge has a tax of its own, which the code computes
once per edge, because rounding down keeps the order. Where the tax depends on
the amount (a progressive schedule) it is a condition on the schedules of the
tables, which are data: a marginal rate above the whole would break it. TLC
finds that it holds of all amounts the walks of the instance reach, the
schedule of its Japanese destination included. `MovesFit` and no cut bucket are
the other conditions, as in the run. The least number principle stands
in for induction where the walks are collected (`CollectsExists`).

**Conditions (`OptimizerProofs`).** For any condition and any facts, a verdict
"holds" or "fails" stands whatever is learned of what was missing, and "open"
names something missing (`VerdictsStand`); so the rules taken on the two sides
of a cell only move towards each other (`SidesCloseIn`). This is why a range can
narrow; that it does, with what pending rules and denials do, is `AnswersNarrow`.

Only model-checked:

* `RunEnds`, `Released`, `SearchEnds`, `InterviewEnds`: liveness under fairness,
  out of the prover's reach.
* `AcceptedEvaluates`: the parser and the evaluator of `RuleLibrary` are recursive
  over texts and trees of any depth, and what a recursive definition computes for
  every input needs induction over data. Only the conditions of `RuleCell`, which
  are in conjunctive form, are proved about.
* `AnswersNarrow`: relates the forks of two runs of the whole rule layer. It does
  not follow for arbitrary rules (a rule in doubt that moves a value both ways may
  lead outside), so a theorem would need a condition on the tables that neither
  the build nor the documents state.

## Left out

Within the modelled parts:

* *Case*: approval to use data, title and archive flag, the limits on messages
  and stored runs, provenance and history of facts, a scope with several
  transactions, the guard on the question a message replies to, the mode for
  reviewing paid tax, currency as a field of its own. A structure report is
  synthetic in this code and therefore never approvable; the model keeps that.
* *Questions*: answer formats, wording, one field whose prerequisites depend on
  the rules that ask (`clawback_event_within_2y`).
* *Turns*: the search cache, attachments, the wording of replies, the validation
  of model output (a choice); a model that writes answers is assumed configured.
* *Browser*: deleting, renaming and listing cases, sign-in.
* *Orchestrator*: the content of drafts beyond their figures and whether they
  are sound in themselves; one run of a case at a time; two calls of one session
  at once.
* *Rules*: the penalty slot, the transfer flow, transfers and one-off costs,
  assumptions, exposure, the comparison of runs; reading characters of a text.
* *Package*: clause search, guides, the local snapshot and its `pg_dump`; the
  listing of the bucket over HTTP when the database refuses the query, which
  asks for 1000 names of a folder without paging (the shipped folders hold at
  most 220 files).

Whole parts: see `components` in `PROJECT.json`, each with its reason.

## What could follow

The log of `Workspace` is what `CaseService` is proved to keep, stated once for
each and not as a refinement of one by the other. The hazards of `PROJECT.json`
without a property name the rest: two starts of one orchestrator run, clauses
apart from their files in a build, the exchange of a refresh token.

## Running

    tlc -workers 2 -config MCCaseChat.cfg MCCaseChat
    tlc -workers 2 -config MCDomainState.cfg MCCaseDomain
    tlapm CaseServiceProofs.tla

The runs take from seconds to three minutes (`browser` and `rules` are the
longest), the proofs a few minutes each.
