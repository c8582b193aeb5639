----------------------------- MODULE Interview -----------------------------
(***************************************************************************)
(* The guided interview of packages/agent/dialogue.py: one turn of         *)
(* update_dialogue, and the facts node of packages/agent/workflow.py that  *)
(* turns a routed message into a fact patch and calls it.                  *)
(*                                                                         *)
(* A dialogue record holds                                                 *)
(*   status    what the interview is doing                                 *)
(*   pending   the question on display, a [kind, field] record or None     *)
(*   deferred  the fields the user put off or could not answer             *)
(*   attempts  how often each field was asked                              *)
(*   consent   the facts for which a partial result was asked, or None     *)
(*             (the code keeps their hash)                                 *)
(* A turn is the routed message: its intent and action, the proposed       *)
(* facts, the fields whose correction the text authorises, and whether it  *)
(* uses the case.  The wording is left out, so a turn is what remains of   *)
(* it after the text guards (explicit_partial_request and the like).       *)
(***************************************************************************)
EXTENDS CaseFacts

Statuses  == {"new", "active", "suspended", "paused", "partial", "ready"}
Questions == [kind : {"fact"}, field : Fields]
             \cup [kind : {"choice", "mode", "scope"}, field : {None}]
Dialogues == [status   : Statuses,
              pending  : Questions \cup {None},
              deferred : SUBSET Fields,
              attempts : [Fields -> 0..2],
              consent  : Facts \cup {None}]

NewDialogue == [status   |-> "new",
                pending  |-> None,
                deferred |-> {},
                attempts |-> [f \in Fields |-> 0],
                consent  |-> None]

RoutedTurns == [intent      : {"chat", "research", "intake", "clarify", "unsupported"},
                action      : {"continue", "summary", "new_case", "pause", "resume",
                               "partial", "unknown", "unavailable"},
                facts       : Patches,
                corrections : SUBSET Fields,
                usesCase    : BOOLEAN,
                analysis    : BOOLEAN]

\* Only a turn about the case may carry facts or steer the interview, and it
\* corrects only what it proposes.
Turns == {t \in RoutedTurns :
            /\ t.intent \in {"intake", "research"}
                  \/ (DOMAIN t.facts = {} /\ t.action = "continue")
            /\ t.corrections \subseteq DOMAIN t.facts}

AskedField(d) == IF d.pending = None THEN None ELSE d.pending.field

\* A field asked for the third time is put off instead of displayed again.
MaxAttempts == 2

AskWithoutLimit(d, f) ==
    [d EXCEPT !.status = "active",
              !.pending = [kind |-> "fact", field |-> f],
              !.attempts[f] = @ + 1]

Ask(d, f) ==
    IF d.attempts[f] < MaxAttempts
    THEN [d EXCEPT !.status = "active",
                   !.pending = [kind |-> "fact", field |-> f],
                   !.attempts[f] = @ + 1]
    ELSE [d EXCEPT !.status = "active",
                   !.pending = [kind |-> "choice", field |-> None],
                   !.deferred = @ \cup {f}]

AskMode(d, kind) == [d EXCEPT !.status = "active",
                              !.pending = [kind |-> kind, field |-> None]]

\* New facts end the consent and the bookkeeping of the fields they settle.
KeepingConsent(d, facts, patch) ==
    LET settled == {f \in DOMAIN patch : Resolved(facts[f])}
    IN  IF DOMAIN patch = {} THEN d
        ELSE [d EXCEPT !.deferred = @ \ settled,
                       !.attempts = [f \in Fields |-> IF f \in settled THEN 0 ELSE @[f]]]

Absorb(d, facts, patch) ==
    LET settled == {f \in DOMAIN patch : Resolved(facts[f])}
    IN  IF DOMAIN patch = {} THEN d
        ELSE [d EXCEPT !.consent = None,
                       !.deferred = @ \ settled,
                       !.attempts = [f \in Fields |-> IF f \in settled THEN 0 ELSE @[f]]]

\* The next step of an interview that nothing interrupts.
Advance(facts, d) ==
    LET next == NextFields(facts, d.deferred)
    IN  IF next # {} THEN {Ask(d, f) : f \in next}
        ELSE IF Gaps(facts) # {} THEN {AskMode(d, "choice")}
        ELSE {[d EXCEPT !.status = "ready", !.pending = None]}

\* The user cannot answer: the asked field is put off and the user chooses.
CannotAnswer(d, turn, patch) ==
    LET asked == AskedField(d)
        told  == \/ asked \in DOMAIN patch /\ patch[asked] = Unknown
                 \/ turn.action \in {"unknown", "unavailable"} /\ DOMAIN patch = {}
    IN  AskMode(IF asked # None /\ told THEN [d EXCEPT !.deferred = @ \cup {asked}] ELSE d,
                "choice")

\* The dialogues update_dialogue may leave.  facts already contain the patch.
UpdateDialogue(facts, old, turn, patch) ==
    LET d     == Absorb(old, facts, patch)
        asked == AskedField(d)
    IN  CASE turn.action = "summary" -> {d}
          [] turn.action # "summary" /\ (turn.action = "new_case" \/ turn.intent \in {"chat", "research"})
               -> {[d EXCEPT !.status = "suspended"]}
          [] turn.action \notin {"summary", "new_case"} /\ turn.intent = "unsupported"
               -> {AskMode(d, "scope")}
          [] turn.intent \in {"intake", "clarify"} /\ turn.action = "pause"
               -> {[d EXCEPT !.status = "paused"]}
          [] turn.intent \in {"intake", "clarify"} /\ turn.action = "partial"
               -> {[d EXCEPT !.status = "partial", !.pending = None, !.consent = facts]}
          [] turn.intent = "clarify" /\ turn.action \in {"continue", "resume", "unknown", "unavailable"}
               -> {AskMode(d, "mode")}
          [] turn.intent = "intake" /\ turn.action \in {"continue", "resume", "unknown", "unavailable"}
               -> IF turn.action = "resume" /\ DOMAIN patch = {} /\ asked # None /\ ~Resolved(facts[asked])
                  THEN {[d EXCEPT !.status = "active"]}
                  ELSE IF turn.action \in {"unknown", "unavailable"} \/ \E f \in DOMAIN patch : patch[f] = Unknown
                  THEN {CannotAnswer(d, turn, patch)}
                  ELSE Advance(facts, d)

(***************************************************************************)
(* The facts node.  A value that contradicts a recorded one becomes a      *)
(* conflict unless the user corrected that very field.                     *)
(***************************************************************************)
Answering(d) == d.status = "active" /\ d.pending # None

\* "I do not know" outside an active question is not an answer to anything.
Stray(d, turn) == turn.action \in {"unknown", "unavailable"} /\ ~Answering(d)

ProposedFacts(facts, d, turn) ==
    IF turn.action \in {"new_case", "summary"} \/ Stray(d, turn) THEN NoFacts
    ELSE IF /\ turn.action = "unknown"
            /\ DOMAIN turn.facts = {}
            /\ AskedField(d) # None
            /\ facts[AskedField(d)] # Conflict
         THEN [f \in {AskedField(d)} |-> Unknown]
    ELSE turn.facts

Authorized(facts, d, turn) ==
    turn.corrections \cup
    {f \in DOMAIN turn.facts : Answering(d) /\ AskedField(d) = f /\ facts[f] = Conflict}

Contradicted(facts, d, turn) ==
    LET proposed == ProposedFacts(facts, d, turn)
    IN  {f \in DOMAIN proposed : /\ proposed[f] # facts[f]
                                 /\ facts[f] \notin {Absent, Unknown}
                                 /\ Resolved(proposed[f])
                                 /\ f \notin Authorized(facts, d, turn)}

TurnPatch(facts, d, turn) ==
    LET proposed == ProposedFacts(facts, d, turn)
        stays(f) == proposed[f] = facts[f] \/ (facts[f] = Conflict /\ proposed[f] = Unknown)
    IN  [f \in {g \in DOMAIN proposed : ~stays(g)} |->
            IF f \in Contradicted(facts, d, turn) THEN Conflict ELSE proposed[f]]

\* The turn after the node's own corrections of intent and action.
SettledTurn(facts, d, turn) ==
    LET proposed  == ProposedFacts(facts, d, turn)
        patch     == TurnPatch(facts, d, turn)
        known     == Patched(facts, patch)
        asked     == AskedField(d)
        intent    == IF turn.action = "new_case" THEN "intake"
                     ELSE IF Stray(d, turn) THEN "clarify" ELSE turn.intent
        ofCase    == intent = "intake" \/ DOMAIN patch # {} \/ turn.usesCase
        noWay     == /\ ofCase /\ turn.action \notin {"pause", "new_case", "summary"}
                     /\ ~Supported(known)
        clash     == /\ ofCase /\ ConflictFields(known) # {}
                     /\ turn.action \notin {"partial", "pause", "new_case", "unknown", "unavailable"}
        unresolvable == asked \in DOMAIN proposed /\ facts[asked] = Conflict /\ proposed[asked] = Unknown
    IN  [turn EXCEPT
            !.intent = IF intent = "unsupported" \/ noWay THEN "unsupported"
                       ELSE IF clash THEN "intake" ELSE intent,
            !.action = IF Stray(d, turn) THEN "continue"
                       ELSE IF unresolvable THEN "unavailable" ELSE turn.action]

(***************************************************************************)
(* The dialogue at the end of the turn.  A lookup that found its sources   *)
(* resumes the interview when it used the case or changed facts; one that  *)
(* was not about the case stays a lookup even if its facts clashed, and    *)
(* one without a target or a jurisdiction asks for it.                     *)
(***************************************************************************)
Continue(turn) == [turn EXCEPT !.intent = "intake", !.action = "continue"]

FinalDialogues(facts, d, turn) ==
    LET patch   == TurnPatch(facts, d, turn)
        known   == Patched(facts, patch)
        settled == SettledTurn(facts, d, turn)
        first   == UpdateDialogue(known, d, settled, patch)
        aside   == /\ turn.intent = "research" /\ ~turn.usesCase
                   /\ settled.intent \in {"intake", "unsupported"}
        rested  == IF aside THEN {[x EXCEPT !.status = "suspended", !.pending = None] : x \in first}
                   ELSE first
        looksUp == /\ settled.intent = "research" \/ aside
                   /\ turn.action \notin {"pause", "new_case", "summary"}
        resumed == IF turn.usesCase \/ DOMAIN patch # {}
                   THEN UNION {UpdateDialogue(known, x, Continue(settled), NoFacts) : x \in rested}
                   ELSE {}
    IN  IF looksUp THEN rested \cup {AskMode(x, "mode") : x \in rested} \cup resumed
        ELSE IF turn.intent = "intake" /\ turn.action = "continue" /\ ~turn.usesCase
                /\ DOMAIN turn.facts = {}
        THEN rested \cup {AskMode(d, "mode")}
        ELSE rested

(***************************************************************************)
(* packages/chat/facts.py: does the interview have a question, and what    *)
(* the case state becomes when its facts changed.                          *)
(***************************************************************************)
HasQuestion(facts, d) ==
    /\ d.status \notin {"paused", "suspended", "partial"}
    /\ \/ d.pending = None /\ NextFields(facts, d.deferred) # {}
       \/ /\ d.pending # None /\ d.pending.kind = "fact"
          /\ \/ facts[d.pending.field] \in {Absent, Conflict}
             \/ NextFields(facts, d.deferred) # {}

StateFor(facts, d) ==
    IF ConflictFields(facts) # {} THEN "needs_resolution"
    ELSE IF HasQuestion(facts, d) THEN "collecting" ELSE "awaiting_confirmation"
=============================================================================
