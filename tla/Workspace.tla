----------------------------- MODULE Workspace -----------------------------
(***************************************************************************)
(* One case in the browser (apps/web, useWorkspace.ts, api.ts and the      *)
(* structure panel): the shown revision, the draft, the bubbles of the     *)
(* outbox, the operation in progress and the one kept for Retry.           *)
(*                                                                         *)
(* The server is seen from here as a log of committed requests, as the     *)
(* module CaseService shows it behaves: a case document is a prefix of the *)
(* log and its revision the length of the prefix.  Other clients append.   *)
(***************************************************************************)
EXTENDS Naturals, SequencesExt

CONSTANTS Texts,          \* what the user may type
          OtherKinds,     \* kinds of requests other clients commit
          MaxGestures,    \* bound of the model: clicks that start an operation
          MaxOthers       \* bound of the model: commits of other clients

ASSUME WorkspaceAssumption == MaxGestures \in Nat

NoText == "no text"

VARIABLES log,       \* the server: committed requests, oldest first
          wire,      \* requests on their way to the server
          answers,   \* its answers on their way back
          view,      \* the revision shown
          draft,     \* the text in the composer
          outbox,    \* local bubbles
          op,        \* the operation that holds the lock
          retry,     \* the operation Retry would repeat
          panel,     \* the request of the structure panel, which takes no lock
          last,      \* gestures made
          replayed   \* history: confirmations answered from their receipt

vars == <<log, wire, answers, view, draft, outbox, op, retry, panel, last, replayed>>

Kinds == {"message", "facts", "confirm", "analyze", "note"}

\* An operation: its gesture, the revision it was made on, the step it is at.
\* confirmed is the answer to the confirmation, kept over retries.
NoOp == [kind |-> "none", g |-> 0, rev |-> 0, text |-> NoText, step |-> "idle",
         stopped |-> FALSE, confirmed |-> 0]

Init ==
  /\ log = << >> /\ wire = {} /\ answers = {}
  /\ view = 0 /\ draft = NoText /\ outbox = {}
  /\ op = NoOp /\ retry = NoOp /\ panel = NoOp /\ last = 0 /\ replayed = {}

----------------------------------------------------------------------------
(***************************************************************************)
(* The server and the network                                              *)
(***************************************************************************)
Entries(ids) == {i \in DOMAIN log : log[i].id \in ids}
\* Facts count as confirmed until they change.
FactsAt(r) == Len(SelectSeq(SubSeq(log, 1, r), LAMBDA e : e.kind = "facts"))
Confirmed == \E i \in DOMAIN log : log[i].kind = "confirm" /\ FactsAt(i) = FactsAt(Len(log))

\* The answer is a whole document, an error code, or lost.
Serve(q) ==
  /\ q \in wire
  /\ wire' = wire \ {q}
  /\ \/ /\ Entries({q.id}) # {}
        /\ answers' = answers \cup {[id |-> q.id, ok |-> "receipt", rev |-> Len(log)]}
        /\ UNCHANGED log
     \/ /\ Entries({q.id}) = {} /\ q.rev # Len(log)
        /\ answers' = answers \cup {[id |-> q.id, ok |-> "conflict", rev |-> 0]}
        /\ UNCHANGED log
     \/ /\ Entries({q.id}) = {} /\ q.rev = Len(log)
        /\ q.kind = "analyze" => Confirmed
        /\ log' = Append(log, [id |-> q.id, g |-> q.g, kind |-> q.kind])
        /\ answers' = answers \cup {[id |-> q.id, ok |-> "done", rev |-> Len(log')]}
     \/ /\ Entries({q.id}) = {}
        /\ answers' = answers \cup {[id |-> q.id, ok |-> "failed", rev |-> 0]}
        /\ UNCHANGED log
  /\ UNCHANGED <<view, draft, outbox, op, retry, panel, last, replayed>>

OtherClient == \E k \in OtherKinds :
  /\ Cardinality(Entries({0})) < MaxOthers
  /\ log' = Append(log, [id |-> 0, g |-> 0, kind |-> k])
  /\ UNCHANGED <<wire, answers, view, draft, outbox, op, retry, panel, last, replayed>>

----------------------------------------------------------------------------
(***************************************************************************)
(* Bubbles and draft                                                       *)
(***************************************************************************)
BubbleOfDraft(o, delivery) == [id |-> o.g, text |-> draft, delivery |-> delivery]
Bubble(o, delivery) == [id |-> o.g, text |-> o.text, delivery |-> delivery]
Others(o) == {b \in outbox : b.id # o.g}
\* A new bubble replaces the failed ones of the same text.
Sending(o) ==
  {b \in Others(o) : ~(b.delivery = "failed" /\ b.text = o.text)} \cup {Bubble(o, "sending")}
RestoredNothing(o) == draft
Restored(o) == IF draft = NoText THEN o.text ELSE draft

Type == \E t \in Texts \cup {NoText} :
  /\ draft' = t
  /\ UNCHANGED <<log, wire, answers, view, outbox, op, retry, panel, last, replayed>>

----------------------------------------------------------------------------
(***************************************************************************)
(* perform: one operation at a time; it stays in retry until it succeeds.  *)
(***************************************************************************)
\* A confirmation and its analysis are two requests with ids of their own.
IdOf(o) == IF o.kind = "analyze" THEN o.g + MaxGestures ELSE o.g
RequestAnew(o) ==
  [id |-> IF view = o.rev THEN IdOf(o) ELSE IdOf(o) + 2 * MaxGestures,
   g |-> o.g, kind |-> o.kind, rev |-> view]
Request(o) ==
  [id |-> IdOf(o), g |-> o.g, kind |-> o.kind,
   rev |-> IF o.kind = "analyze" THEN o.confirmed ELSE o.rev]

Submit(o) ==
  /\ op' = [o EXCEPT !.step = "wait", !.stopped = FALSE]
  /\ retry' = op'
  /\ wire' = wire \cup {Request(o)}
  /\ answers' = {a \in answers : a.id # IdOf(o)}
  /\ IF o.kind = "message"
     THEN /\ outbox' = Sending(o)
          /\ draft' = IF draft = o.text THEN NoText ELSE draft
     ELSE UNCHANGED <<outbox, draft>>
  /\ UNCHANGED <<log, view, panel, replayed>>

Click == \E k \in {"message", "facts", "confirm"} :
  /\ op = NoOp /\ last < MaxGestures
  /\ k = "message" => draft # NoText
  /\ last' = last + 1
  /\ Submit([NoOp EXCEPT !.kind = k, !.g = last + 1, !.rev = view,
                         !.text = IF k = "message" THEN draft ELSE NoText])

Retry ==
  /\ op = NoOp /\ retry # NoOp
  /\ Submit(retry)
  /\ UNCHANGED last

Done == op' = NoOp /\ retry' = NoOp
FailHolding == UNCHANGED <<op, retry>>
Fail == op' = NoOp /\ UNCHANGED retry

\* The awaited document: it replaces the shown one.
Succeed == \E a \in answers :
  /\ op.step = "wait" /\ a.id = IdOf(op) /\ a.ok \in {"done", "receipt"}
  /\ answers' = answers \ {a}
  /\ view' = a.rev
  /\ outbox' = IF op.kind = "message" THEN Others(op) ELSE outbox
  /\ IF op.kind = "confirm"
     THEN LET next == [op EXCEPT !.kind = "analyze", !.confirmed = a.rev]
          IN op' = next /\ retry' = next /\ wire' = wire \cup {Request(next)}
     ELSE Done /\ UNCHANGED wire
  /\ replayed' = IF op.kind = "confirm" /\ a.ok = "receipt" THEN replayed \cup {op.g} ELSE replayed
  /\ UNCHANGED <<log, draft, panel, last>>

\* An error answer, a broken connection or the time limit.
Broken ==
  /\ IF op.kind = "message"
     THEN /\ outbox' = IF op.stopped THEN Others(op)
                       ELSE Others(op) \cup {Bubble(op, "failed")}
          /\ draft' = Restored(op)
     ELSE UNCHANGED <<outbox, draft>>
  /\ IF op.stopped
     THEN op' = [op EXCEPT !.step = "reload"] /\ UNCHANGED retry
     ELSE Fail

FailAnswer ==
  /\ op.step = "wait"
  /\ \/ answers' = {a \in answers : a.id # IdOf(op)}           \* network_error
     \/ \E a \in answers : a.id = IdOf(op) /\ a.ok = "failed" /\ answers' = answers \ {a}
  /\ Broken
  /\ UNCHANGED <<log, wire, view, panel, last, replayed>>

\* A conflict shows the newer case before the failure is reported.
ConflictAnswer == \E a \in answers :
  /\ op.step = "wait" /\ a.id = IdOf(op) /\ a.ok = "conflict"
  /\ answers' = answers \ {a}
  /\ op' = [op EXCEPT !.step = "conflict"]
  /\ UNCHANGED <<log, wire, view, draft, outbox, retry, panel, last, replayed>>

Reloaded ==
  /\ op.step = "conflict"
  /\ view' = Len(log)
  /\ Broken
  /\ UNCHANGED <<log, wire, answers, panel, last, replayed>>

\* The reload itself fails: perform takes the error, nothing else is done.
ReloadFails ==
  /\ op.step \in {"conflict", "reload"}
  /\ Fail
  /\ UNCHANGED <<log, wire, answers, view, draft, outbox, panel, last, replayed>>

\* Stop aborts the stream; the server may commit all the same.
Stop ==
  /\ op.kind = "message" /\ op.step \in {"wait", "conflict"} /\ ~op.stopped
  /\ IF op.step = "wait"
     THEN /\ outbox' = Others(op) /\ draft' = Restored(op)
          /\ op' = [op EXCEPT !.stopped = TRUE, !.step = "reload"]
     ELSE op' = [op EXCEPT !.stopped = TRUE] /\ UNCHANGED <<outbox, draft>>
  /\ UNCHANGED <<log, wire, answers, view, retry, panel, last, replayed>>

\* A turn committed before the stop is shown; the operation counts as done.
StopReloaded ==
  /\ op.step = "reload"
  /\ view' = Len(log)
  /\ Done
  /\ UNCHANGED <<log, wire, answers, draft, outbox, panel, last, replayed>>

----------------------------------------------------------------------------
(***************************************************************************)
(* The structure panel sends beside the lock and shows what it gets.       *)
(***************************************************************************)
PanelClick ==
  /\ panel = NoOp /\ last < MaxGestures
  /\ last' = last + 1
  /\ panel' = [NoOp EXCEPT !.kind = "facts", !.g = last + 1, !.rev = view, !.step = "wait"]
  /\ wire' = wire \cup {Request(panel')}
  /\ UNCHANGED <<log, answers, view, draft, outbox, op, retry, replayed>>

PanelAnswer ==
  /\ panel.step = "wait"
  /\ \/ \E a \in answers :
          /\ a.id = panel.g
          /\ answers' = answers \ {a}
          /\ view' = IF a.ok \in {"done", "receipt"} THEN a.rev ELSE view
          /\ panel' = IF a.ok = "conflict" THEN [panel EXCEPT !.step = "reload"] ELSE NoOp
     \/ panel' = NoOp /\ UNCHANGED <<answers, view>>            \* network_error
  /\ UNCHANGED <<log, wire, draft, outbox, op, retry, last, replayed>>

PanelReload ==
  /\ panel.step = "reload"
  /\ panel' = NoOp
  /\ view' \in {view, Len(log)}
  /\ UNCHANGED <<log, wire, answers, draft, outbox, op, retry, last, replayed>>

----------------------------------------------------------------------------
Server == (\E q \in wire : Serve(q)) \/ OtherClient
Browser == Succeed \/ FailAnswer \/ ConflictAnswer \/ Reloaded \/ ReloadFails \/ StopReloaded
User == Type \/ Click \/ Retry \/ Stop \/ PanelClick
Panel == PanelAnswer \/ PanelReload

Next == Server \/ Browser \/ User \/ Panel

\* Every fetch has a time limit of 65 or 100 seconds.
Spec == Init /\ [][Next]_vars /\ WF_vars(Browser)

----------------------------------------------------------------------------
TypeOK ==
  /\ \A i \in DOMAIN log : log[i].kind \in Kinds /\ log[i].id \in 0 .. 2 * MaxGestures
  /\ wire \subseteq [id : 1 .. 2 * MaxGestures, g : 1 .. last, kind : Kinds, rev : 0 .. Len(log)]
  /\ view \in 0 .. Len(log)
  /\ draft \in Texts \cup {NoText}
  /\ \A b \in outbox : b.id \in 1 .. last /\ b.text \in Texts /\ b.delivery \in {"sending", "failed"}

\* However often an operation is retried after lost answers, a click changes the
\* case at most once (perform keeps the operation with its id and revision).
RetryRepeatsNothing ==
  \A i, j \in DOMAIN log :
    log[i].g > 0 /\ log[i].g = log[j].g /\ log[i].kind = log[j].kind => i = j

\* A bubble goes only when its text is in the shown case, is sent again, or the
\* composer holds it or a newer draft (send).
TextKept ==
  [][\A b \in outbox : (\A c \in outbox' : c.id # b.id) =>
        \/ \E i \in 1 .. view' : log'[i].id = b.id
        \/ \E c \in outbox' : c.text = b.text
        \/ draft' # NoText]_vars

\* The analysis that follows a confirmation is of the facts confirmed with it,
\* whatever other clients commit between the two requests - unless a retried
\* confirmation was answered from its receipt with a later case.
AnalysisOfConfirmed ==
  [][\A i \in DOMAIN log' \ DOMAIN log : log'[i].g > 0 /\ log'[i].kind = "analyze" =>
        \/ log'[i].id - MaxGestures \in replayed
        \/ \E c \in DOMAIN log : log[c].id + MaxGestures = log'[i].id
                         /\ FactsAt(c) = FactsAt(Len(log))]_vars

\* The workspace is released again whatever the network does.
Released == op # NoOp ~> op = NoOp
=============================================================================
