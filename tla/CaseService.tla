---------------------------- MODULE CaseService ----------------------------
(***************************************************************************)
(* The handlers of one case over its row in the store (packages/chat/      *)
(* store.py, load, finish, load_message and domain_load, the message route *)
(* of apps/api/chat.py and packages/chat/streaming.py).                    *)
(*                                                                         *)
(* A request carries an id chosen by the client, the revision the client   *)
(* saw and an operation.  The network may lose it, delay it or deliver it  *)
(* again, and a client may reuse an id: any request whose revision has     *)
(* existed may arrive at any time.  A handler reads the row, works on its  *)
(* copy and writes it back where the row still has the revision it read.   *)
(* The answer last sent to a client is kept; it may be lost as well, since *)
(* the client can always send its request again.                           *)
(***************************************************************************)
EXTENDS CaseOperations

CONSTANTS
    Handlers,    \* the requests the servers can work on at a time
    RequestIds,
    Offered,     \* the operations the clients ask for
    Hybrid,      \* the orchestration setting
    NoReceipt,
    Unsigned     \* the receipt of an operation whose payload is not kept

ASSUME ServiceAssumption ==
    /\ Offered \subseteq Operations
    /\ Hybrid \in BOOLEAN
    /\ NoReceipt \notin Operations \cup {Unsigned}
    /\ Unsigned \notin Operations

VARIABLES
    row,       \* the stored row: its revision and the saved document
    handlers,  \* what each handler is doing
    log,       \* history: the requests that were committed, in order
    answer     \* history: the last answer sent to a client

vars == <<row, handlers, log, answer>>

Requests == [id : RequestIds, revision : 0..MaxReceipts, op : Offered]
Receipts == Operations \cup {NoReceipt, Unsigned}
Rows     == [revision : 0..MaxReceipts, doc : Documents, receipts : [RequestIds -> Receipts]]

Idle   == [phase |-> "idle"]
Phases == {"loaded", "prepared"}
Busy   == [phase : Phases, request : Requests, base : Rows, doc : Documents, listening : BOOLEAN]

Replies == {"done", "revision_conflict", "payload_conflict", "refused", "failed"}

TypeOK ==
    /\ row \in Rows
    /\ handlers \in [Handlers -> Busy \cup {Idle}]
    /\ log \in Seq([id : RequestIds, op : Offered])
    /\ answer \in [id : RequestIds, op : Offered, outcome : Replies] \cup {None}

Init ==
    /\ row = [revision |-> 0, doc |-> NewDocument, receipts |-> [i \in RequestIds |-> NoReceipt]]
    /\ handlers = [h \in Handlers |-> Idle]
    /\ log = << >>
    /\ answer = None

Answered(request, outcome) ==
    answer' = [id |-> request.id, op |-> request.op, outcome |-> outcome]

Commits(request) == \E n \in DOMAIN log : log[n].id = request.id /\ log[n].op = request.op

(***************************************************************************)
(* Receipts.  The domain operations and the messages keep their payload.   *)
(***************************************************************************)
Signed(op) == op \in DomainOperations \/ op \in Messages \/ op \in CalculationOperations
IsMessage(op) == op \in Messages \/ op \in CalculationOperations

Receipt(op) == IF Signed(op) THEN op ELSE Unsigned

\* A receipt of another payload refuses the request, if payloads are compared.
PayloadConflict(op, receipt) ==
    IF IsMessage(op) /\ ~Hybrid /\ ~IsMessage(receipt) THEN FALSE
    ELSE Signed(op) /\ receipt # op

(***************************************************************************)
(* load: the receipts are looked at before the revision.                   *)
(***************************************************************************)
DuplicateIgnoringPayload(request) ==
    /\ row.receipts[request.id] # NoReceipt
    /\ Answered(request, "done")
    /\ UNCHANGED <<row, handlers, log>>

Duplicate(request) ==
    LET receipt == row.receipts[request.id]
    IN  /\ receipt # NoReceipt
        /\ Answered(request, IF PayloadConflict(request.op, receipt)
                             THEN "payload_conflict" ELSE "done")
        /\ UNCHANGED <<row, handlers, log>>

StaleBeforeDuplicate(request) ==
    /\ row.doc.revision # request.revision
    /\ Answered(request, "revision_conflict")
    /\ UNCHANGED <<row, handlers, log>>

Stale(request) ==
    /\ row.receipts[request.id] = NoReceipt
    /\ row.doc.revision # request.revision
    /\ Answered(request, "revision_conflict")
    /\ UNCHANGED <<row, handlers, log>>

LoadIgnoringReceipts(h, request) ==
    /\ row.doc.revision = request.revision
    /\ handlers' = [handlers EXCEPT ![h] =
                      [phase |-> "loaded", request |-> request, base |-> row,
                       doc |-> row.doc, listening |-> TRUE]]
    /\ UNCHANGED <<row, log, answer>>

Load(h, request) ==
    /\ row.receipts[request.id] = NoReceipt
    /\ row.doc.revision = request.revision
    /\ handlers' = [handlers EXCEPT ![h] =
                      [phase |-> "loaded", request |-> request, base |-> row,
                       doc |-> row.doc, listening |-> TRUE]]
    /\ UNCHANGED <<row, log, answer>>

Receive(h) ==
    /\ handlers[h].phase = "idle"
    /\ \E request \in Requests :
          /\ request.revision <= row.revision
          /\ Duplicate(request) \/ Stale(request) \/ Load(h, request)

(***************************************************************************)
(* The work on the copy.  Any guard may refuse, and so may the model, the  *)
(* engine or the knowledge base; nothing is saved then.                    *)
(***************************************************************************)
Prepare(h) ==
    /\ handlers[h].phase = "loaded"
    /\ CanFinish(handlers[h].base.doc)
    /\ \E new \in Results(handlers[h].base.doc, handlers[h].request.op) :
          handlers' = [handlers EXCEPT ![h].phase = "prepared", ![h].doc = new]
    /\ UNCHANGED <<row, log, answer>>

Refuse(h) ==
    /\ handlers[h].phase = "loaded"
    /\ handlers' = [handlers EXCEPT ![h] = Idle]
    /\ Answered(handlers[h].request, "refused")
    /\ UNCHANGED <<row, log>>

(***************************************************************************)
(* finish and save: one conditional update of the row.  The handler whose  *)
(* client is gone commits all the same.                                    *)
(***************************************************************************)
Finished(h, outcome) ==
    /\ handlers' = [handlers EXCEPT ![h] = Idle]
    /\ IF handlers[h].listening THEN Answered(handlers[h].request, outcome) ELSE UNCHANGED answer

WrittenWithoutReceipt(h) ==
    [revision |-> handlers[h].request.revision + 1,
     doc      |-> Finish(handlers[h].doc),
     receipts |-> handlers[h].base.receipts]

Written(h) ==
    LET request == handlers[h].request
    IN  [revision |-> request.revision + 1,
         doc      |-> Finish(handlers[h].doc),
         receipts |-> [handlers[h].base.receipts EXCEPT ![request.id] = Receipt(request.op)]]

CommitUnconditionally(h) ==
    /\ handlers[h].phase = "prepared"
    /\ row' = Written(h)
    /\ log' = Append(log, [id |-> handlers[h].request.id, op |-> handlers[h].request.op])
    /\ Finished(h, "done")

Commit(h) ==
    /\ handlers[h].phase = "prepared"
    /\ row.revision = handlers[h].request.revision
    /\ row' = Written(h)
    /\ log' = Append(log, [id |-> handlers[h].request.id, op |-> handlers[h].request.op])
    /\ Finished(h, "done")

LoseRace(h) ==
    /\ handlers[h].phase = "prepared"
    /\ row.revision # handlers[h].request.revision
    /\ Finished(h, "revision_conflict")
    /\ UNCHANGED <<row, log>>

(***************************************************************************)
(* The turn's time limit passes and the client is told the turn failed;    *)
(* a commit that already runs in its thread goes on.                       *)
(***************************************************************************)
Timeout(h) ==
    /\ handlers[h].phase # "idle"
    /\ IsMessage(handlers[h].request.op)
    /\ handlers[h].listening
    /\ handlers' = [handlers EXCEPT ![h] =
                       IF @.phase = "loaded" THEN Idle ELSE [@ EXCEPT !.listening = FALSE]]
    /\ Answered(handlers[h].request, "failed")
    /\ UNCHANGED <<row, log>>

\* The client disconnects before the commit or the server stops: the work is
\* lost.
Abandon(h) ==
    /\ handlers[h].phase # "idle"
    /\ handlers' = [handlers EXCEPT ![h] = Idle]
    /\ UNCHANGED <<row, log, answer>>

Next == \E h \in Handlers :
            \/ Receive(h) \/ Prepare(h) \/ Refuse(h) \/ Commit(h) \/ LoseRace(h)
            \/ Timeout(h) \/ Abandon(h)

Spec == Init /\ [][Next]_vars

-----------------------------------------------------------------------------
\* Reading, computing and writing back in separate steps, with other handlers
\* in between, changes the document exactly as the register does: each commit
\* is one operation on the document it replaces, so no update is lost.
Register == INSTANCE CaseRegister WITH doc <- row.doc
ImplementsRegister == Register!Spec

\* A request id takes effect at most once, however often the request is
\* delivered, retried or handled at the same time.
AtMostOnce == \A m, n \in DOMAIN log : log[m].id = log[n].id => m = n

\* The row agrees with what was committed: its revision and the one inside the
\* document count the commits, and the receipts name exactly their ids.
RowMatchesLog ==
    /\ row.revision = Len(log) /\ row.doc.revision = Len(log)
    /\ \A i \in RequestIds :
          row.receipts[i] # NoReceipt <=> \E n \in DOMAIN log : log[n].id = i

\* A client that is told "done" about an operation whose payload is kept can
\* rely on it: the id was committed with that very operation.
DoneMeansCommitted ==
    answer # None /\ answer.outcome = "done" /\ Signed(answer.op) /\ Hybrid
        => Commits(answer)

\* The same for every operation, the edits and confirmations included.
EveryDoneMeansCommitted ==
    answer # None /\ answer.outcome = "done" => Commits(answer)

\* A request that arrives after it was committed is told so, whatever revision
\* it carries: the client that lost the answer finds it by asking again.
RetryFindsResult ==
    [][\A i \in RequestIds, op \in Offered :
          /\ Commits([id |-> i, op |-> op])
          /\ UNCHANGED <<row, handlers>>
          /\ answer' # answer /\ answer'.id = i /\ answer'.op = op
          => answer'.outcome = "done"]_vars

\* A request that took effect is never answered with a revision conflict.
NoConflictForCommitted ==
    answer # None /\ answer.outcome = "revision_conflict" => ~Commits(answer)
=============================================================================
