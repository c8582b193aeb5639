-------------------------- MODULE CaseServiceProofs --------------------------
(***************************************************************************)
(* What holds of the handlers of a case, for any number of handlers,       *)
(* request ids and operations: a handler that can still commit holds the   *)
(* row as it is (HandlersSound), because the revision it read is the one   *)
(* the row has, so the commit of its result is one operation on the row,   *)
(* and the receipts it writes back have lost nobody's.                     *)
(***************************************************************************)
EXTENDS CaseService, CaseTypes

\* The row and the history tell the same story.
LogSound ==
    /\ RowMatchesLog
    /\ AtMostOnce
    /\ \A i \in RequestIds :
          row.receipts[i] \in Operations => Commits([id |-> i, op |-> row.receipts[i]])
    /\ \A n \in DOMAIN log : row.receipts[log[n].id] = Receipt(log[n].op)

\* What a handler holds was the row once, and is the row if it can commit.
HandlerSound(h) ==
    LET work == handlers[h]
    IN  work.phase # "idle" =>
            /\ work.base.revision = work.request.revision
            /\ work.base.doc.revision = work.request.revision
            /\ work.base.revision <= row.revision
            /\ work.base.revision = row.revision => work.base = row
            /\ work.base.receipts[work.request.id] = NoReceipt
            /\ Sound(work.base.doc)
            /\ work.phase = "prepared" =>
                  /\ CanFinish(work.base.doc)
                  /\ work.doc \in Results(work.base.doc, work.request.op)

AnswerSound == DoneMeansCommitted

IInv ==
    /\ TypeOK
    /\ LogSound
    /\ Sound(row.doc)
    /\ \A h \in Handlers : HandlerSound(h)
    /\ AnswerSound

-----------------------------------------------------------------------------
LEMMA BusyType ==
    ASSUME TypeOK, NEW h \in Handlers, handlers[h].phase # "idle"
    PROVE  /\ handlers[h] \in Busy
           /\ handlers[h].request \in Requests /\ handlers[h].base \in Rows
           /\ handlers[h].request.id \in RequestIds /\ handlers[h].request.op \in Offered
           /\ handlers[h].request.op \in Operations
           /\ handlers[h].base.doc \in Documents
           /\ handlers[h].listening \in BOOLEAN
BY ServiceAssumption DEF TypeOK, Idle, Busy, Rows, Requests

LEMMA LogEntry ==
    ASSUME NEW S, NEW s \in Seq(S), NEW n \in DOMAIN s PROVE s[n] \in S
OBVIOUS

LEMMA AnsweredType ==
    ASSUME TypeOK, NEW request \in Requests, NEW outcome \in Replies, Answered(request, outcome)
    PROVE  answer' \in [id : RequestIds, op : Offered, outcome : Replies] \cup {None}
BY DEF Answered, Requests

\* The revision a prepared result is written with is within the limit.
LEMMA WrittenType ==
    ASSUME IInv, NEW h \in Handlers, handlers[h].phase = "prepared"
    PROVE  /\ Written(h) \in Rows
           /\ Written(h).doc.revision = handlers[h].request.revision + 1
           /\ Sound(Written(h).doc)
<1> DEFINE work == handlers[h]
<1>1. /\ work.request \in Requests /\ work.base \in Rows /\ work.request.op \in Operations
      /\ work.request.id \in RequestIds
    BY BusyType DEF IInv
<1>2. /\ work.base.doc.revision = work.request.revision
      /\ CanFinish(work.base.doc) /\ Sound(work.base.doc)
      /\ work.doc \in Results(work.base.doc, work.request.op)
    BY DEF IInv, HandlerSound
<1>3. work.base.doc \in Documents /\ work.base.receipts \in [RequestIds -> Receipts]
    BY <1>1 DEF Rows
<1>4. Effect(work.base.doc, work.doc)
    BY <1>1, <1>2, <1>3, ResultsEffect
<1>5. Sound(work.doc) /\ Sound(Finish(work.doc)) /\ work.doc.revision = work.request.revision
    BY <1>2, <1>4, EffectSound, FinishSound DEF Effect
<1>6. Finish(work.doc) \in Documents /\ Finish(work.doc).revision = work.request.revision + 1
    BY <1>5 DEF Sound, Finish, Documents
<1>7. work.request.revision + 1 \in 0..MaxReceipts
    BY <1>1, <1>2, DocumentAssumption DEF Requests, CanFinish
<1>8. [work.base.receipts EXCEPT ![work.request.id] = Receipt(work.request.op)]
          \in [RequestIds -> Receipts]
    BY <1>1, <1>3 DEF Receipts, Receipt
<1> QED
    BY <1>5, <1>6, <1>7, <1>8 DEF Written, Rows

LEMMA InitIInv == Init => IInv
<1> SUFFICES ASSUME Init PROVE IInv
    OBVIOUS
<1>1. Sound(NewDocument) /\ NewDocument \in Documents /\ NewDocument.revision = 0
    BY InitSound DEF Sound, NewDocument
<1>2. /\ row.doc = NewDocument /\ row.revision = 0 /\ log = << >> /\ answer = None
      /\ row.receipts = [i \in RequestIds |-> NoReceipt]
      /\ row = [revision |-> row.revision, doc |-> row.doc, receipts |-> row.receipts]
      /\ \A h \in Handlers : handlers[h].phase = "idle"
    BY DEF Init, Idle
<1>3. TypeOK
  <2>1. row \in Rows
      BY <1>1, <1>2, DocumentAssumption DEF Rows, Receipts
  <2> QED
      BY <1>2, <2>1 DEF TypeOK, Init
<1>4. LogSound
    BY <1>1, <1>2, ServiceAssumption DEF LogSound, RowMatchesLog, AtMostOnce
<1> QED
    BY <1>1, <1>2, <1>3, <1>4 DEF IInv, HandlerSound, AnswerSound, DoneMeansCommitted

\* A step that leaves the row and the log alone keeps what is said of them,
\* and of the handlers it does not move.
LEMMA QuietStep ==
    ASSUME IInv, UNCHANGED <<row, log>>,
           NEW h \in Handlers, NEW work \in Busy \cup {Idle},
           handlers' = [handlers EXCEPT ![h] = work],
           HandlerSound(h)', TypeOK', AnswerSound'
    PROVE  IInv'
<1>1. LogSound' /\ Sound(row.doc)'
    BY DEF IInv, LogSound, RowMatchesLog, AtMostOnce, Commits, Sound, SoundConfirmation,
       SoundDomain, SoundReports
<1>2. \A g \in Handlers : HandlerSound(g)'
  <2> SUFFICES ASSUME NEW g \in Handlers, g # h PROVE HandlerSound(g)'
      OBVIOUS
  <2>1. handlers'[g] = handlers[g]
      BY DEF IInv, TypeOK
  <2> QED
      BY <2>1 DEF IInv, HandlerSound
<1> QED
    BY <1>1, <1>2 DEF IInv

\* Nothing that was committed is ever forgotten.
LEMMA CommitsKept ==
    ASSUME TypeOK, NEW request, Commits(request),
           log' = log \/ \E entry \in [id : RequestIds, op : Offered] : log' = Append(log, entry)
    PROVE  Commits(request)'
BY DEF TypeOK, Commits

\* An answer other than "done", or none, needs nothing of the log.
LEMMA AnswerKept ==
    ASSUME IInv, UNCHANGED log,
           \/ UNCHANGED answer
           \/ \E request \in Requests, outcome \in Replies \ {"done"} : Answered(request, outcome)
    PROVE  AnswerSound'
BY DEF IInv, AnswerSound, DoneMeansCommitted, Answered, Commits, Requests

LEMMA DuplicateStep ==
    ASSUME IInv, NEW request \in Requests, Duplicate(request)
    PROVE  IInv'
<1> DEFINE receipt == row.receipts[request.id]
<1>1. /\ receipt # NoReceipt /\ UNCHANGED <<row, handlers, log>>
      /\ request.op \in Operations /\ request.id \in RequestIds /\ request.op \in Offered
    BY ServiceAssumption DEF Duplicate, Requests
<1>2. TypeOK'
    BY <1>1 DEF IInv, TypeOK, Duplicate, Answered, Replies, Requests
<1>3. AnswerSound'
  <2> SUFFICES ASSUME answer'.outcome = "done", Signed(request.op), Hybrid
               PROVE  Commits(request)
      BY <1>1 DEF Duplicate, Answered, AnswerSound, DoneMeansCommitted, Commits
  <2>1. ~PayloadConflict(request.op, receipt)
      BY DEF Duplicate, Answered
  <2>2. receipt = request.op
      BY <2>1 DEF PayloadConflict
  <2>3. Commits([id |-> request.id, op |-> receipt])
      BY <1>1, <2>2 DEF IInv, LogSound
  <2> QED
      BY <2>2, <2>3 DEF Commits
<1>4. LogSound' /\ Sound(row.doc)'
    BY <1>1 DEF IInv, LogSound, RowMatchesLog, AtMostOnce, Commits, Sound, SoundConfirmation, SoundDomain, SoundReports
<1>5. \A h \in Handlers : HandlerSound(h)'
    BY <1>1 DEF IInv, HandlerSound
<1> QED
    BY <1>2, <1>3, <1>4, <1>5 DEF IInv

LEMMA StaleStep ==
    ASSUME IInv, NEW request \in Requests, Stale(request)
    PROVE  IInv'
<1>1. UNCHANGED <<row, handlers, log>> /\ Answered(request, "revision_conflict")
    BY DEF Stale
<1>2. TypeOK'
    BY <1>1, AnsweredType DEF IInv, TypeOK, Replies
<1>3. AnswerSound'
    BY <1>1, AnswerKept DEF Replies
<1>4. LogSound' /\ Sound(row.doc)'
    BY <1>1 DEF IInv, LogSound, RowMatchesLog, AtMostOnce, Commits, Sound, SoundConfirmation, SoundDomain, SoundReports
<1>5. \A h \in Handlers : HandlerSound(h)'
    BY <1>1 DEF IInv, HandlerSound
<1> QED
    BY <1>2, <1>3, <1>4, <1>5 DEF IInv

LEMMA LoadStep ==
    ASSUME IInv, NEW h \in Handlers, NEW request \in Requests, Load(h, request)
    PROVE  IInv'
<1> DEFINE work == [phase |-> "loaded", request |-> request, base |-> row,
                    doc |-> row.doc, listening |-> TRUE]
<1>1. /\ UNCHANGED <<row, log, answer>> /\ handlers' = [handlers EXCEPT ![h] = work]
      /\ row.receipts[request.id] = NoReceipt /\ row.doc.revision = request.revision
    BY DEF Load
<1>2. work \in Busy
    BY DEF IInv, TypeOK, Rows, Busy, Phases
<1>3. row.revision = row.doc.revision
    BY DEF IInv, LogSound, RowMatchesLog
<1>4. handlers'[h] = work
    BY <1>1 DEF IInv, TypeOK
<1>5. /\ work.base = row /\ work.request = request /\ work.phase = "loaded"
      /\ row.revision \in 0..MaxReceipts
    BY DEF IInv, TypeOK, Rows
<1> HIDE DEF work
<1>6. HandlerSound(h)'
    BY <1>1, <1>3, <1>4, <1>5, DocumentAssumption DEF IInv, HandlerSound
<1>7. TypeOK'
    BY <1>1, <1>2 DEF IInv, TypeOK
<1>8. AnswerSound'
    BY <1>1, AnswerKept
<1> QED
    BY <1>1, <1>2, <1>6, <1>7, <1>8, QuietStep

LEMMA PrepareStep ==
    ASSUME IInv, NEW h \in Handlers, Prepare(h)
    PROVE  IInv'
<1>1. PICK new \in Results(handlers[h].base.doc, handlers[h].request.op) :
          handlers' = [handlers EXCEPT ![h].phase = "prepared", ![h].doc = new]
    BY DEF Prepare
<1> DEFINE old  == handlers[h]
           work == [old EXCEPT !.phase = "prepared", !.doc = new]
<1>2. old.phase = "loaded" /\ CanFinish(old.base.doc) /\ UNCHANGED <<row, log, answer>>
    BY DEF Prepare
<1>3. old \in Busy /\ old.request.op \in Operations /\ old.base.doc \in Documents
    BY <1>2, BusyType DEF IInv
<1>4. new \in Documents
    BY <1>3, ResultsEffect DEF Effect
<1>5. work \in Busy
    BY <1>3, <1>4 DEF Busy, Phases
<1>6. handlers' = [handlers EXCEPT ![h] = work] /\ handlers'[h] = work
    BY <1>1 DEF IInv, TypeOK
<1>7. HandlerSound(h)'
  <2>1. /\ work.base = old.base /\ work.request = old.request
        /\ work.doc = new /\ new \in Results(old.base.doc, old.request.op)
      BY <1>3 DEF Busy
  <2>2. HandlerSound(h) /\ old.phase # "idle"
      BY <1>2 DEF IInv
  <2> HIDE DEF work
  <2> QED
      BY <1>2, <1>6, <2>1, <2>2 DEF HandlerSound
<1> HIDE DEF work
<1>8. TypeOK'
    BY <1>2, <1>5, <1>6 DEF IInv, TypeOK
<1>9. AnswerSound'
    BY <1>2, AnswerKept
<1> QED
    BY <1>2, <1>5, <1>6, <1>7, <1>8, <1>9, QuietStep

\* A handler that gives its work up, whatever it answers but "done".
LEMMA GivingUp ==
    ASSUME IInv, NEW h \in Handlers, handlers[h].phase # "idle",
           UNCHANGED <<row, log>>, handlers' = [handlers EXCEPT ![h] = Idle],
           \/ UNCHANGED answer
           \/ \E outcome \in Replies \ {"done"} : Answered(handlers[h].request, outcome)
    PROVE  IInv'
<1>1. handlers[h].request \in Requests
    BY BusyType DEF IInv
<1>2. AnswerSound'
    BY <1>1, AnswerKept
<1>3. TypeOK'
  <2>1. answer' \in [id : RequestIds, op : Offered, outcome : Replies] \cup {None}
      BY <1>1, AnsweredType DEF IInv, TypeOK
  <2> QED
      BY <2>1 DEF IInv, TypeOK
<1>4. HandlerSound(h)'
    BY DEF IInv, TypeOK, HandlerSound, Idle
<1> QED
    BY <1>2, <1>3, <1>4, QuietStep

LEMMA TimeoutStep ==
    ASSUME IInv, NEW h \in Handlers, Timeout(h)
    PROVE  IInv'
<1> DEFINE old  == handlers[h]
           work == [old EXCEPT !.listening = FALSE]
<1>1. /\ old.phase # "idle" /\ UNCHANGED <<row, log>> /\ Answered(old.request, "failed")
      /\ handlers' = [handlers EXCEPT ![h] = IF old.phase = "loaded" THEN Idle ELSE work]
    BY DEF Timeout
<1>2. "failed" \in Replies \ {"done"}
    BY DEF Replies
<1>3. CASE old.phase = "loaded"
    BY <1>1, <1>2, <1>3, GivingUp
<1>4. CASE old.phase # "loaded"
  <2>1. old \in Busy /\ old.request \in Requests
      BY <1>1, BusyType DEF IInv
  <2>2. /\ work \in Busy /\ work.phase = old.phase /\ work.request = old.request
        /\ work.base = old.base /\ work.doc = old.doc
      BY <2>1 DEF Busy
  <2> HIDE DEF work
  <2>3. handlers' = [handlers EXCEPT ![h] = work] /\ handlers'[h] = work
      BY <1>1, <1>4 DEF IInv, TypeOK
  <2>4. HandlerSound(h)'
      BY <1>1, <2>2, <2>3 DEF IInv, HandlerSound
  <2>5. TypeOK'
      BY <1>1, <1>2, <2>1, <2>2, <2>3, AnsweredType DEF IInv, TypeOK
  <2>6. AnswerSound'
      BY <1>1, <1>2, <2>1, AnswerKept
  <2> QED
      BY <1>1, <2>2, <2>3, <2>4, <2>5, <2>6, QuietStep
<1> QED
    BY <1>3, <1>4

LEMMA CommitStep ==
    ASSUME IInv, NEW h \in Handlers, Commit(h)
    PROVE  IInv'
<1> DEFINE work    == handlers[h]
           request == work.request
           entry   == [id |-> request.id, op |-> request.op]
<1>1. /\ work.phase = "prepared" /\ row.revision = request.revision /\ row' = Written(h)
      /\ log' = Append(log, entry) /\ Finished(h, "done")
    BY DEF Commit
<1>2. /\ request \in Requests /\ request.id \in RequestIds /\ request.op \in Offered
      /\ request.op \in Operations /\ work.base = row
    BY <1>1, BusyType DEF IInv, HandlerSound
<1>3. /\ row \in Rows /\ row.revision = Len(log) /\ log \in Seq([id : RequestIds, op : Offered])
      /\ row.receipts[request.id] = NoReceipt
      /\ row.receipts \in [RequestIds -> Receipts] /\ row.revision \in Nat
    BY <1>1, <1>2 DEF IInv, TypeOK, LogSound, RowMatchesLog, HandlerSound, Rows
<1>4. /\ row' \in Rows /\ row'.doc.revision = Len(log) + 1 /\ Sound(row'.doc)
      /\ row'.revision = Len(log) + 1
      /\ row'.receipts = [row.receipts EXCEPT ![request.id] = Receipt(request.op)]
    BY <1>1, <1>2, <1>3, WrittenType DEF Written
<1>5. /\ entry \in [id : RequestIds, op : Offered] /\ entry.id = request.id /\ entry.op = request.op
      /\ Len(log') = Len(log) + 1 /\ log'[Len(log) + 1] = entry
      /\ \A n \in DOMAIN log : n \in DOMAIN log' /\ log'[n] = log[n]
      /\ \A n \in DOMAIN log' : n \in DOMAIN log \/ n = Len(log) + 1
      /\ Len(log) + 1 \in DOMAIN log'
      /\ log' \in Seq([id : RequestIds, op : Offered])
    BY <1>1, <1>2, <1>3
<1>6. \E n \in DOMAIN log' : log'[n].id = request.id /\ log'[n].op = request.op
    BY <1>5
<1>7. /\ handlers' = [handlers EXCEPT ![h] = Idle]
      /\ IF work.listening THEN Answered(request, "done") ELSE UNCHANGED answer
    BY <1>1 DEF Finished
<1> HIDE DEF work, request, entry
<1>8. TypeOK'
  <2>1. answer' \in [id : RequestIds, op : Offered, outcome : Replies] \cup {None}
      BY <1>2, <1>7, AnsweredType DEF IInv, TypeOK, Replies
  <2> QED
      BY <1>4, <1>5, <1>7, <2>1 DEF IInv, TypeOK
<1>9. LogSound'
  <2>1. Receipt(request.op) # NoReceipt
        /\ (Receipt(request.op) \in Operations => Receipt(request.op) = request.op)
      BY <1>2, ServiceAssumption DEF Receipt
  <2>2. RowMatchesLog'
    <3>1. ASSUME NEW i \in RequestIds
          PROVE  row'.receipts[i] # NoReceipt <=> \E n \in DOMAIN log' : log'[n].id = i
      <4>1. CASE i = request.id
          BY <1>3, <1>4, <1>5, <2>1, <4>1
      <4>2. CASE i # request.id
        <5>1. row'.receipts[i] = row.receipts[i]
            BY <1>3, <1>4, <4>2
        <5>2. row.receipts[i] # NoReceipt <=> \E n \in DOMAIN log : log[n].id = i
            BY DEF IInv, LogSound, RowMatchesLog
        <5> QED
            BY <1>5, <4>2, <5>1, <5>2
      <4> QED
          BY <4>1, <4>2
    <3> QED
        BY <1>4, <1>5, <3>1 DEF RowMatchesLog
  <2>3. AtMostOnce'
    <3>1. \A n \in DOMAIN log : log[n].id # request.id
        BY <1>2, <1>3 DEF IInv, LogSound, RowMatchesLog
    <3> QED
        BY <1>5, <3>1 DEF IInv, LogSound, AtMostOnce
  <2>4. ASSUME NEW i \in RequestIds, row'.receipts[i] \in Operations
        PROVE  \E n \in DOMAIN log' : log'[n].id = i /\ log'[n].op = row'.receipts[i]
    <3>1. CASE i = request.id
      <4>1. row'.receipts[i] = request.op
          BY <1>3, <1>4, <2>1, <2>4, <3>1
      <4> QED
          BY <1>6, <3>1, <4>1
    <3>2. CASE i # request.id
      <4>1. row'.receipts[i] = row.receipts[i]
          BY <1>3, <1>4, <3>2
      <4>2. Commits([id |-> i, op |-> row.receipts[i]])
          BY <2>4, <4>1 DEF IInv, LogSound
      <4>3. \E n \in DOMAIN log : log[n].id = i /\ log[n].op = row.receipts[i]
          BY <4>2 DEF Commits
      <4> QED
          BY <1>5, <4>1, <4>3
    <3> QED
        BY <3>1, <3>2
  <2>5. ASSUME NEW n \in DOMAIN log' PROVE row'.receipts[log'[n].id] = Receipt(log'[n].op)
    <3>1. CASE n = Len(log) + 1
        BY <1>2, <1>3, <1>4, <1>5, <3>1
    <3>2. CASE n \in DOMAIN log
      <4>1. row.receipts[log[n].id] = Receipt(log[n].op)
          BY <3>2 DEF IInv, LogSound
      <4>3. log[n] \in [id : RequestIds, op : Offered]
          BY <1>3, <3>2, LogEntry
      <4>4. log[n].id \in RequestIds
          BY <4>3
      <4>2. log[n].id # request.id
          BY <1>2, <1>3, <3>2 DEF IInv, LogSound, RowMatchesLog
      <4> QED
          BY <1>3, <1>4, <1>5, <3>2, <4>1, <4>2, <4>4
    <3> QED
        BY <1>5, <3>1, <3>2
  <2> QED
      BY <2>2, <2>3, <2>4, <2>5 DEF LogSound, Commits
<1>10. AnswerSound'
  <2>1. CASE work.listening
    <3>1. answer'.id = request.id /\ answer'.op = request.op
        BY <1>7, <2>1 DEF Answered
    <3> QED
        BY <1>6, <3>1 DEF AnswerSound, DoneMeansCommitted, Commits
  <2>2. CASE ~work.listening
      BY <1>5, <1>7, <2>2 DEF IInv, AnswerSound, DoneMeansCommitted, Commits
  <2> QED
      BY <2>1, <2>2
<1>11. \A g \in Handlers : HandlerSound(g)'
  <2> SUFFICES ASSUME NEW g \in Handlers PROVE HandlerSound(g)'
      OBVIOUS
  <2>1. CASE g = h
      BY <1>7, <2>1 DEF IInv, TypeOK, HandlerSound, Idle
  <2>2. CASE g # h
    <3>1. handlers'[g] = handlers[g] /\ HandlerSound(g)
        BY <1>7, <2>2 DEF IInv, TypeOK
    <3>2. handlers[g].phase # "idle" => handlers[g].base.revision \in Nat
        BY BusyType DEF IInv, Rows
    <3> QED
        BY <1>3, <1>4, <3>1, <3>2 DEF HandlerSound
  <2> QED
      BY <2>1, <2>2
<1>12. Sound(row.doc)'
    BY <1>4 DEF Sound, SoundConfirmation, SoundDomain, SoundReports
<1> QED
    BY <1>8, <1>9, <1>10, <1>11, <1>12 DEF IInv

LEMMA StepIInv == IInv /\ [Next]_vars => IInv'
<1> SUFFICES ASSUME IInv, [Next]_vars PROVE IInv'
    OBVIOUS
<1>1. ASSUME NEW h \in Handlers, Receive(h) PROVE IInv'
    BY <1>1, DuplicateStep, StaleStep, LoadStep DEF Receive
<1>2. ASSUME NEW h \in Handlers, Prepare(h) PROVE IInv'
    BY <1>2, PrepareStep
<1>3. ASSUME NEW h \in Handlers, Refuse(h) PROVE IInv'
    BY <1>3, GivingUp DEF Refuse, Replies
<1>4. ASSUME NEW h \in Handlers, Commit(h) PROVE IInv'
    BY <1>4, CommitStep
<1>5. ASSUME NEW h \in Handlers, LoseRace(h) PROVE IInv'
  <2>1. /\ handlers[h].phase # "idle" /\ UNCHANGED <<row, log>>
        /\ handlers' = [handlers EXCEPT ![h] = Idle]
        /\ \/ UNCHANGED answer
           \/ Answered(handlers[h].request, "revision_conflict")
      BY <1>5 DEF LoseRace, Finished
  <2> QED
      BY <2>1, GivingUp DEF Replies
<1>6. ASSUME NEW h \in Handlers, Timeout(h) PROVE IInv'
    BY <1>6, TimeoutStep
<1>7. ASSUME NEW h \in Handlers, Abandon(h) PROVE IInv'
    BY <1>7, GivingUp DEF Abandon
<1>8. CASE UNCHANGED vars
  <2>1. UNCHANGED row /\ UNCHANGED handlers /\ UNCHANGED log /\ UNCHANGED answer
      BY <1>8 DEF vars
  <2>2. TypeOK'
      BY <2>1 DEF IInv, TypeOK
  <2>3. LogSound'
      BY <2>1 DEF IInv, LogSound, RowMatchesLog, AtMostOnce, Commits
  <2>4. Sound(row.doc)'
      BY <2>1 DEF IInv, Sound, SoundConfirmation, SoundDomain, SoundReports
  <2>5. \A h \in Handlers : HandlerSound(h)'
      BY <2>1 DEF IInv, HandlerSound
  <2>6. AnswerSound'
      BY <2>1 DEF IInv, AnswerSound, DoneMeansCommitted, Commits
  <2> QED
      BY <2>2, <2>3, <2>4, <2>5, <2>6 DEF IInv
<1> QED
    BY <1>1, <1>2, <1>3, <1>4, <1>5, <1>6, <1>7, <1>8 DEF Next

-----------------------------------------------------------------------------
(***************************************************************************)
(* The theorems.                                                           *)
(***************************************************************************)

\* In every reachable state of any number of handlers the row, the history of
\* commits and the handlers agree: a handler that can still commit holds the
\* row as it is.
THEOREM ServiceInvariant == Spec => []IInv
<1>1. IInv /\ [Next]_vars => IInv'
    BY StepIInv
<1> QED
    BY <1>1, InitIInv, PTL DEF Spec

\* The row, the handlers, the history and the answers keep their types, and
\* the revision stays within the limit finish sets.
THEOREM ServiceTyped == Spec => []TypeOK
<1>1. IInv => TypeOK
    BY DEF IInv
<1> QED
    BY <1>1, ServiceInvariant, PTL

\* However often a request is delivered, and however many handlers work on it
\* at a time, its id is committed at most once.
THEOREM ServiceAtMostOnce == Spec => []AtMostOnce
<1>1. IInv => AtMostOnce
    BY DEF IInv, LogSound
<1> QED
    BY <1>1, ServiceInvariant, PTL

\* Both revisions of the row count its commits, and its receipts name exactly
\* the ids that were committed: no handler writes back receipts that miss one.
THEOREM ServiceRowMatchesLog == Spec => []RowMatchesLog
<1>1. IInv => RowMatchesLog
    BY DEF IInv, LogSound
<1> QED
    BY <1>1, ServiceInvariant, PTL

\* A client told that its message or its domain operation is done can rely on
\* it, under the hybrid orchestration, which compares the payloads.
THEOREM ServiceDoneMeansCommitted == Spec => []DoneMeansCommitted
<1>1. IInv => DoneMeansCommitted
    BY DEF IInv, AnswerSound
<1> QED
    BY <1>1, ServiceInvariant, PTL

\* The client that lost its answer finds it by asking again: a request that
\* took effect is answered "done", whatever revision it carries (load looks at
\* the receipts before the revision).
THEOREM ServiceRetryFindsResult == Spec => RetryFindsResult
<1>1. ASSUME IInv, [Next]_vars, NEW i \in RequestIds, NEW op \in Offered,
             Commits([id |-> i, op |-> op]), UNCHANGED <<row, handlers>>,
             answer' # answer, answer'.id = i, answer'.op = op
      PROVE  answer'.outcome = "done"
  <2>1. row.receipts[i] # NoReceipt /\ row.receipts[i] = Receipt(op)
      BY <1>1 DEF Commits, IInv, LogSound, RowMatchesLog
  <2>2. ASSUME NEW h \in Handlers
        PROVE  ~Refuse(h) /\ ~LoseRace(h) /\ ~Timeout(h) /\ ~Commit(h)
    <3>1. handlers'[h] = handlers[h]
        BY <1>1
    <3>2. handlers[h].phase # "idle" => handlers[h] # Idle
        BY DEF Idle
    <3>3. ASSUME handlers' = [handlers EXCEPT ![h] = Idle] PROVE handlers[h] = Idle
        BY <1>1, <3>1, <3>3 DEF IInv, TypeOK
    <3>4. ~Timeout(h)
      <4>1. ASSUME Timeout(h), handlers[h].phase # "loaded" PROVE FALSE
        <5>1. handlers[h] \in Busy /\ handlers[h].listening
            BY <1>1, <4>1, BusyType DEF IInv, Timeout
        <5>2. handlers'[h] = [handlers[h] EXCEPT !.listening = FALSE]
            BY <1>1, <4>1 DEF IInv, TypeOK, Timeout
        <5> QED
            BY <3>1, <5>1, <5>2 DEF Busy
      <4> QED
          BY <3>2, <3>3, <4>1 DEF Timeout
    <3> QED
        BY <3>2, <3>3, <3>4 DEF Refuse, LoseRace, Commit, Finished
  <2>3. PICK request \in Requests : Duplicate(request) \/ Stale(request)
      BY <1>1, <2>2 DEF Next, Receive, Load, Prepare, Abandon, vars
  <2>4. request.id = i /\ request.op = op
      BY <1>1, <2>3 DEF Duplicate, Stale, Answered
  <2>5. Duplicate(request) /\ ~PayloadConflict(op, row.receipts[i])
      BY <2>1, <2>3, <2>4 DEF Stale, PayloadConflict, Receipt
  <2> QED
      BY <2>4, <2>5 DEF Duplicate, Answered
<1>2. IInv /\ [Next]_vars => [\A i \in RequestIds, op \in Offered :
          /\ Commits([id |-> i, op |-> op])
          /\ UNCHANGED <<row, handlers>>
          /\ answer' # answer /\ answer'.id = i /\ answer'.op = op
          => answer'.outcome = "done"]_vars
    BY <1>1
<1> QED
    BY <1>2, ServiceInvariant, PTL DEF Spec, RetryFindsResult

\* The stored document is sound whatever the handlers do at the same time: what
\* is confirmed, computed and reported is about the facts the row holds.
THEOREM ServiceCaseSound == Spec => []Sound(row.doc)
<1>1. IInv => Sound(row.doc)
    BY DEF IInv
<1> QED
    BY <1>1, ServiceInvariant, PTL

\* One operation on the document it replaces: Register!Next, spelled out.
OneOperation ==
    \E op \in Operations : \E new \in Results(row.doc, op) :
        CanFinish(row.doc) /\ row'.doc = Finish(new)

OneAtATime == row.doc = NewDocument /\ [][OneOperation]_(row.doc)

LEMMA CommitIsOneOperation ==
    ASSUME IInv, NEW h \in Handlers, Commit(h)
    PROVE  OneOperation
<1> DEFINE work == handlers[h]
<1>1. work.phase = "prepared" /\ row.revision = work.request.revision /\ row' = Written(h)
    BY DEF Commit
<1>2. /\ work.base = row /\ CanFinish(work.base.doc) /\ work.request.op \in Operations
      /\ work.doc \in Results(work.base.doc, work.request.op)
    BY <1>1, BusyType DEF IInv, HandlerSound
<1>3. row'.doc = Finish(work.doc)
    BY <1>1 DEF Written
<1> QED
    BY <1>2, <1>3 DEF OneOperation

\* Reading, computing and writing back in separate steps, with other handlers
\* in between, changes the document by one whole operation at a time, each on
\* the document it replaces: no update is lost.
THEOREM ServiceOneAtATime == Spec => OneAtATime
<1>1. Init => row.doc = NewDocument
    BY DEF Init
<1>2. IInv /\ [Next]_vars => [OneOperation]_(row.doc)
  <2> SUFFICES ASSUME IInv, [Next]_vars PROVE [OneOperation]_(row.doc)
      OBVIOUS
  <2>1. ASSUME NEW h \in Handlers, Receive(h) PROVE UNCHANGED row
      BY <2>1 DEF Receive, Duplicate, Stale, Load
  <2>2. ASSUME NEW h \in Handlers, Commit(h) PROVE OneOperation
      BY <2>2, CommitIsOneOperation
  <2>3. ASSUME NEW h \in Handlers,
               Prepare(h) \/ Refuse(h) \/ LoseRace(h) \/ Timeout(h) \/ Abandon(h)
        PROVE  UNCHANGED row
      BY <2>3 DEF Prepare, Refuse, LoseRace, Timeout, Abandon
  <2>4. CASE UNCHANGED vars
      BY <2>4 DEF vars
  <2> QED
      BY <2>1, <2>2, <2>3, <2>4 DEF Next
<1> QED
    BY <1>1, <1>2, ServiceInvariant, PTL DEF Spec, OneAtATime

-----------------------------------------------------------------------------
(***************************************************************************)
(* The refinement.  CaseRegister is instantiated with the document of the  *)
(* row for its variable; its operators are not those of this module, but   *)
(* say the same: each lemma equates some of them, expanded to what they    *)
(* are made of.                                                            *)
(***************************************************************************)
\* The interview (Interview.tla) reads the same through the mapping.
LEMMA SameInterview ==
  /\ Register!NoFacts = NoFacts
  /\ \A facts, patch : Register!Patched(facts, patch) = Patched(facts, patch)
  /\ \A facts, d, turn : Register!TurnPatch(facts, d, turn) = TurnPatch(facts, d, turn)
  /\ \A facts, d, turn : Register!Contradicted(facts, d, turn) = Contradicted(facts, d, turn)
  /\ \A facts, d, turn : Register!SettledTurn(facts, d, turn) = SettledTurn(facts, d, turn)
  /\ \A turn : Register!Continue(turn) = Continue(turn)
  /\ \A facts, old, turn, patch : Register!UpdateDialogue(facts, old, turn, patch)
       = UpdateDialogue(facts, old, turn, patch)
  /\ \A d, kind : Register!AskMode(d, kind) = AskMode(d, kind)
  /\ \A facts, d : Register!StateFor(facts, d) = StateFor(facts, d)
<1>1. Register!NoFacts = NoFacts
  BY DEF Unknown, NoFacts, Register!Unknown, Register!NoFacts
<1>2. ASSUME NEW facts, NEW patch PROVE Register!Patched(facts, patch) = Patched(facts, patch)
  BY DEF Patched, Register!Patched
<1>3. ASSUME NEW facts, NEW d, NEW turn
      PROVE  Register!TurnPatch(facts, d, turn) = TurnPatch(facts, d, turn)
  BY DEF Absent, Unknown, Conflict, NoFacts, Resolved, AskedField, Answering, Stray,
     ProposedFacts, Authorized, Contradicted, TurnPatch, Register!Absent, Register!Unknown,
     Register!Conflict, Register!NoFacts, Register!Resolved, Register!AskedField,
     Register!Answering, Register!Stray, Register!ProposedFacts, Register!Authorized,
     Register!Contradicted, Register!TurnPatch
<1>4. ASSUME NEW facts, NEW d, NEW turn
      PROVE  Register!Contradicted(facts, d, turn) = Contradicted(facts, d, turn)
  BY DEF Absent, Unknown, Conflict, NoFacts, Resolved, AskedField, Answering, Stray,
     ProposedFacts, Authorized, Contradicted, Register!Absent, Register!Unknown,
     Register!Conflict, Register!NoFacts, Register!Resolved, Register!AskedField,
     Register!Answering, Register!Stray, Register!ProposedFacts, Register!Authorized,
     Register!Contradicted
<1>5. ASSUME NEW facts, NEW d, NEW turn
      PROVE  Register!SettledTurn(facts, d, turn) = SettledTurn(facts, d, turn)
  BY DEF Absent, Unknown, Conflict, NoFacts, Resolved, Patched, Supported, ConflictFields,
     AskedField, Answering, Stray, ProposedFacts, Authorized, Contradicted, TurnPatch,
     SettledTurn, Register!Absent, Register!Unknown, Register!Conflict, Register!NoFacts,
     Register!Resolved, Register!Patched, Register!Supported, Register!ConflictFields,
     Register!AskedField, Register!Answering, Register!Stray, Register!ProposedFacts,
     Register!Authorized, Register!Contradicted, Register!TurnPatch, Register!SettledTurn
<1>6. ASSUME NEW turn PROVE Register!Continue(turn) = Continue(turn)
  BY DEF Continue, Register!Continue
<1>7. ASSUME NEW facts, NEW old, NEW turn, NEW patch
      PROVE  Register!UpdateDialogue(facts, old, turn, patch)
               = UpdateDialogue(facts, old, turn, patch)
  BY DEF Absent, Unknown, Conflict, Resolved, Supported, RequiredFields, ConflictFields,
     Gaps, NextFields, AskedField, MaxAttempts, Ask, AskMode, Absorb, Advance, CannotAnswer,
     UpdateDialogue, Register!Absent, Register!Unknown, Register!Conflict,
     Register!Resolved, Register!Supported, Register!RequiredFields,
     Register!ConflictFields, Register!Gaps, Register!NextFields, Register!AskedField,
     Register!MaxAttempts, Register!Ask, Register!AskMode, Register!Absorb,
     Register!Advance, Register!CannotAnswer, Register!UpdateDialogue
<1>8. ASSUME NEW d, NEW kind PROVE Register!AskMode(d, kind) = AskMode(d, kind)
  BY DEF AskMode, Register!AskMode
<1>9. ASSUME NEW facts, NEW d PROVE Register!StateFor(facts, d) = StateFor(facts, d)
  BY DEF Absent, Conflict, Supported, RequiredFields, ConflictFields, NextFields,
     HasQuestion, StateFor, Register!Absent, Register!Conflict, Register!Supported,
     Register!RequiredFields, Register!ConflictFields, Register!NextFields,
     Register!HasQuestion, Register!StateFor
<1>10. QED
  BY <1>1, <1>2, <1>3, <1>4, <1>5, <1>6, <1>7, <1>8, <1>9

\* So do the operations of the chat but the message (CaseDocument.tla).
LEMMA SameDocument ==
  /\ Register!Findings = Findings
  /\ \A doc : Register!CaseFactsOf(doc) = CaseFactsOf(doc)
  /\ \A doc, patch : Register!Changes(doc, patch) = Changes(doc, patch)
  /\ \A doc, clearActions, clearRulings : Register!Invalidate(doc, clearActions, clearRulings)
       = Invalidate(doc, clearActions, clearRulings)
  /\ \A doc, patch : Register!ApplyFacts(doc, patch) = ApplyFacts(doc, patch)
  /\ \A d, patch : Register!AnswerByHand(d, patch) = AnswerByHand(d, patch)
  /\ \A doc, dialogue : Register!Eligible(doc, dialogue) = Eligible(doc, dialogue)
  /\ \A doc, dialogue, finding : Register!ReportProposal(doc, dialogue, finding)
       = ReportProposal(doc, dialogue, finding)
  /\ \A doc, report : Register!AddReport(doc, report) = AddReport(doc, report)
  /\ \A doc : Register!Organize(doc) = Organize(doc)
  /\ \A doc : Register!CanConfirm(doc) = CanConfirm(doc)
  /\ \A doc : Register!Confirm(doc) = Confirm(doc)
  /\ \A doc : Register!CanRun(doc) = CanRun(doc)
  /\ \A doc, finding : Register!Run(doc, finding) = Run(doc, finding)
  /\ \A doc, i, decision : Register!CanReview(doc, i, decision) = CanReview(doc, i, decision)
  /\ \A doc, i, decision : Register!Review(doc, i, decision) = Review(doc, i, decision)
  /\ \A doc : Register!CanFinish(doc) = CanFinish(doc)
  /\ \A doc : Register!Finish(doc) = Finish(doc)
<1>1. Register!Findings = Findings
  BY DEF Gates, Findings, Register!Gates, Register!Findings
<1>2. ASSUME NEW doc PROVE Register!CaseFactsOf(doc) = CaseFactsOf(doc)
  BY DEF AddressOf, FactsOf, CaseFactsOf, Register!AddressOf, Register!FactsOf,
     Register!CaseFactsOf
<1>3. ASSUME NEW doc, NEW patch PROVE Register!Changes(doc, patch) = Changes(doc, patch)
  BY DEF AddressOf, FactsOf, CaseFactsOf, Changes, Register!AddressOf, Register!FactsOf,
     Register!CaseFactsOf, Register!Changes
<1>4. ASSUME NEW doc, NEW clearActions, NEW clearRulings
      PROVE  Register!Invalidate(doc, clearActions, clearRulings)
               = Invalidate(doc, clearActions, clearRulings)
  BY DEF Staled, StaledOutcome, Invalidate, Register!Staled, Register!StaledOutcome,
     Register!Invalidate
<1>5. ASSUME NEW doc, NEW patch PROVE Register!ApplyFacts(doc, patch) = ApplyFacts(doc, patch)
  BY DEF Addresses, Keys, AddressOf, Write, ApplyFacts, Register!Addresses, Register!Keys,
     Register!AddressOf, Register!Write, Register!ApplyFacts
<1>6. ASSUME NEW d, NEW patch PROVE Register!AnswerByHand(d, patch) = AnswerByHand(d, patch)
  BY DEF AskedField, AnswerByHand, Register!AskedField, Register!AnswerByHand
<1>7. ASSUME NEW doc, NEW dialogue
      PROVE  Register!Eligible(doc, dialogue) = Eligible(doc, dialogue)
  BY DEF Absent, Unknown, Conflict, Resolved, AddressOf, FactsOf, Supported, RequiredFields,
     ConflictFields, Gaps, CaseFactsOf, Eligible, Register!Absent, Register!Unknown,
     Register!Conflict, Register!Resolved, Register!AddressOf, Register!FactsOf,
     Register!Supported, Register!RequiredFields, Register!ConflictFields, Register!Gaps,
     Register!CaseFactsOf, Register!Eligible
<1>8. ASSUME NEW doc, NEW dialogue, NEW finding
      PROVE  Register!ReportProposal(doc, dialogue, finding)
               = ReportProposal(doc, dialogue, finding)
  BY DEF Absent, Unknown, Conflict, Resolved, AddressOf, FactsOf, Supported, RequiredFields,
     ConflictFields, Gaps, CaseFactsOf, ReportProposal, Register!Absent, Register!Unknown,
     Register!Conflict, Register!Resolved, Register!AddressOf, Register!FactsOf,
     Register!Supported, Register!RequiredFields, Register!ConflictFields, Register!Gaps,
     Register!CaseFactsOf, Register!ReportProposal
<1>9. ASSUME NEW doc, NEW report PROVE Register!AddReport(doc, report) = AddReport(doc, report)
  BY DEF AddReport, Register!AddReport
<1>10. ASSUME NEW doc PROVE Register!Organize(doc) = Organize(doc)
  BY DEF Organize, Register!Organize
<1>11. ASSUME NEW doc PROVE Register!CanConfirm(doc) = CanConfirm(doc)
  BY DEF Absent, Conflict, AddressOf, FactsOf, ConflictFields, CaseFactsOf, CanConfirm,
     Register!Absent, Register!Conflict, Register!AddressOf, Register!FactsOf,
     Register!ConflictFields, Register!CaseFactsOf, Register!CanConfirm
<1>12. ASSUME NEW doc PROVE Register!Confirm(doc) = Confirm(doc)
  BY DEF AddressOf, FactsOf, CaseFactsOf, Confirm, Register!AddressOf, Register!FactsOf,
     Register!CaseFactsOf, Register!Confirm
<1>13. ASSUME NEW doc PROVE Register!CanRun(doc) = CanRun(doc)
  BY DEF Absent, Unknown, Conflict, Resolved, AddressOf, FactsOf, Supported, RequiredFields,
     ConflictFields, Gaps, CaseFactsOf, Eligible, CanRun, Register!Absent, Register!Unknown,
     Register!Conflict, Register!Resolved, Register!AddressOf, Register!FactsOf,
     Register!Supported, Register!RequiredFields, Register!ConflictFields, Register!Gaps,
     Register!CaseFactsOf, Register!Eligible, Register!CanRun
<1>14. ASSUME NEW doc, NEW finding PROVE Register!Run(doc, finding) = Run(doc, finding)
  BY DEF Absent, Unknown, Conflict, Resolved, AddressOf, FactsOf, Supported, RequiredFields,
     ConflictFields, Gaps, CaseFactsOf, ReportProposal, AddReport, Run, Register!Absent,
     Register!Unknown, Register!Conflict, Register!Resolved, Register!AddressOf,
     Register!FactsOf, Register!Supported, Register!RequiredFields, Register!ConflictFields,
     Register!Gaps, Register!CaseFactsOf, Register!ReportProposal, Register!AddReport,
     Register!Run
<1>15. ASSUME NEW doc, NEW i, NEW decision
       PROVE  Register!CanReview(doc, i, decision) = CanReview(doc, i, decision)
  BY DEF Approvable, CanReview, Register!Approvable, Register!CanReview
<1>16. ASSUME NEW doc, NEW i, NEW decision
       PROVE  Register!Review(doc, i, decision) = Review(doc, i, decision)
  BY DEF Review, Register!Review
<1>17. ASSUME NEW doc PROVE Register!CanFinish(doc) = CanFinish(doc)
  BY DEF CanFinish, Register!CanFinish
<1>18. ASSUME NEW doc PROVE Register!Finish(doc) = Finish(doc)
  BY DEF Finish, Register!Finish
<1>19. QED
  BY <1>1, <1>2, <1>3, <1>4, <1>5, <1>6, <1>7, <1>8, <1>9, <1>10, <1>11, <1>12, <1>13,
     <1>14, <1>15, <1>16, <1>17, <1>18

\* So do those of the structure and the calculation (DomainDocument.tla).
LEMMA SameDomain ==
  /\ \A doc : Register!CanExecute(doc) = CanExecute(doc)
  /\ \A doc, result : Register!Execute(doc, result) = Execute(doc, result)
  /\ \A doc, case, bound : Register!CanSetup(doc, case, bound) = CanSetup(doc, case, bound)
  /\ \A doc, case, mode, bound : Register!Setup(doc, case, mode, bound)
       = Setup(doc, case, mode, bound)
  /\ \A doc, data, actions : Register!CanAnswer(doc, data, actions)
       = CanAnswer(doc, data, actions)
  /\ \A data, actions : Register!Single(data, actions) = Single(data, actions)
  /\ \A doc, data, actions, result : Register!Answer(doc, data, actions, result)
       = Answer(doc, data, actions, result)
  /\ \A doc, data, actions, result : Register!AnswerBatch(doc, data, actions, result)
       = AnswerBatch(doc, data, actions, result)
  /\ \A doc, question : Register!CanDefer(doc, question) = CanDefer(doc, question)
  /\ \A doc : Register!CanPause(doc) = CanPause(doc)
  /\ \A doc : Register!Pause(doc) = Pause(doc)
  /\ \A doc : Register!CanResume(doc) = CanResume(doc)
  /\ \A doc, result : Register!Resume(doc, result) = Resume(doc, result)
  /\ \A doc : Register!CanConfirmDomain(doc) = CanConfirmDomain(doc)
  /\ \A doc : Register!ConfirmDomain(doc) = ConfirmDomain(doc)
  /\ \A doc, allowPartial : Register!CanReport(doc, allowPartial) = CanReport(doc, allowPartial)
  /\ \A doc, allowPartial : Register!Report(doc, allowPartial) = Report(doc, allowPartial)
  /\ \A doc, key : Register!CanRule(doc, key) = CanRule(doc, key)
  /\ \A doc, key, result : Register!Rule(doc, key, result) = Rule(doc, key, result)
  /\ \A doc : Register!CanCalculate(doc) = CanCalculate(doc)
  /\ \A doc : Register!CanRecalculate(doc) = CanRecalculate(doc)
  /\ \A doc, result : Register!Recalculate(doc, result) = Recalculate(doc, result)
  /\ \A doc : Register!Calculated(doc) = Calculated(doc)
  /\ \A doc, changed : Register!Collect(doc, changed) = Collect(doc, changed)
  /\ \A doc : Register!CancelCalculation(doc) = CancelCalculation(doc)
  /\ Register!NewDomain = NewDomain
  /\ \A doc, case, bound : Register!Install(doc, case, bound) = Install(doc, case, bound)
  /\ \A doc, inputs, keep : Register!CalculationCase(doc, inputs, keep)
       = CalculationCase(doc, inputs, keep)
<1>1. ASSUME NEW doc PROVE Register!CanExecute(doc) = CanExecute(doc)
  BY DEF CanExecute, Register!CanExecute
<1>2. ASSUME NEW doc, NEW result PROVE Register!Execute(doc, result) = Execute(doc, result)
  BY DEF Absent, Unknown, Conflict, Addresses, Resolved, Usable, Fingerprint, Execute,
     Register!Absent, Register!Unknown, Register!Conflict, Register!Addresses,
     Register!Resolved, Register!Usable, Register!Fingerprint, Register!Execute
<1>3. ASSUME NEW doc, NEW case, NEW bound
      PROVE  Register!CanSetup(doc, case, bound) = CanSetup(doc, case, bound)
  BY DEF Absent, AddressOf, FactsOf, CaseFactsOf, CanBind, CanSetup, Register!Absent,
     Register!AddressOf, Register!FactsOf, Register!CaseFactsOf, Register!CanBind,
     Register!CanSetup
<1>4. ASSUME NEW doc, NEW case, NEW mode, NEW bound
      PROVE  Register!Setup(doc, case, mode, bound) = Setup(doc, case, mode, bound)
  BY DEF Absent, Addresses, Keys, AddressOf, FactsOf, NewDomain, CaseFactsOf, Staled,
     StaledOutcome, Invalidate, Install, Setup, Register!Absent, Register!Addresses,
     Register!Keys, Register!AddressOf, Register!FactsOf, Register!NewDomain,
     Register!CaseFactsOf, Register!Staled, Register!StaledOutcome, Register!Invalidate,
     Register!Install, Register!Setup
<1>5. ASSUME NEW doc, NEW data, NEW actions
      PROVE  Register!CanAnswer(doc, data, actions) = CanAnswer(doc, data, actions)
  BY DEF Absent, Unknown, Conflict, Addresses, Resolved, Usable, Fingerprint, Current,
     CanExecute, CanAnswer, Register!Absent, Register!Unknown, Register!Conflict,
     Register!Addresses, Register!Resolved, Register!Usable, Register!Fingerprint,
     Register!Current, Register!CanExecute, Register!CanAnswer
<1>6. ASSUME NEW data, NEW actions PROVE Register!Single(data, actions) = Single(data, actions)
  BY SMTT(60) DEF Addresses, Single, Register!Addresses, Register!Single
<1>7. ASSUME NEW doc, NEW data, NEW actions, NEW result
      PROVE  Register!Answer(doc, data, actions, result) = Answer(doc, data, actions, result)
  BY DEF Absent, Unknown, Conflict, Addresses, Keys, Resolved, Usable, Fingerprint, Staled,
     StaledOutcome, Invalidate, Execute, Answer, Register!Absent, Register!Unknown,
     Register!Conflict, Register!Addresses, Register!Keys, Register!Resolved,
     Register!Usable, Register!Fingerprint, Register!Staled, Register!StaledOutcome,
     Register!Invalidate, Register!Execute, Register!Answer
<1>8. ASSUME NEW doc, NEW data, NEW actions, NEW result
      PROVE  Register!AnswerBatch(doc, data, actions, result) = AnswerBatch(doc, data, actions, result)
  <2>1. \A new : Register!Fingerprint(new) = Fingerprint(new)
    BY DEF Addresses, Resolved, Fingerprint, Absent, Unknown, Conflict, Usable,
       Register!Addresses,
           Register!Resolved, Register!Fingerprint, Register!Absent, Register!Unknown,
           Register!Conflict, Register!Usable
  <2>2. QED
    BY <1>7, <2>1 DEF AnswerBatch, Register!AnswerBatch
<1>9. ASSUME NEW doc, NEW question
      PROVE  Register!CanDefer(doc, question) = CanDefer(doc, question)
  BY DEF Absent, Unknown, Conflict, Addresses, Resolved, Usable, Fingerprint, Current,
     CanDefer, Register!Absent, Register!Unknown, Register!Conflict, Register!Addresses,
     Register!Resolved, Register!Usable, Register!Fingerprint, Register!Current,
     Register!CanDefer
<1>10. ASSUME NEW doc PROVE Register!CanPause(doc) = CanPause(doc)
  BY DEF CanPause, Register!CanPause
<1>11. ASSUME NEW doc PROVE Register!Pause(doc) = Pause(doc)
  BY DEF Pause, Register!Pause
<1>12. ASSUME NEW doc PROVE Register!CanResume(doc) = CanResume(doc)
  BY DEF CanResume, Register!CanResume
<1>13. ASSUME NEW doc, NEW result PROVE Register!Resume(doc, result) = Resume(doc, result)
  BY DEF Absent, Unknown, Conflict, Addresses, Resolved, Usable, Fingerprint, Execute,
     Resume, Register!Absent, Register!Unknown, Register!Conflict, Register!Addresses,
     Register!Resolved, Register!Usable, Register!Fingerprint, Register!Execute,
     Register!Resume
<1>14. ASSUME NEW doc PROVE Register!CanConfirmDomain(doc) = CanConfirmDomain(doc)
  BY DEF Conflict, Addresses, Keys, Conflicting, CanConfirmDomain, Register!Conflict,
     Register!Addresses, Register!Keys, Register!Conflicting, Register!CanConfirmDomain
<1>15. ASSUME NEW doc PROVE Register!ConfirmDomain(doc) = ConfirmDomain(doc)
  BY DEF Absent, Unknown, Conflict, Addresses, Resolved, Usable, Fingerprint, ConfirmDomain,
     Register!Absent, Register!Unknown, Register!Conflict, Register!Addresses,
     Register!Resolved, Register!Usable, Register!Fingerprint, Register!ConfirmDomain
<1>16. ASSUME NEW doc, NEW allowPartial
       PROVE  Register!CanReport(doc, allowPartial) = CanReport(doc, allowPartial)
  BY DEF Absent, Unknown, Conflict, Addresses, Resolved, Usable, Fingerprint, Current,
     CanReport, Register!Absent, Register!Unknown, Register!Conflict, Register!Addresses,
     Register!Resolved, Register!Usable, Register!Fingerprint, Register!Current,
     Register!CanReport
<1>17. ASSUME NEW doc, NEW allowPartial
       PROVE  Register!Report(doc, allowPartial) = Report(doc, allowPartial)
  BY DEF AddReport, Report, Register!AddReport, Register!Report
<1>18. ASSUME NEW doc, NEW key PROVE Register!CanRule(doc, key) = CanRule(doc, key)
  BY SMTT(30) DEF Absent, Unknown, Conflict, Addresses, Resolved, Usable, Fingerprint, Current,
     CanExecute, CanRule, Register!Absent, Register!Unknown, Register!Conflict,
     Register!Addresses, Register!Resolved, Register!Usable, Register!Fingerprint,
     Register!Current, Register!CanExecute, Register!CanRule
<1>19. ASSUME NEW doc, NEW key, NEW result
       PROVE  Register!Rule(doc, key, result) = Rule(doc, key, result)
  BY DEF Absent, Unknown, Conflict, Addresses, Resolved, Usable, Fingerprint, Staled,
     StaledOutcome, Invalidate, Execute, Rule, Register!Absent, Register!Unknown,
     Register!Conflict, Register!Addresses, Register!Resolved, Register!Usable,
     Register!Fingerprint, Register!Staled, Register!StaledOutcome, Register!Invalidate,
     Register!Execute, Register!Rule
<1>20. ASSUME NEW doc PROVE Register!CanCalculate(doc) = CanCalculate(doc)
  BY DEF Absent, Unknown, Conflict, Addresses, Keys, Resolved, Usable, Fingerprint,
     Conflicting, CanCalculate, Register!Absent, Register!Unknown, Register!Conflict,
     Register!Addresses, Register!Keys, Register!Resolved, Register!Usable,
     Register!Fingerprint, Register!Conflicting, Register!CanCalculate
<1>21. ASSUME NEW doc PROVE Register!CanRecalculate(doc) = CanRecalculate(doc)
  BY DEF Conflict, Addresses, Keys, Conflicting, CanRecalculate, Register!Conflict,
     Register!Addresses, Register!Keys, Register!Conflicting, Register!CanRecalculate
<1>22. ASSUME NEW doc, NEW result
       PROVE  Register!Recalculate(doc, result) = Recalculate(doc, result)
  BY DEF Absent, Unknown, Conflict, Addresses, Resolved, Usable, Fingerprint, Execute,
     Aside, Calculated, Recalculate, Register!Absent, Register!Unknown, Register!Conflict,
     Register!Addresses, Register!Resolved, Register!Usable, Register!Fingerprint,
     Register!Execute, Register!Aside, Register!Calculated, Register!Recalculate
<1>23. ASSUME NEW doc PROVE Register!Calculated(doc) = Calculated(doc)
  BY DEF Absent, Unknown, Conflict, Addresses, Resolved, Usable, Fingerprint, Aside,
     Calculated, Register!Absent, Register!Unknown, Register!Conflict, Register!Addresses,
     Register!Resolved, Register!Usable, Register!Fingerprint, Register!Aside,
     Register!Calculated
<1>24. ASSUME NEW doc, NEW changed PROVE Register!Collect(doc, changed) = Collect(doc, changed)
  BY DEF StaledOutcome, Aside, Collect, Register!StaledOutcome, Register!Aside,
     Register!Collect
<1>25. ASSUME NEW doc PROVE Register!CancelCalculation(doc) = CancelCalculation(doc)
  BY DEF Aside, CancelCalculation, Register!Aside, Register!CancelCalculation
<1>26. Register!NewDomain = NewDomain
  BY DEF NewDomain, Register!NewDomain
<1>27. ASSUME NEW doc, NEW case, NEW bound
       PROVE  Register!Install(doc, case, bound) = Install(doc, case, bound)
  BY DEF Absent, Addresses, Keys, AddressOf, FactsOf, CaseFactsOf, Install, Register!Absent,
     Register!Addresses, Register!Keys, Register!AddressOf, Register!FactsOf,
     Register!CaseFactsOf, Register!Install
<1>28. ASSUME NEW doc, NEW inputs, NEW keep
       PROVE  Register!CalculationCase(doc, inputs, keep) = CalculationCase(doc, inputs, keep)
  BY DEF Absent, Addresses, CalculationCase, Register!Absent, Register!Addresses,
     Register!CalculationCase
<1>29. QED
  BY <1>1, <1>2, <1>3, <1>4, <1>5, <1>6, <1>7, <1>8, <1>9, <1>10, <1>11, <1>12, <1>13,
     <1>14, <1>15, <1>16, <1>17, <1>18, <1>19, <1>20, <1>21, <1>22, <1>23, <1>24, <1>25,
     <1>26, <1>27, <1>28

\* An operator applied to the parts of another needs the equations of the parts.
LEMMA SameEdit == \A doc, patch : Register!Edit(doc, patch) = Edit(doc, patch)
BY SameInterview, SameDocument, ZenonT(60) DEF Edit, Register!Edit

LEMMA SameFinalDialogues ==
  \A facts, d, turn : Register!FinalDialogues(facts, d, turn) = FinalDialogues(facts, d, turn)
<1> SUFFICES ASSUME NEW facts, NEW d, NEW turn
             PROVE  Register!FinalDialogues(facts, d, turn) = FinalDialogues(facts, d, turn)
  OBVIOUS
<1> DEFINE patch   == TurnPatch(facts, d, turn)
           known   == Patched(facts, patch)
           settled == SettledTurn(facts, d, turn)
           first   == UpdateDialogue(known, d, settled, patch)
           aside   == /\ turn.intent = "research" /\ ~turn.usesCase
                      /\ settled.intent \in {"intake", "unsupported"}
           rested  == IF aside THEN {[x EXCEPT !.status = "suspended", !.pending = None] : x \in first}
                      ELSE first
           looksUp == /\ settled.intent = "research" \/ aside
                      /\ turn.action \notin {"pause", "new_case", "summary"}
           uses    == turn.usesCase \/ DOMAIN patch # {}
           chat    == turn.intent = "intake" /\ turn.action = "continue" /\ ~turn.usesCase
                      /\ DOMAIN turn.facts = {}
           Told(asked, again, mode) ==
             IF looksUp THEN rested \cup asked \cup (IF uses THEN again ELSE {})
             ELSE IF chat THEN rested \cup {mode} ELSE rested
           asked1  == {AskMode(x, "mode") : x \in rested}
           asked2  == {Register!AskMode(x, "mode") : x \in rested}
           again1  == UNION {UpdateDialogue(known, x, Continue(settled), NoFacts) : x \in rested}
           again2  == UNION {Register!UpdateDialogue(known, x, Continue(settled), NoFacts) : x \in rested}
<1>1. FinalDialogues(facts, d, turn) = Told(asked1, again1, AskMode(d, "mode"))
  BY DEF FinalDialogues
<1>2. Register!FinalDialogues(facts, d, turn) = Told(asked2, again2, Register!AskMode(d, "mode"))
  <2>1. /\ Register!TurnPatch(facts, d, turn) = patch /\ Register!SettledTurn(facts, d, turn) = settled
        /\ Register!Patched(facts, patch) = known /\ Register!NoFacts = NoFacts
        /\ Register!UpdateDialogue(known, d, settled, patch) = first
        /\ Register!Continue(settled) = Continue(settled)
    BY SameInterview
  <2> HIDE DEF patch, known, settled, first
  <2>2. QED
    BY <2>1 DEF Register!FinalDialogues
<1>3. asked1 = asked2
  BY SameInterview
<1>4. again1 = again2
  BY SameInterview
<1>5. AskMode(d, "mode") = Register!AskMode(d, "mode")
  BY SameInterview
<1> HIDE DEF asked1, asked2, again1, again2, Told
<1>6. QED
  BY <1>1, <1>2, <1>3, <1>4, <1>5

LEMMA SameCommitPrepared ==
  \A doc, prepared : Register!CommitPrepared(doc, prepared) = CommitPrepared(doc, prepared)
<1> SUFFICES ASSUME NEW doc, NEW prepared
             PROVE  Register!CommitPrepared(doc, prepared) = CommitPrepared(doc, prepared)
  OBVIOUS
<1> DEFINE fresh == DOMAIN prepared.patch # {}
           base  == IF fresh THEN Invalidate(doc, TRUE, TRUE) ELSE doc
           told  == [ApplyFacts(base, prepared.patch) EXCEPT
                        !.dialogue = prepared.dialogue,
                        !.disputed = (@ \ DOMAIN prepared.patch) \cup prepared.conflicts]
           new   == IF fresh THEN [told EXCEPT !.state = StateFor(CaseFactsOf(told), told.dialogue)]
                    ELSE told
<1>1. /\ Register!Invalidate(doc, TRUE, TRUE) = Invalidate(doc, TRUE, TRUE)
      /\ Register!ApplyFacts(base, prepared.patch) = ApplyFacts(base, prepared.patch)
  BY SameDocument
<1>2. /\ Register!CaseFactsOf(told) = CaseFactsOf(told)
      /\ Register!StateFor(CaseFactsOf(told), told.dialogue)
           = StateFor(CaseFactsOf(told), told.dialogue)
      /\ Register!AddReport(new, prepared.report) = AddReport(new, prepared.report)
  BY SameInterview, SameDocument
<1>3. CommitPrepared(doc, prepared)
        = IF prepared.report = None THEN new ELSE AddReport(new, prepared.report)
  BY DEF CommitPrepared
<1>4. Register!CommitPrepared(doc, prepared)
        = IF prepared.report = None THEN new ELSE Register!AddReport(new, prepared.report)
  BY <1>1, <1>2, Zenon DEF Register!CommitPrepared
<1>5. QED
  BY <1>2, <1>3, <1>4

LEMMA SameDomainResults == \A doc, op : Register!DomainResults(doc, op) = DomainResults(doc, op)
<1> SUFFICES ASSUME NEW doc, NEW op PROVE Register!DomainResults(doc, op) = DomainResults(doc, op)
  OBVIOUS
<1>1. /\ \A r : Register!Execute(doc, r) = Execute(doc, r)
      /\ \A r : Register!Answer(doc, op.data, op.actions, r)
           = Answer(doc, op.data, op.actions, r)
      /\ \A r : Register!AnswerBatch(doc, op.data, op.actions, r)
           = AnswerBatch(doc, op.data, op.actions, r)
      /\ \A r : Register!Resume(doc, r) = Resume(doc, r)
      /\ \A r : Register!Rule(doc, op.key, r) = Rule(doc, op.key, r)
  BY SameDomain
<1>2. /\ {Register!Execute(doc, r) : r \in ResultInputs} = {Execute(doc, r) : r \in ResultInputs}
      /\ {Register!Answer(doc, op.data, op.actions, r) : r \in ResultInputs}
           = {Answer(doc, op.data, op.actions, r) : r \in ResultInputs}
      /\ {Register!AnswerBatch(doc, op.data, op.actions, r) : r \in ResultInputs}
           = {AnswerBatch(doc, op.data, op.actions, r) : r \in ResultInputs}
      /\ {Register!Resume(doc, r) : r \in ResultInputs} = {Resume(doc, r) : r \in ResultInputs}
      /\ {Register!Rule(doc, op.key, r) : r \in ResultInputs}
           = {Rule(doc, op.key, r) : r \in ResultInputs}
  BY <1>1
<1>3. /\ Register!CanExecute(doc) = CanExecute(doc) /\ Register!CanSetup(doc, op.case, op.bound) = CanSetup(doc, op.case, op.bound)
      /\ Register!Setup(doc, op.case, op.mode, op.bound)
           = Setup(doc, op.case, op.mode, op.bound)
      /\ Register!CanAnswer(doc, op.data, op.actions) = CanAnswer(doc, op.data, op.actions)
      /\ Register!Single(op.data, op.actions) = Single(op.data, op.actions)
      /\ Register!CanDefer(doc, op.question) = CanDefer(doc, op.question)
      /\ Register!CanPause(doc) = CanPause(doc) /\ Register!Pause(doc) = Pause(doc)
      /\ Register!CanResume(doc) = CanResume(doc)
      /\ Register!CanConfirmDomain(doc) = CanConfirmDomain(doc)
      /\ Register!ConfirmDomain(doc) = ConfirmDomain(doc)
      /\ Register!CanReport(doc, op.partial) = CanReport(doc, op.partial)
      /\ Register!Report(doc, op.partial) = Report(doc, op.partial)
      /\ Register!CanRule(doc, op.key) = CanRule(doc, op.key)
  BY SameDomain
<1>4. QED
  BY <1>2, <1>3 DEF DomainResults, Register!DomainResults

LEMMA SamePreparedTurns ==
  \A doc, turn : Register!PreparedTurns(doc, turn) = PreparedTurns(doc, turn)
BY SameInterview, SameDocument, SameFinalDialogues DEF PreparedTurns, Register!PreparedTurns

LEMMA SameCalculate ==
  \A doc, inputs, keep, result :
    Register!Calculate(doc, inputs, keep, result) = Calculate(doc, inputs, keep, result)
BY SameDocument, SameDomain DEF Calculate, Register!Calculate

\* The operations the register takes are those the handlers work on.
LEMMA SameKinds ==
  /\ Register!ChatOperations = ChatOperations
  /\ Register!DomainOperations = DomainOperations
  /\ \A op \in Operations :
       \/ op \in Register!Edits \/ op \in Register!Organizations \/ op \in Register!Confirms
       \/ op \in Register!Runs \/ op \in Register!ReviewCalls \/ op \in Register!Messages
       \/ op \in Register!Setups \/ op \in Register!Plans \/ op \in Register!AnswerCalls
       \/ op \in Register!Batches \/ op \in Register!Deferrals \/ op \in Register!Pauses
       \/ op \in Register!Resumes \/ op \in Register!DomainConfirms \/ op \in Register!ReportCalls
       \/ op \in Register!RulingCalls \/ op \in Register!Calculations \/ op \in Register!Recalculations
       \/ op \in Register!ChatAnswers \/ op \in Register!Collections \/ op \in Register!Cancellations
BY DEF Addresses, Decisions, EngineQuestions, ReportNumbers, Edits, Organizations, Confirms,
   Runs, ReviewCalls, Messages, ChatOperations, Setups, Plans, AnswerCalls, Batches,
   Deferrals, Pauses, Resumes, DomainConfirms, ReportCalls, RulingCalls, DomainOperations,
   Calculations, Recalculations, ChatAnswers, Collections, Cancellations,
   CalculationOperations, Operations, Register!Addresses, Register!Decisions,
   Register!EngineQuestions, Register!ReportNumbers, Register!Edits, Register!Organizations,
   Register!Confirms, Register!Runs, Register!ReviewCalls, Register!Messages,
   Register!ChatOperations, Register!Setups, Register!Plans, Register!AnswerCalls,
   Register!Batches, Register!Deferrals, Register!Pauses, Register!Resumes,
   Register!DomainConfirms, Register!ReportCalls, Register!RulingCalls,
   Register!DomainOperations, Register!Calculations, Register!Recalculations,
   Register!ChatAnswers, Register!Collections, Register!Cancellations

\* Each operation has the same results on the document of the row as on the
\* document of the register.
LEMMA SameResults == \A doc, op : Register!Results(doc, op) = Results(doc, op)
<1>1. \A doc, op : Register!ChatResults(doc, op) = ChatResults(doc, op)
  BY SameDocument, SameEdit, SamePreparedTurns, SameCommitPrepared, ZenonT(60) DEF ChatResults, Register!ChatResults
<1>2. \A doc, op : Register!CalculationResults(doc, op) = CalculationResults(doc, op)
  BY SameDomain, SameCalculate, ZenonT(60) DEF CalculationResults, Register!CalculationResults
<1>3. QED
  BY <1>1, <1>2, SameDomainResults, SameKinds DEF Results, Register!Results

LEMMA OneOperationIsAStep == OneOperation => Register!Next
<1> SUFFICES ASSUME OneOperation PROVE Register!Next
  OBVIOUS
<1>1. PICK op \in Operations : \E new \in Results(row.doc, op) :
          CanFinish(row.doc) /\ row'.doc = Finish(new)
  BY DEF OneOperation
<1>2. \E new \in Register!Results(row.doc, op) :
          Register!CanFinish(row.doc) /\ row'.doc = Register!Finish(new)
  BY <1>1, SameDocument, SameResults
<1>3. \A S : op \in S => Register!Perform(S)
  BY <1>2 DEF Register!Perform, Register!Save
<1>4. QED
  BY <1>1, <1>3, SameKinds
     DEF Register!Next, Register!ChatNext, Register!DomainNext, Register!CalculationNext,
         Register!EditStep, Register!OrganizeStep, Register!ConfirmStep, Register!RunStep,
         Register!ReviewStep, Register!MessageStep, Register!SetupStep, Register!PlanStep,
         Register!AnswerStep, Register!BatchStep, Register!DeferStep, Register!PauseStep,
         Register!ResumeStep, Register!ConfirmDomainStep, Register!ReportStep, Register!RuleStep,
         Register!CalculateStep, Register!RecalculateStep, Register!ChatAnswerStep,
         Register!CollectStep, Register!CancelStep

\* The handlers implement the register (CaseRegister): what they do to the row
\* is what one user alone does to the document, for any number of handlers.
THEOREM ServiceImplementsRegister == Spec => ImplementsRegister
<1>1. row.doc = NewDocument => Register!Init
  BY DEF Register!Init, Absent, Addresses, Keys, NewDialogue, NewDomain, NewDocument,
     Register!Absent, Register!Addresses, Register!Keys, Register!NewDialogue,
     Register!NewDomain, Register!NewDocument
<1>2. [OneOperation]_(row.doc) => [Register!Next]_(row.doc)
  BY OneOperationIsAStep
<1>3. QED
  BY <1>1, <1>2, ServiceOneAtATime, PTL DEF OneAtATime, ImplementsRegister, Register!Spec
=============================================================================
