----------------------------- MODULE BrowserProofs -----------------------------
(***************************************************************************)
(* What holds of one case in the browser for any texts, numbers of clicks  *)
(* and commits of other clients.  A request carries the id of its click,   *)
(* the log holds an id once, and an answer that says "done" or "receipt"   *)
(* says so of a prefix of the log: this is all the client may rely on.     *)
(* In the second half, what the structure interview displays there: that   *)
(* for any prerequisites that are not circular no question is stranded.    *)
(***************************************************************************)
EXTENDS Workspace, EngineQuestions, TLAPS

Steps == {"idle", "wait", "conflict", "reload"}
Operations == [kind : Kinds \cup {"none"}, g : Nat, rev : Nat, text : Texts \cup {NoText}, step : Steps,
               stopped : BOOLEAN, confirmed : Nat]
Requests == [id : Nat, g : Nat, kind : Kinds, rev : Nat]
Entry == [id : Nat, g : Nat, kind : Kinds \cup OtherKinds]
ServerAnswer == [id : Nat, ok : {"done", "receipt", "conflict", "failed"}, rev : Nat]

\* The id of the request of a click: a confirmation and its analysis have two.
IdFor(kind, g) == IF kind = "analyze" THEN g + MaxGestures ELSE g

WorkspaceTyped ==
  /\ log \in Seq(Entry) /\ wire \subseteq Requests /\ answers \subseteq ServerAnswer
  /\ view \in Nat /\ last \in Nat /\ draft \in Texts \cup {NoText}
  /\ op \in Operations /\ retry \in Operations /\ panel \in Operations

\* An id is committed once, and tells the click and which of its requests it was.
LogSingle ==
  /\ \A i, j \in 1 .. Len(log) : log[i].id > 0 /\ log[i].id = log[j].id => i = j
  /\ \A i \in 1 .. Len(log) : log[i].g > 0 => log[i].id = IdFor(log[i].kind, log[i].g)

\* The revision an analysis is asked for is the one its confirmation made, or
\* the confirmation was answered from its receipt.
Follows(g, rev) == g \in replayed \/ (rev \in 1 .. Len(log) /\ log[rev].id = g)

WireSound ==
  \A q \in wire : /\ q.g > 0 /\ q.id = IdFor(q.kind, q.g)
                  /\ q.kind = "analyze" => Follows(q.g, q.rev)

\* A document in an answer holds the request it answers; a fresh one ends with it.
AnswersSound ==
  \A a \in answers :
    /\ a.ok \in {"done", "receipt"} => a.rev <= Len(log) /\ \E i \in 1 .. a.rev : log[i].id = a.id
    /\ a.ok = "done" => a.rev \in 1 .. Len(log) /\ log[a.rev].id = a.id

OperationSound(o) ==
  o.kind # "none" =>
    /\ o.g > 0
    /\ o.kind = "analyze" => Follows(o.g, o.confirmed)
    /\ o.kind = "message" => o.text # NoText

WorkspaceInv ==
  /\ WorkspaceTyped /\ LogSingle /\ WireSound /\ AnswersSound
  /\ OperationSound(op) /\ OperationSound(retry)
  /\ op.step # "idle" => op.kind # "none"
  /\ op # NoOp => op.kind # "none"
  /\ retry # NoOp => retry.kind # "none"

----------------------------------------------------------------------------
\* The client at rest.
LEMMA NoOpSound == NoOp \in Operations /\ NoOp.kind = "none" /\ NoOp.step = "idle" /\ OperationSound(NoOp)
BY DEF NoOp, Operations, Steps, OperationSound

\* What a click of the composer, and of the panel, makes of no operation.
Clicked(r, k, g, rev, x) == [r EXCEPT !.kind = k, !.g = g, !.rev = rev, !.text = x]
Beside(r, k, g, rev) == [r EXCEPT !.kind = k, !.g = g, !.rev = rev, !.step = "wait"]

\* A click of the composer is an operation.
LEMMA NewOperation ==
  ASSUME NEW r \in Operations, NEW k \in Kinds, NEW g \in Nat, NEW rev \in Nat,
         NEW x \in Texts \cup {NoText}
  PROVE  /\ Clicked(r, k, g, rev, x) \in Operations /\ Clicked(r, k, g, rev, x).kind = k
         /\ Clicked(r, k, g, rev, x).g = g /\ Clicked(r, k, g, rev, x).text = x
BY DEF Operations, Steps, Clicked

\* A click of the panel is an operation.
LEMMA BesideOperation ==
  ASSUME NEW r \in Operations, NEW k \in Kinds, NEW g \in Nat, NEW rev \in Nat
  PROVE  /\ Beside(r, k, g, rev) \in Operations /\ Beside(r, k, g, rev).kind = k
         /\ Beside(r, k, g, rev).g = g
BY DEF Operations, Steps, Beside

\* The request of an operation carries its id and revision.
LEMMA RequestIs ==
  ASSUME NEW o \in Operations, o.kind \in Kinds
  PROVE  /\ Request(o) \in Requests
         /\ Request(o).g = o.g /\ Request(o).kind = o.kind
         /\ Request(o).id = IdFor(o.kind, o.g) /\ IdOf(o) = IdFor(o.kind, o.g)
         /\ o.kind = "analyze" => Request(o).rev = o.confirmed
<1>1. IdOf(o) \in Nat /\ IdOf(o) = IdFor(o.kind, o.g)
    BY WorkspaceAssumption DEF IdOf, IdFor, Operations
<1> QED
    BY <1>1 DEF Request, Requests, Operations

\* The log only grows, and what was known of a prefix stays.
LEMMA FollowsKept ==
  ASSUME WorkspaceTyped,
         log' = log \/ \E e \in Entry : log' = Append(log, e),
         replayed \subseteq replayed'
  PROVE  /\ log' \in Seq(Entry)
         /\ Len(log) \in Nat /\ Len(log') \in Nat /\ Len(log) <= Len(log')
         /\ \A i \in 1 .. Len(log) : i \in 1 .. Len(log') /\ log'[i] = log[i]
         /\ \A g, rev : Follows(g, rev) => Follows(g, rev)'
         /\ \A o : OperationSound(o) => OperationSound(o)'
<1>1. /\ log' \in Seq(Entry)
      /\ Len(log) \in Nat /\ Len(log') \in Nat /\ Len(log) <= Len(log')
      /\ \A i \in 1 .. Len(log) : i \in 1 .. Len(log') /\ log'[i] = log[i]
    BY DEF WorkspaceTyped
<1>2. \A g, rev : Follows(g, rev) => Follows(g, rev)'
    BY <1>1 DEF Follows
<1> QED
    BY <1>1, <1>2 DEF OperationSound

\* A log that grows keeps what an answer said of its beginning.
LEMMA AnswersKept ==
  ASSUME WorkspaceTyped, AnswersSound,
         log' = log \/ \E e \in Entry : log' = Append(log, e),
         NEW a \in answers
  PROVE  /\ a.ok \in {"done", "receipt"} => a.rev <= Len(log') /\ \E i \in 1 .. a.rev : log'[i].id = a.id
         /\ a.ok = "done" => a.rev \in 1 .. Len(log') /\ log'[a.rev].id = a.id
<1>1. /\ Len(log) \in Nat /\ Len(log') \in Nat /\ Len(log) <= Len(log')
      /\ \A i \in 1 .. Len(log) : i \in 1 .. Len(log') /\ log'[i] = log[i]
    BY DEF WorkspaceTyped
<1>2. a.rev \in Nat
    BY DEF WorkspaceTyped, ServerAnswer
<1> QED
    BY <1>1, <1>2 DEF AnswersSound

----------------------------------------------------------------------------
(***************************************************************************)
(* The server                                                              *)
(***************************************************************************)
\* The log may grow; the operations are untouched.
LEMMA ServerKeeps ==
  ASSUME WorkspaceInv,
         log' = log \/ \E e \in Entry : log' = Append(log, e),
         wire' \subseteq wire, answers' \subseteq ServerAnswer,
         UNCHANGED <<view, draft, op, retry, panel, last, replayed>>
  PROVE  /\ WorkspaceTyped' /\ WireSound'
         /\ OperationSound(op)' /\ OperationSound(retry)'
<1>1. /\ log' \in Seq(Entry) /\ \A g, rev : Follows(g, rev) => Follows(g, rev)'
      /\ \A o : OperationSound(o) => OperationSound(o)'
    BY FollowsKept DEF WorkspaceInv
<1>2. WorkspaceTyped'
    BY <1>1 DEF WorkspaceInv, WorkspaceTyped
<1>3. WireSound'
    BY <1>1 DEF WorkspaceInv, WireSound
<1>4. OperationSound(op) /\ OperationSound(retry)
    BY DEF WorkspaceInv
<1>5. OperationSound(op)' /\ OperationSound(retry)'
    BY <1>1, <1>4 DEF OperationSound
<1> QED
    BY <1>2, <1>3, <1>5

\* A sequence and the one with an element more are different.
LEMMA AppendLonger ==
  ASSUME NEW S, NEW s \in Seq(S), NEW e \in S
  PROVE  Append(s, e) # s
<1>1. Len(Append(s, e)) = Len(s) + 1 /\ Len(s) \in Nat
    OBVIOUS
<1>2. \A n \in Nat : n + 1 # n
    OBVIOUS
<1> QED
    BY <1>1, <1>2

\* The service answers a request, and may append it to the log.
LEMMA ServeStep ==
  ASSUME WorkspaceInv, NEW q \in wire, Serve(q)
  PROVE  WorkspaceInv'
<1>0. /\ WorkspaceTyped /\ LogSingle /\ WireSound /\ AnswersSound
      /\ q \in Requests /\ q.g > 0 /\ q.id = IdFor(q.kind, q.g) /\ q.id \in Nat /\ q.g \in Nat
      /\ Len(log) \in Nat /\ DOMAIN log = 1 .. Len(log)
    BY DEF WorkspaceInv, WorkspaceTyped, WireSound, Requests
<1>1. UNCHANGED <<view, draft, op, retry, panel, last, replayed>> /\ wire' \subseteq wire
    BY DEF Serve
<1>2. q.id > 0
    BY <1>0, WorkspaceAssumption DEF IdFor
<1>3. CASE log' = log
  <2>1. PICK b \in ServerAnswer : /\ answers' = answers \cup {b}
                                  /\ b.id = q.id /\ b.ok # "done"
                                  /\ b.ok = "receipt" => b.rev = Len(log) /\ Entries({q.id}) # {}
    <3> DEFINE e == [id |-> q.id, g |-> q.g, kind |-> q.kind]
               Reply(ok, rev) == [id |-> q.id, ok |-> ok, rev |-> rev]
    <3>1. Append(log, e) # log
        BY <1>0, AppendLonger DEF WorkspaceTyped, Requests, Entry
    <3>2. \A ok \in {"receipt", "conflict", "failed"}, rev \in {0, Len(log)} :
             Reply(ok, rev) \in ServerAnswer /\ Reply(ok, rev).id = q.id /\ Reply(ok, rev).ok = ok /\ Reply(ok, rev).rev = rev
        BY <1>0 DEF ServerAnswer
    <3>3. \/ Entries({q.id}) # {} /\ answers' = answers \cup {Reply("receipt", Len(log))}
          \/ answers' = answers \cup {Reply("conflict", 0)}
          \/ answers' = answers \cup {Reply("failed", 0)}
        BY <1>3, <3>1 DEF Serve
    <3> HIDE DEF Reply
    <3> QED
        BY <3>2, <3>3
  <2>2. answers' \subseteq ServerAnswer
      BY <1>0, <2>1 DEF WorkspaceTyped
  <2>3. WorkspaceTyped' /\ WireSound' /\ OperationSound(op)' /\ OperationSound(retry)'
      BY <1>1, <1>3, <2>2, ServerKeeps
  <2>4. Entries({q.id}) # {} => \E i \in 1 .. Len(log) : log[i].id = q.id
      BY <1>0 DEF Entries
  <2>5. AnswersSound'
    <3>1. \A a \in answers : /\ a.ok \in {"done", "receipt"} => a.rev <= Len(log') /\ \E i \in 1 .. a.rev : log'[i].id = a.id
                             /\ a.ok = "done" => a.rev \in 1 .. Len(log') /\ log'[a.rev].id = a.id
        BY <1>0, <1>3, AnswersKept
    <3>2. b.ok = "receipt" => b.rev <= Len(log') /\ \E i \in 1 .. b.rev : log'[i].id = b.id
      <4> HAVE b.ok = "receipt"
      <4>1. PICK i \in 1 .. Len(log) : log[i].id = q.id
          BY <2>1, <2>4
      <4>2. b.rev = Len(log) /\ b.id = q.id /\ Len(log') = Len(log) /\ log'[i].id = log[i].id
          BY <1>3, <2>1
      <4>3. Len(log) <= Len(log)
          BY <1>0
      <4> QED
          BY <4>1, <4>2, <4>3
    <3>3. b.ok \in {"done", "receipt"} => b.ok = "receipt"
        BY <2>1
    <3> QED
        BY <2>1, <3>1, <3>2, <3>3 DEF AnswersSound
  <2> QED
      BY <1>0, <1>1, <1>3, <2>3, <2>5 DEF WorkspaceInv, LogSingle
<1>4. CASE log' # log
  <2> DEFINE e == [id |-> q.id, g |-> q.g, kind |-> q.kind]
             a == [id |-> q.id, ok |-> "done", rev |-> Len(log')]
  <2>1. Entries({q.id}) = {} /\ log' = Append(log, e) /\ answers' = answers \cup {a}
      BY <1>4 DEF Serve
  <2>2. e \in Entry
      BY <1>0 DEF Requests, Entry
  <2>3. /\ Len(log') = Len(log) + 1 /\ log'[Len(log')] = e
        /\ \A i \in 1 .. Len(log) : log'[i] = log[i]
      BY <1>0, <2>1, <2>2 DEF WorkspaceTyped
  <2>4. e.id = q.id /\ e.g = q.g /\ e.kind = q.kind
      OBVIOUS
  <2>5. a \in ServerAnswer /\ a.id = q.id /\ a.ok = "done" /\ a.rev = Len(log')
      BY <1>0, <2>3 DEF ServerAnswer
  <2> HIDE DEF e, a
  <2>6. answers' \subseteq ServerAnswer
      BY <1>0, <2>1, <2>5 DEF WorkspaceTyped
  <2>7. WorkspaceTyped' /\ WireSound' /\ OperationSound(op)' /\ OperationSound(retry)'
      BY <1>1, <2>1, <2>2, <2>6, ServerKeeps
  <2>8. \A i \in 1 .. Len(log) : log[i].id # q.id
      BY <1>0, <2>1 DEF Entries
  <2>9. LogSingle'
    <3>1. \A i, j \in 1 .. Len(log') : log'[i].id > 0 /\ log'[i].id = log'[j].id => i = j
      <4> TAKE i, j \in 1 .. Len(log')
      <4>1. (i \in 1 .. Len(log) \/ i = Len(log')) /\ (j \in 1 .. Len(log) \/ j = Len(log'))
          BY <1>0, <2>3
      <4> QED
          BY <1>0, <2>3, <2>4, <2>8, <4>1 DEF LogSingle
    <3>2. \A i \in 1 .. Len(log') : log'[i].g > 0 => log'[i].id = IdFor(log'[i].kind, log'[i].g)
      <4> TAKE i \in 1 .. Len(log')
      <4>1. i \in 1 .. Len(log) \/ i = Len(log')
          BY <1>0, <2>3
      <4> QED
          BY <1>0, <2>3, <2>4, <4>1 DEF LogSingle
    <3> QED
        BY <3>1, <3>2 DEF LogSingle
  <2>10. AnswersSound'
    <3>1. \A b \in answers : /\ b.ok \in {"done", "receipt"} => b.rev <= Len(log') /\ \E i \in 1 .. b.rev : log'[i].id = b.id
                             /\ b.ok = "done" => b.rev \in 1 .. Len(log') /\ log'[b.rev].id = b.id
        BY <1>0, <2>1, <2>2, AnswersKept
    <3>2. Len(log') \in 1 .. Len(log') /\ log'[a.rev].id = a.id
        BY <1>0, <2>3, <2>4, <2>5
    <3>3. \A b \in answers' : b \in answers \/ b = a
        BY <2>1
    <3>4. /\ a.rev <= Len(log') /\ \E i \in 1 .. a.rev : log'[i].id = a.id
          /\ a.rev \in 1 .. Len(log') /\ log'[a.rev].id = a.id
        BY <1>0, <2>3, <2>5, <3>2
    <3> QED
        BY <3>1, <3>3, <3>4, SMTT(30) DEF AnswersSound
  <2> QED
      BY <1>0, <1>1, <2>7, <2>9, <2>10 DEF WorkspaceInv
<1> QED
    BY <1>3, <1>4

\* Another client commits.
LEMMA OtherStep ==
  ASSUME WorkspaceInv, OtherClient
  PROVE  WorkspaceInv'
<1>0. /\ WorkspaceTyped /\ LogSingle /\ WireSound /\ AnswersSound
      /\ Len(log) \in Nat /\ DOMAIN log = 1 .. Len(log)
    BY DEF WorkspaceInv, WorkspaceTyped
<1>1. PICK e \in Entry : e.id = 0 /\ e.g = 0 /\ log' = Append(log, e)
    BY DEF OtherClient, Entry
<1>2. UNCHANGED <<wire, answers, view, draft, op, retry, panel, last, replayed>>
    BY DEF OtherClient
<1>3. /\ Len(log') = Len(log) + 1 /\ log'[Len(log')] = e
      /\ \A i \in 1 .. Len(log) : log'[i] = log[i]
    BY <1>0, <1>1, SMTT(30) DEF WorkspaceTyped
<1>4. WorkspaceTyped' /\ WireSound' /\ OperationSound(op)' /\ OperationSound(retry)'
    BY <1>0, <1>1, <1>2, ServerKeeps DEF WorkspaceTyped
<1>5. LogSingle'
  <2>1. \A i \in 1 .. Len(log') : i \in 1 .. Len(log) \/ i = Len(log')
      BY <1>0, <1>3
  <2>2. \A i \in 1 .. Len(log) : log[i].id \in Nat
    <3>1. \A i \in 1 .. Len(log) : log[i] \in Entry
        BY <1>0 DEF WorkspaceTyped
    <3> QED
        BY <3>1 DEF Entry
  <2>3. \A i, j \in 1 .. Len(log') : log'[i].id > 0 /\ log'[i].id = log'[j].id => i = j
      BY <1>0, <1>1, <1>3, <2>1, <2>2 DEF LogSingle
  <2>4. \A i \in 1 .. Len(log') : log'[i].g > 0 => log'[i].id = IdFor(log'[i].kind, log'[i].g)
      BY <1>0, <1>1, <1>3, <2>1 DEF LogSingle
  <2> QED
      BY <2>3, <2>4 DEF LogSingle
<1>6. AnswersSound'
  <2>1. \A b \in answers : /\ b.ok \in {"done", "receipt"} => b.rev <= Len(log') /\ \E i \in 1 .. b.rev : log'[i].id = b.id
                           /\ b.ok = "done" => b.rev \in 1 .. Len(log') /\ log'[b.rev].id = b.id
      BY <1>0, <1>1, AnswersKept
  <2> QED
      BY <1>2, <2>1, SMTT(30) DEF AnswersSound
<1> QED
    BY <1>2, <1>4, <1>5, <1>6 DEF WorkspaceInv

----------------------------------------------------------------------------
(***************************************************************************)
(* The client                                                              *)
(***************************************************************************)
\* The log rests; requests may leave, each of an operation that is sound.
LEMMA ClientKeeps ==
  ASSUME WorkspaceInv, log' = log, replayed \subseteq replayed', answers' \subseteq answers,
         view' \in Nat, last' \in Nat, draft' \in Texts \cup {NoText}, op' \in Operations, retry' \in Operations, panel' \in Operations,
         \A q \in wire' : \/ q \in wire
                          \/ \E o \in Operations : q = Request(o) /\ o.kind \in Kinds /\ OperationSound(o)'
  PROVE  /\ WorkspaceTyped' /\ LogSingle' /\ WireSound' /\ AnswersSound'
         /\ \A o : OperationSound(o) => OperationSound(o)'
<1>0. WorkspaceTyped /\ LogSingle /\ WireSound /\ AnswersSound
    BY DEF WorkspaceInv
<1>1. /\ \A g, rev : Follows(g, rev) => Follows(g, rev)'
      /\ \A o : OperationSound(o) => OperationSound(o)'
    BY <1>0, FollowsKept
<1>2. \A o \in Operations : o.kind \in Kinds =>
        /\ Request(o) \in Requests
        /\ Request(o).g = o.g /\ Request(o).kind = o.kind
        /\ Request(o).id = IdFor(o.kind, o.g)
        /\ o.kind = "analyze" => Request(o).rev = o.confirmed
    BY RequestIs
<1>3. WorkspaceTyped'
    BY <1>0, <1>2 DEF WorkspaceTyped
<1>4. \A o \in Operations : o.kind \in Kinds /\ OperationSound(o)' =>
        o.g > 0 /\ (o.kind = "analyze" => Follows(o.g, o.confirmed)')
    BY DEF OperationSound, Kinds
<1>5. WireSound'
  <2> SUFFICES ASSUME NEW q \in wire'
               PROVE  /\ q.g > 0 /\ q.id = IdFor(q.kind, q.g)
                      /\ q.kind = "analyze" => Follows(q.g, q.rev)'
      BY DEF WireSound
  <2>1. CASE q \in wire
      BY <1>0, <1>1, <2>1 DEF WireSound
  <2>2. CASE q \notin wire
    <3>1. PICK o \in Operations : q = Request(o) /\ o.kind \in Kinds /\ OperationSound(o)'
        BY <2>2
    <3> QED
        BY <1>2, <1>4, <3>1
  <2> QED
      BY <2>1, <2>2
<1>6. LogSingle' /\ AnswersSound'
    BY <1>0 DEF LogSingle, AnswersSound
<1> QED
    BY <1>1, <1>3, <1>5, <1>6

\* A click, or Retry: the operation is sent and kept.
LEMMA SubmitStep ==
  ASSUME WorkspaceInv, NEW o \in Operations, o.kind \in Kinds, OperationSound(o),
         Submit(o), last' \in Nat, panel' = panel
  PROVE  WorkspaceInv'
<1> DEFINE sent == [o EXCEPT !.step = "wait", !.stopped = FALSE]
<1>0. WorkspaceTyped /\ o.kind # "none"
    BY DEF WorkspaceInv, Kinds
<1>1. /\ op' = sent /\ retry' = sent /\ log' = log /\ view' = view /\ replayed' = replayed
      /\ wire' = wire \cup {Request(o)} /\ answers' \subseteq answers
      /\ draft' \in {draft, NoText}
    BY DEF Submit
<1>2. /\ sent \in Operations /\ sent.kind = o.kind /\ sent.g = o.g /\ sent.text = o.text
      /\ sent.confirmed = o.confirmed /\ sent.step = "wait"
    BY DEF Operations, Steps
<1>3. OperationSound(o)'
    BY <1>1 DEF OperationSound, Follows
<1> HIDE DEF sent
<1>4. \A q \in wire' : q \in wire \/ \E x \in Operations : q = Request(x) /\ x.kind \in Kinds /\ OperationSound(x)'
    BY <1>1, <1>3
<1>5. WorkspaceTyped' /\ LogSingle' /\ WireSound' /\ AnswersSound'
    BY <1>0, <1>1, <1>2, <1>3, <1>4, ClientKeeps DEF WorkspaceTyped
<1>6. OperationSound(sent)'
    BY <1>2, <1>3 DEF OperationSound
<1>7. OperationSound(op)' /\ OperationSound(retry)'
    BY <1>1, <1>2, <1>3 DEF OperationSound
<1> QED
    BY <1>0, <1>1, <1>2, <1>5, <1>7 DEF WorkspaceInv

\* Every other step of the client sends nothing, or is Succeed or PanelClick.
Quiet ==
  /\ log' = log /\ replayed' = replayed /\ answers' \subseteq answers /\ wire' = wire
  /\ view' \in Nat /\ last' \in Nat /\ draft' \in Texts \cup {NoText} /\ panel' \in Operations
  /\ \/ op' = op
     \/ op' = NoOp
     \/ op.kind # "none" /\ \E step \in Steps, stopped \in BOOLEAN : op' = [op EXCEPT !.step = step, !.stopped = stopped]
  /\ retry' = retry \/ retry' = NoOp

\* Steps of the client beside its operation.
LEMMA QuietStep ==
  ASSUME WorkspaceInv, Quiet
  PROVE  WorkspaceInv'
<1>0. /\ WorkspaceTyped /\ op \in Operations /\ retry \in Operations
      /\ OperationSound(op) /\ OperationSound(retry)
    BY DEF WorkspaceInv, WorkspaceTyped
<1>1. /\ op' \in Operations /\ retry' \in Operations
      /\ op' = op \/ op' = NoOp
         \/ (op.kind # "none" /\ op'.kind = op.kind /\ op'.g = op.g /\ op'.text = op.text /\ op'.confirmed = op.confirmed)
    BY <1>0, NoOpSound DEF Quiet, Operations
<1>2. /\ WorkspaceTyped' /\ LogSingle' /\ WireSound' /\ AnswersSound'
      /\ \A o : OperationSound(o) => OperationSound(o)'
  <2>1. \A q \in wire' : q \in wire
      BY DEF Quiet
  <2> QED
      BY <1>1, <2>1, ClientKeeps DEF Quiet
<1>3. OperationSound(op)' /\ OperationSound(retry)'
  <2>1. (OperationSound(op) => OperationSound(op)') \/ op' # op
      BY <1>2 DEF OperationSound
  <2> QED
      BY <1>0, <1>1, NoOpSound DEF OperationSound, Quiet, Follows
<1>4. /\ op'.step # "idle" => op'.kind # "none"
      /\ op' # NoOp => op'.kind # "none"
      /\ retry' # NoOp => retry'.kind # "none"
    BY <1>1, NoOpSound DEF WorkspaceInv, Quiet
<1> QED
    BY <1>2, <1>3, <1>4 DEF WorkspaceInv

\* An answer that says the operation was done.
LEMMA SucceedStep ==
  ASSUME WorkspaceInv, Succeed
  PROVE  WorkspaceInv'
<1>0. /\ WorkspaceTyped /\ op \in Operations /\ AnswersSound /\ OperationSound(op) /\ OperationSound(retry)
    BY DEF WorkspaceInv, WorkspaceTyped
<1>1. PICK a \in answers :
        /\ op.step = "wait" /\ a.id = IdOf(op) /\ a.ok \in {"done", "receipt"}
        /\ answers' = answers \ {a} /\ view' = a.rev
        /\ IF op.kind = "confirm"
           THEN LET next == [op EXCEPT !.kind = "analyze", !.confirmed = a.rev]
                IN op' = next /\ retry' = next /\ wire' = wire \cup {Request(next)}
           ELSE Done /\ UNCHANGED wire
        /\ replayed' = IF op.kind = "confirm" /\ a.ok = "receipt" THEN replayed \cup {op.g} ELSE replayed
        /\ UNCHANGED <<log, draft, panel, last>>
    BY DEF Succeed
<1>2. a \in ServerAnswer /\ a.rev \in Nat
    BY <1>0 DEF WorkspaceTyped, ServerAnswer
<1>3. op.kind # "none" /\ op.kind \in Kinds
    BY <1>0, <1>1 DEF WorkspaceInv, Operations
<1>4. CASE op.kind = "confirm"
  <2> DEFINE next == [op EXCEPT !.kind = "analyze", !.confirmed = a.rev]
  <2>1. op' = next /\ retry' = next /\ wire' = wire \cup {Request(next)}
      BY <1>1, <1>4
  <2>2. /\ next \in Operations /\ next.kind = "analyze" /\ next.g = op.g /\ next.confirmed = a.rev
        /\ next.step = "wait"
      BY <1>0, <1>1, <1>2 DEF Operations, Kinds
  <2> HIDE DEF next
  <2>3. a.id = op.g
      BY <1>1, <1>4 DEF IdOf
  <2>5. op.g > 0
      BY <1>0, <1>3 DEF OperationSound
  <2>6. PICK o \in Operations : o = next
      BY <2>2
  <2>7. OperationSound(o)' /\ o.kind \in Kinds
    <3>1. PICK g \in Nat, rev \in Nat : g = op.g /\ rev = a.rev /\ Follows(g, rev)'
      <4>1. op.g \in Nat
          BY <1>0 DEF Operations
      <4>3. op.g \in replayed' \/ (a.rev \in 1 .. Len(log') /\ log'[a.rev].id = op.g)
        <5>1. CASE a.ok = "receipt"
            BY <1>1, <1>4, <5>1
        <5>2. CASE a.ok = "done"
            BY <1>0, <1>1, <2>3, <5>2 DEF AnswersSound
        <5> QED
            BY <1>1, <5>1, <5>2
      <4> QED
          BY <1>2, <4>1, <4>3 DEF Follows
    <3>2. o.kind = "analyze" /\ o.g = g /\ o.confirmed = rev
        BY <2>2, <2>6, <3>1
    <3> QED
        BY <2>5, <3>1, <3>2 DEF OperationSound, Kinds
  <2>8. \A q \in wire' : q \in wire \/ \E x \in Operations : q = Request(x) /\ x.kind \in Kinds /\ OperationSound(x)'
      BY <2>1, <2>6, <2>7
  <2>9. WorkspaceTyped' /\ LogSingle' /\ WireSound' /\ AnswersSound'
      BY <1>0, <1>1, <1>2, <2>1, <2>2, <2>7, <2>8, ClientKeeps DEF WorkspaceTyped
  <2>10. OperationSound(op)' /\ OperationSound(retry)'
      BY <2>1, <2>6, <2>7 DEF OperationSound
  <2> QED
      BY <2>1, <2>2, <2>9, <2>10 DEF WorkspaceInv, NoOp
<1>5. CASE op.kind # "confirm"
  <2>1. Quiet
      BY <1>0, <1>1, <1>2, <1>5 DEF Quiet, Done, WorkspaceTyped
  <2> QED
      BY <2>1, QuietStep
<1> QED
    BY <1>4, <1>5

\* A click of the panel starts with a request for the facts.
LEMMA PanelClickStep ==
  ASSUME WorkspaceInv, PanelClick
  PROVE  WorkspaceInv'
<1> DEFINE o == [NoOp EXCEPT !.kind = "facts", !.g = last + 1, !.rev = view, !.step = "wait"]
<1>0. WorkspaceTyped /\ OperationSound(op) /\ OperationSound(retry)
    BY DEF WorkspaceInv
<1>1. /\ panel' = o /\ wire' = wire \cup {Request(panel')} /\ last' = last + 1
      /\ UNCHANGED <<log, answers, view, draft, op, retry, replayed>>
    BY DEF PanelClick
<1>2. /\ o \in Operations /\ o.kind = "facts" /\ o.g > 0 /\ last' \in Nat
  <2>1. last + 1 \in Nat /\ last + 1 > 0 /\ view \in Nat
      BY <1>0 DEF WorkspaceTyped
  <2>2. o = Beside(NoOp, "facts", last + 1, view)
      BY DEF Beside
  <2> HIDE DEF o
  <2>3. o \in Operations /\ o.kind = "facts" /\ o.g = last + 1
    <3>1. "facts" \in Kinds /\ NoOp \in Operations
        BY NoOpSound DEF Kinds
    <3>2. ASSUME NEW g \in Nat, NEW rev \in Nat
          PROVE  /\ Beside(NoOp, "facts", g, rev) \in Operations
                 /\ Beside(NoOp, "facts", g, rev).kind = "facts"
                 /\ Beside(NoOp, "facts", g, rev).g = g
        BY <3>1, BesideOperation
    <3> QED
        BY <2>1, <2>2, <3>2
  <2> QED
      BY <1>1, <2>1, <2>3
<1> HIDE DEF o
<1>3. PICK x \in Operations : x = o
    BY <1>2
<1>4. OperationSound(x)' /\ x.kind \in Kinds
    BY <1>2, <1>3 DEF OperationSound, Kinds
<1>5. \A q \in wire' : q \in wire \/ \E y \in Operations : q = Request(y) /\ y.kind \in Kinds /\ OperationSound(y)'
    BY <1>1, <1>3, <1>4
<1>6. /\ WorkspaceTyped' /\ LogSingle' /\ WireSound' /\ AnswersSound'
    BY <1>0, <1>1, <1>2, <1>5, ClientKeeps DEF WorkspaceTyped
<1>7. OperationSound(op)' /\ OperationSound(retry)'
    BY <1>0, <1>1 DEF OperationSound, Follows
<1> QED
    BY <1>1, <1>6, <1>7 DEF WorkspaceInv

\* An operation that fails ends, or goes on to recover, with the retry as it was.
LEMMA BrokenMeans ==
  ASSUME WorkspaceInv, Broken, op.step # "idle"
  PROVE  /\ \/ op' = NoOp
            \/ \E step \in Steps, stopped \in BOOLEAN : op' = [op EXCEPT !.step = step, !.stopped = stopped]
         /\ retry' = retry /\ op.kind # "none"
         /\ draft' \in Texts \cup {NoText}
<1>1. op \in Operations /\ op.kind # "none" /\ op.text \in Texts \cup {NoText} /\ draft \in Texts \cup {NoText}
    BY DEF WorkspaceInv, WorkspaceTyped, Operations
<1>2. [op EXCEPT !.step = "reload"] = [op EXCEPT !.step = "reload", !.stopped = op.stopped]
      /\ op.stopped \in BOOLEAN /\ "reload" \in Steps
    BY <1>1 DEF Operations, Steps
<1> QED
    BY <1>1, <1>2 DEF Broken, Fail, Restored

\* Every step keeps the invariant.
LEMMA WorkspaceStep ==
  ASSUME WorkspaceInv, [Next]_vars
  PROVE  WorkspaceInv'
<1>0. /\ WorkspaceTyped /\ view \in Nat /\ last \in Nat /\ Len(log) \in Nat
      /\ draft \in Texts \cup {NoText}
      /\ op \in Operations /\ retry \in Operations /\ panel \in Operations
    BY DEF WorkspaceInv, WorkspaceTyped
<1>1. CASE \E q \in wire : Serve(q)
    BY <1>1, ServeStep
<1>2. CASE OtherClient
    BY <1>2, OtherStep
<1>3. CASE Succeed
    BY <1>3, SucceedStep
<1>4. CASE FailAnswer
  <2>1. Quiet
      BY <1>0, <1>4, BrokenMeans DEF FailAnswer, Quiet
  <2> QED
      BY <2>1, QuietStep
<1>5. CASE ConflictAnswer
  <2>1. PICK a \in answers : /\ op.step = "wait" /\ answers' = answers \ {a}
                             /\ op' = [op EXCEPT !.step = "conflict"]
                             /\ UNCHANGED <<log, wire, view, draft, outbox, retry, panel, last, replayed>>
      BY <1>5 DEF ConflictAnswer
  <2>2. [op EXCEPT !.step = "conflict"] = [op EXCEPT !.step = "conflict", !.stopped = op.stopped]
        /\ op.stopped \in BOOLEAN /\ "conflict" \in Steps /\ op.kind # "none"
      BY <1>0, <2>1 DEF Operations, Steps, WorkspaceInv
  <2>3. Quiet
      BY <1>0, <2>1, <2>2 DEF Quiet
  <2> QED
      BY <2>3, QuietStep
<1>6. CASE Reloaded
  <2>1. Quiet
      BY <1>0, <1>6, BrokenMeans DEF Reloaded, Quiet
  <2> QED
      BY <2>1, QuietStep
<1>7. CASE ReloadFails
  <2>1. Quiet
      BY <1>0, <1>7 DEF ReloadFails, Fail, Quiet
  <2> QED
      BY <2>1, QuietStep
<1>8. CASE StopReloaded
  <2>1. Quiet
      BY <1>0, <1>8 DEF StopReloaded, Done, Quiet
  <2> QED
      BY <2>1, QuietStep
<1>9. CASE Type
  <2>1. Quiet
      BY <1>0, <1>9 DEF Type, Quiet
  <2> QED
      BY <2>1, QuietStep
<1>10. CASE Click
  <2>1. PICK k \in {"message", "facts", "confirm"} :
           /\ k = "message" => draft # NoText
           /\ last' = last + 1
           /\ Submit([NoOp EXCEPT !.kind = k, !.g = last + 1, !.rev = view,
                                  !.text = IF k = "message" THEN draft ELSE NoText])
      BY <1>10 DEF Click
  <2> DEFINE x == IF k = "message" THEN draft ELSE NoText
             o == [NoOp EXCEPT !.kind = k, !.g = last + 1, !.rev = view, !.text = x]
  <2>2. last + 1 \in Nat /\ last + 1 > 0
      BY <1>0
  <2>3. x \in Texts \cup {NoText} /\ (k = "message" => x # NoText)
      BY <1>0, <2>1
  <2>4. Submit(o)
      BY <2>1
  <2>5. o = Clicked(NoOp, k, last + 1, view, x)
      BY DEF Clicked
  <2> HIDE DEF x, o
  <2>6. /\ o \in Operations /\ o.kind = k /\ o.g > 0 /\ o.text = x /\ last + 1 \in Nat
    <3>1. k \in Kinds /\ NoOp \in Operations
        BY NoOpSound DEF Kinds
    <3>2. /\ Clicked(NoOp, k, last + 1, view, x) \in Operations
          /\ Clicked(NoOp, k, last + 1, view, x).kind = k
          /\ Clicked(NoOp, k, last + 1, view, x).g = last + 1
          /\ Clicked(NoOp, k, last + 1, view, x).text = x
      <4>1. PICK n \in Nat, v \in Nat, y \in Texts \cup {NoText} : n = last + 1 /\ v = view /\ y = x
          BY <1>0, <2>2, <2>3
      <4>2. /\ Clicked(NoOp, k, n, v, y) \in Operations /\ Clicked(NoOp, k, n, v, y).kind = k
            /\ Clicked(NoOp, k, n, v, y).g = n /\ Clicked(NoOp, k, n, v, y).text = y
          BY <3>1, NewOperation
      <4> QED
          BY <4>1, <4>2
    <3> QED
        BY <2>2, <2>5, <3>2
  <2>7. OperationSound(o) /\ o.kind \in Kinds
      BY <2>3, <2>6 DEF OperationSound, Kinds
  <2>8. panel' = panel /\ last' \in Nat
      BY <2>1, <2>4, <2>6 DEF Submit
  <2> QED
      BY <2>4, <2>6, <2>7, <2>8, SubmitStep
<1>11. CASE Retry
  <2>1. retry.kind # "none" /\ OperationSound(retry) /\ Submit(retry) /\ last' = last
      BY <1>11 DEF Retry, WorkspaceInv
  <2>2. retry.kind \in Kinds /\ panel' = panel
      BY <1>0, <2>1 DEF Operations, Submit
  <2> QED
      BY <1>0, <2>1, <2>2, SubmitStep
<1>12. CASE Stop
  <2>1. op.kind # "none" /\ (op' = [op EXCEPT !.stopped = TRUE, !.step = "reload"] \/ op' = [op EXCEPT !.stopped = TRUE])
      BY <1>12 DEF Stop
  <2>2. /\ [op EXCEPT !.stopped = TRUE] = [op EXCEPT !.step = op.step, !.stopped = TRUE]
        /\ [op EXCEPT !.stopped = TRUE, !.step = "reload"] = [op EXCEPT !.step = "reload", !.stopped = TRUE]
        /\ op.step \in Steps /\ "reload" \in Steps
      BY <1>0 DEF Operations, Steps
  <2>3. draft' \in Texts \cup {NoText}
      BY <1>0, <1>12 DEF Stop, Restored, Operations
  <2>4. Quiet
      BY <1>0, <1>12, <2>1, <2>2, <2>3 DEF Stop, Quiet
  <2> QED
      BY <2>4, QuietStep
<1>13. CASE PanelClick
    BY <1>13, PanelClickStep
<1>14. CASE PanelAnswer
  <2>1. panel' \in Operations
      BY <1>0, <1>14, NoOpSound, ZenonT(60) DEF PanelAnswer, Operations, Steps
  <2>2. view' \in Nat /\ answers' \subseteq answers
      BY <1>0, <1>14 DEF PanelAnswer, WorkspaceTyped, ServerAnswer
  <2>3. Quiet
      BY <1>0, <1>14, <2>1, <2>2 DEF PanelAnswer, Quiet
  <2> QED
      BY <2>3, QuietStep
<1>15. CASE PanelReload
  <2>1. Quiet
      BY <1>0, <1>15, NoOpSound DEF PanelReload, Quiet
  <2> QED
      BY <2>1, QuietStep
<1>16. CASE UNCHANGED vars
  <2>1. Quiet
      BY <1>0, <1>16 DEF vars, Quiet
  <2> QED
      BY <2>1, QuietStep
<1> QED
    BY <1>1, <1>2, <1>3, <1>4, <1>5, <1>6, <1>7, <1>8, <1>9, <1>10, <1>11, <1>12, <1>13, <1>14, <1>15, <1>16
    DEF Next, Server, Browser, User, Panel

----------------------------------------------------------------------------
(***************************************************************************)
(* The theorems                                                            *)
(***************************************************************************)
\* What the client may rely on, whatever is lost, repeated or overtaken.
THEOREM WorkspaceSound == Spec => []WorkspaceInv
<1>1. Init => WorkspaceInv
  <2>1. << >> \in Seq(Entry) /\ Len(<< >>) = 0
      OBVIOUS
  <2> QED
      BY <2>1, NoOpSound DEF Init, WorkspaceInv, WorkspaceTyped, LogSingle, WireSound, AnswersSound
<1>2. WorkspaceInv /\ [Next]_vars => WorkspaceInv'
    BY WorkspaceStep
<1> QED
    BY <1>1, <1>2, PTL DEF Spec

\* However often it is retried, a click changes the case at most once.
THEOREM RetrySafe == Spec => []RetryRepeatsNothing
<1>1. WorkspaceInv => RetryRepeatsNothing
  <2> SUFFICES ASSUME WorkspaceInv, NEW i \in DOMAIN log, NEW j \in DOMAIN log,
                      log[i].g > 0, log[i].g = log[j].g, log[i].kind = log[j].kind
               PROVE  i = j
      BY DEF RetryRepeatsNothing
  <2>1. i \in 1 .. Len(log) /\ j \in 1 .. Len(log) /\ log[i].g \in Nat
    <3>1. log \in Seq(Entry) /\ i \in 1 .. Len(log) /\ j \in 1 .. Len(log)
        BY DEF WorkspaceInv, WorkspaceTyped
    <3>2. log[i] \in Entry
        BY <3>1
    <3> QED
        BY <3>1, <3>2 DEF Entry
  <2>2. log[i].id = IdFor(log[i].kind, log[i].g) /\ log[j].id = IdFor(log[j].kind, log[j].g)
      BY <2>1 DEF WorkspaceInv, LogSingle
  <2>3. log[i].id > 0
      BY <2>1, <2>2, WorkspaceAssumption DEF IdFor
  <2> QED
      BY <2>1, <2>2, <2>3 DEF WorkspaceInv, LogSingle
<1> QED
    BY <1>1, WorkspaceSound, PTL

\* The analysis that follows a confirmation is of the facts confirmed with it.
THEOREM AnalysisFollows == Spec => AnalysisOfConfirmed
<1> DEFINE Follow == \A i \in DOMAIN log' \ DOMAIN log : log'[i].g > 0 /\ log'[i].kind = "analyze" =>
                        \/ log'[i].id - MaxGestures \in replayed
                        \/ \E c \in DOMAIN log : log[c].id + MaxGestures = log'[i].id
                                         /\ FactsAt(c) = FactsAt(Len(log))
<1>1. WorkspaceInv /\ [Next]_vars => [Follow]_vars
  <2> SUFFICES ASSUME WorkspaceInv, Next, NEW i \in DOMAIN log' \ DOMAIN log,
                      log'[i].g > 0, log'[i].kind = "analyze"
               PROVE  \/ log'[i].id - MaxGestures \in replayed
                      \/ \E c \in DOMAIN log : log[c].id + MaxGestures = log'[i].id
                                       /\ FactsAt(c) = FactsAt(Len(log))
      BY DEF vars
  <2>1. log \in Seq(Entry) /\ Len(log) \in Nat /\ DOMAIN log = 1 .. Len(log)
      BY DEF WorkspaceInv, WorkspaceTyped
  <2>2. CASE log' = log
      BY <2>2
  <2>3. CASE OtherClient
    <3>1. PICK e \in Entry : e.g = 0 /\ log' = Append(log, e)
        BY <2>3 DEF OtherClient, Entry
    <3>2. Len(log') = Len(log) + 1 /\ DOMAIN log' = 1 .. Len(log') /\ log'[Len(log')] = e
        BY <2>1, <3>1
    <3>3. i = Len(log')
        BY <2>1, <3>2
    <3> QED
        BY <3>1, <3>2, <3>3
  <2>4. CASE \E q \in wire : Serve(q) /\ log' # log
    <3>1. PICK q \in wire : Serve(q) /\ log' # log
        BY <2>4
    <3> DEFINE e == [id |-> q.id, g |-> q.g, kind |-> q.kind]
    <3>2. log' = Append(log, e) /\ q.rev = Len(log)
        BY <3>1 DEF Serve
    <3>3. q \in Requests /\ q.g > 0 /\ q.id = IdFor(q.kind, q.g) /\ (q.kind = "analyze" => Follows(q.g, q.rev))
        BY DEF WorkspaceInv, WorkspaceTyped, WireSound
    <3>4. e \in Entry /\ e.id = q.id /\ e.kind = q.kind
        BY <3>3 DEF Requests, Entry
    <3> HIDE DEF e
    <3>5. Len(log') = Len(log) + 1 /\ DOMAIN log' = 1 .. Len(log') /\ log'[Len(log')] = e
        BY <2>1, <3>2, <3>4
    <3>6. i = Len(log')
        BY <2>1, <3>5
    <3>7. log'[i].id = q.g + MaxGestures /\ Follows(q.g, q.rev) /\ q.g \in Nat
        BY <3>3, <3>4, <3>5, <3>6 DEF IdFor, Requests
    <3>8. CASE q.g \in replayed
      <4>1. (q.g + MaxGestures) - MaxGestures = q.g
          BY <3>7, WorkspaceAssumption
      <4> QED
          BY <3>7, <3>8, <4>1
    <3>9. CASE Len(log) \in 1 .. Len(log) /\ log[Len(log)].id = q.g
        BY <2>1, <3>7, <3>9
    <3> QED
        BY <3>2, <3>7, <3>8, <3>9 DEF Follows
  <2>5. log' = log \/ OtherClient \/ \E q \in wire : Serve(q) /\ log' # log
      BY DEF Next, Server, Browser, User, Panel, Succeed, FailAnswer, ConflictAnswer, Reloaded, ReloadFails,
             StopReloaded, Type, Click, Retry, Submit, Stop, PanelClick, PanelAnswer, PanelReload
  <2> QED
      BY <2>2, <2>3, <2>4, <2>5
<1> QED
    BY <1>1, WorkspaceSound, PTL DEF Spec, AnalysisOfConfirmed

\* A bubble goes only when its text is in the shown case, is sent again, or the
\* composer holds it or a newer draft.
THEOREM NoTextIsLost == Spec => TextKept
<1> DEFINE Kept == \A b \in outbox : (\A c \in outbox' : c.id # b.id) =>
                     \/ \E i \in 1 .. view' : log'[i].id = b.id
                     \/ \E c \in outbox' : c.text = b.text
                     \/ draft' # NoText
<1>1. WorkspaceInv /\ [Next]_vars => [Kept]_vars
  <2> SUFFICES ASSUME WorkspaceInv, Next, NEW b \in outbox, \A c \in outbox' : c.id # b.id
               PROVE  \/ \E i \in 1 .. view' : log'[i].id = b.id
                      \/ \E c \in outbox' : c.text = b.text
                      \/ draft' # NoText
      BY DEF vars
  <2>0. /\ op \in Operations /\ OperationSound(op) /\ AnswersSound
        /\ \A o, delivery : Bubble(o, delivery).id = o.g /\ Bubble(o, delivery).text = o.text
      BY DEF WorkspaceInv, WorkspaceTyped, Bubble
  <2>1. CASE \E o : Submit(o)
    <3>1. PICK o : Submit(o)
        BY <2>1
    <3>2. outbox' = Sending(o)
        BY <3>1 DEF Submit
    <3>3. Bubble(o, "sending") \in outbox'
        BY <3>2 DEF Sending
    <3>4. b.id # o.g
        BY <2>0, <3>3
    <3>5. b.text = o.text
        BY <3>2, <3>4 DEF Sending, Others
    <3> QED
        BY <2>0, <3>3, <3>5
  <2>2. CASE Succeed
    <3>1. PICK a \in answers : /\ a.id = IdOf(op) /\ a.ok \in {"done", "receipt"} /\ view' = a.rev /\ log' = log
                               /\ outbox' = IF op.kind = "message" THEN Others(op) ELSE outbox
        BY <2>2 DEF Succeed
    <3>2. op.kind = "message" /\ b.id = op.g
        BY <3>1 DEF Others
    <3>3. a.id = b.id
        BY <3>1, <3>2 DEF IdOf
    <3> QED
        BY <2>0, <3>1, <3>3 DEF AnswersSound
  <2>3. CASE Broken
    <3>1. op.kind = "message"
        BY <2>3 DEF Broken
    <3>2. CASE op.stopped
      <4>1. draft' = Restored(op) /\ op.text # NoText
          BY <2>0, <2>3, <3>1 DEF Broken, OperationSound
      <4> QED
          BY <4>1 DEF Restored
    <3>3. CASE ~op.stopped
      <4>1. outbox' = Others(op) \cup {Bubble(op, "failed")}
          BY <2>3, <3>1, <3>3 DEF Broken
      <4>2. b.id # op.g
          BY <2>0, <4>1
      <4> QED
          BY <4>1, <4>2 DEF Others
    <3> QED
        BY <3>2, <3>3
  <2>4. CASE Stop
    <3>1. op.kind = "message" /\ op.text # NoText
        BY <2>0, <2>4 DEF Stop, OperationSound
    <3>2. draft' = Restored(op) \/ outbox' = outbox
        BY <2>4 DEF Stop
    <3> QED
        BY <3>1, <3>2 DEF Restored
  <2>5. CASE outbox' = outbox
      BY <2>5
  <2>6. (\E o : Submit(o)) \/ Succeed \/ Broken \/ Stop \/ outbox' = outbox
      BY DEF Next, Server, Serve, OtherClient, Browser, User, Panel, FailAnswer, ConflictAnswer, Reloaded,
             ReloadFails, StopReloaded, Type, Click, Retry, PanelClick, PanelAnswer, PanelReload
  <2> QED
      BY <2>1, <2>2, <2>3, <2>4, <2>5, <2>6
<1> QED
    BY <1>1, WorkspaceSound, PTL DEF Spec, TextKept

----------------------------------------------------------------------------
(***************************************************************************)
(* The questions of the structure interview, for any tables without a      *)
(* circle and any needs of the engine.                                     *)
(***************************************************************************)

InterviewKeys == Facts \cup Gates

\* What a key depends on is closed under prerequisites, and nothing else is in
\* it: these facts are all the rest uses of the closure.
\* A key depends on itself ...
LEMMA AboveSelf ==
  ASSUME NEW k \in InterviewKeys
  PROVE  k \in Above[k] /\ Above[k] \subseteq InterviewKeys
BY DEF Above, InterviewKeys

\* ... on what anything it depends on requires ...
LEMMA AboveStep ==
  ASSUME NEW k \in InterviewKeys, NEW x \in Above[k], NEW r \in Require[x]
  PROVE  r.key \in Above[k]
<1>1. x \in InterviewKeys /\ r.key \in InterviewKeys
    BY AboveSelf, RequireAssumption DEF InterviewKeys
<1>2. ASSUME NEW S \in SUBSET InterviewKeys, k \in S, \A y \in S : \A q \in Require[y] : q.key \in S
      PROVE  r.key \in S
  <2>1. x \in S
      BY <1>2 DEF Above, InterviewKeys
  <2> QED
      BY <1>2, <2>1
<1> QED
    BY <1>1, <1>2 DEF Above, InterviewKeys

\* ... and on all that depends on.
LEMMA AboveWithin ==
  ASSUME NEW k \in InterviewKeys, NEW x \in Above[k]
  PROVE  Above[x] \subseteq Above[k]
<1>1. x \in InterviewKeys /\ Above[k] \subseteq InterviewKeys
    BY AboveSelf
<1>2. \A y \in Above[k] : \A r \in Require[y] : r.key \in Above[k]
    BY AboveStep
<1>3. \A y \in Above[x] : y \in Above[k]
  <2> SUFFICES ASSUME NEW y \in Above[x]
               PROVE  y \in Above[k]
      OBVIOUS
  <2> DEFINE T == Above[k]
  <2>1. T \in SUBSET InterviewKeys /\ x \in T /\ \A z \in T : \A r \in Require[z] : r.key \in T
      BY <1>1, <1>2
  <2> HIDE DEF T
  <2>2. y \in T
      BY <1>1, <2>1 DEF Above, InterviewKeys
  <2> QED
      BY <2>2 DEF T
<1> QED
    BY <1>3

\* It depends on nothing else.
LEMMA AboveParts ==
  ASSUME NEW k \in InterviewKeys, NEW y \in Above[k]
  PROVE  y = k \/ \E r \in Require[k] : y \in Above[r.key]
<1> DEFINE T == {k} \cup UNION {Above[r.key] : r \in Require[k]}
<1>1. \A r \in Require[k] : r.key \in InterviewKeys
    BY RequireAssumption DEF InterviewKeys
<1>2. T \in SUBSET InterviewKeys /\ k \in T
    BY <1>1, AboveSelf
<1>3. ASSUME NEW z \in T, NEW q \in Require[z]
      PROVE  q.key \in T
  <2>1. CASE z = k
    <3>1. q.key \in Above[q.key]
        BY <1>1, <2>1, AboveSelf
    <3> QED
        BY <2>1, <3>1
  <2>2. CASE z # k
    <3>1. PICK r \in Require[k] : z \in Above[r.key]
        BY <2>2
    <3>2. q.key \in Above[r.key]
        BY <1>1, <3>1, AboveStep
    <3> QED
        BY <3>2
  <2> QED
      BY <2>1, <2>2
<1>4. y \in T
  <2> HIDE DEF T
  <2> QED
      BY <1>2, <1>3 DEF Above, InterviewKeys
<1> QED
    BY <1>4

\* The states of what a key requires, at any distance.
LEMMA RequiredIs ==
  ASSUME NEW k \in InterviewKeys, NEW r
  PROVE  r \in AllRequired[k] <=> \E x \in Above[k] : r \in Require[x]
BY DEF AllRequired, InterviewKeys

\* What a key depends on requires no more than the key.
LEMMA RequiredWithin ==
  ASSUME NEW k \in InterviewKeys, NEW x \in Above[k]
  PROVE  AllRequired[x] \subseteq AllRequired[k]
<1>1. x \in InterviewKeys /\ Above[x] \subseteq Above[k]
    BY AboveSelf, AboveWithin
<1> QED
    BY <1>1, RequiredIs

\* A requirement waits only for a value that is missing or not known.
LEMMA RequirementStates ==
  ASSUME NEW c, NEW r
  PROVE  /\ RequirementState(c, r) \in {"waiting", "ready", "not_applicable"}
         /\ RequirementState(c, r) = "waiting" => ValueOf(c, r.key) \in {Absent, Unknown}
BY DEF RequirementState

\* The status of a key from the states of all it requires.
LEMMA StatusIs ==
  ASSUME NEW c, NEW k \in InterviewKeys
  PROVE  /\ Status(c, k) \in {"not_applicable", "needs_policy_review", "waiting", "ready"}
         /\ Status(c, k) = "not_applicable" <=> \E r \in AllRequired[k] : RequirementState(c, r) = "not_applicable"
         /\ Status(c, k) = "waiting" => \E r \in AllRequired[k] : RequirementState(c, r) = "waiting"
         /\ (\A r \in AllRequired[k] : RequirementState(c, r) = "ready") => Status(c, k) \in {"ready", "needs_policy_review"}
<1> DEFINE states == {RequirementState(c, r) : r \in AllRequired[k]}
           review == \E x \in Above[k] \cap Reviewed : \A r \in AllRequired[x] : RequirementState(c, r) # "waiting"
<1>1. Status(c, k) = CASE "not_applicable" \in states -> "not_applicable"
                       [] "not_applicable" \notin states /\ review -> "needs_policy_review"
                       [] "not_applicable" \notin states /\ ~review /\ "waiting" \in states -> "waiting"
                       [] "not_applicable" \notin states /\ ~review /\ "waiting" \notin states -> "ready"
    BY DEF Status
<1>2. /\ "not_applicable" \in states <=> \E r \in AllRequired[k] : RequirementState(c, r) = "not_applicable"
      /\ "waiting" \in states <=> \E r \in AllRequired[k] : RequirementState(c, r) = "waiting"
    OBVIOUS
<1> HIDE DEF states, review
<1>3. (\A r \in AllRequired[k] : RequirementState(c, r) = "ready") => "not_applicable" \notin states /\ "waiting" \notin states
    BY <1>2
<1> QED
    BY <1>1, <1>2, <1>3

\* Behind every question that waits there is a key that no longer waits itself
\* and has no value: going up from key to prerequisite must end.
LEMMA FirstWaiting ==
  ASSUME NEW c, NEW q \in InterviewKeys, Status(c, q) = "waiting"
  PROVE  \E k \in Above[q] : /\ \A r \in AllRequired[k] : RequirementState(c, r) = "ready"
                             /\ ValueOf(c, k) \in {Absent, Unknown}
<1> DEFINE W(x) == \E r \in AllRequired[x] : RequirementState(c, r) = "waiting"
           U == {x \in Above[q] : W(x)}
<1>1. q \in U /\ U \in SUBSET InterviewKeys
    BY AboveSelf, StatusIs
<1>2. PICK u \in U : \A r \in Require[u] : r.key \notin U
  <2> HIDE DEF U
  <2> QED
      BY <1>1, RequireAssumption DEF InterviewKeys
<1>3. u \in InterviewKeys /\ u \in Above[q]
    BY <1>1
<1>4. PICK r \in AllRequired[u] : RequirementState(c, r) = "waiting"
    OBVIOUS
<1>5. PICK x \in Above[u] : r \in Require[x]
    BY <1>3, <1>4, RequiredIs
<1>6. ASSUME NEW p \in Require[u] PROVE p.key \in InterviewKeys /\ p.key \in Above[q] /\ ~W(p.key)
  <2>1. p.key \in Above[q] /\ p.key \in InterviewKeys
      BY <1>3, AboveStep, AboveSelf
  <2> QED
      BY <1>2, <1>6, <2>1
<1>7. x = u
  <2> SUFFICES ASSUME x # u
               PROVE  FALSE
      OBVIOUS
  <2>1. PICK p \in Require[u] : x \in Above[p.key]
      BY <1>3, <1>5, AboveParts
  <2>2. r \in AllRequired[p.key]
      BY <1>5, <1>6, <2>1, RequiredIs
  <2> QED
      BY <1>4, <1>6, <2>2
<1>8. r.key \in Above[q] /\ r.key \in InterviewKeys /\ ~W(r.key)
    BY <1>5, <1>6, <1>7
<1>9. \A p \in AllRequired[r.key] : RequirementState(c, p) = "ready"
  <2>1. AllRequired[r.key] \subseteq AllRequired[q]
      BY <1>8, RequiredWithin
  <2>2. \A p \in AllRequired[q] : RequirementState(c, p) # "not_applicable"
      BY StatusIs
  <2> QED
      BY <1>8, <2>1, <2>2, RequirementStates
<1> QED
    BY <1>4, <1>8, <1>9, RequirementStates

----------------------------------------------------------------------------
(***************************************************************************)
(* The inductive invariant: whatever the questions depend on and has no    *)
(* value is among the questions, and the one displayed is the next.        *)
(***************************************************************************)
IsCase(c) ==
    DOMAIN c = {"mode", "facts", "gates", "actions", "rulings", "deferred"}

PrerequisitesAsked(c, questions) ==
    \A q \in questions :
        /\ About(q) \in InterviewKeys
        /\ Status(c, About(q)) # "not_applicable" =>
              \A k \in Above[About(q)] : ValueOf(c, k) = Absent => \E p \in questions : About(p) = k

QuestionsInv ==
    /\ IsCase(case)
    /\ asked = [questions |-> asked.questions, fresh |-> asked.fresh]
    /\ flow = "none" => ~asked.fresh
    /\ asked.fresh => /\ PrerequisitesAsked(case, asked.questions)
                      /\ pending = NextQuestion(case, asked.questions)

\* prepare_questions asks whatever its questions wait for.
LEMMA PreparedAsks ==
  ASSUME NEW c, NEW raw, \A q \in raw : About(q) \in InterviewKeys
  PROVE  PrerequisitesAsked(c, Prepared(c, raw))
<1> DEFINE keys == {About(q) : q \in raw}
           needed == UNION {Above[k] : k \in {x \in keys : Status(c, x) # "not_applicable"}}
           added == {[key |-> k, kind |-> "data"] : k \in {x \in needed \ keys : ValueOf(c, x) = Absent}}
<1>1. Prepared(c, raw) = raw \cup added
    BY DEF Prepared
<1>2. keys \subseteq InterviewKeys /\ needed \subseteq InterviewKeys
  <2>1. keys \subseteq InterviewKeys
      OBVIOUS
  <2> QED
      BY <2>1, AboveSelf
<1>3. ASSUME NEW k \in needed, ValueOf(c, k) = Absent
      PROVE  \E p \in raw \cup added : About(p) = k
  <2>1. CASE k \in keys
      BY <2>1
  <2>2. CASE k \notin keys
    <3>1. [key |-> k, kind |-> "data"] \in added /\ About([key |-> k, kind |-> "data"]) = k
        BY <1>3, <2>2 DEF About
    <3> QED
        BY <3>1
  <2> QED
      BY <2>1, <2>2
<1>4. ASSUME NEW q \in raw, Status(c, About(q)) # "not_applicable"
      PROVE  Above[About(q)] \subseteq needed
    BY <1>4
<1>5. ASSUME NEW q \in added
      PROVE  About(q) \in needed /\ Above[About(q)] \subseteq needed
  <2>1. PICK k \in needed : q = [key |-> k, kind |-> "data"]
      OBVIOUS
  <2>2. About(q) = k
      BY <2>1 DEF About
  <2>3. PICK x \in keys : Status(c, x) # "not_applicable" /\ k \in Above[x]
      OBVIOUS
  <2>4. Above[k] \subseteq Above[x] /\ Above[x] \subseteq needed
      BY <1>2, <2>3, AboveWithin
  <2> QED
      BY <2>2, <2>4
<1> HIDE DEF keys, needed, added
<1> QED
    BY <1>1, <1>2, <1>3, <1>4, <1>5 DEF PrerequisitesAsked

\* What is read of a case to tell what its questions wait for.
LEMMA SameStatus ==
  ASSUME NEW c, NEW d, c.mode = d.mode, c.facts = d.facts, c.gates = d.gates, c.actions = d.actions
  PROVE  /\ \A k : ValueOf(c, k) = ValueOf(d, k)
         /\ \A k : Status(c, k) = Status(d, k)
<1>1. Context(c) = Context(d)
    BY DEF Context
<1>2. ASSUME NEW k PROVE Feasible(c, k) = Feasible(d, k)
    BY DEF Feasible
<1>3. ASSUME NEW k PROVE OfMembers(c, k) = OfMembers(d, k)
    BY DEF OfMembers
<1>4. ASSUME NEW k PROVE ValueOf(c, k) = ValueOf(d, k)
    BY <1>1, <1>2, <1>3 DEF ValueOf
<1>5. ASSUME NEW r PROVE RequirementState(c, r) = RequirementState(d, r)
    BY <1>4 DEF RequirementState
<1>6. ASSUME NEW k PROVE Status(c, k) = Status(d, k)
    BY <1>5 DEF Status
<1> QED
    BY <1>4, <1>6

\* Voiding answers leaves a case.
LEMMA RevokedIsCase ==
  ASSUME NEW c, IsCase(c)
  PROVE  IsCase(Revoked(c))
<1> DEFINE none == [a \in DOMAIN Actions |-> Absent]
<1>1. Revoked(c) = [c EXCEPT !.actions = none, !.rulings = {}]
    BY DEF Revoked
<1> HIDE DEF none
<1> QED
    BY <1>1 DEF IsCase

\* Recording an answer leaves a case.
LEMMA RecordedIsCase ==
  ASSUME NEW c, IsCase(c), NEW q, NEW v, q.kind \in Asking, About(q) \in InterviewKeys
  PROVE  IsCase(Recorded(c, q, v))
<1>1. IsCase(Revoked(c))
    BY RevokedIsCase
<1>2. CASE q.kind = "action"
    BY <1>2 DEF Recorded, IsCase
<1>3. CASE q.kind = "data" /\ q.key \in Gates
    BY <1>1, <1>3 DEF Recorded, IsCase
<1>4. CASE q.kind = "data" /\ q.key \in Facts /\ q.key \notin Gates
    BY <1>1, <1>4 DEF Recorded, IsCase
<1> QED
    BY <1>2, <1>3, <1>4 DEF Asking, About, InterviewKeys

\* A run of the engine makes the invariant true.
LEMMA ExecuteKeeps ==
  ASSUME NEW c, IsCase(c), NEW need \in Needs, Execute(c, need)
  PROVE  QuestionsInv'
<1> DEFINE raw == {q \in need : Unanswered(c, q)}
<1>1. \A q \in raw : About(q) \in InterviewKeys
    BY NeedsAssumption, RequireAssumption DEF About, InterviewKeys
<1>2. /\ case' = c /\ flow' = "active"
      /\ asked' = [questions |-> Prepared(c, raw), fresh |-> TRUE]
      /\ pending' = NextQuestion(c, Prepared(c, raw))
    BY DEF Execute
<1>3. PrerequisitesAsked(c, Prepared(c, raw))
    BY <1>1, PreparedAsks
<1> HIDE DEF raw
<1> QED
    BY <1>2, <1>3 DEF QuestionsInv

\* Before the structure is set up.
LEMMA InitSound == QuestionsInit => QuestionsInv
BY DEF QuestionsInit, QuestionsInv, NewCase, IsCase

\* Every step keeps the invariant.
LEMMA StepSound ==
  ASSUME QuestionsInv, [QuestionsNext]_questionVars
  PROVE  QuestionsInv'
<1>0. /\ IsCase(case) /\ asked = [questions |-> asked.questions, fresh |-> asked.fresh]
      /\ asked.fresh => PrerequisitesAsked(case, asked.questions)
    BY DEF QuestionsInv
<1>1. ASSUME NEW q, Accepts(q) PROVE q \in asked.questions /\ q.kind \in Asking /\ About(q) \in InterviewKeys
    BY <1>0, <1>1 DEF Accepts, PrerequisitesAsked
<1>2. CASE Setup
  <2>1. PICK first \in FirstCases : case' = NewCase(first)
      BY <1>2 DEF Setup
  <2>2. IsCase(case') /\ ~asked'.fresh /\ flow' = "active" /\ asked' = asked
      BY <1>2, <2>1 DEF Setup, QuestionsInv, NewCase, IsCase
  <2> QED
      BY <1>0, <2>2 DEF QuestionsInv
<1>3. ASSUME NEW q \in asked.questions, Answer(q) PROVE QuestionsInv'
  <2>1. PICK v \in AnswersTo(q), need \in Needs : Execute(Recorded(case, q, v), need)
      BY <1>3 DEF Answer
  <2>2. IsCase(Recorded(case, q, v))
      BY <1>0, <1>1, <1>3, RecordedIsCase DEF Answer
  <2> QED
      BY <2>1, <2>2, ExecuteKeeps
<1>4. CASE AnswerBatch
  <2>1. PICK p, q \in asked.questions :
           /\ Accepts(p) /\ Accepts(q)
           /\ \E v \in AnswersTo(p) : \E w \in AnswersTo(q), need \in Needs :
                Execute(Recorded(Recorded(case, p, v), q, w), need)
      BY <1>4 DEF AnswerBatch
  <2>2. PICK v \in AnswersTo(p), w \in AnswersTo(q), need \in Needs : Execute(Recorded(Recorded(case, p, v), q, w), need)
      BY <2>1
  <2>3. IsCase(Recorded(case, p, v))
      BY <1>0, <1>1, <2>1, RecordedIsCase
  <2>4. IsCase(Recorded(Recorded(case, p, v), q, w))
      BY <1>1, <2>1, <2>3, RecordedIsCase
  <2> QED
      BY <2>2, <2>4, ExecuteKeeps
<1>5. CASE Plan
    BY <1>0, <1>5, ExecuteKeeps DEF Plan
<1>6. CASE Defer
  <2>1. PICK q \in asked.questions :
           Accepts(q) /\ case' = [case EXCEPT !.deferred[q.key] = [is |-> TRUE, context |-> Context(case)]]
      BY <1>6 DEF Defer
  <2>2. /\ IsCase(case') /\ case'.mode = case.mode /\ case'.facts = case.facts
        /\ case'.gates = case.gates /\ case'.actions = case.actions
      BY <1>0, <2>1 DEF IsCase
  <2>3. /\ \A k : ValueOf(case', k) = ValueOf(case, k)
        /\ \A k : Status(case', k) = Status(case, k)
      BY <2>2, SameStatus
  <2>4. asked' = asked /\ flow' = flow /\ pending' = NextQuestion(case', asked.questions)
      BY <1>6 DEF Defer
  <2>5. asked.fresh => PrerequisitesAsked(case', asked.questions)
      BY <1>0, <2>3 DEF PrerequisitesAsked
  <2> QED
      BY <1>0, <2>2, <2>4, <2>5 DEF QuestionsInv
<1>7. CASE Rule
  <2> DEFINE none == [a \in DOMAIN Actions |-> Absent]
  <2>1. PICK q \in asked.questions, need \in Needs :
           Execute([case EXCEPT !.actions = none, !.rulings = @ \cup {q.key}], need)
      BY <1>7 DEF Rule
  <2> HIDE DEF none
  <2>2. IsCase([case EXCEPT !.actions = none, !.rulings = @ \cup {q.key}])
    <3> DEFINE ruled == case.rulings \cup {q.key}
    <3>1. [case EXCEPT !.actions = none, !.rulings = @ \cup {q.key}] = [case EXCEPT !.actions = none, !.rulings = ruled]
        OBVIOUS
    <3> HIDE DEF ruled
    <3>2. IsCase([case EXCEPT !.actions = none, !.rulings = ruled])
        BY <1>0 DEF IsCase
    <3> QED
        BY <3>1, <3>2
  <2> QED
      BY <2>1, <2>2, ExecuteKeeps
<1>8. CASE Pause
    BY <1>8 DEF Pause, QuestionsInv
<1>9. CASE Resume
  <2>1. PICK need \in Needs : Execute([case EXCEPT !.deferred = [k \in DOMAIN @ |-> NotDeferred]], need)
      BY <1>9 DEF Resume
  <2> DEFINE c == [case EXCEPT !.deferred = [k \in DOMAIN @ |-> NotDeferred]]
  <2>2. IsCase(c)
    <3> DEFINE back == [k \in DOMAIN case.deferred |-> NotDeferred]
    <3>1. c = [case EXCEPT !.deferred = back]
        OBVIOUS
    <3> HIDE DEF back
    <3> QED
        BY <1>0, <3>1 DEF IsCase
  <2> QED
      BY <2>1, <2>2, ExecuteKeeps
<1>10. CASE Edit
  <2>1. PICK k, v : case' = [Revoked(case) EXCEPT !.facts[k] = v]
      BY <1>10 DEF Edit
  <2>2. IsCase(case')
      BY <1>0, <2>1, RevokedIsCase DEF IsCase
  <2>3. asked' = [asked EXCEPT !.fresh = FALSE]
      BY <1>10 DEF Edit
  <2> QED
      BY <1>0, <2>2, <2>3 DEF QuestionsInv
<1>11. CASE UNCHANGED questionVars
    BY <1>11 DEF questionVars, QuestionsInv
<1> QED
    BY <1>2, <1>3, <1>4, <1>5, <1>6, <1>7, <1>8, <1>9, <1>10, <1>11 DEF QuestionsNext

\* The inductive invariant of the structure interview: a live outcome lacks no
\* question that another one of it depends on, and displays the next one.
THEOREM QuestionsSound == QuestionsSpec => []QuestionsInv
<1>1. QuestionsInv /\ [QuestionsNext]_questionVars => QuestionsInv'
    BY StepSound
<1> QED
    BY InitSound, <1>1, PTL DEF QuestionsSpec

\* For any table of prerequisites without a circle, and any needs of the
\* engine, no question waits for what is neither asked nor answered "unknown"
\* (prepare_questions, interview_status).
THEOREM NoQuestionIsStranded == QuestionsSpec => []NoDeadEnd
<1>1. QuestionsInv => NoDeadEnd
  <2> SUFFICES ASSUME QuestionsInv, asked.fresh, NEW q \in asked.questions, Status(case, About(q)) = "waiting"
               PROVE  \E k \in Above[About(q)] :
                         /\ \/ \E p \in asked.questions : About(p) = k
                            \/ ValueOf(case, k) = Unknown
                         /\ Status(case, k) \in {"ready", "needs_policy_review"}
      BY DEF NoDeadEnd
  <2>1. PrerequisitesAsked(case, asked.questions) /\ About(q) \in InterviewKeys
      BY DEF QuestionsInv, PrerequisitesAsked
  <2>2. PICK k \in Above[About(q)] : /\ \A r \in AllRequired[k] : RequirementState(case, r) = "ready"
                                     /\ ValueOf(case, k) \in {Absent, Unknown}
      BY <2>1, FirstWaiting
  <2>3. Status(case, k) \in {"ready", "needs_policy_review"}
      BY <2>1, <2>2, AboveSelf, StatusIs
  <2>4. ValueOf(case, k) = Absent => \E p \in asked.questions : About(p) = k
      BY <2>1, <2>2 DEF PrerequisitesAsked
  <2> QED
      BY <2>2, <2>3, <2>4
<1> QED
    BY <1>1, QuestionsSound, PTL

\* What is displayed was asked, makes sense now, and was not put off; and when
\* nothing is displayed, a question that still waits does so for the user who
\* does not know or put it off, or for a person (next_question).
DisplaySound ==
    asked.fresh =>
        /\ pending # NoQuestion => /\ pending \in asked.questions /\ pending.kind \in Asking
                                   /\ Eligible(case, pending) /\ ~Deferred(case, pending)
        /\ pending = NoQuestion =>
              \A q \in asked.questions : Status(case, About(q)) = "waiting" =>
                  \E k \in Above[About(q)] :
                      \/ ValueOf(case, k) = Unknown
                      \/ \E p \in asked.questions :
                            /\ About(p) = k
                            /\ p.kind \notin Asking \/ Deferred(case, p) \/ Status(case, k) = "needs_policy_review"

\* The question on display is one to be asked now, and an empty display strands
\* no question, for any prerequisites that are not circular (next_question).
THEOREM DisplayIsSound == QuestionsSpec => []DisplaySound
<1>1. QuestionsInv /\ NoDeadEnd => DisplaySound
  <2> SUFFICES ASSUME QuestionsInv, NoDeadEnd, asked.fresh
               PROVE  DisplaySound
      BY DEF DisplaySound
  <2> DEFINE open == {q \in asked.questions : q.kind \in Asking /\ ~Deferred(case, q) /\ Eligible(case, q)}
             first == {q \in open : \E p \in asked.questions : \E r \in Require[About(p)] : r.key = q.key}
  <2>1. pending = CASE open = {} -> NoQuestion
                    [] first # {} -> CHOOSE q \in first : TRUE
                    [] first = {} /\ open # {} -> CHOOSE q \in open : TRUE
      BY DEF QuestionsInv, NextQuestion
  <2>2. first \subseteq open
      OBVIOUS
  <2>3. \A q \in open : /\ q \in asked.questions /\ q.kind \in Asking /\ q # NoQuestion
                        /\ ~Deferred(case, q) /\ Eligible(case, q)
      BY DEF NoQuestion, Asking
  <2>4. \A p \in asked.questions : p \in open \/ p.kind \notin Asking \/ Deferred(case, p) \/ ~Eligible(case, p)
      OBVIOUS
  <2> HIDE DEF open, first
  <2>5. (open = {} /\ pending = NoQuestion) \/ pending \in open
      BY <2>1, <2>2
  <2>6. ASSUME pending = NoQuestion, NEW q \in asked.questions, Status(case, About(q)) = "waiting"
        PROVE  \E k \in Above[About(q)] :
                  \/ ValueOf(case, k) = Unknown
                  \/ \E p \in asked.questions :
                        /\ About(p) = k
                        /\ p.kind \notin Asking \/ Deferred(case, p) \/ Status(case, k) = "needs_policy_review"
    <3>1. PICK k \in Above[About(q)] : /\ \/ \E p \in asked.questions : About(p) = k
                                          \/ ValueOf(case, k) = Unknown
                                       /\ Status(case, k) \in {"ready", "needs_policy_review"}
        BY <2>6 DEF NoDeadEnd
    <3>2. open = {}
        BY <2>3, <2>5, <2>6
    <3> QED
        BY <2>4, <3>1, <3>2 DEF Eligible
  <2> QED
      BY <2>3, <2>5, <2>6 DEF DisplaySound
<1> QED
    BY <1>1, QuestionsSound, NoQuestionIsStranded, PTL
=============================================================================
