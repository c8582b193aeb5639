--------------------------- MODULE KnowledgeProofs ---------------------------
(***************************************************************************)
(* What holds of the searches at the providers for any number of searches  *)
(* and slots (KnowledgeSlots), of the database package on its way for any  *)
(* documents, formats and contents (DataSync), and of the chain of         *)
(* candidate rules for any facts and values (RuleChain).                   *)
(***************************************************************************)
EXTENDS KnowledgeSlots, DataSync, RuleChain, FiniteSetTheorems, TLAPS

-----------------------------------------------------------------------------
(***************************************************************************)
(* The slots.  Besides the balance itself: a call that waits for a slot,   *)
(* and a call not made yet, have no thread.                                *)
(***************************************************************************)
States == [at : {"new", "acquire", "wait", "post", "ended"}, calls : 0 .. MaxCalls,
           late : BOOLEAN, outcome : Answers \cup Errors \cup {None}]
Threads == [at : {"none", "reading", "releasing", "ended"}, result : Answers \cup Errors \cup {None}]

LEMMA Typed ==
  TypeOK <=> /\ search \in [Searches -> States]
             /\ reader \in [Calls -> Threads]
             /\ free \in 0 .. Slots
BY DEF TypeOK, States, Threads

\* A state of a caller changed in some of its fields.
LEMMA EntryKinds == \A s : Entry(s) \in {"post", "acquire"}
BY DEF Entry

LEMMA StateChanges ==
  ASSUME NEW x \in States, NEW at \in {"new", "acquire", "wait", "post", "ended"}, NEW n \in 0 .. MaxCalls,
         NEW result \in Answers \cup Errors \cup {None}
  PROVE  /\ [x EXCEPT !.at = at] \in States
         /\ [x EXCEPT !.at = at, !.calls = n] \in States
         /\ [x EXCEPT !.at = at, !.outcome = result] \in States
         /\ [x EXCEPT !.late = TRUE] \in States
BY DEF States

LEMMA ThreadChanges ==
  ASSUME NEW x \in Threads, NEW at \in {"none", "reading", "releasing", "ended"},
         NEW result \in Answers \cup Errors \cup {None}
  PROVE  /\ [x EXCEPT !.at = at] \in Threads
         /\ [x EXCEPT !.at = at, !.result = result] \in Threads
BY DEF Threads

CallsCounted == \A s \in Searches : IF search[s].at = "new" THEN search[s].calls = 0 ELSE search[s].calls >= 1
ThreadPerCall ==
  \A s \in Searches, n \in 1 .. MaxCalls :
    n > search[s].calls \/ (n = search[s].calls /\ search[s].at = "acquire") => reader[<<s, n>>].at = "none"

SlotsInv ==
  /\ TypeOK
  /\ CallsCounted
  /\ ThreadPerCall
  /\ IsFiniteSet(Holding)
  /\ SlotsAccounted

LEMMA SlotsInit == Init => SlotsInv
<1> SUFFICES ASSUME Init PROVE SlotsInv
    OBVIOUS
<1>1. Holding = {}
    BY DEF Init, Holding
<1>2. IsFiniteSet(Holding) /\ Cardinality(Holding) = 0
    BY <1>1, FS_EmptySet
<1>3. Slots \in Nat
    BY SlotsAssumption
<1>4. SlotsAccounted
    BY <1>2, <1>3 DEF SlotsAccounted, Init
<1>5. TypeOK
    BY <1>3 DEF TypeOK, Init, MaxCalls
<1> QED
    BY <1>2, <1>4, <1>5 DEF SlotsInv, CallsCounted, ThreadPerCall, Init, MaxCalls, Calls

\* A caller that only takes note of what it has starts no thread.
LEMMA CallerKeepsSlots ==
  ASSUME SlotsInv, NEW s \in Searches,
         Begin(s) \/ Deadline(s) \/ NoSlot(s) \/ Take(s) \/ NoAnswer(s) \/ Post(s)
  PROVE  SlotsInv'
<1>1. reader' = reader /\ free' = free
    BY DEF Begin, Deadline, NoSlot, Take, NoAnswer, Post
<1>2. Holding' = Holding
    BY <1>1 DEF Holding
<1>3. IsFiniteSet(Holding)' /\ SlotsAccounted'
    BY <1>1, <1>2 DEF SlotsInv, SlotsAccounted
<1>4. /\ search \in [Searches -> States] /\ reader \in [Calls -> Threads] /\ free \in 0 .. Slots
      /\ CallsCounted /\ ThreadPerCall /\ search[s].calls \in 0 .. MaxCalls
    BY Typed DEF SlotsInv, States
<1>5. SUFFICES search' \in [Searches -> States] /\ CallsCounted' /\ ThreadPerCall'
    BY <1>1, <1>3, <1>4, Typed DEF SlotsInv, TypeOK, States, Threads
<1>6. CASE Begin(s)
  <2>1. search' = [search EXCEPT ![s] = [@ EXCEPT !.at = Entry(s), !.calls = 1]] /\ search[s].at = "new"
      BY <1>6 DEF Begin
  <2>2. [search[s] EXCEPT !.at = Entry(s), !.calls = 1] \in States
    <3>1. 1 \in 0 .. MaxCalls
        BY DEF MaxCalls
    <3> QED
        BY <1>4, <3>1, StateChanges, EntryKinds
  <2>3. search' \in [Searches -> States] /\ CallsCounted'
      BY <1>4, <2>1, <2>2, EntryKinds DEF CallsCounted, States
  <2>4. ThreadPerCall'
    <3> SUFFICES ASSUME NEW t \in Searches, NEW n \in 1 .. MaxCalls,
                        n > search'[t].calls \/ (n = search'[t].calls /\ search'[t].at = "acquire")
                 PROVE  reader[<<t, n>>].at = "none"
        BY <1>1 DEF ThreadPerCall
    <3>1. CASE t # s
        BY <1>4, <2>1, <3>1 DEF ThreadPerCall
    <3>2. CASE t = s
      <4>1. search[s].calls = 0
          BY <1>4, <2>1 DEF CallsCounted
      <4> QED
          BY <1>4, <3>2, <4>1 DEF ThreadPerCall
    <3> QED
        BY <3>1, <3>2
  <2> QED
      BY <2>3, <2>4
<1>7. CASE Deadline(s)
  <2>1. search' = [search EXCEPT ![s] = [@ EXCEPT !.late = TRUE]]
      BY <1>7 DEF Deadline
  <2>2. [search[s] EXCEPT !.late = TRUE] \in States
      BY <1>4 DEF States
  <2> QED
      BY <1>1, <1>4, <2>1, <2>2 DEF CallsCounted, ThreadPerCall, States
<1>8. CASE NoSlot(s) \/ Take(s) \/ NoAnswer(s) \/ Post(s)
  <2>1. search[s].at # "new" /\ search[s].calls >= 1 /\ Call(s) \in Calls
      BY <1>4, <1>8 DEF NoSlot, GivesUp, Take, NoAnswer, Post, CallsCounted, Calls, Call
  <2>2. PICK result \in Answers \cup Errors : Concluded(s, result)
      BY <1>4, <1>8, <2>1 DEF NoSlot, Take, NoAnswer, Post, Threads, Answers, Errors, Retryable, None
  <2>3. CASE result \in Retryable /\ search[s].calls < MaxCalls /\ ~search[s].late
    <3>1. search' = [search EXCEPT ![s] = [@ EXCEPT !.at = Entry(s), !.calls = search[s].calls + 1]]
        BY <2>2, <2>3 DEF Concluded
    <3>2. search[s].calls + 1 \in 0 .. MaxCalls
        BY <1>4, <2>3 DEF MaxCalls
    <3>3. [search[s] EXCEPT !.at = Entry(s), !.calls = search[s].calls + 1] \in States
        BY <1>4, <3>2, StateChanges, EntryKinds
    <3>4. search' \in [Searches -> States] /\ CallsCounted'
        BY <1>4, <3>1, <3>3, EntryKinds DEF CallsCounted, MaxCalls, States
    <3>5. ThreadPerCall'
      <4> SUFFICES ASSUME NEW t \in Searches, NEW n \in 1 .. MaxCalls,
                          n > search'[t].calls \/ (n = search'[t].calls /\ search'[t].at = "acquire")
                   PROVE  reader[<<t, n>>].at = "none"
          BY <1>1 DEF ThreadPerCall
      <4>1. n > search[t].calls \/ (n = search[t].calls /\ search[t].at = "acquire")
          BY <1>4, <3>1, <3>2 DEF States, MaxCalls
      <4> QED
          BY <1>4, <4>1 DEF ThreadPerCall
    <3> QED
        BY <3>4, <3>5
  <2>4. CASE ~(result \in Retryable /\ search[s].calls < MaxCalls /\ ~search[s].late)
    <3>1. search' = [search EXCEPT ![s] = [@ EXCEPT !.at = "ended", !.outcome = result]]
        BY <2>2, <2>4 DEF Concluded
    <3>2. [search[s] EXCEPT !.at = "ended", !.outcome = result] \in States
        BY <1>4, StateChanges
    <3>3. search' \in [Searches -> States] /\ CallsCounted'
        BY <1>4, <2>1, <3>1, <3>2 DEF CallsCounted, States
    <3>4. ThreadPerCall'
        BY <1>1, <1>4, <3>1 DEF ThreadPerCall, States
    <3> QED
        BY <3>3, <3>4
  <2> QED
      BY <2>3, <2>4
<1> QED
    BY <1>6, <1>7, <1>8

LEMMA AcquireKeepsSlots ==
  ASSUME SlotsInv, NEW s \in Searches, Acquire(s)
  PROVE  SlotsInv'
<1>0. /\ search \in [Searches -> States] /\ reader \in [Calls -> Threads] /\ free \in 0 .. Slots
      /\ CallsCounted /\ ThreadPerCall /\ search[s].calls \in 0 .. MaxCalls
    BY Typed DEF SlotsInv, States
<1>1. /\ search[s].at = "acquire" /\ free \in 1 .. Slots /\ free' = free - 1
      /\ reader' = [reader EXCEPT ![Call(s)] = [@ EXCEPT !.at = "reading"]]
      /\ search' = [search EXCEPT ![s] = [@ EXCEPT !.at = "wait"]]
    BY <1>0, SlotsAssumption DEF Acquire
<1>2. Call(s) \in Calls /\ reader[Call(s)].at = "none" /\ Call(s) = <<s, search[s].calls>>
    BY <1>0, <1>1 DEF CallsCounted, ThreadPerCall, Call, Calls
<1>3. Holding' = Holding \cup {Call(s)} /\ Call(s) \notin Holding
    BY <1>0, <1>1, <1>2 DEF Holding, Threads
<1>4. IsFiniteSet(Holding') /\ Cardinality(Holding') = Cardinality(Holding) + 1
    BY <1>3, FS_AddElement DEF SlotsInv
<1>5. Cardinality(Holding) \in Nat
    BY FS_CardinalityType DEF SlotsInv
<1>6. SlotsAccounted'
    BY <1>0, <1>1, <1>4, <1>5, SlotsAssumption DEF SlotsInv, SlotsAccounted
<1>7. /\ [search[s] EXCEPT !.at = "wait"] \in States
      /\ [reader[Call(s)] EXCEPT !.at = "reading"] \in Threads
    BY <1>0, <1>2 DEF States, Threads
<1>8. TypeOK'
    BY <1>0, <1>1, <1>2, <1>7, SlotsAssumption, SMTT(30) DEF TypeOK, States, Threads
<1>9. CallsCounted'
    BY <1>0, <1>1 DEF CallsCounted, States
<1>10. ASSUME NEW t \in Searches, NEW n \in 1 .. MaxCalls,
              n > search'[t].calls \/ (n = search'[t].calls /\ search'[t].at = "acquire")
       PROVE  reader'[<<t, n>>].at = "none"
  <2>1. n > search[t].calls \/ (n = search[t].calls /\ search[t].at = "acquire" /\ t # s)
      BY <1>0, <1>1, <1>10 DEF States
  <2>2. reader[<<t, n>>].at = "none" /\ <<t, n>> \in Calls
      BY <1>0, <2>1 DEF ThreadPerCall, Calls
  <2>3. <<t, n>> # <<s, search[s].calls>>
      BY <1>0, <2>1 DEF MaxCalls
  <2> QED
      BY <1>0, <1>1, <1>2, <2>2, <2>3
<1> QED
    BY <1>4, <1>6, <1>8, <1>9, <1>10 DEF SlotsInv, ThreadPerCall

LEMMA ReaderKeepsSlots ==
  ASSUME SlotsInv, NEW c \in Calls, Read(c) \/ Release(c)
  PROVE  SlotsInv'
<1>0. /\ search \in [Searches -> States] /\ reader \in [Calls -> Threads] /\ free \in 0 .. Slots
      /\ CallsCounted /\ ThreadPerCall
    BY Typed DEF SlotsInv
<1>1. PICK x \in Threads : /\ reader' = [reader EXCEPT ![c] = x] /\ search' = search
                           /\ reader[c].at # "none"
  <2>1. CASE Read(c)
    <3>1. PICK result \in Answers \cup {"UNAVAILABLE"} :
            reader' = [reader EXCEPT ![c] = [@ EXCEPT !.at = "releasing", !.result = result]]
        BY <2>1 DEF Read
    <3>2. [reader[c] EXCEPT !.at = "releasing", !.result = result] \in Threads
        BY <1>0, ThreadChanges DEF Errors, Retryable
    <3> QED
        BY <1>0, <2>1, <3>1, <3>2 DEF Read
  <2>2. CASE Release(c)
      BY <1>0, <2>2, ThreadChanges DEF Release, None
  <2> QED
      BY <2>1, <2>2
<1>2. CallsCounted' /\ ThreadPerCall' /\ reader' \in [Calls -> Threads] /\ search' \in [Searches -> States]
  <2>1. ASSUME NEW t \in Searches, NEW n \in 1 .. MaxCalls,
               n > search[t].calls \/ (n = search[t].calls /\ search[t].at = "acquire")
        PROVE  reader'[<<t, n>>].at = "none"
    <3>1. reader[<<t, n>>].at = "none" /\ <<t, n>> \in Calls
        BY <1>0, <2>1 DEF ThreadPerCall, Calls
    <3> QED
        BY <1>0, <1>1, <3>1
  <2> QED
      BY <1>0, <1>1, <2>1 DEF CallsCounted, ThreadPerCall
<1>3. CASE Read(c)
  <2>1. Holding' = Holding
      BY <1>0, <1>3, ZenonT(60) DEF Read, Holding, Threads
  <2> QED
      BY <1>0, <1>2, <1>3, <2>1 DEF Read, SlotsInv, SlotsAccounted, TypeOK, States, Threads
<1>4. CASE Release(c)
  <2>1. /\ reader[c].at = "releasing" /\ free' = free + 1
        /\ reader' = [reader EXCEPT ![c].at = "ended"]
      BY <1>4 DEF Release, Freed
  <2>2. Holding' = Holding \ {c} /\ c \in Holding
      BY <1>0, <2>1 DEF Holding, Threads
  <2>3. IsFiniteSet(Holding') /\ Cardinality(Holding') = Cardinality(Holding) - 1
      BY <2>2, FS_RemoveElement DEF SlotsInv
  <2>4. Cardinality(Holding) \in Nat /\ Cardinality(Holding') \in Nat
      BY <2>3, FS_CardinalityType DEF SlotsInv
  <2>5. SlotsAccounted' /\ free' \in 0 .. Slots
      BY <1>0, <2>1, <2>3, <2>4, SlotsAssumption DEF SlotsInv, SlotsAccounted
  <2> QED
      BY <1>2, <2>3, <2>5 DEF SlotsInv, TypeOK, States, Threads
<1> QED
    BY <1>3, <1>4

LEMMA SlotsStep == SlotsInv /\ [Next]_vars => SlotsInv'
<1> SUFFICES ASSUME SlotsInv, [Next]_vars PROVE SlotsInv'
    OBVIOUS
<1>1. CASE Next
    BY <1>1, CallerKeepsSlots, AcquireKeepsSlots, ReaderKeepsSlots DEF Next, Caller
<1>2. CASE UNCHANGED vars
    BY <1>2 DEF vars, SlotsInv, TypeOK, CallsCounted, ThreadPerCall, SlotsAccounted, Holding
<1> QED
    BY <1>1, <1>2

THEOREM SlotsSound == Spec => []SlotsInv
<1> QED
    BY SlotsInit, SlotsStep, PTL DEF Spec

\* Whatever stalls and whoever gives up, every slot is free or held by a
\* thread that works (search_evidence).
THEOREM SlotsBalance == Spec => []SlotsAccounted
<1>1. SlotsInv => SlotsAccounted
    BY DEF SlotsInv
<1> QED
    BY <1>1, SlotsSound, PTL

-----------------------------------------------------------------------------
(***************************************************************************)
(* The package: types.                                                     *)
(***************************************************************************)
DocRow == [path : Paths, hash : Contents]
Tables == [clause : [Docs -> Texts], doc : [Docs -> DocRow \cup {NoRow}], files : [Paths -> Texts]]
Tools == {Idle} \cup [at : {"fetch"}, doc : Docs, row : DocRow]
                \cup [at : {"files", "clause"}, files : [Paths -> Texts], clause : [Docs -> Texts]]
Folders == [raw : [Paths -> Texts], clause : [Docs -> Texts], doc : [Docs -> DocRow \cup {NoRow}],
            files : [Paths -> Texts], tool : Tools, fetches : Nat]
Table == [Docs -> Texts] \cup [Docs -> DocRow \cup {NoRow}] \cup [Paths -> Texts]
Uploads == [at : {"idle", "list", "objects", "done"}, resume : BOOLEAN, reconcile : BOOLEAN, alone : BOOLEAN,
            wanted : SUBSET Paths, puts : SUBSET Paths, drops : SUBSET Paths, staged : Seq(Table), count : Nat]
Pulls == [at : {"idle", "tables", "objects"}, snapshot : Tables \cup {NoTable}, published : 0 .. Len(Order),
          listed : SUBSET Paths, todo : SUBSET Paths, moved : BOOLEAN, count : Nat]
Targets == [raw : [Paths -> Texts], clause : [Docs -> Texts] \cup {NoTable},
            doc : [Docs -> DocRow \cup {NoRow}] \cup {NoTable}, files : [Paths -> Texts] \cup {NoTable}, complete : BOOLEAN]

FolderOK == folder \in Folders
RemoteOK == remote \in [tables : Tables, bucket : [Paths -> Texts]] /\ versions \subseteq Tables /\ remote.tables \in versions

\* Tables are staged in their order, of one reading each, when no object is left to put or to drop.
StagedOK ==
  /\ upload \in Uploads /\ Len(upload.staged) <= Len(Order)
  /\ 1 <= Len(upload.staged) => upload.staged[1] \in [Docs -> Texts]
  /\ 2 <= Len(upload.staged) => upload.staged[2] \in [Docs -> DocRow \cup {NoRow}]
  /\ 3 <= Len(upload.staged) => upload.staged[3] \in [Paths -> Texts]
  /\ Len(upload.staged) # 0 => upload.at = "objects" /\ upload.puts \cup upload.drops = {}

LEMMA TableNamesAre ==
  /\ Order = <<"clause", "doc", "files">> /\ Len(Order) = 3 /\ DOMAIN Order = 1 .. 3
  /\ TableNames = {"clause", "doc", "files"}
BY DEF Order, TableNames

LEMMA RowsTyped ==
  ASSUME NEW x, x.clause \in [Docs -> Texts], x.doc \in [Docs -> DocRow \cup {NoRow}], x.files \in [Paths -> Texts]
  PROVE  Rows(x) \in Tables
<1>1. Rows(x) = [t \in {"clause", "doc", "files"} |-> x[t]]
    BY TableNamesAre DEF Rows
<1> QED
    BY <1>1 DEF Tables

LEMMA FolderTyped ==
  ASSUME FolderOK, [SyncNext]_syncVars
  PROVE  FolderOK'
<1> USE DEF FolderOK
<1>1. CASE Maintainer
  <2>1. ASSUME NEW d \in Docs, NEW s \in Suffixes, NEW c \in Contents, FetchFile(d, s, c)
        PROVE  FolderOK'
    <3> DEFINE tool == [at |-> "fetch", doc |-> d, row |-> [path |-> <<d, s>>, hash |-> c]]
    <3>1. tool \in Tools
        BY DEF Tools, DocRow, Paths
    <3>2. [folder.raw EXCEPT ![<<d, s>>] = c] \in [Paths -> Texts]
        BY DEF Folders, Paths, Texts
    <3>3. folder' = [folder EXCEPT !.raw = [folder.raw EXCEPT ![<<d, s>>] = c], !.fetches = folder.fetches + 1, !.tool = tool]
        BY <2>1 DEF FetchFile
    <3>4. folder.fetches + 1 \in Nat
        BY DEF Folders
    <3> HIDE DEF tool
    <3> QED
        BY <3>1, <3>2, <3>3, <3>4 DEF Folders
  <2>2. CASE FetchRow
    <3>1. folder.tool.doc \in Docs /\ folder.tool.row \in DocRow
        BY <2>2 DEF FetchRow, Folders, Tools, Idle
    <3> QED
        BY <2>2, <3>1 DEF FetchRow, Folders, Tools
  <2>3. CASE BuildReads
    <3>1. \A d \in Docs : HasRow(folder, d) => folder.doc[d].path \in Paths
        BY DEF Folders, HasRow, DocRow
    <3>2. Materialized \in Tools
        BY <3>1 DEF Materialized, Tools, Folders, Original
    <3> QED
        BY <2>3, <3>2 DEF BuildReads, Folders
  <2>4. CASE BuildFiles
    <3>1. folder.tool \in [at : {"files", "clause"}, files : [Paths -> Texts], clause : [Docs -> Texts]]
        BY <2>4 DEF BuildFiles, Folders, Tools, Idle
    <3>2. [folder.tool EXCEPT !.at = "clause"] \in Tools
        BY <3>1 DEF Tools
    <3>3. folder' = [folder EXCEPT !.files = folder.tool.files, !.tool = [folder.tool EXCEPT !.at = "clause"]]
        BY <2>4 DEF BuildFiles
    <3> QED
        BY <3>1, <3>2, <3>3 DEF Folders
  <2>5. CASE BuildClauses
    <3>1. folder.tool \in [at : {"files", "clause"}, files : [Paths -> Texts], clause : [Docs -> Texts]]
        BY <2>5 DEF BuildClauses, Folders, Tools, Idle
    <3> QED
        BY <2>5, <3>1 DEF BuildClauses, Folders, Tools
  <2>6. CASE ToolStops
      BY <2>6 DEF ToolStops, Folders, Tools
  <2> QED
      BY <1>1, <2>1, <2>2, <2>3, <2>4, <2>5, <2>6 DEF Maintainer
<1>2. CASE Uploader
    BY <1>2 DEF Uploader, StartUpload, ListBucket, PutObject, DropObject, StageTable, CommitTables, UploadFails, UploadKept
<1>3. CASE Puller
    BY <1>3 DEF Puller, StartPull, PublishTable, ListObjects, Download, FinishPull, PullFails, PullKept
<1>4. CASE UNCHANGED syncVars
    BY <1>4 DEF syncVars
<1> QED
    BY <1>1, <1>2, <1>3, <1>4 DEF SyncNext
-----------------------------------------------------------------------------
(***************************************************************************)
(* What a pull has published so far.                                       *)
(***************************************************************************)
Readable == versions \cup {NoRows}
PullOK ==
  /\ pull \in Pulls /\ target \in Targets
  /\ pull.at = "tables" =>
       /\ pull.snapshot \in Readable
       /\ \A i \in 1 .. pull.published : target[Order[i]] = pull.snapshot[Order[i]]
  /\ pull.at = "objects" => Rows(target) \in Readable
  /\ PulledWhole

\* What an upload has done so far, if nobody else wrote to the folder.
UploadOK ==
  /\ upload.at \in {"list", "objects"} /\ upload.alone =>
       upload.wanted = Wanted(folder) /\ \A o \in upload.wanted : folder.raw[o] # Absent
  /\ upload.at = "objects" /\ upload.alone =>
       /\ upload.puts \subseteq upload.wanted /\ upload.drops \cap upload.wanted = {}
       /\ Names(remote.bucket) \subseteq upload.wanted \cup upload.drops
       /\ ~upload.resume => \A o \in upload.wanted \ upload.puts : remote.bucket[o] = folder.raw[o]
       /\ \A i \in 1 .. Len(upload.staged) : upload.staged[i] = folder[Order[i]]
  /\ UploadExact

SyncInv == FolderOK /\ RemoteOK /\ StagedOK /\ PullOK /\ UploadOK

-----------------------------------------------------------------------------
(***************************************************************************)
(* The upload.                                                             *)
(***************************************************************************)
\* A tool of the maintainer or a pull leaves the remote alone; an upload
\* leaves both folders alone.
LEMMA Frames ==
  /\ Maintainer => UNCHANGED <<remote, pull, target, versions>> /\ upload' = [upload EXCEPT !.alone = FALSE]
  /\ Uploader => UNCHANGED <<folder, target>>
  /\ Puller => UNCHANGED <<folder, upload, remote, versions>>
<1>1. Uploader => UNCHANGED <<folder, target>>
    BY DEF Uploader, StartUpload, ListBucket, PutObject, DropObject, StageTable, CommitTables, UploadFails, UploadKept
<1>2. Puller => UNCHANGED <<folder, upload, remote, versions>>
    BY DEF Puller, StartPull, PublishTable, ListObjects, Download, FinishPull, PullFails, PullKept
<1> QED
    BY <1>1, <1>2, SMTT(30) DEF Maintainer

LEMMA StagedGrows ==
  ASSUME FolderOK, StagedOK, NEW t, Len(upload.staged) < 3, t = Order[Len(upload.staged) + 1],
         upload.at = "objects", upload.puts \cup upload.drops = {},
         upload' = [upload EXCEPT !.staged = Append(upload.staged, folder[t])]
  PROVE  StagedOK'
<1>1. upload \in Uploads /\ upload.staged \in Seq(Table) /\ Len(upload.staged) \in Nat
    BY DEF StagedOK, Uploads
<1>2. Len(upload.staged) \in {0, 1, 2}
  <2>1. \A n \in Nat : n < 3 => n \in {0, 1, 2}
      OBVIOUS
  <2> QED
      BY <1>1, <2>1, Zenon
<1>3. folder.clause \in [Docs -> Texts] /\ folder.doc \in [Docs -> DocRow \cup {NoRow}] /\ folder.files \in [Paths -> Texts]
    BY DEF FolderOK, Folders
<1>4. t \in TableNames /\ folder[t] \in Table
    BY <1>2, <1>3, TableNamesAre DEF Table
<1> DEFINE new == Append(upload.staged, folder[t])
<1>5. new \in Seq(Table) /\ Len(new) = Len(upload.staged) + 1 /\ new[Len(upload.staged) + 1] = folder[t]
      /\ \A i \in 1 .. Len(upload.staged) : new[i] = upload.staged[i]
    BY <1>1, <1>4
<1>6. upload'.staged = new /\ upload'.at = "objects" /\ upload'.puts \cup upload'.drops = {}
    BY <1>1 DEF Uploads
<1>7. upload' \in Uploads
    BY <1>1, <1>5 DEF Uploads
<1> HIDE DEF new
<1>8. /\ 1 <= Len(new) => new[1] \in [Docs -> Texts]
      /\ 2 <= Len(new) => new[2] \in [Docs -> DocRow \cup {NoRow}]
      /\ 3 <= Len(new) => new[3] \in [Paths -> Texts]
  <2>1. /\ 1 <= Len(upload.staged) => upload.staged[1] \in [Docs -> Texts]
        /\ 2 <= Len(upload.staged) => upload.staged[2] \in [Docs -> DocRow \cup {NoRow}]
      BY DEF StagedOK
  <2>2. CASE Len(upload.staged) = 0
      BY <1>3, <1>5, <2>2, TableNamesAre
  <2>3. CASE Len(upload.staged) = 1
    <3>1. t = "doc" /\ new[2] = folder.doc /\ new[1] = upload.staged[1]
        BY <1>5, <2>3, TableNamesAre
    <3> QED
        BY <1>3, <1>5, <2>1, <2>3, <3>1
  <2>4. CASE Len(upload.staged) = 2
    <3>1. t = "files" /\ new[3] = folder.files /\ new[1] = upload.staged[1] /\ new[2] = upload.staged[2]
        BY <1>5, <2>4, TableNamesAre
    <3> QED
        BY <1>3, <1>5, <2>1, <2>4, <3>1
  <2> QED
      BY <1>2, <2>2, <2>3, <2>4
<1> QED
    BY <1>1, <1>2, <1>5, <1>6, <1>7, <1>8, TableNamesAre DEF StagedOK

LEMMA StagedStep ==
  ASSUME FolderOK, RemoteOK, StagedOK, Uploader
  PROVE  RemoteOK' /\ StagedOK'
<1>0. UNCHANGED <<folder, target>> /\ upload \in Uploads /\ Len(Order) = 3
    BY Frames, TableNamesAre DEF StagedOK
<1>e. << >> \in Seq(Table) /\ Len(<< >>) = 0
    OBVIOUS
<1>n. NoUpload \in Uploads /\ NoUpload.staged = << >>
    BY <1>e DEF NoUpload, Uploads
<1>1. ASSUME NEW resume \in BOOLEAN, NEW reconcile \in BOOLEAN, StartUpload(resume, reconcile)
      PROVE  RemoteOK' /\ StagedOK'
  <2>1. Wanted(folder) \in SUBSET Paths /\ upload.count + 1 \in Nat
      BY <1>0 DEF Wanted, Uploads
  <2>2. upload' = [NoUpload EXCEPT !.at = "list", !.resume = resume, !.reconcile = reconcile,
                                   !.wanted = Wanted(folder), !.count = upload.count + 1]
        /\ UNCHANGED <<remote, versions>>
      BY <1>1 DEF StartUpload
  <2>3. upload' \in Uploads /\ upload'.staged = << >>
      BY <1>n, <2>1, <2>2 DEF Uploads
  <2> QED
      BY <1>0, <1>e, <2>2, <2>3 DEF RemoteOK, StagedOK
<1>2. CASE ListBucket
  <2>1. Names(remote.bucket) \in SUBSET Paths
      BY DEF Names
  <2>2. Puts(remote.bucket) \in SUBSET Paths
      BY <1>0 DEF Puts, PutsAbsent, Uploads
  <2>3. upload' \in Uploads /\ upload'.staged = upload.staged /\ UNCHANGED <<remote, versions>> /\ upload.at = "list"
      BY <1>0, <1>2, <2>1, <2>2 DEF ListBucket, Uploads
  <2> QED
      BY <1>0, <2>3 DEF RemoteOK, StagedOK
<1>3. ASSUME NEW o \in Paths, PutObject(o) \/ DropObject(o)
      PROVE  RemoteOK' /\ StagedOK'
  <2>1. folder.raw[o] \in Texts /\ Absent \in Texts
      BY DEF FolderOK, Folders, Texts
  <2>2. PICK x \in Texts : remote' = [remote EXCEPT !.bucket = [remote.bucket EXCEPT ![o] = x]]
      BY <1>3, <2>1 DEF PutObject, DropObject
  <2>3. remote.bucket \in [Paths -> Texts] /\ [remote.bucket EXCEPT ![o] = x] \in [Paths -> Texts]
      BY DEF RemoteOK
  <2>4. remote' \in [tables : Tables, bucket : [Paths -> Texts]] /\ remote'.tables = remote.tables /\ versions' = versions
      BY <1>3, <2>2, <2>3 DEF PutObject, DropObject, RemoteOK
  <2>5. upload' \in Uploads /\ upload'.staged = upload.staged /\ upload'.at = upload.at
        /\ upload.puts \cup upload.drops # {}
      BY <1>0, <1>3 DEF PutObject, DropObject, Uploads
  <2> QED
      BY <1>0, <2>4, <2>5 DEF RemoteOK, StagedOK
<1>4. ASSUME NEW t \in TableNames, StageTable(t)
      PROVE  RemoteOK' /\ StagedOK'
  <2>1. upload' = [upload EXCEPT !.staged = Append(upload.staged, folder[t])] /\ UNCHANGED <<remote, versions>>
        /\ Len(upload.staged) < 3 /\ t = Order[Len(upload.staged) + 1]
        /\ upload.at = "objects" /\ upload.puts \cup upload.drops = {}
      BY <1>0, <1>4 DEF StageTable
  <2> QED
      BY <2>1, StagedGrows DEF RemoteOK
<1>5. CASE CommitTables
  <2> DEFINE new == [t \in TableNames |-> upload.staged[CHOOSE i \in DOMAIN Order : Order[i] = t]]
  <2>1. remote' = [remote EXCEPT !.tables = new] /\ versions' = versions \cup {new}
        /\ upload' = [upload EXCEPT !.at = "done", !.staged = << >>] /\ Len(upload.staged) = 3
      BY <1>0, <1>5 DEF CommitTables
  <2>2. new = [t \in {"clause", "doc", "files"} |->
                 upload.staged[IF t = "clause" THEN 1 ELSE IF t = "doc" THEN 2 ELSE 3]]
      BY TableNamesAre
  <2>3. upload.staged[1] \in [Docs -> Texts] /\ upload.staged[2] \in [Docs -> DocRow \cup {NoRow}]
        /\ upload.staged[3] \in [Paths -> Texts]
      BY <2>1 DEF StagedOK
  <2>4. new = [clause |-> upload.staged[1], doc |-> upload.staged[2], files |-> upload.staged[3]]
      BY <2>2
  <2>5. new \in Tables
      BY <2>3, <2>4 DEF Tables
  <2>6. upload' \in Uploads /\ upload'.staged = << >>
      BY <1>0, <1>e, <2>1 DEF Uploads
  <2> HIDE DEF new
  <2> QED
      BY <1>0, <1>e, <2>1, <2>5, <2>6 DEF RemoteOK, StagedOK
<1>6. CASE UploadFails
  <2>1. upload' = [NoUpload EXCEPT !.count = upload.count] /\ upload.count \in Nat /\ UNCHANGED <<remote, versions>>
      BY <1>0, <1>6 DEF UploadFails, Uploads
  <2>2. upload' \in Uploads /\ upload'.staged = << >>
      BY <1>n, <2>1 DEF Uploads
  <2> QED
      BY <1>0, <1>e, <2>1, <2>2 DEF RemoteOK, StagedOK
<1> QED
    BY <1>1, <1>2, <1>3, <1>4, <1>5, <1>6 DEF Uploader

LEMMA UploaderExact ==
  ASSUME FolderOK, RemoteOK, StagedOK, UploadOK, Uploader
  PROVE  UploadOK'
<1>0. folder' = folder /\ Wanted(folder)' = Wanted(folder) /\ upload \in Uploads
    BY Frames DEF Wanted, StagedOK
<1>e. Len(<< >>) = 0
    OBVIOUS
<1>n. NoUpload.at = "idle" /\ NoUpload \in Uploads
    BY DEF NoUpload, Uploads
<1>1. ASSUME NEW resume \in BOOLEAN, NEW reconcile \in BOOLEAN, StartUpload(resume, reconcile)
      PROVE  UploadOK'
  <2>1. upload' = [NoUpload EXCEPT !.at = "list", !.resume = resume, !.reconcile = reconcile,
                                   !.wanted = Wanted(folder), !.count = upload.count + 1]
        /\ \A o \in Wanted(folder) : folder.raw[o] # Absent
      BY <1>1 DEF StartUpload
  <2>2. upload'.at = "list" /\ upload'.wanted = Wanted(folder)
      BY <1>n, <2>1 DEF Uploads
  <2> QED
      BY <1>0, <2>1, <2>2 DEF UploadOK, UploadExact
<1>2. CASE ListBucket
  <2>1. /\ upload.at = "list" /\ upload'.at = "objects" /\ upload'.wanted = upload.wanted
        /\ upload'.alone = upload.alone /\ upload'.resume = upload.resume /\ upload'.staged = upload.staged
        /\ upload'.puts = Puts(remote.bucket) /\ upload'.drops = Names(remote.bucket) \ upload.wanted
        /\ remote' = remote
      BY <1>0, <1>2 DEF ListBucket, Uploads
  <2>2. Len(upload.staged) \in Nat /\ ~(Len(upload.staged) # 0)
      BY <1>0, <2>1 DEF StagedOK, Uploads
  <2>3. (~upload.resume => upload'.puts = upload.wanted) /\ upload'.puts \subseteq upload.wanted
      BY <2>1 DEF Puts, PutsAbsent
  <2> QED
      BY <1>0, <2>1, <2>2, <2>3 DEF UploadOK, UploadExact
<1>3. ASSUME NEW o \in Paths, PutObject(o)
      PROVE  UploadOK'
  <2>1. /\ upload.at = "objects" /\ upload'.at = "objects" /\ upload'.wanted = upload.wanted
        /\ upload'.alone = upload.alone /\ upload'.resume = upload.resume /\ upload'.staged = upload.staged
        /\ upload'.puts = upload.puts \ {o} /\ upload'.drops = upload.drops
      BY <1>0, <1>3 DEF PutObject, Uploads
  <2>2. Len(upload.staged) \in Nat /\ ~(Len(upload.staged) # 0)
      BY <1>0, <1>3 DEF StagedOK, Uploads, PutObject
  <2>3. remote'.bucket = [remote.bucket EXCEPT ![o] = folder.raw[o]] /\ remote.bucket \in [Paths -> Texts]
        /\ o \in upload.puts
      BY <1>3 DEF PutObject, RemoteOK
  <2>4. Names(remote.bucket)' \subseteq Names(remote.bucket) \cup {o}
      BY <2>3 DEF Names
  <2>5. \A p \in Paths : remote'.bucket[p] = IF p = o THEN folder.raw[o] ELSE remote.bucket[p]
      BY <2>3
  <2>6. upload.wanted \in SUBSET Paths
      BY <1>0 DEF Uploads
  <2>7. CASE upload.alone
    <3>1. /\ upload.puts \subseteq upload.wanted /\ upload.drops \cap upload.wanted = {}
          /\ Names(remote.bucket) \subseteq upload.wanted \cup upload.drops
          /\ ~upload.resume => \A p \in upload.wanted \ upload.puts : remote.bucket[p] = folder.raw[p]
          /\ upload.wanted = Wanted(folder) /\ \A p \in upload.wanted : folder.raw[p] # Absent
        BY <2>1, <2>7 DEF UploadOK
    <3>2. upload'.puts \subseteq upload'.wanted /\ Names(remote.bucket)' \subseteq upload'.wanted \cup upload'.drops
        BY <2>1, <2>3, <2>4, <3>1
    <3>3. ~upload'.resume => \A p \in upload'.wanted \ upload'.puts : remote'.bucket[p] = folder'.raw[p]
        BY <1>0, <2>1, <2>5, <2>6, <3>1
    <3> QED
        BY <1>0, <2>1, <2>2, <3>1, <3>2, <3>3 DEF UploadOK, UploadExact
  <2>8. CASE ~upload.alone
      BY <2>1, <2>8 DEF UploadOK, UploadExact
  <2> QED
      BY <2>7, <2>8, <1>0 DEF Uploads
<1>4. ASSUME NEW o \in Paths, DropObject(o)
      PROVE  UploadOK'
  <2>1. /\ upload.at = "objects" /\ upload'.at = "objects" /\ upload'.wanted = upload.wanted
        /\ upload'.alone = upload.alone /\ upload'.resume = upload.resume /\ upload'.staged = upload.staged
        /\ upload'.puts = upload.puts /\ upload'.drops = upload.drops \ {o}
        /\ o \in upload.drops
      BY <1>0, <1>4 DEF DropObject, Uploads
  <2>2. remote'.bucket = [remote.bucket EXCEPT ![o] = Absent] /\ remote.bucket \in [Paths -> Texts]
      BY <1>4 DEF DropObject, RemoteOK
  <2>3. Names(remote.bucket)' = Names(remote.bucket) \ {o}
      BY <2>2 DEF Names
  <2>4. Len(upload.staged) \in Nat /\ ~(Len(upload.staged) # 0)
      BY <1>0, <1>4 DEF StagedOK, Uploads, DropObject
  <2> QED
      BY <1>0, <2>1, <2>2, <2>3, <2>4 DEF UploadOK, UploadExact
<1>5. ASSUME NEW t \in TableNames, StageTable(t)
      PROVE  UploadOK'
  <2> DEFINE new == Append(upload.staged, folder[t])
  <2>1. upload' = [upload EXCEPT !.staged = new] /\ remote' = remote
        /\ Len(upload.staged) < 3 /\ t = Order[Len(upload.staged) + 1] /\ upload.at = "objects"
      BY <1>5, TableNamesAre DEF StageTable
  <2>2. /\ upload'.at = "objects" /\ upload'.wanted = upload.wanted
        /\ upload'.alone = upload.alone /\ upload'.resume = upload.resume /\ upload'.staged = new
        /\ upload'.puts = upload.puts /\ upload'.drops = upload.drops
      BY <1>0, <2>1 DEF Uploads
  <2>3. upload.staged \in Seq(Table) /\ folder[t] \in Table
    <3>1. folder.clause \in [Docs -> Texts] /\ folder.doc \in [Docs -> DocRow \cup {NoRow}] /\ folder.files \in [Paths -> Texts]
        BY DEF FolderOK, Folders
    <3> QED
        BY <1>0, <3>1, TableNamesAre DEF Table, Uploads
  <2>4. Len(new) = Len(upload.staged) + 1 /\ Len(upload.staged) \in Nat /\ new[Len(upload.staged) + 1] = folder[t]
        /\ \A i \in 1 .. Len(upload.staged) : new[i] = upload.staged[i]
      BY <2>3
  <2> HIDE DEF new
  <2>5. \A i \in 1 .. Len(new) : i \in 1 .. Len(upload.staged) \/ i = Len(upload.staged) + 1
      BY <2>4
  <2>6. (\A i \in 1 .. Len(upload.staged) : upload.staged[i] = folder[Order[i]])
          => \A i \in 1 .. Len(new) : new[i] = folder[Order[i]]
      BY <2>1, <2>4, <2>5
  <2> QED
      BY <1>0, <2>1, <2>2, <2>6 DEF UploadOK, UploadExact
<1>6. CASE CommitTables
  <2> DEFINE new == [t \in TableNames |-> upload.staged[CHOOSE i \in DOMAIN Order : Order[i] = t]]
  <2>1. remote' = [remote EXCEPT !.tables = new] /\ Len(upload.staged) = 3
        /\ upload' = [upload EXCEPT !.at = "done", !.staged = << >>]
      BY <1>6, TableNamesAre DEF CommitTables
  <2>2. /\ upload'.at = "done" /\ upload'.alone = upload.alone /\ upload'.resume = upload.resume
        /\ remote'.tables = new /\ remote'.bucket = remote.bucket
      BY <1>0, <2>1 DEF Uploads, RemoteOK
  <2>3. upload.at = "objects" /\ upload.puts = {} /\ upload.drops = {}
      BY <2>1 DEF StagedOK
  <2>4. CASE upload.alone /\ ~upload.resume
    <3>1. /\ Names(remote.bucket) \subseteq Wanted(folder) /\ upload.wanted = Wanted(folder)
          /\ \A o \in Wanted(folder) : remote.bucket[o] = folder.raw[o] /\ folder.raw[o] # Absent
          /\ \A i \in 1 .. 3 : upload.staged[i] = folder[Order[i]]
        BY <2>1, <2>3, <2>4 DEF UploadOK
    <3>2. Names(remote.bucket) = Wanted(folder)
        BY <3>1 DEF Names, Wanted
    <3>3. new = Rows(folder)
        BY <3>1, TableNamesAre DEF Rows
    <3>4. Names(remote.bucket)' = Names(remote.bucket) /\ Rows(folder)' = Rows(folder)
        BY <1>0, <2>2 DEF Names, Rows
    <3> HIDE DEF new
    <3> QED
        BY <1>0, <2>2, <3>1, <3>2, <3>3, <3>4 DEF UploadOK, UploadExact, Verified
  <2>5. CASE ~(upload.alone /\ ~upload.resume)
      BY <2>2, <2>5 DEF UploadOK, UploadExact
  <2> QED
      BY <2>4, <2>5
<1>7. CASE UploadFails
  <2>1. upload'.at = "idle"
      BY <1>n, <1>7 DEF UploadFails, Uploads
  <2> QED
      BY <2>1 DEF UploadOK, UploadExact
<1> QED
    BY <1>1, <1>2, <1>3, <1>4, <1>5, <1>6, <1>7 DEF Uploader

-----------------------------------------------------------------------------
(***************************************************************************)
(* The pull.                                                               *)
(***************************************************************************)
\* Tables without a row are tables.
LEMMA NoRowsTyped == NoRows \in Tables
BY DEF NoRows, Tables, Texts

\* Rows compares what the folder holds under the three names.
LEMMA RowsSame ==
  ASSUME NEW x, NEW y \in Tables
  PROVE  Rows(x) = y <=> x.clause = y.clause /\ x.doc = y.doc /\ x.files = y.files
<1>1. Rows(x) = [t \in {"clause", "doc", "files"} |-> x[t]]
    BY TableNamesAre DEF Rows
<1>2. y = [t \in {"clause", "doc", "files"} |-> y[t]]
    BY DEF Tables
<1> QED
    BY <1>1, <1>2

\* What the uploader does to a pull at work is to mark it as overtaken, or to
\* leave one that has no table yet nothing to read.
LEMMA UploaderPull ==
  ASSUME Uploader, pull \in Pulls
  PROVE  /\ pull' \in Pulls /\ pull'.at = pull.at /\ pull'.published = pull.published
         /\ pull'.snapshot = pull.snapshot \/ (pull'.snapshot = NoRows /\ ~TablesLocked)
         /\ versions \subseteq versions'
<1>1. \/ pull' = pull \/ \E b \in BOOLEAN : pull' = [pull EXCEPT !.moved = b]
      \/ pull' = [pull EXCEPT !.snapshot = NoRows] /\ ~TablesLocked
  <2>1. ASSUME NEW o \in Paths, Touched(o) PROVE \E b \in BOOLEAN : pull' = [pull EXCEPT !.moved = b]
      BY <2>1 DEF Touched, Pulls
  <2>2. CASE CommitTables
      BY <2>2 DEF CommitTables, Replaced
  <2> QED
      BY <2>1, <2>2 DEF Uploader, StartUpload, ListBucket, PutObject, DropObject, StageTable, UploadFails, UploadKept
<1>2. versions \subseteq versions'
    BY DEF Uploader, StartUpload, ListBucket, PutObject, DropObject, StageTable, CommitTables, UploadFails
<1>3. CASE pull' = pull \/ \E b \in BOOLEAN : pull' = [pull EXCEPT !.moved = b]
    BY <1>2, <1>3, SMTT(30) DEF Pulls
<1>4. CASE pull' = [pull EXCEPT !.snapshot = NoRows] /\ ~TablesLocked
    BY <1>2, <1>4, NoRowsTyped, SMTT(30) DEF Pulls
<1> QED
    BY <1>1, <1>3, <1>4

LEMMA PublishedIs ==
  ASSUME NEW old, NEW none, NEW new, MayPublish(old, none, new)
  PROVE  Published(old, none, new) = new
BY DEF MayPublish, Published

\* With nothing to hold, all tables are the empty one.
LEMMA OnlyEmpty ==
  ASSUME NEW X, NEW Y, NEW f \in [X -> Y], NEW g \in [X -> Y], f = NoTable
  PROVE  g = f
<1>1. DOMAIN f = {}
    BY DEF NoTable
<1> QED
    BY <1>1

\* A table that is published is the snapshot's, and changes no table of a complete target.
LEMMA TableKept ==
  ASSUME PullOK, RemoteOK, NEW t \in TableNames, PublishTable(t)
  PROVE  /\ target' \in Targets /\ target'.raw = target.raw /\ target'.complete = target.complete
         /\ target'[t] = pull.snapshot[t]
         /\ \A u \in TableNames : u # t => target'[u] = target[u]
         /\ target.complete => \A u \in TableNames : target'[u] = target[u]
<1>1. pull.snapshot \in Tables /\ target \in Targets
    BY NoRowsTyped DEF PullOK, RemoteOK, PublishTable, Readable
<1>2. target' = [target EXCEPT ![t] = pull.snapshot[t]]
    BY PublishedIs DEF PublishTable
<1>3. /\ target' \in Targets /\ target'.raw = target.raw /\ target'.complete = target.complete
      /\ target'[t] = pull.snapshot[t]
      /\ \A u \in TableNames : u # t => target'[u] = target[u]
  <2>1. CASE t = "clause"
    <3>1. pull.snapshot.clause \in [Docs -> Texts] /\ target' = [target EXCEPT !.clause = pull.snapshot.clause]
        BY <1>1, <1>2, <2>1 DEF Tables
    <3> QED
        BY <1>1, <2>1, <3>1, TableNamesAre DEF Targets
  <2>2. CASE t = "doc"
    <3>1. pull.snapshot.doc \in [Docs -> DocRow \cup {NoRow}] /\ target' = [target EXCEPT !.doc = pull.snapshot.doc]
        BY <1>1, <1>2, <2>2 DEF Tables
    <3> QED
        BY <1>1, <2>2, <3>1, TableNamesAre DEF Targets
  <2>3. CASE t = "files"
    <3>1. pull.snapshot.files \in [Paths -> Texts] /\ target' = [target EXCEPT !.files = pull.snapshot.files]
        BY <1>1, <1>2, <2>3 DEF Tables
    <3> QED
        BY <1>1, <2>3, <3>1, TableNamesAre DEF Targets
  <2> QED
      BY <2>1, <2>2, <2>3, TableNamesAre
<1>4. ASSUME target.complete PROVE target'[t] = target[t]
  <2>1. target[t] = NoTable \/ target[t] = pull.snapshot[t]
      BY DEF PublishTable, MayPublish
  <2>2. Rows(target) \in Tables
      BY <1>4, NoRowsTyped DEF PullOK, PulledWhole, RemoteOK
  <2>3. target.clause \in [Docs -> Texts] /\ target.doc \in [Docs -> DocRow \cup {NoRow}] /\ target.files \in [Paths -> Texts]
      BY <2>2, TableNamesAre DEF Rows, Tables
  <2>4. PICK X, Y : target[t] \in [X -> Y] /\ pull.snapshot[t] \in [X -> Y]
    <3>1. CASE t = "clause"
        BY <1>1, <2>3, <3>1 DEF Tables
    <3>2. CASE t = "doc"
        BY <1>1, <2>3, <3>2 DEF Tables
    <3>3. CASE t = "files"
        BY <1>1, <2>3, <3>3 DEF Tables
    <3> QED
        BY <3>1, <3>2, <3>3, TableNamesAre
  <2>5. target[t] = NoTable => pull.snapshot[t] = target[t]
      BY <2>4, OnlyEmpty
  <2> QED
      BY <1>3, <2>1, <2>5
<1> QED
    BY <1>3, <1>4

LEMMA PullerWhole ==
  ASSUME RemoteOK, PullOK, Puller
  PROVE  PullOK'
<1>0. /\ versions' = versions /\ remote' = remote /\ pull \in Pulls /\ target \in Targets
      /\ Readable' = Readable /\ Readable \subseteq Tables /\ remote.tables \in Readable /\ Len(Order) = 3
      /\ Readable = versions \cup {NoRows}
    BY Frames, TableNamesAre, NoRowsTyped DEF RemoteOK, PullOK, Readable, NoRows
<1>n. NoPull \in Pulls /\ NoPull.at = "idle"
    BY <1>0 DEF NoPull, Pulls
<1>1. CASE StartPull
  <2>1. pull' = [NoPull EXCEPT !.at = "tables", !.snapshot = remote.tables, !.count = pull.count + 1] /\ target' = target
      BY <1>1 DEF StartPull
  <2>2. pull.count + 1 \in Nat /\ remote.tables \in Tables \cup {NoTable} /\ NoPull.published = 0
      BY <1>0 DEF Pulls, NoPull
  <2>3. pull' \in Pulls /\ pull'.at = "tables" /\ pull'.snapshot = remote.tables /\ pull'.published = 0
      BY <1>n, <2>1, <2>2 DEF Pulls
  <2>4. PulledWhole'
      BY <1>0, <2>1 DEF PullOK, PulledWhole, NoRows, Rows, IndexHolds
  <2> QED
      BY <1>0, <2>1, <2>3, <2>4 DEF PullOK
<1>2. ASSUME NEW t \in TableNames, PublishTable(t)
      PROVE  PullOK'
  <2>1. pull.at = "tables" /\ pull.published < 3 /\ t = Order[pull.published + 1]
        /\ pull' = [pull EXCEPT !.published = pull.published + 1]
      BY <1>0, <1>2 DEF PublishTable
  <2>2. pull.published \in 0 .. 3 /\ pull.published + 1 \in 1 .. 3
      BY <1>0, <2>1 DEF Pulls
  <2>3. pull' \in Pulls /\ pull'.at = "tables" /\ pull'.published = pull.published + 1 /\ pull'.snapshot = pull.snapshot
      BY <1>0, <2>1, <2>2 DEF Pulls
  <2>4. /\ target' \in Targets /\ target'.raw = target.raw /\ target'.complete = target.complete
        /\ target'[t] = pull.snapshot[t]
        /\ \A u \in TableNames : u # t => target'[u] = target[u]
        /\ target.complete => \A u \in TableNames : target'[u] = target[u]
      BY <1>2, TableKept
  <2>5. pull.snapshot \in Readable /\ \A i \in 1 .. pull.published : target[Order[i]] = pull.snapshot[Order[i]]
      BY <2>1 DEF PullOK
  <2>6. ASSUME NEW i \in 1 .. pull'.published PROVE target'[Order[i]] = pull'.snapshot[Order[i]]
    <3>1. Order[i] \in TableNames /\ (i = pull.published + 1 \/ i \in 1 .. pull.published)
        BY <2>2, <2>3, TableNamesAre
    <3> QED
        BY <2>1, <2>3, <2>4, <2>5, <3>1
  <2>7. PulledWhole'
    <3>1. target.complete => Rows(target)' = Rows(target) /\ target'.files = target.files
        BY <2>4, TableNamesAre DEF Rows
    <3> QED
        BY <1>0, <2>4, <3>1 DEF PullOK, PulledWhole, NoRows, IndexHolds
  <2> QED
      BY <1>0, <2>3, <2>4, <2>5, <2>6, <2>7 DEF PullOK
<1>3. CASE ListObjects
  <2>1. pull' = [pull EXCEPT !.at = "objects", !.snapshot = NoTable, !.listed = Names(remote.bucket),
                             !.todo = Names(remote.bucket)]
        /\ target' = target /\ pull.at = "tables" /\ pull.published = 3
      BY <1>0, <1>3 DEF ListObjects
  <2>2. Names(remote.bucket) \in SUBSET Paths
      BY DEF Names
  <2>3. pull' \in Pulls /\ pull'.at = "objects"
      BY <1>0, <2>1, <2>2 DEF Pulls
  <2>4. pull.snapshot \in Readable /\ \A i \in 1 .. 3 : target[Order[i]] = pull.snapshot[Order[i]]
      BY <2>1 DEF PullOK
  <2>5. pull.snapshot \in Tables /\ target.clause = pull.snapshot.clause /\ target.doc = pull.snapshot.doc
        /\ target.files = pull.snapshot.files
      BY <1>0, <2>4, TableNamesAre
  <2>6. Rows(target) \in Readable
      BY <2>4, <2>5, RowsSame
  <2>7. PulledWhole' /\ Rows(target)' = Rows(target)
      BY <1>0, <2>1 DEF PullOK, PulledWhole, NoRows, Rows, IndexHolds
  <2> QED
      BY <1>0, <2>1, <2>3, <2>6, <2>7 DEF PullOK
<1>4. ASSUME NEW o \in Paths, Download(o)
      PROVE  PullOK'
  <2>1. /\ pull.at = "objects" /\ pull' = [pull EXCEPT !.todo = pull.todo \ {o}]
        /\ target' = [target EXCEPT !.raw = [target.raw EXCEPT ![o] = remote.bucket[o]]]
        /\ target.raw[o] \in {Absent, remote.bucket[o]}
      BY <1>4, PublishedIs DEF Download, MayPublish
  <2>2. remote.bucket[o] \in Texts /\ target.raw \in [Paths -> Texts]
      BY <1>0 DEF RemoteOK, Targets
  <2>3. pull' \in Pulls /\ pull'.at = "objects"
      BY <1>0, <2>1 DEF Pulls
  <2>4. [target.raw EXCEPT ![o] = remote.bucket[o]] \in [Paths -> Texts]
      BY <2>2
  <2>5. /\ target' \in Targets /\ target'.raw = [target.raw EXCEPT ![o] = remote.bucket[o]]
        /\ target'.complete = target.complete
        /\ target'.clause = target.clause /\ target'.doc = target.doc /\ target'.files = target.files
      BY <1>0, <2>1, <2>4 DEF Targets
  <2>6. Rows(target)' = Rows(target)
      BY <2>5, TableNamesAre DEF Rows
  <2>7. IndexHolds => IndexHolds'
      BY <2>1, <2>2, <2>5 DEF IndexHolds
  <2> QED
      BY <1>0, <2>1, <2>3, <2>5, <2>6, <2>7 DEF PullOK, PulledWhole, NoRows
<1>5. CASE FinishPull
  <2>1. /\ pull.at = "objects" /\ IndexHolds /\ target' = [target EXCEPT !.complete = TRUE]
        /\ pull' = [NoPull EXCEPT !.count = pull.count]
      BY <1>5 DEF FinishPull
  <2>2. pull' \in Pulls /\ pull'.at = "idle"
      BY <1>0, <1>n, <2>1 DEF Pulls
  <2>3. /\ target' \in Targets /\ target'.raw = target.raw /\ target'.clause = target.clause
        /\ target'.doc = target.doc /\ target'.files = target.files
      BY <1>0, <2>1 DEF Targets
  <2>4. Rows(target)' = Rows(target) /\ IndexHolds'
      BY <2>1, <2>3, TableNamesAre DEF Rows, IndexHolds
  <2> QED
      BY <1>0, <2>1, <2>2, <2>3, <2>4 DEF PullOK, PulledWhole, NoRows
<1>6. CASE PullFails
  <2>1. pull' = [NoPull EXCEPT !.count = pull.count] /\ target' = target /\ pull.count \in Nat
      BY <1>0, <1>6 DEF PullFails, Pulls
  <2>2. pull' \in Pulls /\ pull'.at = "idle"
      BY <1>n, <2>1 DEF Pulls
  <2>3. PulledWhole'
      BY <1>0, <2>1 DEF PullOK, PulledWhole, NoRows, Rows, IndexHolds
  <2> QED
      BY <1>0, <2>1, <2>2, <2>3 DEF PullOK
<1> QED
    BY <1>1, <1>2, <1>3, <1>4, <1>5, <1>6 DEF Puller

-----------------------------------------------------------------------------
LEMMA SyncInvInit == SyncInit => SyncInv
<1> SUFFICES ASSUME SyncInit PROVE SyncInv
    OBVIOUS
<1> DEFINE own == Package(Docs \X {FirstSuffix})
           all == Package(Paths)
<1>0. FirstContent \in Contents /\ FirstSuffix \in Suffixes /\ FirstContent \in Texts /\ Absent \in Texts
    BY SyncAssumption DEF Texts
<1>1. \A paths : /\ Package(paths).raw \in [Paths -> Texts] /\ Package(paths).clause \in [Docs -> Texts]
                 /\ Package(paths).doc \in [Docs -> DocRow \cup {NoRow}] /\ Package(paths).files \in [Paths -> Texts]
    BY <1>0 DEF Package, DocRow, Paths
<1> HIDE DEF own, all
<1>2. /\ folder = [raw |-> own.raw, clause |-> own.clause, doc |-> own.doc, files |-> own.files, tool |-> Idle, fetches |-> 0]
      /\ remote = [tables |-> Rows(all), bucket |-> all.raw] /\ versions = {Rows(all)}
      /\ upload = NoUpload /\ pull = NoPull
      /\ target = [raw |-> [o \in Paths |-> Absent], clause |-> NoTable, doc |-> NoTable, files |-> NoTable, complete |-> FALSE]
    BY DEF SyncInit, own, all
<1>3. FolderOK
    BY <1>1, <1>2 DEF FolderOK, Folders, Tools, own
<1>4. RemoteOK
  <2>1. Rows(all) \in Tables
      BY <1>1, RowsTyped DEF all
  <2> QED
      BY <1>1, <1>2, <2>1 DEF RemoteOK, all
<1>5. StagedOK
  <2>1. << >> \in Seq(Table) /\ Len(<< >>) = 0
      OBVIOUS
  <2> QED
      BY <1>2, <2>1, TableNamesAre DEF StagedOK, NoUpload, Uploads
<1>6. PullOK
  <2>1. pull \in Pulls
      BY <1>2, TableNamesAre DEF NoPull, Pulls
  <2>2. target \in Targets
      BY <1>0, <1>2 DEF Targets
  <2> QED
      BY <1>2, <2>1, <2>2 DEF PullOK, PulledWhole, NoPull
<1>7. UploadOK
    BY <1>2 DEF UploadOK, UploadExact, NoUpload
<1> QED
    BY <1>3, <1>4, <1>5, <1>6, <1>7 DEF SyncInv

LEMMA SyncInvStep == SyncInv /\ [SyncNext]_syncVars => SyncInv'
<1> SUFFICES ASSUME SyncInv, [SyncNext]_syncVars PROVE SyncInv'
    OBVIOUS
<1>0. FolderOK /\ RemoteOK /\ StagedOK /\ PullOK /\ UploadOK /\ FolderOK'
    BY FolderTyped DEF SyncInv
<1>1. CASE Maintainer
  <2>1. UNCHANGED <<remote, pull, target, versions>> /\ upload' = [upload EXCEPT !.alone = FALSE] /\ upload \in Uploads
      BY <1>0, <1>1, Frames DEF StagedOK
  <2>2. /\ upload' \in Uploads /\ ~upload'.alone /\ upload'.staged = upload.staged /\ upload'.at = upload.at
        /\ upload'.puts = upload.puts /\ upload'.drops = upload.drops
      BY <2>1 DEF Uploads
  <2>3. RemoteOK' /\ StagedOK' /\ UploadOK'
      BY <1>0, <2>1, <2>2 DEF RemoteOK, StagedOK, UploadOK, UploadExact
  <2>4. PullOK'
      BY <1>0, <2>1 DEF PullOK, PulledWhole, Readable, NoRows, Rows, IndexHolds
  <2> QED
      BY <1>0, <2>3, <2>4 DEF SyncInv
<1>2. CASE Uploader
  <2>1. RemoteOK' /\ StagedOK' /\ UploadOK' /\ target' = target
      BY <1>0, <1>2, StagedStep, UploaderExact, Frames
  <2>2. /\ pull' \in Pulls /\ pull'.at = pull.at /\ pull'.published = pull.published
        /\ pull'.snapshot = pull.snapshot \/ (pull'.snapshot = NoRows /\ ~TablesLocked)
        /\ Readable \subseteq Readable' /\ NoRows \in Readable' /\ NoRows' = NoRows
      BY <1>0, <1>2, UploaderPull DEF PullOK, Readable, NoRows
  <2>3. PulledWhole'
      BY <1>0, <2>1, <2>2 DEF PullOK, PulledWhole, Readable, Rows, IndexHolds
  <2>4. ASSUME pull'.at = "tables"
        PROVE  pull'.snapshot \in Readable' /\ \A i \in 1 .. pull'.published : target'[Order[i]] = pull'.snapshot[Order[i]]
    <3>1. CASE pull'.snapshot = pull.snapshot
        BY <1>0, <2>1, <2>2, <2>4, <3>1 DEF PullOK
    <3>2. CASE pull'.snapshot = NoRows /\ ~TablesLocked
      <4>1. pull'.published = 0
          BY <2>2, <2>4, <3>2 DEF TablesLocked, Pulls
      <4> QED
          BY <2>2, <3>2, <4>1
    <3> QED
        BY <2>2, <3>1, <3>2
  <2>5. PullOK'
      BY <1>0, <2>1, <2>2, <2>3, <2>4 DEF PullOK, Rows
  <2> QED
      BY <1>0, <2>1, <2>5 DEF SyncInv
<1>3. CASE Puller
  <2>1. UNCHANGED <<folder, upload, remote, versions>> /\ PullOK'
      BY <1>0, <1>3, Frames, PullerWhole
  <2>2. RemoteOK' /\ StagedOK'
      BY <1>0, <2>1 DEF RemoteOK, StagedOK
  <2>3. UploadOK'
      BY <1>0, <2>1 DEF UploadOK, UploadExact, Verified, Wanted, Names, Rows
  <2> QED
      BY <1>0, <2>1, <2>2, <2>3 DEF SyncInv
<1>4. CASE UNCHANGED syncVars
  <2>1. PullOK' /\ RemoteOK' /\ StagedOK'
      BY <1>0, <1>4 DEF syncVars, PullOK, RemoteOK, StagedOK, PulledWhole, Readable, NoRows, Rows, IndexHolds
  <2>2. UploadOK'
      BY <1>0, <1>4 DEF syncVars, UploadOK, UploadExact, Verified, Wanted, Names, Rows
  <2> QED
      BY <1>0, <2>1, <2>2 DEF SyncInv
<1> QED
    BY <1>1, <1>2, <1>3, <1>4 DEF SyncNext

THEOREM SyncSound == SyncSpec => []SyncInv
<1> QED
    BY SyncInvInit, SyncInvStep, PTL DEF SyncSpec

\* A pull that reports completion leaves one published version of the tables,
\* or no row of any, with the originals its index names, whatever uploads
\* overlap with it
\* (pull_database.py, pull).
THEOREM PullsWhole == SyncSpec => []PulledWhole
<1>1. SyncInv => PulledWhole
    BY DEF SyncInv, PullOK
<1> QED
    BY <1>1, SyncSound, PTL

\* A full upload that nobody's writing disturbed leaves the remote as the
\* folder is, and its verification passes (upload.py, upload and verify_remote).
THEOREM UploadsExact == SyncSpec => []UploadExact
<1>1. SyncInv => UploadExact
    BY DEF SyncInv, UploadOK
<1> QED
    BY <1>1, SyncSound, PTL

-----------------------------------------------------------------------------
(***************************************************************************)
(* The chain of candidate rules, for any facts, values and order of nodes  *)
(* that puts the gates first.                                              *)
(***************************************************************************)
LEMMA ConflictIsSeen ==
  ASSUME NEW x, NEW fields \in SUBSET Fields, Conflicts(x, fields) # {}
  PROVE  Conflicts(x, Fields) # {}
BY DEF Conflicts

LEMMA FieldGroups ==
  /\ Scope \subseteq Fields /\ Character \subseteq Fields /\ Receipt \subseteq Fields
  /\ SubstanceFacts \subseteq Fields /\ Participation \subseteq Fields /\ HoldingSize \subseteq Participation
  /\ "expert_decision_status" \in Fields
BY DEF Fields, Participation

\* A gate that asks for nothing and sees no conflict has decided.
LEMMA GateSays ==
  ASSUME NEW x, NEW g \in Gates
  PROVE  /\ GateOutcome(x, g).output \in {"conflict", "not_satisfied", "unknown", "satisfied"}
         /\ GateOutcome(x, g).output = "conflict" => Conflicts(x, Fields) # {}
         /\ GateOutcome(x, g).output = "unknown" => GateOutcome(x, g).blockers # {}
<1>1. CASE g = "scope"
  <2>1. GateOutcome(x, g) = EvaluateScope(x)
    BY <1>1 DEF GateOutcome
  <2>2. QED
    BY <2>1, FieldGroups, ConflictIsSeen DEF EvaluateScope, Found
<1>2. CASE g = "income_characterisation"
  <2>1. GateOutcome(x, g) = EvaluateIncome(x)
    BY <1>2 DEF GateOutcome
  <2>2. QED
    BY <2>1, FieldGroups, ConflictIsSeen DEF EvaluateIncome, Found
<1>3. CASE g = "receipt"
  <2>1. GateOutcome(x, g) = EvaluateReceipt(x)
    BY <1>3 DEF GateOutcome
  <2>2. QED
    BY <2>1, FieldGroups, ConflictIsSeen DEF EvaluateReceipt, Found
<1>4. QED
  BY <1>1, <1>2, <1>3 DEF Gates

LEMMA SubstanceSays ==
  ASSUME NEW x, NEW e \in BOOLEAN
  PROVE  LET o == EvaluateSubstance(x, e)
         IN /\ o.output \in {"conflict", "unknown", "human_review_required"}
            /\ o.output = "conflict" => Conflicts(x, Fields) # {}
            /\ o.output = "human_review_required" => e
            /\ e /\ o.output = "unknown" => o.blockers # {}
BY FieldGroups, ConflictIsSeen DEF EvaluateSubstance, Found, Escalated

LEMMA ParticipationSays ==
  ASSUME NEW x, NEW e \in BOOLEAN
  PROVE  LET o == EvaluateParticipation(x, e)
         IN /\ o.output \in {"conflict", "unknown", "condition_not_demonstrated", "human_review_required"}
            /\ o.output = "conflict" => Conflicts(x, Fields) # {}
            /\ o.output = "human_review_required" => e
BY FieldGroups, ConflictIsSeen DEF EvaluateParticipation, Found, Escalated

LEMMA NodeIs ==
  ASSUME NEW x
  PROVE  /\ \A g \in Gates : NodeOutcome(x, g) = GateOutcome(x, g)
         /\ NodeOutcome(x, "economic_substance") = EvaluateSubstance(x, Established(x, "economic_substance"))
         /\ NodeOutcome(x, "participation_basic") = EvaluateParticipation(x, Established(x, "participation_basic"))
         /\ \A n \in ChainNodes : Established(x, n) \in BOOLEAN
BY DEF NodeOutcome, Gates, Established

LEMMA LaterNodes ==
  ASSUME NEW x, NEW n \in Analytic \ Gates
  PROVE  Established(x, n) <=> \A g \in Gates : GateOutcome(x, g).output = "satisfied"
BY ChainAssumption DEF Established

LEMMA AnalyticAre == /\ Analytic = Gates \cup {"economic_substance", "participation_basic"}
                     /\ "economic_substance" \in Analytic \ Gates /\ "participation_basic" \in Analytic \ Gates
                     /\ Analytic \subseteq ChainNodes /\ Gates \subseteq Analytic
BY DEF Analytic, Gates, ChainNodes

\* What every run of the chain can answer for.
Justified(run) ==
  /\ run.terminal = "human_review_required" => \A g \in Gates : run.outputs[g] = "satisfied"
  /\ run.terminal = "stop_and_escalate" => run.blockers # {}
  /\ run.terminal = "research_only_output" /\ run.blockers = {} => \E g \in Gates : run.outputs[g] = "not_satisfied"

LEMMA RunJustified == \A x : Justified(RunChain(x))
<1> TAKE x
<1> DEFINE o == Outcomes(x)
<1> DEFINE t == Terminal(x, o)
<1>1. /\ RunChain(x).terminal = t /\ RunChain(x).blockers = Blockers(x, o, t)
      /\ \A n \in ChainNodes : RunChain(x).outputs[n] = o[n].output
  BY DEF RunChain
<1>2. \A n \in ChainNodes : o[n] = NodeOutcome(x, n)
  BY DEF Outcomes
<1>3. \A g \in Gates : o[g] = GateOutcome(x, g) /\ RunChain(x).outputs[g] = GateOutcome(x, g).output
  BY <1>1, <1>2, NodeIs, AnalyticAre
<1> DEFINE established == \A g \in Gates : GateOutcome(x, g).output = "satisfied"
<1>4. /\ o["economic_substance"] = EvaluateSubstance(x, established)
      /\ o["participation_basic"] = EvaluateParticipation(x, established)
  <2>1. /\ Established(x, "economic_substance") = established
        /\ Established(x, "participation_basic") = established
    BY LaterNodes, AnalyticAre, NodeIs
  <2>2. QED
    BY <2>1, <1>2, NodeIs, AnalyticAre
<1>5. established \in BOOLEAN
  OBVIOUS
<1> HIDE DEF o, established
<1>6. Says(o, "conflict") => Conflicts(x, Fields) # {}
  BY <1>3, <1>4, <1>5, GateSays, SubstanceSays, ParticipationSays, AnalyticAre DEF Says
<1>7. Says(o, "human_review_required") => established
  BY <1>3, <1>4, <1>5, GateSays, SubstanceSays, ParticipationSays, AnalyticAre DEF Says
<1>8. t = "human_review_required" => \A g \in Gates : RunChain(x).outputs[g] = "satisfied"
  BY <1>3, <1>7 DEF Terminal, established
<1>9. t = "stop_and_escalate" => Blockers(x, o, t) # {}
  BY <1>6 DEF Terminal, Blockers
<1>10. t = "research_only_output" /\ Blockers(x, o, t) = {} =>
         \E g \in Gates : RunChain(x).outputs[g] = "not_satisfied"
  <2> SUFFICES ASSUME t = "research_only_output", Blockers(x, o, t) = {},
                      \A g \in Gates : RunChain(x).outputs[g] # "not_satisfied"
               PROVE  FALSE
    OBVIOUS
  <2>1. /\ ~Says(o, "conflict") /\ ~Says(o, "human_review_required")
        /\ \A n \in Analytic : o[n].blockers = {}
    BY DEF Terminal, Blockers
  <2>2. \A g \in Gates : GateOutcome(x, g).output = "satisfied"
    BY <1>3, <2>1, GateSays, AnalyticAre DEF Says
  <2>3. established
    BY <2>2 DEF established
  <2>4. QED
    BY <1>4, <1>5, <2>1, <2>3, SubstanceSays, AnalyticAre DEF Says
<1>11. QED
  BY <1>1, <1>8, <1>9, <1>10 DEF Justified

-----------------------------------------------------------------------------
(***************************************************************************)
(* A fact supplied.  It changes neither what another group of facts says   *)
(* nor a decision taken without it.                                        *)
(***************************************************************************)
Supplies(x, y, f) == /\ x[f] \in {"absent", "unknown"} /\ y[f] \notin Unresolved
                     /\ \A k \in Fields : k # f => y[k] = x[k]

LEMMA ConflictsStay ==
  ASSUME NEW x, NEW y, NEW f \in Fields, Supplies(x, y, f), NEW fields \in SUBSET Fields
  PROVE  /\ Conflicts(y, fields) = Conflicts(x, fields)
         /\ Lacking(y, fields) = Lacking(x, fields) \ {f}
         /\ \A k \in fields : Resolved(x, k) => Resolved(y, k) /\ y[k] = x[k]
         /\ \A k \in fields : k # f => y[k] = x[k]
BY DEF Supplies, Conflicts, Lacking, Resolved, Unresolved

LEMMA GatesStand ==
  ASSUME NEW x, NEW y, NEW f \in Fields, Supplies(x, y, f), NEW g \in Gates,
         GateOutcome(x, g).output \in Findings
  PROVE  GateOutcome(y, g).output = GateOutcome(x, g).output
<1>1. CASE g = "scope"
  <2>1. GateOutcome(x, g) = EvaluateScope(x) /\ GateOutcome(y, g) = EvaluateScope(y)
    BY <1>1 DEF GateOutcome
  <2>2. Conflicts(x, Scope) = {} /\ Conflicts(y, Scope) = {}
    BY <2>1, ConflictsStay, FieldGroups DEF EvaluateScope, Found, Findings
  <2>3. \A k \in Scope : Resolved(x, k) => Resolved(y, k) /\ y[k] = x[k]
    BY ConflictsStay, FieldGroups
  <2>4. "no" \notin Unresolved /\ "dividend" \notin Unresolved
    BY DEF Unresolved
  <2>5. Outside(x) => Outside(y)
    BY <2>3, <2>4 DEF Outside, Resolved, Scope
  <2>6. Lacking(x, Scope) = {} => (Outside(y) <=> Outside(x)) /\ Lacking(y, Scope) = {}
    BY <2>3 DEF Outside, Lacking, Scope
  <2>7. QED
    BY <2>1, <2>2, <2>5, <2>6 DEF EvaluateScope, Found, Findings
<1>2. CASE g = "income_characterisation"
  <2>1. GateOutcome(x, g) = EvaluateIncome(x) /\ GateOutcome(y, g) = EvaluateIncome(y)
    BY <1>2 DEF GateOutcome
  <2>2. Conflicts(x, Character) = Conflicts(y, Character)
    BY ConflictsStay, FieldGroups
  <2>3. Resolved(x, "income_type") => Resolved(y, "income_type") /\ y["income_type"] = x["income_type"]
    BY ConflictsStay, FieldGroups DEF Character
  <2>4. QED
    BY <2>1, <2>2, <2>3 DEF EvaluateIncome, Found, Findings
<1>3. CASE g = "receipt"
  <2>1. GateOutcome(x, g) = EvaluateReceipt(x) /\ GateOutcome(y, g) = EvaluateReceipt(y)
    BY <1>3 DEF GateOutcome
  <2>2. Conflicts(x, Receipt) = Conflicts(y, Receipt)
    BY ConflictsStay, FieldGroups
  <2>3. Resolved(x, "receipt_location") => Resolved(y, "receipt_location") /\ y["receipt_location"] = x["receipt_location"]
    BY ConflictsStay, FieldGroups DEF Receipt
  <2>4. QED
    BY <2>1, <2>2, <2>3 DEF EvaluateReceipt, Found, Findings
<1>4. QED
  BY <1>1, <1>2, <1>3 DEF Gates

LEMMA SubstanceStands ==
  ASSUME NEW x, NEW y, NEW f \in Fields, Supplies(x, y, f), NEW d \in BOOLEAN, NEW e \in BOOLEAN, d => e,
         EvaluateSubstance(x, d).output \in Findings
  PROVE  EvaluateSubstance(y, e).output = EvaluateSubstance(x, d).output
<1>1. /\ Conflicts(x, SubstanceFacts) = Conflicts(y, SubstanceFacts)
      /\ Lacking(y, SubstanceFacts) = Lacking(x, SubstanceFacts) \ {f}
      /\ Lacking(x, SubstanceFacts) \subseteq SubstanceFacts
  BY ConflictsStay, FieldGroups DEF Lacking
<1>2. /\ Conflicts(x, SubstanceFacts) = {} /\ Lacking(x, SubstanceFacts) # SubstanceFacts /\ d
      /\ EvaluateSubstance(x, d).output = "human_review_required"
  BY DEF EvaluateSubstance, Found, Escalated, Findings
<1>3. Lacking(y, SubstanceFacts) # SubstanceFacts
  BY <1>1, <1>2
<1>4. QED
  BY <1>1, <1>2, <1>3 DEF EvaluateSubstance, Found, Escalated

LEMMA ParticipationStands ==
  ASSUME NEW x, NEW y, NEW f \in Fields, Supplies(x, y, f), NEW d \in BOOLEAN, NEW e \in BOOLEAN, d => e,
         EvaluateParticipation(x, d).output \in Findings
  PROVE  EvaluateParticipation(y, e).output = EvaluateParticipation(x, d).output
<1>1. /\ Conflicts(x, Participation) = Conflicts(y, Participation)
      /\ Lacking(y, HoldingSize) = Lacking(x, HoldingSize) \ {f}
      /\ \A k \in HoldingSize : Resolved(x, k) => y[k] = x[k]
  BY ConflictsStay, FieldGroups
<1>2. Conflicts(x, Participation) = {} /\ ThresholdsGiven /\ Lacking(x, HoldingSize) = {}
  BY DEF EvaluateParticipation, Found, Escalated, Findings
<1>3. \A k \in HoldingSize : y[k] = x[k]
  BY <1>1, <1>2 DEF Lacking
<1>4. QED
  BY <1>1, <1>2, <1>3 DEF EvaluateParticipation, Found, Escalated, Findings

LEMMA NodesStand ==
  ASSUME NEW x, NEW y, NEW f \in Fields, Supplies(x, y, f), NEW n \in Analytic,
         NodeOutcome(x, n).output \in Findings
  PROVE  NodeOutcome(y, n).output = NodeOutcome(x, n).output
<1>1. CASE n \in Gates
  BY <1>1, GatesStand, NodeIs
<1>2. \A k \in Analytic \ Gates : Established(x, k) => Established(y, k)
  <2> SUFFICES ASSUME NEW k \in Analytic \ Gates, Established(x, k), NEW g \in Gates
               PROVE  GateOutcome(y, g).output = "satisfied"
    BY LaterNodes
  <2>1. GateOutcome(x, g).output = "satisfied"
    BY LaterNodes
  <2>2. QED
    BY <2>1, GatesStand DEF Findings
<1>3. CASE n = "economic_substance"
  BY <1>2, <1>3, NodeIs, AnalyticAre, SubstanceStands
<1>4. CASE n = "participation_basic"
  BY <1>2, <1>4, NodeIs, AnalyticAre, ParticipationStands
<1>5. QED
  BY <1>1, <1>3, <1>4, AnalyticAre

-----------------------------------------------------------------------------
ChainInv ==
  /\ card \in Facts
  /\ verdict # NoVerdict => Justified(verdict.run) /\ (verdict.gate = "sufficient" => verdict.shown = verdict.run.outputs)
  /\ \A f \in Fields : file.rows[f].by = "synthetic_case_loader" => file.versions[f] = file.rows[f].fact

LEMMA ChainInvInit == ChainInit => ChainInv
<1> SUFFICES ASSUME ChainInit PROVE ChainInv
  OBVIOUS
<1>1. card \in Facts /\ verdict = NoVerdict
  BY ChainAssumption DEF ChainInit
<1>2. \A f \in Fields : file.rows[f].by # "synthetic_case_loader"
  BY DEF ChainInit, NoFact
<1>3. QED
  BY <1>1, <1>2 DEF ChainInv

LEMMA VersionsStep ==
  ASSUME ChainInv, NEW claim, NEW by \in {"synthetic_case_loader", "intake_llm"}, Persist(claim, by)
  PROVE  \A f \in Fields : file'.rows[f].by = "synthetic_case_loader" => file'.versions[f] = file'.rows[f].fact
<1>1. /\ file'.rows = Upserted(card, claim, by) /\ file'.versions = Versioned(card, claim, by)
  BY DEF Persist
<1> TAKE f \in Fields
<1> DEFINE new == Stored(card[f], claim)
<1>2. /\ file'.rows[f] = IF card[f] # "absent" /\ Differs(file.rows[f], new)
                         THEN [fact |-> new, by |-> by] ELSE file.rows[f]
      /\ file'.versions[f] = IF /\ card[f] # "absent"
                                /\ IF by = "synthetic_case_loader" THEN Differs(file.rows[f], new)
                                   ELSE file.rows[f] = NoFact
                             THEN new ELSE file.versions[f]
  BY <1>1 DEF Upserted, Versioned, Overwritten
<1>3. file.rows[f].by = "synthetic_case_loader" => file.versions[f] = file.rows[f].fact
  BY DEF ChainInv
<1> HIDE DEF new
<1>4. QED
  BY <1>2, <1>3 DEF Differs

LEMMA ChainInvStep == ChainInv /\ [ChainNext]_chainVars => ChainInv'
<1> SUFFICES ASSUME ChainInv, [ChainNext]_chainVars PROVE ChainInv'
  OBVIOUS
<1>1. ASSUME NEW claim, NEW by \in {"synthetic_case_loader", "intake_llm"}, Persist(claim, by), UNCHANGED card
      PROVE  ChainInv'
  <2>1. verdict'.run = RunChain(card) /\ verdict'.gate = "none"
    BY <1>1 DEF Persist
  <2>2. QED
    BY <1>1, <2>1, VersionsStep, RunJustified DEF ChainInv
<1>2. CASE EvaluateCase
  BY <1>1, <1>2 DEF EvaluateCase
<1>3. CASE IntakeCase
  BY <1>1, <1>3 DEF IntakeCase
<1>4. CASE Analyze
  <2> DEFINE run == RunChain(card)
  <2>1. Justified(run)
    BY RunJustified
  <2>2. run.outputs = [n \in ChainNodes |-> run.outputs[n]]
    BY DEF RunChain
  <2>3. \A found : Paused(found, run) = {} => Shown(found, run) = run.outputs
    BY <2>2 DEF Shown
  <2>4. verdict'.run = run /\ (verdict'.gate = "sufficient" => verdict'.shown = verdict'.run.outputs)
    <3> HIDE DEF run
    <3>1. \/ verdict' = [run |-> run, shown |-> run.outputs, gate |-> "none"]
          \/ \E found \in Evidence, gate \in {"sufficient", "insufficient"} :
               /\ Paused(found, run) # {} => gate = "insufficient"
               /\ verdict' = [run |-> run, shown |-> Shown(found, run), gate |-> gate]
      BY <1>4 DEF Analyze, run
    <3>2. QED
      BY <2>3, <3>1
  <2>5. UNCHANGED <<card, file>>
    BY <1>4 DEF Analyze
  <2> HIDE DEF run
  <2>6. QED
    BY <2>1, <2>4, <2>5 DEF ChainInv
<1>5. CASE ChangeFact
  <2>1. PICK f \in Fields : \E v \in ValuesOf[f] \cup Unresolved : card' = [card EXCEPT ![f] = v]
    BY <1>5 DEF ChangeFact
  <2> DEFINE values == Unresolved \cup UNION {ValuesOf[k] : k \in Fields}
  <2>2. card' \in Facts
    <3>1. PICK v \in ValuesOf[f] \cup Unresolved : card' = [card EXCEPT ![f] = v]
      BY <2>1
    <3>2. v \in values
      <4>1. CASE v \in ValuesOf[f]
        <5>1. ValuesOf[f] \in {ValuesOf[k] : k \in Fields}
          OBVIOUS
        <5>2. QED
          BY <4>1, <5>1
      <4>2. CASE v \in Unresolved
        BY <4>2
      <4>3. QED
        BY <3>1, <4>1, <4>2
    <3>3. card \in [Fields -> values] /\ \A k \in Fields : card[k] \in ValuesOf[k] \cup Unresolved
      BY DEF ChainInv, Facts
    <3> HIDE DEF values
    <3>4. card' \in [Fields -> values] /\ \A k \in Fields : card'[k] \in ValuesOf[k] \cup Unresolved
      BY <3>1, <3>2, <3>3
    <3>5. QED
      BY <3>4 DEF Facts, values
  <2>3. QED
    BY <1>5, <2>2 DEF ChangeFact, ChainInv
<1>6. CASE UNCHANGED chainVars
  BY <1>6 DEF chainVars, ChainInv
<1>7. QED
  BY <1>2, <1>3, <1>4, <1>5, <1>6 DEF ChainNext

\* What holds of a case and its rows, whoever runs the chain.
THEOREM ChainSound == ChainSpec => []ChainInv
BY ChainInvInit, ChainInvStep, PTL DEF ChainSpec

\* Every outcome can answer for what it says (run_chain).
THEOREM OutcomesAreJustified == ChainSpec => []OutcomeJustified
<1>1. ChainInv => OutcomeJustified
  BY DEF ChainInv, OutcomeJustified, Justified
<1>2. QED
  BY <1>1, ChainSound, PTL

\* The newest version of a fact the evaluation wrote is the fact (upsert_facts).
THEOREM VersionsAreNewest == ChainSpec => []VersionsFollow
<1>1. ChainInv => VersionsFollow
  BY DEF ChainInv, VersionsFollow
<1>2. QED
  BY <1>1, ChainSound, PTL

\* Supplying what was missing takes no finding back (evaluators.py).
THEOREM FindingsAreKept == ChainSpec => FindingsStand
<1>1. ASSUME ChainInv, [ChainNext]_chainVars, Supplied, NEW n \in Analytic,
             NodeOutcome(card, n).output \in Findings
      PROVE  NodeOutcome(card', n).output = NodeOutcome(card, n).output
  <2>1. PICK f \in Fields : /\ card[f] \in {"absent", "unknown"} /\ Resolved(card', f)
                            /\ card' = [card EXCEPT ![f] = card'[f]]
    BY <1>1 DEF Supplied
  <2>2. Supplies(card, card', f)
    BY <1>1, <2>1 DEF Supplies, Resolved, ChainInv, Facts
  <2>3. QED
    BY <1>1, <2>2, NodesStand
<1>2. ChainInv /\ [ChainNext]_chainVars =>
        [Supplied => \A n \in Analytic : NodeOutcome(card, n).output \in Findings =>
           NodeOutcome(card', n).output = NodeOutcome(card, n).output]_chainVars
  BY <1>1
<1>3. QED
  BY <1>2, ChainSound, PTL DEF ChainSpec, FindingsStand
=============================================================================
