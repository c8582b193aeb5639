------------------------------ MODULE DataSync ------------------------------
(***************************************************************************)
(* The database package on its way (src/database): a maintainer fetches    *)
(* originals and builds the tables in a folder (tools/fetch.py, build.py), *)
(* uploads the folder (tools/upload.py) to the remote tables and bucket,   *)
(* and someone else pulls both into a folder of his own                    *)
(* (pull_database.py).                                                     *)
(*                                                                         *)
(* Of the seven tables three matter to each other: doc names the original  *)
(* of a document with its hash, files indexes originals by path, clause    *)
(* holds the text cut from an original.  A content stands for its hash, a  *)
(* clause for the content it was cut from.                                 *)
(***************************************************************************)
EXTENDS Naturals, FiniteSets, Sequences

CONSTANTS Docs,          \* documents
          Suffixes,      \* .html, .pdf: an original may come back in another format
          Contents,      \* what an original may say
          FirstSuffix, FirstContent,            \* of the package everything starts from
          MaxFetches, MaxRuns      \* bounds of the model: fetches; uploads and pulls

Absent == "absent"
Paths == Docs \X Suffixes
Texts == Contents \cup {Absent}
NoRow == [path |-> << >>, hash |-> Absent]
Order == <<"clause", "doc", "files">>   \* the tables, as information_schema lists them
TableNames == {Order[i] : i \in DOMAIN Order}

ASSUME SyncAssumption == Absent \notin Contents /\ FirstContent \in Contents /\ FirstSuffix \in Suffixes

VARIABLES folder,    \* of the maintainer: raw files, tables, and the step a tool is at
          upload,    \* the upload at work
          remote,    \* the published tables and the bucket
          pull,      \* the pull at work
          target,    \* the folder it fills
          versions   \* history: the tables that were ever published

syncVars == <<folder, upload, remote, pull, target, versions>>

Rows(x) == [t \in TableNames |-> x[t]]
HasRow(x, d) == x.doc[d] # NoRow

----------------------------------------------------------------------------
(***************************************************************************)
(* fetch.py and build.py: each writes several files, one after the other.  *)
(***************************************************************************)
Idle == [at |-> "idle"]

\* The original is replaced first, the row that names it afterwards.
FetchFile(d, s, c) ==
  /\ folder.tool = Idle /\ folder.fetches < MaxFetches
  /\ folder' = [folder EXCEPT !.raw[<<d, s>>] = c, !.fetches = @ + 1,
                              !.tool = [at |-> "fetch", doc |-> d, row |-> [path |-> <<d, s>>, hash |-> c]]]

FetchRow ==
  /\ folder.tool.at = "fetch"
  /\ folder' = [folder EXCEPT !.doc[folder.tool.doc] = folder.tool.row, !.tool = Idle]

\* materialize_new_documents: an original is taken for changed if its index
\* row differs, or is missing though its text was cut before.
Original(d) == folder.raw[folder.doc[d].path]
SourceChanged(d) ==
  LET indexed == folder.files[folder.doc[d].path]
  IN indexed # Original(d) /\ (indexed # Absent \/ folder.clause[d] # Absent)

Materialized ==
  LET named == {d \in Docs : HasRow(folder, d)}
  IN [at |-> "files",
      files |-> [p \in Paths |-> IF \E d \in named : folder.doc[d].path = p
                                 THEN folder.raw[p] ELSE folder.files[p]],
      clause |-> [d \in Docs |-> IF d \in named /\ (SourceChanged(d) \/ folder.clause[d] = Absent)
                                 THEN Original(d) ELSE folder.clause[d]]]

BuildReads ==
  /\ folder.tool = Idle
  /\ \A d \in Docs : HasRow(folder, d) => Original(d) # Absent
  /\ Materialized.files # folder.files \/ Materialized.clause # folder.clause
  /\ folder' = [folder EXCEPT !.tool = Materialized]

BuildFiles ==
  /\ folder.tool.at = "files"
  /\ folder' = [folder EXCEPT !.files = folder.tool.files, !.tool.at = "clause"]

BuildClauses ==
  /\ folder.tool.at = "clause"
  /\ folder' = [folder EXCEPT !.clause = folder.tool.clause, !.tool = Idle]

ToolStops ==
  /\ folder.tool # Idle
  /\ folder' = [folder EXCEPT !.tool = Idle]

\* audit: no row names a file that is missing or has another hash.
Accepted(f) ==
  /\ \A d \in Docs : HasRow(f, d) => f.raw[f.doc[d].path] = f.doc[d].hash
  /\ \A p \in Paths : f.files[p] # Absent => f.raw[p] = f.files[p]
  /\ \A d \in Docs : f.clause[d] # Absent => HasRow(f, d)

Maintainer ==
  /\ \/ \E d \in Docs, s \in Suffixes, c \in Contents : FetchFile(d, s, c)
     \/ FetchRow
     \/ BuildReads \/ BuildFiles \/ BuildClauses
     \/ ToolStops
  /\ upload' = [upload EXCEPT !.alone = FALSE]
  /\ UNCHANGED <<remote, pull, target, versions>>

----------------------------------------------------------------------------
(***************************************************************************)
(* upload.py: objects first, then those that are obsolete are deleted,     *)
(* then the tables are replaced or reconciled in one transaction.          *)
(***************************************************************************)
Names(bucket) == {o \in Paths : bucket[o] # Absent}
NoUpload == [at |-> "idle", resume |-> FALSE, reconcile |-> FALSE, wanted |-> {}, puts |-> {}, drops |-> {},
             staged |-> << >>, alone |-> TRUE, count |-> 0]
UploadKept == UNCHANGED <<folder, pull, target>>

\* local_objects: the indexed files; the guides beside them never change here.
Wanted(f) == {p \in Paths : f.files[p] # Absent}

StartUpload(resume, reconcile) ==
  /\ upload.at \in {"idle", "done"} /\ upload.count + pull.count < MaxRuns
  /\ Accepted(folder)
  /\ \A o \in Wanted(folder) : folder.raw[o] # Absent
  /\ upload' = [NoUpload EXCEPT !.at = "list", !.resume = resume, !.reconcile = reconcile,
                                !.wanted = Wanted(folder), !.count = upload.count + 1]
  /\ UNCHANGED <<remote, versions>> /\ UploadKept

PutsAbsent(bucket) == upload.wanted \ Names(bucket)
Puts(bucket) == IF upload.resume THEN PutsAbsent(bucket) ELSE upload.wanted
ListBucket ==
  /\ upload.at = "list"
  /\ upload' = [upload EXCEPT !.at = "objects", !.puts = Puts(remote.bucket),
                              !.drops = Names(remote.bucket) \ upload.wanted]
  /\ UNCHANGED <<remote, versions>> /\ UploadKept

\* A pull that is reading the bucket sees the write by its new time stamp.
Touched(o) == pull' = [pull EXCEPT !.moved = @ \/ o \in pull.listed]

PutObject(o) ==
  /\ upload.at = "objects" /\ o \in upload.puts
  /\ folder.raw[o] # Absent
  /\ remote' = [remote EXCEPT !.bucket[o] = folder.raw[o]]
  /\ upload' = [upload EXCEPT !.puts = @ \ {o}]
  /\ Touched(o)
  /\ UNCHANGED <<folder, target, versions>>

DropObject(o) ==
  /\ upload.at = "objects" /\ upload.puts = {} /\ o \in upload.drops
  /\ remote' = [remote EXCEPT !.bucket[o] = Absent]
  /\ upload' = [upload EXCEPT !.drops = @ \ {o}]
  /\ Touched(o)
  /\ UNCHANGED <<folder, target, versions>>

\* A reconciliation refuses a table with keys the folder does not have.
Keys(t, table) == CASE t = "doc"    -> {d \in Docs : table[d] # NoRow}
                    [] t = "clause" -> {d \in Docs : table[d] # Absent}
                    [] t = "files"  -> {p \in Paths : table[p] # Absent}
Reconcilable(t) == Keys(t, remote.tables[t]) \subseteq Keys(t, folder[t])

\* The tables are read from the folder one after the other.
StageTable(t) ==
  /\ upload.at = "objects" /\ upload.puts \cup upload.drops = {}
  /\ Len(upload.staged) < Len(Order) /\ t = Order[Len(upload.staged) + 1]
  /\ upload.reconcile => Reconcilable(t)
  /\ upload' = [upload EXCEPT !.staged = Append(@, folder[t])]
  /\ UNCHANGED <<remote, versions>> /\ UploadKept

\* DROP SCHEMA waits for those who have counted or copied a table.  A pull that
\* has only begun its transaction finds the new tables under the names, whose
\* rows its older snapshot does not see.  An update of rows waits for nobody.
NoRows == [clause |-> [d \in Docs |-> Absent], doc |-> [d \in Docs |-> NoRow], files |-> [p \in Paths |-> Absent]]
TablesLocked == pull.at = "tables" /\ pull.published > 0
Replaced == IF pull.at = "tables" THEN [pull EXCEPT !.snapshot = NoRows] ELSE pull

CommitTables ==
  /\ Len(upload.staged) = Len(Order)
  /\ upload.reconcile \/ ~TablesLocked
  /\ LET new == [t \in TableNames |-> upload.staged[CHOOSE i \in DOMAIN Order : Order[i] = t]]
     IN /\ remote' = [remote EXCEPT !.tables = new]
        /\ versions' = versions \cup {new}
  /\ upload' = [upload EXCEPT !.at = "done", !.staged = << >>]
  /\ pull' = IF upload.reconcile THEN pull ELSE Replaced
  /\ UNCHANGED <<folder, target>>

\* A refused reconciliation, a network error, a stop: the transaction is undone.
UploadFails ==
  /\ upload.at \in {"list", "objects"}
  /\ upload' = [NoUpload EXCEPT !.count = upload.count]
  /\ UNCHANGED <<remote, versions>> /\ UploadKept

Uploader ==
  \/ \E resume, reconcile \in BOOLEAN : StartUpload(resume, reconcile)
  \/ ListBucket
  \/ \E o \in Paths : PutObject(o) \/ DropObject(o)
  \/ \E t \in TableNames : StageTable(t)
  \/ CommitTables
  \/ UploadFails

----------------------------------------------------------------------------
(***************************************************************************)
(* pull_database.py.  One repeatable-read transaction exports the tables;  *)
(* the objects are downloaded by several workers.                          *)
(***************************************************************************)
NoTable == << >>
NoPull == [at |-> "idle", snapshot |-> NoTable, published |-> 0, listed |-> {}, todo |-> {},
           moved |-> FALSE, count |-> 0]
PullKept == UNCHANGED <<folder, upload, remote, versions>>

\* The snapshot is taken by the first statement, which reads the catalogue.
StartPull ==
  /\ pull.at = "idle" /\ upload.count + pull.count < MaxRuns
  /\ pull' = [NoPull EXCEPT !.at = "tables", !.snapshot = remote.tables, !.count = pull.count + 1]
  /\ UNCHANGED target /\ PullKept

\* publish_file: a file that is there is kept, and must be the same.
PublishBesides(old, none, new) == TRUE
MayPublish(old, none, new) == old \in {none, new}
Published(old, none, new) == IF old = none THEN new ELSE old

\* Counting a table locks it until the transaction ends; then it is copied.
PublishTable(t) ==
  /\ pull.at = "tables" /\ pull.published < Len(Order) /\ t = Order[pull.published + 1]
  /\ MayPublish(target[t], NoTable, pull.snapshot[t])
  /\ target' = [target EXCEPT ![t] = Published(@, NoTable, pull.snapshot[t])]
  /\ pull' = [pull EXCEPT !.published = @ + 1]
  /\ PullKept

ListObjects ==
  /\ pull.at = "tables" /\ pull.published = Len(Order)
  /\ pull' = [pull EXCEPT !.at = "objects", !.snapshot = NoTable, !.listed = Names(remote.bucket),
                          !.todo = Names(remote.bucket)]
  /\ UNCHANGED target /\ PullKept

Download(o) ==
  /\ pull.at = "objects" /\ o \in pull.todo
  /\ remote.bucket[o] # Absent
  /\ MayPublish(target.raw[o], Absent, remote.bucket[o])
  /\ target' = [target EXCEPT !.raw[o] = Published(@, Absent, remote.bucket[o])]
  /\ pull' = [pull EXCEPT !.todo = @ \ {o}]
  /\ PullKept

Stable == Names(remote.bucket) = pull.listed /\ ~pull.moved
IndexHolds == \A p \in Paths : target.files[p] # Absent => target.raw[p] = target.files[p]

FinishPull ==
  /\ pull.at = "objects" /\ pull.todo = {}
  /\ Stable /\ IndexHolds
  /\ target' = [target EXCEPT !.complete = TRUE]
  /\ pull' = [NoPull EXCEPT !.count = pull.count]
  /\ PullKept

\* A stop, or the end of a pull in which a table or an object failed: what the
\* other workers still publish comes before.
PullFails ==
  /\ pull.at # "idle"
  /\ pull' = [NoPull EXCEPT !.count = pull.count]
  /\ UNCHANGED target /\ PullKept

Puller ==
  \/ StartPull
  \/ \E t \in TableNames : PublishTable(t)
  \/ ListObjects
  \/ \E o \in Paths : Download(o)
  \/ FinishPull
  \/ PullFails

----------------------------------------------------------------------------
\* A package that was fetched and built.  What is published is this package
\* with originals that another folder had; the target is empty.
Package(paths) ==
  LET raw == [o \in Paths |-> IF o \in paths THEN FirstContent ELSE Absent]
  IN [raw    |-> raw,
      clause |-> [d \in Docs |-> FirstContent],
      doc    |-> [d \in Docs |-> [path |-> <<d, FirstSuffix>>, hash |-> FirstContent]],
      files  |-> raw]

SyncInit ==
  LET own == Package(Docs \X {FirstSuffix})
      all == Package(Paths)
  IN /\ folder = [raw |-> own.raw, clause |-> own.clause, doc |-> own.doc, files |-> own.files,
                  tool |-> Idle, fetches |-> 0]
     /\ remote = [tables |-> Rows(all), bucket |-> all.raw]
     /\ versions = {Rows(all)}
     /\ upload = NoUpload
     /\ pull = NoPull
     /\ target = [raw |-> [o \in Paths |-> Absent], clause |-> NoTable, doc |-> NoTable,
                  files |-> NoTable, complete |-> FALSE]

SyncNext == Maintainer \/ Uploader \/ Puller
SyncSpec == SyncInit /\ [][SyncNext]_syncVars

----------------------------------------------------------------------------
\* A pull that reports completion leaves every indexed original with the
\* content its row names, and never tables of several versions: those of one
\* published version, or, if the tables were replaced between its snapshot and
\* its first count, none with a row in it; whatever uploads run meanwhile,
\* whatever earlier pulls left, and for good (pull_database.py, publish_file
\* and the checks at the end of pull).
PulledWhole ==
  target.complete =>
    /\ Rows(target) \in versions \cup {NoRows}
    /\ IndexHolds

\* verify_remote compares names and rows.
Verified == Names(remote.bucket) = Wanted(folder) /\ remote.tables = Rows(folder)

\* After a full upload while nobody wrote to the folder, the remote is the
\* folder: every object has its content, nothing obsolete is left, and the
\* verification passes, also after uploads that stopped half-way.
UploadExact ==
  upload.at = "done" /\ upload.alone /\ ~upload.resume =>
    /\ \A o \in Wanted(folder) : remote.bucket[o] = folder.raw[o]
    /\ Verified
=============================================================================
