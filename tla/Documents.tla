----------------------------- MODULE Documents -----------------------------
(***************************************************************************)
(* Documents with their versions and stored files (DocumentsService), and  *)
(* the knowledge base that indexes company policies (KnowledgeBaseService, *)
(* AiListener, AiProcessor).  Handlers and index jobs are split at their   *)
(* awaits; a handler in flight is the list of the steps it has left, with  *)
(* the document row it read.                                               *)
(*                                                                         *)
(* A file is the number of its storage key, in order of upload, and what   *)
(* it holds: "text", an "image" without text, or "infected".  Titles,      *)
(* descriptions, MIME types, signed links and profile photos are left out. *)
(***************************************************************************)
EXTENDS Integers, Sequences, FiniteSets

CONSTANTS
    Docs,        \* document ids
    Employees, Nobody,
    ManagerOf,   \* the reporting line; Nobody at the top
    Procs,       \* requests that may be in flight together
    Workers,     \* index jobs that may run together (concurrency = 2)
    Scenarios,   \* which requests are made, how many, with what
    MaxDepth,    \* levels of managers that a reporting line is followed up (50)
    MaxReports,  \* reports that are looked up for a manager (5000)
    IndexAttempts,         \* attempts of an index job (5)
    MaxStalled,            \* times a job may stall and be run again (1)
    MaxFiles     \* bound on uploads

VARIABLES
    docs,      \* rows of documents, NoDoc when absent
    versions,  \* document_versions: the file of each version number
    files,     \* what storage holds, by key
    chunks,    \* knowledge_chunks: the files whose text is indexed
    made,      \* the files uploaded so far: what they hold, for which document
    created,   \* document ids used so far
    jobs,      \* index jobs waiting: how many of each document and history
    workers,   \* index jobs running
    procs,     \* requests in flight
    scenario, left,
    outages,   \* storage or embedding failures so far
    faults     \* history: what went wrong, and which requests overlapped

library == <<docs, versions, files, chunks, made, created>>
indexing == <<jobs, workers, outages>>

ASSUME DocumentsAssumption ==
    /\ ManagerOf \in [Employees -> Employees \cup {Nobody}]
    /\ Nobody \notin Employees \cup Docs
    /\ {MaxDepth, MaxReports, MaxStalled, MaxFiles} \subseteq Nat
    /\ IndexAttempts \in Nat \ {0}

Categories == {"POLICY", "CONTRACT", "PAYSLIP", "RESUME", "OTHER"}
HrOnlyCategories == {"CONTRACT", "PAYSLIP"}
Visibilities == {"PRIVATE", "RESTRICTED", "COMPANY"}
Keys == 1..MaxFiles
NoDoc == [owner |-> Nobody, category |-> "NONE", visibility |-> "PRIVATE", current |-> 0,
          indexed |-> FALSE, deleted |-> FALSE, uploader |-> Nobody]
Document ==
    [owner : Employees \cup {Nobody}, category : Categories \cup {"NONE"}, visibility : Visibilities,
     current : 0..MaxFiles, indexed : BOOLEAN, deleted : BOOLEAN, uploader : Employees \cup {Nobody}]
DocumentVersion == [1..MaxFiles -> 0..MaxFiles]

ASSUME ScenariosAssumption ==
    \A s \in Scenarios :
        /\ s.owners \subseteq Employees \cup {Nobody} /\ s.categories \subseteq Categories
        /\ s.visibilities \subseteq Visibilities /\ {s.requests, s.outages} \subseteq Nat

Exists(d) == docs[d] # NoDoc
Found(d) == Exists(d) /\ ~docs[d].deleted
Numbers(d) == {n \in Keys : versions[d][n] # 0}
NextVersion(d) == IF Numbers(d) = {} THEN 1
                  ELSE 1 + CHOOSE n \in Numbers(d) : \A m \in Numbers(d) : m <= n

-----------------------------------------------------------------------------
(* Who sees a document.  A reader has document:read_all, or an employee    *)
(* profile, or neither.                                                    *)
Above == [e \in Employees |->
    LET chain[n \in 0..MaxDepth] ==
            IF n = 0 THEN {e} ELSE {ManagerOf[x] : x \in chain[n - 1] \ {Nobody}}
    IN  UNION {chain[n] : n \in 1..MaxDepth} \ {Nobody}]

(* The reports of a manager down to a level, and the sets of them that a   *)
(* query with a limit and no order may return.                             *)
Below(levels) == [m \in Employees |->
    LET tree[n \in 0..levels] ==
            IF n = 0 THEN {m} ELSE {x \in Employees : ManagerOf[x] \in tree[n - 1]}
    IN  UNION {tree[n] : n \in 1..levels}]
Reports == Below(Cardinality(Employees))
NearReports == Below(MaxDepth)
ReportIds == [m \in Employees |->
    {ids \in SUBSET Reports[m] :
        IF Cardinality(Reports[m]) <= MaxReports THEN ids = Reports[m] ELSE Cardinality(ids) = MaxReports}]

(* Mutant: a restricted document is readable like a private one.           *)
CanReadRestricted(row, reader) ==
    \/ reader.all
    \/ row.visibility = "COMPANY"
    \/ /\ row.owner # Nobody /\ reader.me # Nobody
       /\ row.owner = reader.me \/ reader.me \in Above[row.owner]
CanRead(row, reader) ==
    \/ reader.all
    \/ row.visibility = "COMPANY"
    \/ /\ row.owner # Nobody /\ reader.me # Nobody
       /\ \/ row.owner = reader.me
          \/ row.visibility # "RESTRICTED" /\ reader.me \in Above[row.owner]

Listed(row, reader, ids) ==
    \/ reader.all
    \/ row.visibility = "COMPANY"
    \/ reader.me # Nobody /\ row.owner = reader.me
    \/ reader.me # Nobody /\ row.visibility = "PRIVATE" /\ row.owner \in ids

-----------------------------------------------------------------------------
(* Index jobs.  The queue tries a job that fails again, and one whose      *)
(* worker dies, both up to a limit, and then drops it.                     *)
Jobs == [doc : Docs, failed : 0..(IndexAttempts - 1), stalled : 0..MaxStalled]
NewJob(d) == [doc |-> d, failed |-> 0, stalled |-> 0]
NoJob == [doc |-> Nobody, failed |-> 0, stalled |-> 0]
Pending(d) == \E job \in Jobs : job.doc = d /\ jobs[job] > 0

-----------------------------------------------------------------------------
(* Requests in flight.                                                     *)
Idle == [todo |-> <<>>, kind |-> "none", doc |-> Nobody, row |-> NoDoc, version |-> 0, file |-> 0,
         content |-> "text", seen |-> {}]
At(p, step) == procs[p].todo # <<>> /\ Head(procs[p].todo) = step
Put(p, h) == procs' = [procs EXCEPT ![p] = IF h.todo = <<>> THEN Idle ELSE h]
Begin(kind, todo) == [Idle EXCEPT !.kind = kind, !.todo = todo]
Rest(p) == [procs[p] EXCEPT !.todo = Tail(@)]
Abort(p) == procs' = [procs EXCEPT ![p] = Idle]
MayStart(p, op, kind) ==
    /\ procs[p] = Idle /\ Cardinality({q \in Procs : procs[q] # Idle}) < scenario.slots
    /\ op \in scenario.ops
    /\ left > 0 /\ left' = left - 1
    /\ faults' = faults \cup {{kind, procs[q].kind} : q \in {r \in Procs : procs[r] # Idle}}

(* validateUpload: nothing the scanner rejects, or cannot scan, is stored. *)
ValidateUpload(content) == content \in {"text", "image"}

StoreVersion == <<"upload", "version", "current">>

(* create by HR (an employee, or company-wide) or by an employee for       *)
(* themselves; createSystemDocument is called by other components.         *)
Create(p, d) ==
    /\ MayStart(p, "document", "document")
    /\ d \notin created /\ created' = created \cup {d} /\ Cardinality(created) < scenario.docs
    /\ \E content \in scenario.contents, cat \in scenario.categories, vis \in scenario.visibilities,
          owner \in scenario.owners, actor \in scenario.owners \cup {Nobody} :
        /\ ValidateUpload(content)
        /\ actor # Nobody => owner = actor /\ vis # "COMPANY" /\ cat \notin HrOnlyCategories
        /\ owner = Nobody => vis = "COMPANY"
        /\ docs' = [docs EXCEPT ![d] = [NoDoc EXCEPT !.owner = owner, !.category = cat,
                                                     !.visibility = vis, !.uploader = actor]]
        /\ Put(p, [Begin("document", StoreVersion \o <<"emit">>) EXCEPT !.doc = d, !.version = 1,
                               !.content = content])
    /\ UNCHANGED <<versions, files, chunks, made, indexing, scenario>>

AddVersion(p, d) ==
    /\ MayStart(p, "document", "document")
    /\ Found(d)
    /\ \E content \in scenario.contents :
        /\ ValidateUpload(content)
        /\ Put(p, [Begin("document", StoreVersion \o <<"emit">>) EXCEPT !.doc = d,
                               !.version = NextVersion(d), !.content = content])
    /\ UNCHANGED <<library, indexing, scenario>>

(* The whole row is written back, with the versions it was read with.      *)
(* Mutant: a change of category or visibility is not announced.            *)
UpdateQuietly(p, d) ==
    /\ MayStart(p, "document", "document")
    /\ Found(d)
    /\ \E cat \in scenario.categories, vis \in scenario.visibilities :
        Put(p, [Begin("document", <<"save">>) EXCEPT !.doc = d, !.seen = Numbers(d),
                !.row = [docs[d] EXCEPT !.category = cat, !.visibility = vis, !.indexed = FALSE]])
    /\ UNCHANGED <<library, indexing, scenario>>

Update(p, d) ==
    /\ MayStart(p, "document", "document")
    /\ Found(d)
    /\ \E cat \in scenario.categories \cup {docs[d].category},
          vis \in scenario.visibilities \cup {docs[d].visibility}, hr \in BOOLEAN :
        /\ hr \/ docs[d].uploader # Nobody
        /\ hr \/ (vis # "COMPANY" \/ vis = docs[d].visibility)
        /\ hr \/ (cat \notin HrOnlyCategories \/ cat = docs[d].category)
        /\ Put(p, [Begin("document", <<"save", "emit">>) EXCEPT !.doc = d, !.seen = Numbers(d),
                   !.row = [docs[d] EXCEPT !.category = cat, !.visibility = vis, !.indexed = FALSE]])
    /\ UNCHANGED <<library, indexing, scenario>>

Remove(p, d) ==
    /\ MayStart(p, "document", "document")
    /\ Found(d)
    /\ Put(p, [Begin("document", <<"softDelete", "emit">>) EXCEPT !.doc = d])
    /\ UNCHANGED <<library, indexing, scenario>>

-----------------------------------------------------------------------------
(* The steps.                                                              *)
Upload(p) ==
    /\ At(p, "upload")
    /\ \/ /\ Len(made) < MaxFiles
          /\ LET key == Len(made) + 1
             IN  /\ made' = Append(made, [content |-> procs[p].content, doc |-> procs[p].doc])
                 /\ files' = files \cup {key}
                 /\ Put(p, [Rest(p) EXCEPT !.file = key])
          /\ UNCHANGED <<outages, faults>>
       \/ /\ outages < scenario.outages /\ outages' = outages + 1
          /\ faults' = faults \cup {{"upload"}}
          /\ Abort(p) /\ UNCHANGED <<made, files>>
    /\ UNCHANGED <<docs, versions, chunks, created, jobs, workers, scenario, left>>

(* The unique index on document and version refuses the second of two      *)
(* equal numbers, the foreign key a document that is gone; the file stays. *)
SaveVersion(p) ==
    /\ At(p, "version")
    /\ LET h == procs[p]
       IN  IF Exists(h.doc) /\ versions[h.doc][h.version] = 0
           THEN versions' = [versions EXCEPT ![h.doc][h.version] = h.file] /\ Put(p, Rest(p))
           ELSE Abort(p) /\ UNCHANGED versions
    /\ UNCHANGED <<docs, files, chunks, made, created, indexing, scenario, left, faults>>

SetCurrent(p) ==
    /\ At(p, "current")
    /\ LET h == procs[p]
       IN  docs' = IF Exists(h.doc) THEN [docs EXCEPT ![h.doc].current = h.file, ![h.doc].indexed = FALSE]
                   ELSE docs
    /\ Put(p, Rest(p))
    /\ UNCHANGED <<versions, files, chunks, made, created, indexing, scenario, left, faults>>

(* documents.save: a version added since the read makes it fail (it would  *)
(* be detached); a row that is gone is inserted again unless it names a    *)
(* version, which is gone too.                                             *)
SaveRow(p) ==
    /\ At(p, "save")
    /\ LET h == procs[p]
       IN  IF Numbers(h.doc) \subseteq h.seen /\ (Exists(h.doc) \/ h.row.current = 0)
           THEN docs' = [docs EXCEPT ![h.doc] = h.row] /\ Put(p, Rest(p))
           ELSE Abort(p) /\ UNCHANGED docs
    /\ UNCHANGED <<versions, files, chunks, made, created, indexing, scenario, left, faults>>

(* Mutant: the files of a deleted document are deleted at once.            *)
SoftDeleteFiles(p) ==
    /\ At(p, "softDelete")
    /\ docs' = IF Exists(procs[p].doc) THEN [docs EXCEPT ![procs[p].doc].deleted = TRUE] ELSE docs
    /\ files' = files \ {versions[procs[p].doc][n] : n \in Keys}
    /\ Put(p, Rest(p))
    /\ UNCHANGED <<versions, chunks, made, created, indexing, scenario, left, faults>>

SoftDelete(p) ==
    /\ At(p, "softDelete")
    /\ docs' = IF Exists(procs[p].doc) THEN [docs EXCEPT ![procs[p].doc].deleted = TRUE] ELSE docs
    /\ Put(p, Rest(p))
    /\ UNCHANGED <<versions, files, chunks, made, created, indexing, scenario, left, faults>>

(* emitChanged and AiListener: one more job, or a logged failure.          *)
Emit(p) ==
    /\ At(p, "emit")
    /\ \/ jobs' = [jobs EXCEPT ![NewJob(procs[p].doc)] = @ + 1] /\ UNCHANGED <<outages, faults>>
       \/ /\ outages < scenario.outages /\ outages' = outages + 1
          /\ faults' = faults \cup {{"lost"}}
          /\ UNCHANGED jobs
    /\ Put(p, Rest(p))
    /\ UNCHANGED <<library, workers, scenario, left>>

(* A server stops; what is left of the request is never done.              *)
Die(p) ==
    /\ scenario.dies /\ procs[p] # Idle /\ {"died"} \notin faults
    /\ Abort(p)
    /\ faults' = faults \cup {{"died"}}
    /\ UNCHANGED <<library, indexing, scenario, left>>

-----------------------------------------------------------------------------
(* The knowledge base.                                                     *)
IsEligible(d) ==
    /\ Found(d)
    /\ docs[d].category = "POLICY" /\ docs[d].visibility = "COMPANY"
    /\ docs[d].current # 0

Idling == [job |-> NoJob, file |-> 0]
Running(d) == {w \in Workers : workers[w].job.doc = d}

(* enqueueAll: the documents the knowledge base should contain.            *)
Belongs(d) == Found(d) /\ docs[d].category = "POLICY" /\ docs[d].visibility = "COMPANY"
Reindex ==
    /\ "reindex" \in scenario.ops /\ left > 0 /\ left' = left - 1
    /\ jobs' = [job \in Jobs |-> jobs[job] + IF Belongs(job.doc) /\ job = NewJob(job.doc) THEN 1 ELSE 0]
    /\ UNCHANGED <<library, workers, outages, procs, scenario, faults>>

Take(w, job) ==
    /\ workers[w] = Idling /\ jobs[job] > 0
    /\ jobs' = [jobs EXCEPT ![job] = @ - 1]
    /\ workers' = [workers EXCEPT ![w] = [job |-> job, file |-> IF IsEligible(job.doc) THEN docs[job.doc].current ELSE 0]]
    /\ faults' = IF Running(job.doc) # {} THEN faults \cup {{"overlap"}} ELSE faults
    /\ UNCHANGED <<library, outages, procs, scenario, left>>

(* extractText: a file without text is skipped, and what was indexed stays.*)
Readable(key) == made[key].content = "text"

IndexDocument(w) ==
    LET d == workers[w].job.doc
        key == workers[w].file
    IN  /\ d # Nobody
        /\ \/ key = 0 /\ chunks' = [chunks EXCEPT ![d] = {}] /\ UNCHANGED docs
           \/ key \in files /\ ~Readable(key) /\ UNCHANGED <<docs, chunks>>
           \/ /\ key \in files /\ Readable(key) /\ Exists(d)
              /\ chunks' = [chunks EXCEPT ![d] = {key}]
              /\ docs' = [docs EXCEPT ![d].indexed = TRUE]
        /\ workers' = [workers EXCEPT ![w] = Idling]
        /\ UNCHANGED <<versions, files, made, created, jobs, outages, procs, scenario, left, faults>>

TryAgain(w, job, limit) ==
    /\ workers' = [workers EXCEPT ![w] = Idling]
    /\ IF limit THEN UNCHANGED jobs /\ faults' = faults \cup {{"dropped"}}
       ELSE jobs' = [jobs EXCEPT ![job] = @ + 1] /\ UNCHANGED faults
    /\ UNCHANGED <<library, procs, scenario, left>>

(* Storage or the embeddings fail, or the file or the row is gone.         *)
IndexFails(w) ==
    LET job == workers[w].job
        key == workers[w].file
        broken == key # 0 /\ (key \notin files \/ (Readable(key) /\ ~Exists(job.doc)))
    IN  /\ job.doc # Nobody
        /\ \/ broken /\ UNCHANGED outages
           \/ ~broken /\ outages < scenario.outages /\ outages' = outages + 1
        /\ TryAgain(w, [job EXCEPT !.failed = @ + 1], job.failed + 1 = IndexAttempts)

(* The worker dies.                                                        *)
IndexStalls(w) ==
    LET job == workers[w].job
    IN  /\ job.doc # Nobody
        /\ outages < scenario.outages /\ outages' = outages + 1
        /\ TryAgain(w, [job EXCEPT !.stalled = @ + 1], job.stalled = MaxStalled)

-----------------------------------------------------------------------------
DocumentsInit ==
    /\ docs = [d \in Docs |-> NoDoc]
    /\ versions = [d \in Docs |-> [n \in Keys |-> 0]]
    /\ files = {} /\ made = <<>> /\ created = {}
    /\ chunks = [d \in Docs |-> {}]
    /\ jobs = [job \in Jobs |-> 0]
    /\ workers = [w \in Workers |-> Idling]
    /\ procs = [p \in Procs |-> Idle]
    /\ scenario \in Scenarios /\ left = scenario.requests
    /\ outages = 0 /\ faults = {}

DocumentRequest(p) ==
    \/ \E d \in Docs : Create(p, d) \/ AddVersion(p, d) \/ Update(p, d) \/ Remove(p, d)
    \/ Upload(p) \/ SaveVersion(p) \/ SetCurrent(p) \/ SaveRow(p) \/ SoftDelete(p) \/ Emit(p)

IndexJob(w) ==
    \/ \E job \in Jobs : Take(w, job)
    \/ IndexDocument(w)
    \/ IndexFails(w) \/ IndexStalls(w)

DocumentsNext ==
    \/ \E p \in Procs : DocumentRequest(p)
    \/ \E w \in Workers : IndexJob(w)
    \/ Reindex

-----------------------------------------------------------------------------
DocumentsTypeOK ==
    /\ docs \in [Docs -> Document]
    /\ versions \in [Docs -> DocumentVersion]
    /\ files \subseteq Keys
    /\ chunks \in [Docs -> SUBSET Keys]
    /\ jobs \in [Jobs -> Nat]
    /\ workers \in [Workers -> [job : Jobs \cup {NoJob}, file : 0..MaxFiles]]

Quiet ==
    /\ \A p \in Procs : procs[p] = Idle
    /\ \A w \in Workers : workers[w] = Idling
    /\ \A d \in Docs : ~Pending(d)

(* When nothing is in flight the knowledge base holds the current text of  *)
(* every eligible policy and nothing of any other document, however        *)
(* uploads, edits, deletions, reindexing, failures and retries interleave, *)
(* unless two jobs of one document overlapped, a job was not enqueued or   *)
(* used up its attempts or its stalls, or a server died.  A policy         *)
(* replaced by a file without text keeps the old text.                     *)
StaleIndexNeedsFault ==
    Quiet /\ faults \cap {{"overlap"}, {"lost"}, {"dropped"}, {"died"}} = {} =>
        \A d \in Docs :
            IF ~IsEligible(d) THEN chunks[d] = {}
            ELSE Readable(docs[d].current) => chunks[d] = {docs[d].current} /\ docs[d].indexed

(* The documents a reader is listed are the ones they may open, although   *)
(* list looks down the reporting line and canRead up, each with a limit of *)
(* its own: a reader is listed more only of owners too far below for       *)
(* canRead, and less only with more reports than the query returns.        *)
ListMatchesCanRead ==
    \A d \in Docs, me \in Employees \cup {Nobody}, all \in BOOLEAN :
        Found(d) => \A ids \in IF me = Nobody THEN {{}} ELSE ReportIds[me] :
            LET row == docs[d]
                reader == [all |-> all, me |-> me]
            IN  /\ Listed(row, reader, ids) /\ ~CanRead(row, reader) => row.owner \notin NearReports[me]
                /\ CanRead(row, reader) /\ ~Listed(row, reader, ids) => Cardinality(Reports[me]) > MaxReports
=============================================================================
