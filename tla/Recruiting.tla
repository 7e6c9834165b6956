---------------------------- MODULE Recruiting -----------------------------
(***************************************************************************)
(* Job openings, applications and the screening of resumes                 *)
(* (RecruitingService, RecruitingProcessor), the erasure of an applicant   *)
(* (PrivacyService) and the retention job that erases old ones             *)
(* (RetentionService), on top of Documents: a resume is a document, stored *)
(* and purged by the same steps, and its index jobs run as well.           *)
(*                                                                         *)
(* One opening and one candidate, whose data is what erasure has to        *)
(* remove.  The assessment itself is left out: a screening has a result.   *)
(***************************************************************************)
EXTENDS Documents

CONSTANTS
    Screeners,     \* screening jobs that may run together (concurrency = 2)
    Attempts,      \* attempts of a screening job
    MaxScreenings  \* bound on screening jobs

VARIABLES
    opening,     \* status of the job opening
    candidate,   \* the row of candidates exists
    app,         \* the row of applications, NoApp when there is none
    resumes,     \* history: documents made as resumes of the candidate
    queue,       \* screening jobs waiting: attempts made and stalls so far
    screeners,   \* screening jobs running
    screenings   \* screening jobs enqueued so far

recruiting == <<opening, candidate, app, resumes>>
screening == <<queue, screeners, screenings>>
vars == <<library, indexing, procs, scenario, left, faults, recruiting, screening>>

ASSUME RecruitingAssumption == Attempts \in Nat \ {0} /\ MaxScreenings \in Nat

OpeningStatus == {"DRAFT", "OPEN", "CLOSED"}
(* INTERVIEWING and OFFERED are treated as SHORTLISTED is.                 *)
AppStatus == {"APPLIED", "SHORTLISTED", "REJECTED", "HIRED", "WITHDRAWN"}
NoApp == [status |-> "NONE", screening |-> "PENDING", scored |-> FALSE, resume |-> Nobody, old |-> FALSE]
Application ==
    [status : AppStatus \cup {"NONE"}, screening : {"PENDING", "RUNNING", "DONE", "FAILED"},
     scored : BOOLEAN, resume : Docs \cup {Nobody}, old : BOOLEAN]
NoScreening == [running |-> FALSE, attempt |-> 0, stalled |-> 0, file |-> 0]

Applied == app # NoApp

-----------------------------------------------------------------------------
CreateOpening ==
    /\ "apply" \in scenario.ops /\ left > 0 /\ left' = left - 1
    /\ opening = "NONE" /\ opening' = "DRAFT"
    /\ UNCHANGED <<library, indexing, procs, scenario, faults, candidate, app, resumes, screening>>

(* Openings: anything but a closed one may change its status.              *)
UpdateOpening ==
    /\ "apply" \in scenario.ops /\ left > 0 /\ left' = left - 1
    /\ opening \notin {"NONE", "CLOSED"}
    /\ opening' \in OpeningStatus \ {opening}
    /\ UNCHANGED <<library, indexing, procs, scenario, faults, candidate, app, resumes, screening>>

(* apply: the candidate is found or created, the resume becomes a system   *)
(* document, the application is saved and its screening enqueued.          *)
ApplySteps == <<"candidate", "resume">> \o StoreVersion \o <<"emit", "application", "screen">>

Apply(p) ==
    /\ MayStart(p, "apply", "apply")
    /\ opening = "OPEN"
    /\ \E content \in scenario.contents :
        /\ ValidateUpload(content)
        /\ Put(p, [Begin("apply", ApplySteps) EXCEPT !.version = 1, !.content = content])
    /\ UNCHANGED <<library, indexing, scenario, recruiting, screening>>

FindCandidate(p) ==
    /\ At(p, "candidate")
    /\ IF candidate /\ Applied THEN Abort(p) /\ UNCHANGED candidate
       ELSE Put(p, Rest(p)) /\ candidate' = TRUE
    /\ UNCHANGED <<library, indexing, scenario, left, faults, opening, app, resumes, screening>>

CreateSystemDocument(p) ==
    /\ At(p, "resume")
    /\ \E d \in Docs :
        /\ d \notin created /\ created' = created \cup {d}
        /\ docs' = [docs EXCEPT ![d] = [NoDoc EXCEPT !.category = "RESUME", !.visibility = "RESTRICTED"]]
        /\ resumes' = resumes \cup {d}
        /\ Put(p, [Rest(p) EXCEPT !.doc = d])
    /\ UNCHANGED <<versions, files, chunks, made, indexing, scenario, left, faults,
                   opening, candidate, app, screening>>

(* The index on opening and candidate, and the foreign keys, may refuse    *)
(* the row; the resume stays behind.                                       *)
SaveApplication(p) ==
    /\ At(p, "application")
    /\ IF candidate /\ ~Applied /\ Exists(procs[p].doc)
       THEN /\ app' = [NoApp EXCEPT !.status = "APPLIED", !.resume = procs[p].doc]
            /\ Put(p, Rest(p))
       ELSE Abort(p) /\ UNCHANGED app
    /\ UNCHANGED <<library, indexing, scenario, left, faults, opening, candidate, resumes, screening>>

Enqueue ==
    /\ screenings < MaxScreenings /\ screenings' = screenings + 1
    /\ queue' = Append(queue, [attempt |-> 0, stalled |-> 0])

(* enqueueScreen, awaited by the controller after the application is saved.*)
EnqueueScreen(p) ==
    /\ At(p, "screen")
    /\ Enqueue
    /\ Put(p, Rest(p))
    /\ UNCHANGED <<library, indexing, scenario, left, faults, recruiting, screeners>>

Rescreen(p) ==
    /\ MayStart(p, "rescreen", "rescreen")
    /\ Applied
    /\ Enqueue
    /\ UNCHANGED <<library, indexing, procs, scenario, recruiting, screeners>>

(* updateStatus writes the whole application back.                         *)
UpdateStatus(p) ==
    /\ MayStart(p, "decide", "decide")
    /\ Applied /\ app.status \notin {"HIRED", "WITHDRAWN"}
    /\ \E s \in AppStatus :
        Put(p, [Begin("decide", <<"decide">>) EXCEPT !.row = [app EXCEPT !.status = s, !.old = FALSE]])
    /\ UNCHANGED <<library, indexing, scenario, recruiting, screening>>

SaveStatus(p) ==
    /\ At(p, "decide")
    /\ LET row == procs[p].row
       IN  IF candidate /\ Exists(row.resume)
           THEN /\ app' = row
                /\ faults' = IF app.screening # row.screening THEN faults \cup {{"decide", "screening"}} ELSE faults
           ELSE UNCHANGED <<app, faults>>
    /\ Put(p, Rest(p))
    /\ UNCHANGED <<library, indexing, scenario, left, opening, candidate, resumes, screening>>

-----------------------------------------------------------------------------
(* Screening jobs.  One whose application is gone fails at every attempt.  *)
Assessed(key) == key \in files /\ Readable(key)

Screen(s) ==
    /\ ~screeners[s].running /\ queue # <<>>
    /\ queue' = Tail(queue)
    /\ IF Applied
       THEN /\ app' = [app EXCEPT !.screening = "RUNNING", !.old = FALSE]
            /\ screeners' = [screeners EXCEPT ![s] =
                    [running |-> TRUE, attempt |-> Head(queue).attempt + 1, stalled |-> Head(queue).stalled,
                     file |-> IF Found(app.resume) THEN docs[app.resume].current ELSE 0]]
       ELSE UNCHANGED <<app, screeners>>
    /\ UNCHANGED <<library, indexing, procs, scenario, left, faults, opening, candidate, resumes, screenings>>

Requeue(attempt, stalled) == Append(queue, [attempt |-> attempt, stalled |-> stalled])
Retry(s) ==
    IF screeners[s].attempt < Attempts THEN Requeue(screeners[s].attempt, screeners[s].stalled) ELSE queue

(* Mutant: a failed attempt leaves the status as it was.                   *)
ScreenFailsSilently(s) ==
    /\ screeners[s].running
    /\ \/ screeners[s].file = 0 \/ ~Assessed(screeners[s].file)
       \/ outages < scenario.outages
    /\ outages' = IF outages < scenario.outages THEN outages + 1 ELSE outages
    /\ queue' = Retry(s)
    /\ screeners' = [screeners EXCEPT ![s] = NoScreening]
    /\ UNCHANGED <<library, jobs, workers, procs, scenario, left, faults, recruiting, screenings>>

(* No version, no text, an answer that does not parse, no provider.        *)
ScreenFails(s) ==
    LET hopeless == screeners[s].file = 0 \/ ~Assessed(screeners[s].file)
    IN  /\ screeners[s].running
        /\ \/ hopeless /\ UNCHANGED outages
           \/ ~hopeless /\ outages < scenario.outages /\ outages' = outages + 1
        /\ app' = IF Applied THEN [app EXCEPT !.screening = "FAILED", !.old = FALSE] ELSE app
        /\ queue' = Retry(s)
        /\ screeners' = [screeners EXCEPT ![s] = NoScreening]
        /\ UNCHANGED <<library, jobs, workers, procs, scenario, left, faults,
                       opening, candidate, resumes, screenings>>

ScreenDone(s) ==
    /\ screeners[s].running
    /\ screeners[s].file # 0 /\ Assessed(screeners[s].file)
    /\ app' = IF Applied THEN [app EXCEPT !.screening = "DONE", !.scored = TRUE, !.old = FALSE] ELSE app
    /\ screeners' = [screeners EXCEPT ![s] = NoScreening]
    /\ UNCHANGED <<library, indexing, procs, scenario, left, faults,
                   opening, candidate, resumes, queue, screenings>>

(* A worker that dies loses its lock and the job is run again, up to the   *)
(* limit; after that the application stays as it is, RUNNING.              *)
ScreenStalls(s) ==
    /\ screeners[s].running /\ outages < scenario.outages /\ outages' = outages + 1
    /\ IF screeners[s].stalled = MaxStalled THEN faults' = faults \cup {{"stalled"}} /\ UNCHANGED queue
       ELSE queue' = Requeue(screeners[s].attempt - 1, screeners[s].stalled + 1) /\ UNCHANGED faults
    /\ screeners' = [screeners EXCEPT ![s] = NoScreening]
    /\ UNCHANGED <<library, jobs, workers, procs, scenario, left, recruiting, screenings>>

-----------------------------------------------------------------------------
(* Erasure: the applications, each resume, the candidate.                  *)
EraseSteps == <<"applications", "purge", "files", "document", "emit", "erase">>
(* The applications are read first, then deleted.                          *)
StartErase(p) ==
    Put(p, [Begin("erase", IF Applied THEN EraseSteps ELSE <<"applications", "erase">>)
            EXCEPT !.doc = app.resume])

EraseCandidate(p) ==
    /\ MayStart(p, "erase", "erase")
    /\ candidate
    /\ StartErase(p)
    /\ UNCHANGED <<library, indexing, scenario, recruiting, screening>>

(* Time passes for an application nobody touches.                          *)
GrowOld ==
    /\ "retention" \in scenario.ops
    /\ Applied /\ ~app.old
    /\ app' = [app EXCEPT !.old = TRUE]
    /\ UNCHANGED <<library, indexing, procs, scenario, left, faults, opening, candidate, resumes, screening>>

(* RetentionService.run: candidates all of whose applications are over.    *)
Retention(p) ==
    /\ MayStart(p, "retention", "erase")
    /\ candidate /\ Applied
    /\ app.status \in {"REJECTED", "WITHDRAWN"} /\ app.old
    /\ StartErase(p)
    /\ UNCHANGED <<library, indexing, scenario, recruiting, screening>>

DeleteApplications(p) ==
    /\ At(p, "applications")
    /\ app' = NoApp
    /\ Put(p, Rest(p))
    /\ UNCHANGED <<library, indexing, scenario, left, faults, opening, candidate, resumes, screening>>

(* purge: deleted or not, the versions as they are now.                    *)
(* Mutant: purge looks for documents that are not deleted.                 *)
PurgeFound(p) ==
    /\ At(p, "purge")
    /\ Put(p, IF Found(procs[p].doc) THEN [Rest(p) EXCEPT !.seen = {versions[procs[p].doc][n] : n \in Numbers(procs[p].doc)}]
              ELSE [procs[p] EXCEPT !.todo = <<"erase">>])
    /\ UNCHANGED <<library, indexing, scenario, left, faults, recruiting, screening>>

Purge(p) ==
    /\ At(p, "purge")
    /\ Put(p, IF Exists(procs[p].doc) THEN [Rest(p) EXCEPT !.seen = {versions[procs[p].doc][n] : n \in Numbers(procs[p].doc)}]
              ELSE [procs[p] EXCEPT !.todo = <<"erase">>])
    /\ UNCHANGED <<library, indexing, scenario, left, faults, recruiting, screening>>

(* One file after the other; when storage rejects one the erasure ends     *)
(* there, and the file may be gone or not.                                 *)
DeleteFiles(p) ==
    /\ At(p, "files")
    /\ \/ procs[p].seen = {}
          /\ Put(p, Rest(p)) /\ UNCHANGED <<files, outages, faults>>
       \/ \E key \in procs[p].seen :
          \/ /\ files' = files \ {key}
             /\ Put(p, [procs[p] EXCEPT !.seen = @ \ {key}]) /\ UNCHANGED <<outages, faults>>
          \/ /\ outages < scenario.outages /\ outages' = outages + 1
             /\ faults' = faults \cup {{"undeleted"}}
             /\ files' \in {files, files \ {key}}
             /\ Abort(p)
    /\ UNCHANGED <<docs, versions, chunks, made, created, jobs, workers, scenario, left, recruiting, screening>>

(* The versions and chunks go with the row; an application that refers to  *)
(* it again keeps it, and the erasure fails.                               *)
DeleteDocument(p) ==
    /\ At(p, "document")
    /\ LET d == procs[p].doc
       IN  IF app.resume = d THEN Abort(p) /\ UNCHANGED <<docs, versions, chunks>>
           ELSE /\ docs' = [docs EXCEPT ![d] = NoDoc]
                /\ versions' = [versions EXCEPT ![d] = [n \in Keys |-> 0]]
                /\ chunks' = [chunks EXCEPT ![d] = {}]
                /\ Put(p, Rest(p))
    /\ UNCHANGED <<files, made, created, indexing, scenario, left, faults, recruiting, screening>>

DeleteCandidate(p) ==
    /\ At(p, "erase")
    /\ candidate' = FALSE
    /\ app' = NoApp
    /\ Put(p, Rest(p))
    /\ UNCHANGED <<library, indexing, scenario, left, faults, opening, resumes, screening>>

-----------------------------------------------------------------------------
Init ==
    /\ DocumentsInit
    /\ opening \in {"NONE", "OPEN"} /\ candidate = FALSE /\ app = NoApp /\ resumes = {}
    /\ queue = <<>> /\ screeners = [s \in Screeners |-> NoScreening] /\ screenings = 0

RecruitingRequest(p) ==
    \/ Apply(p) \/ FindCandidate(p) \/ CreateSystemDocument(p) \/ SaveApplication(p) \/ EnqueueScreen(p)
    \/ Rescreen(p) \/ UpdateStatus(p) \/ SaveStatus(p)

Erasure(p) ==
    \/ EraseCandidate(p) \/ Retention(p) \/ DeleteApplications(p) \/ Purge(p)
    \/ DeleteFiles(p) \/ DeleteDocument(p) \/ DeleteCandidate(p)

ScreeningJob(s) == Screen(s) \/ ScreenFails(s) \/ ScreenDone(s) \/ ScreenStalls(s)

Stored(Step) == Step /\ UNCHANGED <<recruiting, screening>>

Next ==
    \/ Stored(DocumentsNext)
    \/ Stored(\E p \in Procs : Die(p))
    \/ CreateOpening \/ UpdateOpening \/ GrowOld
    \/ \E p \in Procs : RecruitingRequest(p) \/ Erasure(p)
    \/ \E s \in Screeners : ScreeningJob(s)

Spec == Init /\ [][Next]_vars

-----------------------------------------------------------------------------
TypeOK ==
    /\ DocumentsTypeOK
    /\ opening \in OpeningStatus \cup {"NONE"}
    /\ candidate \in BOOLEAN
    /\ app \in Application
    /\ resumes \subseteq Docs

AllQuiet == Quiet /\ queue = <<>> /\ \A s \in Screeners : ~screeners[s].running

(* A version that a document lists can be downloaded: its file is in       *)
(* storage except while an erasure deletes files and then the row, or      *)
(* after a server died or storage rejected a deletion in one, or a         *)
(* decision wrote the application back during one.                         *)
ListedFilesExist ==
    faults \cap {{"died"}, {"undeleted"}, {"decide", "erase"}} = {} =>
        \A d \in Docs, n \in Keys :
            \/ versions[d][n] \in files \cup {0}
            \/ \E p \in Procs : (At(p, "files") \/ At(p, "document")) /\ procs[p].doc = d

(* Once an applicant has been erased nothing of their resumes is left, not *)
(* in the documents, the knowledge base or storage, although screening and *)
(* indexing go on, unless a server died, an upload failed, storage did not *)
(* delete a file (a repeated erasure no longer finds the resume), a        *)
(* request that may upload overlapped another one or an erasure, or a      *)
(* decision wrote an application back that one of two overlapping erasures *)
(* had not seen.                                                           *)
ErasureIsComplete ==
    /\ Quiet /\ ~candidate
    /\ faults \cap {{"died"}, {"upload"}, {"undeleted"}, {"apply"}, {"document"}, {"apply", "document"},
                    {"apply", "erase"}, {"document", "erase"}} = {}
    /\ ~({{"erase"}, {"decide", "erase"}} \subseteq faults)
    => /\ app = NoApp
       /\ \A d \in resumes : ~Exists(d) /\ chunks[d] = {}
       /\ \A k \in files : made[k].doc \notin resumes

(* Every application ends up screened or marked as failed when all jobs    *)
(* are done, also after retries, stalled workers and repeated screenings,  *)
(* unless a server died before the job was enqueued, a job stalled once    *)
(* too often (the application stays RUNNING), or a decision wrote an older *)
(* screening status, or an erased application, back.                       *)
ScreeningSettles ==
    /\ AllQuiet /\ Applied
    /\ faults \cap {{"died"}, {"stalled"}, {"decide", "screening"}, {"decide", "erase"}} = {}
    => app.screening \in {"DONE", "FAILED"} /\ (app.screening = "DONE" => app.scored)
=============================================================================
