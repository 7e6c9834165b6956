--------------------------- MODULE Notifications ---------------------------
(***************************************************************************)
(* The notification pipeline: notify() writes a notification_log row per   *)
(* channel and enqueues a BullMQ job; NotificationsProcessor delivers it   *)
(* by SMTP or Slack and updates the row.  Callers (API handlers, event     *)
(* listeners) and workers fail and crash between any two of their steps.   *)
(*                                                                         *)
(* A note is one message on one channel; it stands for the dedupe key of   *)
(* its log row.  BullMQ is external: it hands a job to one worker at a     *)
(* time, and takes a dead worker's job back MaxStalled times (once: the    *)
(* code leaves maxStalledCount alone).  Postgres is external: a statement  *)
(* that throws has changed nothing.                                        *)
(***************************************************************************)
EXTENDS Integers, FiniteSets

CONSTANTS
    Notes,          \* messages per channel, one dedupe key each
    Users,          \* recipients
    To,             \* recipient of every note
    Via,            \* how it goes out: see Routes
    Callers,        \* concurrent calls of notify()
    Workers,        \* concurrency of the processor
    Attempts,       \* defaultJobOptions.attempts
    MaxStalled,     \* times BullMQ takes back the job of a dead worker
    MaxCrashes,     \* bound on worker crashes
    MaxOutages,     \* bound on statements of a worker that Postgres fails
    MaxUnanswered,  \* bound on messages accepted by a provider that does not say so
    CallersFail,    \* may callers crash, or fail to reach Redis?
    SlackConfigured \* SLACK_BOT_TOKEN is set

VARIABLES
    log,            \* notification_log
    job,            \* the queue
    caller,         \* notify() calls in flight
    worker,         \* deliveries in flight
    prefs,          \* notification_preferences
    sent,           \* messages handed to SMTP or Slack per note (history)
    crashes,        \* worker crashes so far
    outages,        \* failed statements so far
    unanswered      \* sends so far that threw after the provider had accepted

faults == <<crashes, outages, unanswered>>
notifications == <<log, job, caller, worker, prefs, sent, faults>>

(* To an address or a Slack channel, or to a user by e-mail or Slack DM.   *)
Routes == {"address", "channel", "email", "slack"}

ASSUME NotificationsAssumption ==
    /\ To \in [Notes -> Users]
    /\ Via \in [Notes -> Routes]
    /\ Attempts \in Nat \ {0} /\ MaxStalled \in Nat
    /\ MaxCrashes \in Nat /\ MaxOutages \in Nat /\ MaxUnanswered \in Nat
    /\ CallersFail \in BOOLEAN /\ SlackConfigured \in BOOLEAN

Status == {"NONE", "QUEUED", "SENT", "FAILED", "SKIPPED"}
Delivered == {"SENT", "SKIPPED"}

(* A preferences row; known: the Slack id is cached.                       *)
Prefs == [email : BOOLEAN, slack : BOOLEAN, known : BOOLEAN]
Defaults == [email |-> TRUE, slack |-> TRUE, known |-> FALSE]

IdleCaller == [pc |-> "idle", note |-> "none"]
IdleWorker == [pc |-> "idle", note |-> "none", prefs |-> Defaults]

NotificationsTypeOK ==
    /\ log \in [Notes -> [status : Status, attempts : 0..Attempts]]
    /\ job \in [Notes -> [state : {"none", "waiting", "active", "completed", "failed"},
                          attemptsMade : 0..Attempts, stalled : 0..(MaxStalled + 1)]]
    /\ caller \in [Callers -> [pc : {"idle", "insert", "enqueue", "link"},
                               note : Notes \cup {"none"}]]
    /\ worker \in [Workers -> [pc : {"idle", "read", "deliver", "lookup", "cache", "send",
                                     "mark", "skip", "done", "fail", "throw"},
                               note : Notes \cup {"none"}, prefs : Prefs]]
    /\ prefs \in [Users -> Prefs]
    /\ sent \in [Notes -> Nat]
    /\ crashes \in 0..MaxCrashes
    /\ outages \in 0..MaxOutages
    /\ unanswered \in 0..MaxUnanswered

NotificationsInit ==
    /\ log = [n \in Notes |-> [status |-> "NONE", attempts |-> 0]]
    /\ job = [n \in Notes |-> [state |-> "none", attemptsMade |-> 0, stalled |-> 0]]
    /\ caller = [c \in Callers |-> IdleCaller]
    /\ worker = [w \in Workers |-> IdleWorker]
    /\ prefs = [u \in Users |-> Defaults]
    /\ sent = [n \in Notes |-> 0]
    /\ crashes = 0
    /\ outages = 0
    /\ unanswered = 0

-----------------------------------------------------------------------------
(* notify()                                                                *)

CallerAt(c, pc) == caller[c].pc = pc
CallerGoto(c, pc) == caller' = [caller EXCEPT ![c].pc = pc]
Return(c) == caller' = [caller EXCEPT ![c] = IdleCaller]

(* An event asks for the note, for the first time or again.                *)
Emit(c, n) ==
    /\ CallerAt(c, "idle")
    /\ caller' = [caller EXCEPT ![c] = [pc |-> "insert", note |-> n]]
    /\ UNCHANGED <<log, job, worker, prefs, sent, faults>>

(* Mutant: the insert is not guarded by the unique dedupe key.             *)
InsertLogAgain(c) ==
    LET n == caller[c].note
    IN  /\ CallerAt(c, "insert")
        /\ log' = [log EXCEPT ![n].status = "QUEUED"]
        /\ CallerGoto(c, "enqueue")
        /\ UNCHANGED <<job, worker, prefs, sent, faults>>

(* insert ... orIgnore: the unique dedupe key lets one caller through.     *)
InsertLog(c) ==
    LET n == caller[c].note
    IN  /\ CallerAt(c, "insert")
        /\ IF log[n].status = "NONE"
           THEN log' = [log EXCEPT ![n].status = "QUEUED"] /\ CallerGoto(c, "enqueue")
           ELSE UNCHANGED log /\ Return(c)
        /\ UNCHANGED <<job, worker, prefs, sent, faults>>

(* queue.add with jobId = logId.                                           *)
Enqueue(c) ==
    LET n == caller[c].note
    IN  /\ CallerAt(c, "enqueue")
        /\ job' = [job EXCEPT ![n] = [state |-> "waiting", attemptsMade |-> 0, stalled |-> 0]]
        /\ CallerGoto(c, "link")
        /\ UNCHANGED <<log, worker, prefs, sent, faults>>

(* The row learns its job id, which nothing reads.                         *)
Link(c) ==
    /\ CallerAt(c, "link")
    /\ Return(c)
    /\ UNCHANGED <<log, job, worker, prefs, sent, faults>>

(* The process dies, or the next call to the database or Redis throws.     *)
CallerFails(c) ==
    /\ CallersFail
    /\ ~CallerAt(c, "idle")
    /\ Return(c)
    /\ UNCHANGED <<log, job, worker, prefs, sent, faults>>

-----------------------------------------------------------------------------
(* NotificationsProcessor.process                                          *)

WorkerAt(w, pc) == worker[w].pc = pc
WorkerGoto(w, pc) == worker' = [worker EXCEPT ![w].pc = pc]

(* BullMQ hands a waiting job to an idle worker.                           *)
Take(w, n) ==
    /\ WorkerAt(w, "idle")
    /\ job[n].state = "waiting"
    /\ job' = [job EXCEPT ![n].state = "active"]
    /\ worker' = [worker EXCEPT ![w] = [IdleWorker EXCEPT !.pc = "read", !.note = n]]
    /\ UNCHANGED <<log, caller, prefs, sent, faults>>

(* A row that is SENT or SKIPPED already ends the job.                     *)
ReadLog(w) ==
    /\ WorkerAt(w, "read")
    /\ WorkerGoto(w, IF log[worker[w].note].status \in Delivered THEN "done" ELSE "deliver")
    /\ UNCHANGED <<log, job, caller, prefs, sent, faults>>

(* deliverEmail, deliverSlack and resolveSlackUser up to the lookup.       *)
CheckPreferences(w) ==
    LET n == worker[w].note
        p == prefs[To[n]]
        Off == \/ Via[n] = "email" /\ ~p.email
               \/ Via[n] = "channel" /\ ~SlackConfigured
               \/ Via[n] = "slack" /\ (~SlackConfigured \/ ~p.slack)
        Known == Via[n] = "slack" => p.known
    IN  /\ WorkerAt(w, "deliver")
        /\ worker' = [worker EXCEPT
               ![w].pc = IF Off THEN "skip" ELSE IF Known THEN "send" ELSE "lookup",
               ![w].prefs = IF Off \/ Known THEN @ ELSE p]
        /\ UNCHANGED <<log, job, caller, prefs, sent, faults>>

(* users.lookupByEmail: found, unknown, or an error.                       *)
Lookup(w) ==
    /\ WorkerAt(w, "lookup")
    /\ \E pc \in {"cache", "skip", "fail"} : WorkerGoto(w, pc)
    /\ UNCHANGED <<log, job, caller, prefs, sent, faults>>

(* The preferences read before the lookup are saved with the id in them.   *)
CacheSlackId(w) ==
    /\ WorkerAt(w, "cache")
    /\ prefs' = [prefs EXCEPT ![To[worker[w].note]] = [worker[w].prefs EXCEPT !.known = TRUE]]
    /\ WorkerGoto(w, "send")
    /\ UNCHANGED <<log, job, caller, sent, faults>>

(* mail.send or slack.post: the provider takes the message, turns it down, *)
(* or takes it and the call throws all the same, say on a timeout.         *)
Send(w) ==
    LET Reach == sent' = [sent EXCEPT ![worker[w].note] = @ + 1]
    IN  /\ WorkerAt(w, "send")
        /\ \/ Reach /\ WorkerGoto(w, "mark") /\ UNCHANGED unanswered
           \/ UNCHANGED <<sent, unanswered>> /\ WorkerGoto(w, "fail")
           \/ /\ unanswered < MaxUnanswered /\ unanswered' = unanswered + 1
              /\ Reach /\ WorkerGoto(w, "fail")
        /\ UNCHANGED <<log, job, caller, prefs, crashes, outages>>

Attempt(n) == job[n].attemptsMade + 1

MarkSent(w) ==
    LET n == worker[w].note
    IN  /\ WorkerAt(w, "mark")
        /\ log' = [log EXCEPT ![n] = [status |-> "SENT", attempts |-> Attempt(n)]]
        /\ WorkerGoto(w, "done")
        /\ UNCHANGED <<job, caller, prefs, sent, faults>>

(* SkipNotification is caught: the row is SKIPPED and the job is over.     *)
Skip(w) ==
    LET n == worker[w].note
    IN  /\ WorkerAt(w, "skip")
        /\ log' = [log EXCEPT ![n] = [status |-> "SKIPPED", attempts |-> Attempt(n)]]
        /\ WorkerGoto(w, "done")
        /\ UNCHANGED <<job, caller, prefs, sent, faults>>

(* process returns: BullMQ completes the job.                              *)
Complete(w) ==
    /\ WorkerAt(w, "done")
    /\ job' = [job EXCEPT ![worker[w].note].state = "completed"]
    /\ worker' = [worker EXCEPT ![w] = IdleWorker]
    /\ UNCHANGED <<log, caller, prefs, sent, faults>>

Exhausted(n) == Attempt(n) >= Attempts

(* The catch: the row waits for the next attempt, or has FAILED.           *)
MarkFailed(w) ==
    LET n == worker[w].note
    IN  /\ WorkerAt(w, "fail")
        /\ log' = [log EXCEPT ![n] =
               [status |-> IF Exhausted(n) THEN "FAILED" ELSE "QUEUED", attempts |-> Attempt(n)]]
        /\ WorkerGoto(w, "throw")
        /\ UNCHANGED <<job, caller, prefs, sent, faults>>

(* A statement throws.  Inside the try, which the update to SENT is part   *)
(* of, the catch runs; outside it, process itself throws.                  *)
DatabaseFails(w) ==
    /\ outages < MaxOutages
    /\ outages' = outages + 1
    /\ \/ worker[w].pc \in {"deliver", "cache", "mark"} /\ WorkerGoto(w, "fail")
       \/ worker[w].pc \in {"read", "skip", "fail"} /\ WorkerGoto(w, "throw")
    /\ UNCHANGED <<log, job, caller, prefs, sent, crashes, unanswered>>

(* Mutant: a job is given up on its first error.                           *)
ThrowOnce(w) ==
    /\ WorkerAt(w, "throw")
    /\ job' = [job EXCEPT ![worker[w].note].state = "failed"]
    /\ worker' = [worker EXCEPT ![w] = IdleWorker]
    /\ UNCHANGED <<log, caller, prefs, sent, faults>>

(* The error is rethrown: BullMQ retries the job until attempts run out.   *)
Throw(w) ==
    LET n == worker[w].note
    IN  /\ WorkerAt(w, "throw")
        /\ job' = [job EXCEPT ![n].attemptsMade = Attempt(n),
                              ![n].state = IF Attempt(n) < Attempts THEN "waiting" ELSE "failed"]
        /\ worker' = [worker EXCEPT ![w] = IdleWorker]
        /\ UNCHANGED <<log, caller, prefs, sent, faults>>

(* The worker process dies and its job stalls: it goes back to the queue,  *)
(* or fails, without a word to the row, if it has stalled before.          *)
Crash(w) ==
    LET n == worker[w].note
    IN  /\ ~WorkerAt(w, "idle")
        /\ crashes < MaxCrashes
        /\ crashes' = crashes + 1
        /\ job' = [job EXCEPT ![n].stalled = @ + 1,
                              ![n].state = IF job[n].stalled < MaxStalled THEN "waiting" ELSE "failed"]
        /\ worker' = [worker EXCEPT ![w] = IdleWorker]
        /\ UNCHANGED <<log, caller, prefs, sent, outages, unanswered>>

-----------------------------------------------------------------------------
(* updatePreferences: a patch of both switches.  The Slack id is the one   *)
(* in the patch or the one loaded, which may be stale by then: any.        *)
UpdatePreferences(u, row) ==
    /\ prefs' = [prefs EXCEPT ![u] = row]
    /\ UNCHANGED <<log, job, caller, worker, sent, faults>>

Notify(c) == InsertLog(c) \/ Enqueue(c) \/ Link(c)

Process(w) ==
    \/ ReadLog(w) \/ CheckPreferences(w) \/ Lookup(w) \/ CacheSlackId(w)
    \/ Send(w) \/ MarkSent(w) \/ Skip(w) \/ Complete(w) \/ MarkFailed(w) \/ Throw(w)

NotificationsNext ==
    \/ \E c \in Callers : (\E n \in Notes : Emit(c, n)) \/ Notify(c) \/ CallerFails(c)
    \/ \E w \in Workers : (\E n \in Notes : Take(w, n)) \/ Process(w)
                        \/ DatabaseFails(w) \/ Crash(w)
    \/ \E u \in Users, row \in Prefs : UpdatePreferences(u, row)

NotificationsSpec == NotificationsInit /\ [][NotificationsNext]_notifications

(* Callers and workers run on; BullMQ hands out waiting jobs.              *)
NotificationsFairness ==
    /\ \A c \in Callers : WF_notifications(Notify(c))
    /\ \A w \in Workers : WF_notifications(Process(w))
    /\ \A n \in Notes : WF_notifications(\E w \in Workers : Take(w, n))

-----------------------------------------------------------------------------
(* Every duplicate is paid for by a fault: however many callers emit the   *)
(* same key and however often a delivery is retried, a message goes out at *)
(* most once plus once per worker that died, per update that failed and    *)
(* per message a provider took while the call to it threw.                 *)
DuplicatesNeedFaults == \A n \in Notes : sent[n] <= 1 + crashes + outages + unanswered

(* Every job is brought to an end: whatever the providers answer, although *)
(* a worker dies on it and while callers fail, the row of a note that was  *)
(* enqueued is settled, unless Postgres refused to record it or the queue  *)
(* gave the job up because workers died on it more than MaxStalled times.  *)
EnqueuedIsSettled ==
    \A n \in Notes : job[n].state # "none"
        ~> \/ log[n].status \in Delivered \cup {"FAILED"}
           \/ outages > 0
           \/ job[n].stalled > MaxStalled
=============================================================================
