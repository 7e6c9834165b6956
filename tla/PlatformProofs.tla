--------------------------- MODULE PlatformProofs ---------------------------
(***************************************************************************)
(* TLAPS proofs about Notifications and about Sessions, two components     *)
(* that share no state, for every value of their constants.                *)
(***************************************************************************)
EXTENDS Notifications, Sessions, SequenceTheorems, FiniteSetTheorems, TLAPS

-----------------------------------------------------------------------------
(* Notifications.  A job that may still run has an attempt left, and a     *)
(* call or a delivery in flight is about a note.                           *)
Idling(pc) == pc = "idle"

Underway ==
    /\ \A n \in Notes : job[n].state \in {"waiting", "active"} =>
        job[n].attemptsMade < Attempts /\ job[n].stalled <= MaxStalled
    /\ \A c \in Callers : ~Idling(caller[c].pc) => caller[c].note \in Notes
    /\ \A w \in Workers : ~Idling(worker[w].pc) => worker[w].note \in Notes

(* The dedupe key lets one caller through to the queue, and the queue one  *)
(* worker to a job.                                                        *)
OneByOne ==
    /\ \A n \in Notes : log[n].status = "NONE" => job[n].state = "none"
    /\ \A c \in Callers : caller[c].pc = "enqueue" =>
        /\ job[caller[c].note].state = "none" /\ log[caller[c].note].status # "NONE"
        /\ \A d \in Callers : caller[d].pc = "enqueue" /\ caller[d].note = caller[c].note => c = d
    /\ \A w \in Workers : ~Idling(worker[w].pc) =>
        /\ job[worker[w].note].state = "active"
        /\ \A v \in Workers : ~Idling(worker[v].pc) /\ worker[v].note = worker[w].note => v = w

(* A delivery goes on only from a row that is neither SENT nor SKIPPED,    *)
(* and a message that went out is in the row, about to be, or was lost to  *)
(* a fault.                                                                *)
Marking(n) == \E w \in Workers : worker[w].pc = "mark" /\ worker[w].note = n
Accounted ==
    /\ \A w \in Workers : worker[w].pc \notin {"idle", "read", "done", "throw"} =>
        log[worker[w].note].status \notin Delivered
    /\ \A n \in Notes :
        \/ sent[n] <= crashes + outages + unanswered
        \/ sent[n] <= 1 + crashes + outages + unanswered /\ (log[n].status \in Delivered \/ Marking(n))

JobRow == [state : {"none", "waiting", "active", "completed", "failed"},
           attemptsMade : 0..Attempts, stalled : 0..(MaxStalled + 1)]
LogRow == [status : Status, attempts : 0..Attempts]
Call == [pc : {"idle", "insert", "enqueue", "link"}, note : Notes \cup {"none"}]
Delivery == [pc : {"idle", "read", "deliver", "lookup", "cache", "send",
                   "mark", "skip", "done", "fail", "throw"},
             note : Notes \cup {"none"}, prefs : Prefs]

Queue == NotificationsTypeOK /\ Underway

LEMMA QueueInit == NotificationsInit => Queue /\ OneByOne /\ Accounted
<1> SUFFICES ASSUME NotificationsInit PROVE Queue /\ OneByOne /\ Accounted
    OBVIOUS
<1>1. Attempts \in Nat \ {0} /\ MaxStalled \in Nat /\ MaxCrashes \in Nat /\ MaxOutages \in Nat
      /\ MaxUnanswered \in Nat
    BY NotificationsAssumption
<1>2. Defaults \in Prefs
    BY DEF Defaults, Prefs
<1>3. IdleWorker \in Delivery /\ IdleCaller \in Call /\ IdleWorker.pc = "idle" /\ IdleCaller.pc = "idle"
    BY <1>2 DEF IdleWorker, IdleCaller, Delivery, Call
<1>4. NotificationsTypeOK
    BY <1>1, <1>2, <1>3 DEF NotificationsInit, NotificationsTypeOK, Delivery, Call, Status
<1>5. Underway
    BY <1>3 DEF NotificationsInit, Underway, Idling
<1>6. OneByOne
    BY <1>3 DEF NotificationsInit, OneByOne, Idling
<1>7. Accounted
    BY <1>1, <1>3 DEF NotificationsInit, Accounted
<1> QED BY <1>4, <1>5, <1>6, <1>7 DEF Queue

(* The kinds of step.  A caller goes on without touching the log or the    *)
(* queue.                                                                  *)
CallerMoves(c, h) ==
    /\ h \in Call /\ h.pc # "enqueue" /\ (~Idling(h.pc) => h.note \in Notes)
    /\ caller' = [caller EXCEPT ![c] = h]
    /\ UNCHANGED <<log, job, worker, prefs, sent, crashes, outages, unanswered>>

(* A worker goes on with its job; only a fault takes it away from a        *)
(* message that is out and not in the row yet.                             *)
Committed == {"idle", "read", "done", "throw"}
WorkerMoves(w, h) ==
    /\ h \in Delivery /\ h.note = worker[w].note /\ ~Idling(worker[w].pc) /\ ~Idling(h.pc)
    /\ h.pc \notin Committed => log[h.note].status \notin Delivered
    /\ h.pc # "mark"
    /\ worker' = [worker EXCEPT ![w] = h]
    /\ prefs' \in [Users -> Prefs]
    /\ crashes' = crashes /\ outages' \in 0..MaxOutages
    /\ (outages' = outages /\ worker[w].pc # "mark") \/ outages' = outages + 1
    /\ UNCHANGED <<log, job, caller, sent, unanswered>>

(* A worker records how its attempt ended.                                 *)
WorkerRecords(w, h, r) ==
    /\ h \in Delivery /\ h.note = worker[w].note /\ worker[w].pc \notin Committed
    /\ h.pc \in {"done", "throw"}
    /\ r \in LogRow /\ r.status # "NONE" /\ (worker[w].pc = "mark" => r.status \in Delivered)
    /\ log' = [log EXCEPT ![h.note] = r]
    /\ worker' = [worker EXCEPT ![w] = h]
    /\ UNCHANGED <<job, caller, prefs, sent, crashes, outages, unanswered>>

(* A worker lets go of its job.                                            *)
WorkerReleases(w, j) ==
    /\ ~Idling(worker[w].pc)
    /\ j \in JobRow /\ j.state \notin {"none", "active"}
    /\ j.state = "waiting" => j.attemptsMade < Attempts /\ j.stalled <= MaxStalled
    /\ job' = [job EXCEPT ![worker[w].note] = j]
    /\ worker' = [worker EXCEPT ![w] = IdleWorker]
    /\ outages' = outages /\ crashes' \in 0..MaxCrashes
    /\ (crashes' = crashes /\ worker[w].pc # "mark") \/ crashes' = crashes + 1
    /\ UNCHANGED <<log, caller, prefs, sent, unanswered>>

LEMMA QueueTypes ==
    ASSUME Queue
    PROVE  /\ log \in [Notes -> LogRow] /\ job \in [Notes -> JobRow]
           /\ caller \in [Callers -> Call] /\ worker \in [Workers -> Delivery]
           /\ prefs \in [Users -> Prefs] /\ sent \in [Notes -> Nat]
           /\ crashes \in Nat /\ outages \in Nat
           /\ unanswered \in Nat
           /\ Attempts \in Nat \ {0} /\ MaxStalled \in Nat /\ MaxCrashes \in Nat /\ MaxOutages \in Nat
           /\ MaxUnanswered \in Nat
    BY NotificationsAssumption DEF Queue, NotificationsTypeOK, LogRow, JobRow, Call, Delivery

LEMMA CallerMovesKeeps ==
    ASSUME Queue, OneByOne, Accounted, NEW c \in Callers, NEW h, CallerMoves(c, h)
    PROVE  Queue' /\ OneByOne' /\ Accounted'
<1>1. /\ h \in Call /\ h.pc # "enqueue" /\ (~Idling(h.pc) => h.note \in Notes)
      /\ UNCHANGED <<log, job, worker, prefs, sent, crashes, outages, unanswered>>
    BY DEF CallerMoves
<1>2. caller' \in [Callers -> Call] /\ caller'[c] = h /\ \A d \in Callers \ {c} : caller'[d] = caller[d]
    BY QueueTypes DEF CallerMoves
<1>3. NotificationsTypeOK'
    BY <1>1, <1>2 DEF Queue, NotificationsTypeOK, Call
<1>4. Underway'
    BY <1>1, <1>2 DEF Queue, Underway
<1>5. OneByOne'
    BY <1>1, <1>2 DEF OneByOne
<1>6. Accounted'
    BY <1>1 DEF Accounted, Marking
<1> QED BY <1>3, <1>4, <1>5, <1>6 DEF Queue

LEMMA InsertLogKeeps ==
    ASSUME Queue, OneByOne, Accounted, NEW c \in Callers, InsertLog(c), log[caller[c].note].status = "NONE"
    PROVE  Queue' /\ OneByOne' /\ Accounted'
<1> DEFINE n == caller[c].note
           h == [caller[c] EXCEPT !.pc = "enqueue"]
           r == [log[n] EXCEPT !.status = "QUEUED"]
<1>1. n \in Notes /\ caller[c] \in Call
    BY QueueTypes DEF Queue, Underway, InsertLog, CallerAt, Idling
<1>2. h \in Call /\ h.pc = "enqueue" /\ h.note = n
    BY <1>1 DEF Call
<1>3. r \in LogRow /\ r.status = "QUEUED"
    BY <1>1, QueueTypes DEF LogRow, Status
<1>4. /\ log' = [log EXCEPT ![n] = r] /\ caller' = [caller EXCEPT ![c] = h]
      /\ UNCHANGED <<job, worker, prefs, sent, crashes, outages, unanswered>>
    BY DEF InsertLog, CallerGoto, faults
<1>5. log[n].status = "NONE" /\ job[n].state = "none"
    BY <1>1 DEF OneByOne
<1> HIDE DEF n, h, r
<1>6. caller' \in [Callers -> Call] /\ caller'[c] = h /\ \A d \in Callers \ {c} : caller'[d] = caller[d]
    BY <1>2, <1>4, QueueTypes
<1>7. log' \in [Notes -> LogRow] /\ log'[n] = r /\ \A m \in Notes \ {n} : log'[m] = log[m]
    BY <1>1, <1>3, <1>4, QueueTypes
<1>8. NotificationsTypeOK'
    BY <1>4, <1>6, <1>7 DEF Queue, NotificationsTypeOK, Call, LogRow
<1>9. Underway'
    BY <1>1, <1>2, <1>4, <1>6 DEF Queue, Underway
<1>10. OneByOne'
    <2>1. \A d \in Callers : d # c => caller'[d] = caller[d] /\ ~(caller[d].pc = "enqueue" /\ caller[d].note = n)
        BY <1>5, <1>6 DEF OneByOne
    <2>2. \A d \in Callers : caller[d].pc = "enqueue" => caller[d].note \in Notes
        BY DEF Queue, Underway, Idling
    <2>3. \A w \in Workers : ~Idling(worker[w].pc) => worker[w].note \in Notes \ {n}
        BY <1>5 DEF OneByOne, Queue, Underway
    <2> QED BY <1>1, <1>2, <1>3, <1>4, <1>5, <1>6, <1>7, <2>1, <2>2, <2>3 DEF OneByOne
<1>11. Accounted'
    <2>1. \A w \in Workers : ~Idling(worker[w].pc) => worker[w].note \in Notes \ {n}
        BY <1>5 DEF OneByOne, Queue, Underway
    <2>2. log[n].status \notin Delivered /\ log'[n].status \notin Delivered
        BY <1>3, <1>5, <1>7 DEF Delivered
    <2> QED BY <1>1, <1>4, <1>7, <2>1, <2>2 DEF Accounted, Marking, Idling
<1> QED BY <1>8, <1>9, <1>10, <1>11 DEF Queue

LEMMA EnqueueKeeps ==
    ASSUME Queue, OneByOne, Accounted, NEW c \in Callers, Enqueue(c)
    PROVE  Queue' /\ OneByOne' /\ Accounted'
<1> DEFINE n == caller[c].note
           h == [caller[c] EXCEPT !.pc = "link"]
           j == [state |-> "waiting", attemptsMade |-> 0, stalled |-> 0]
<1>1. n \in Notes /\ caller[c] \in Call
    BY QueueTypes DEF Queue, Underway, Enqueue, CallerAt, Idling
<1>2. h \in Call /\ h.pc = "link" /\ h.note = n
    BY <1>1 DEF Call
<1>3. j \in JobRow /\ j.state = "waiting" /\ j.attemptsMade = 0 /\ j.stalled = 0
    BY QueueTypes DEF JobRow
<1>4. /\ job' = [job EXCEPT ![n] = j] /\ caller' = [caller EXCEPT ![c] = h]
      /\ UNCHANGED <<log, worker, prefs, sent, crashes, outages, unanswered>>
    BY DEF Enqueue, CallerGoto, faults
<1>5. log[n].status # "NONE" /\ job[n].state = "none" /\ caller[c].pc = "enqueue"
    BY <1>1 DEF OneByOne, Enqueue, CallerAt
<1>a. \A d \in Callers : d # c /\ caller[d].pc = "enqueue" => caller[d].note \in Notes \ {n}
    BY <1>5 DEF OneByOne, Queue, Underway, Idling
<1> HIDE DEF n, h, j
<1>6. caller' \in [Callers -> Call] /\ caller'[c] = h /\ \A d \in Callers \ {c} : caller'[d] = caller[d]
    BY <1>2, <1>4, QueueTypes
<1>7. job' \in [Notes -> JobRow] /\ job'[n] = j /\ \A m \in Notes \ {n} : job'[m] = job[m]
    BY <1>1, <1>3, <1>4, QueueTypes
<1>8. NotificationsTypeOK'
    BY <1>4, <1>6, <1>7 DEF Queue, NotificationsTypeOK, Call, JobRow
<1>9. Underway'
    BY <1>1, <1>2, <1>3, <1>4, <1>6, <1>7, QueueTypes DEF Queue, Underway
<1>10. OneByOne'
    <2>1. \A w \in Workers : ~Idling(worker[w].pc) => worker[w].note \in Notes \ {n}
        BY <1>5 DEF OneByOne, Queue, Underway
    <2> QED BY <1>1, <1>2, <1>3, <1>4, <1>5, <1>a, <1>6, <1>7, <2>1 DEF OneByOne
<1>11. Accounted'
    BY <1>4 DEF Accounted, Marking
<1> QED BY <1>8, <1>9, <1>10, <1>11 DEF Queue

LEMMA WorkerMovesKeeps ==
    ASSUME Queue, OneByOne, Accounted, NEW w \in Workers, NEW h, WorkerMoves(w, h)
    PROVE  Queue' /\ OneByOne' /\ Accounted'
<1> DEFINE n == worker[w].note
<1>1. n \in Notes /\ h \in Delivery /\ h.note = n /\ ~Idling(worker[w].pc) /\ ~Idling(h.pc)
    BY DEF WorkerMoves, Queue, Underway
<1>2. /\ prefs' \in [Users -> Prefs] /\ UNCHANGED <<log, job, caller, sent, crashes, unanswered>> /\ outages' \in 0..MaxOutages
      /\ (outages' = outages /\ worker[w].pc # "mark") \/ outages' = outages + 1
      /\ h.pc # "mark" /\ (h.pc \notin Committed => log[n].status \notin Delivered)
    BY <1>1 DEF WorkerMoves
<1>3. worker' \in [Workers -> Delivery] /\ worker'[w] = h /\ \A v \in Workers \ {w} : worker'[v] = worker[v]
    BY QueueTypes DEF WorkerMoves
<1> HIDE DEF n
<1>4. NotificationsTypeOK'
    BY <1>2, <1>3 DEF Queue, NotificationsTypeOK, Delivery
<1>5. Underway'
    BY <1>1, <1>2, <1>3 DEF Queue, Underway
<1>6. OneByOne'
    BY <1>1, <1>2, <1>3 DEF OneByOne, n
<1>7. Accounted'
    <2>1. \A v \in Workers : worker'[v].pc \notin Committed => log[worker'[v].note].status \notin Delivered
        BY <1>1, <1>2, <1>3 DEF Accounted, Committed
    <2>2. ASSUME NEW m \in Notes
          PROVE  \/ sent[m] <= crashes + outages' + unanswered
                 \/ sent[m] <= 1 + crashes + outages' + unanswered /\ (log[m].status \in Delivered \/ Marking(m)')
        <3>1. sent[m] \in Nat /\ crashes \in Nat /\ outages \in Nat /\ unanswered \in Nat /\ outages' \in Nat /\ outages' >= outages
            BY <1>2, QueueTypes
        <3>2. CASE outages' = outages + 1
            BY <3>1, <3>2 DEF Accounted
        <3>3. CASE outages' = outages /\ worker[w].pc # "mark"
            <4>1. Marking(m) => Marking(m)'
                BY <1>3, <3>3 DEF Marking
            <4> QED BY <3>1, <3>3, <4>1 DEF Accounted
        <3> QED BY <1>2, <3>2, <3>3
    <2> QED BY <1>2, <2>1, <2>2 DEF Accounted, Committed
<1> QED BY <1>4, <1>5, <1>6, <1>7 DEF Queue

LEMMA WorkerRecordsKeeps ==
    ASSUME Queue, OneByOne, Accounted, NEW w \in Workers, NEW h, NEW r, WorkerRecords(w, h, r)
    PROVE  Queue' /\ OneByOne' /\ Accounted'
<1> DEFINE n == worker[w].note
<1>1. /\ n \in Notes /\ h \in Delivery /\ h.note = n /\ ~Idling(worker[w].pc) /\ ~Idling(h.pc)
      /\ h.pc \in Committed /\ h.pc # "mark"
    BY DEF WorkerRecords, Queue, Underway, Committed, Idling
<1>2. /\ UNCHANGED <<job, caller, prefs, sent, crashes, outages, unanswered>>
      /\ r \in LogRow /\ r.status # "NONE" /\ (worker[w].pc = "mark" => r.status \in Delivered)
    BY DEF WorkerRecords
<1>3. worker' \in [Workers -> Delivery] /\ worker'[w] = h /\ \A v \in Workers \ {w} : worker'[v] = worker[v]
    BY QueueTypes DEF WorkerRecords
<1>4. log' \in [Notes -> LogRow] /\ log'[n] = r /\ \A m \in Notes \ {n} : log'[m] = log[m]
    BY <1>1, <1>2, QueueTypes DEF WorkerRecords
<1>a. log[n].status \notin Delivered
    BY DEF WorkerRecords, Accounted, Committed
<1>b. \A v \in Workers \ {w} : ~Idling(worker[v].pc) => worker[v].note \in Notes \ {n}
    BY <1>1 DEF OneByOne, Queue, Underway
<1> HIDE DEF n
<1>5. NotificationsTypeOK'
    BY <1>2, <1>3, <1>4 DEF Queue, NotificationsTypeOK, Delivery, LogRow
<1>6. Underway'
    BY <1>1, <1>2, <1>3 DEF Queue, Underway
<1>7. OneByOne'
    <2>1. \A c \in Callers : caller[c].pc = "enqueue" => caller[c].note \in Notes
        BY DEF Queue, Underway, Idling
    <2> QED BY <1>1, <1>2, <1>3, <1>4, <2>1 DEF OneByOne, n
<1>8. Accounted'
    <2>1. \A v \in Workers : worker'[v].pc \notin Committed => log'[worker'[v].note].status \notin Delivered
        BY <1>1, <1>2, <1>3, <1>4, <1>b DEF Accounted, Committed, Idling
    <2>2. ASSUME NEW m \in Notes
          PROVE  log[m].status \in Delivered \/ Marking(m) => log'[m].status \in Delivered \/ Marking(m)'
        <3>1. CASE m = n
            <4>1. Marking(n) => worker[w].pc = "mark"
                BY <1>b DEF Marking, Idling
            <4> QED BY <1>2, <1>4, <1>a, <3>1, <4>1
        <3>2. CASE m # n
            BY <1>1, <1>3, <1>4, <3>2 DEF Marking, n
        <3> QED BY <3>1, <3>2
    <2> QED BY <1>2, <2>1, <2>2 DEF Accounted, Committed
<1> QED BY <1>5, <1>6, <1>7, <1>8 DEF Queue

LEMMA WorkerReleasesKeeps ==
    ASSUME Queue, OneByOne, Accounted, NEW w \in Workers, NEW j, WorkerReleases(w, j)
    PROVE  Queue' /\ OneByOne' /\ Accounted'
<1> DEFINE n == worker[w].note
<1>1. n \in Notes /\ job[n].state = "active" /\ log[n].status # "NONE"
    BY DEF WorkerReleases, Queue, Underway, OneByOne
<1>2. /\ UNCHANGED <<log, caller, prefs, sent, outages, unanswered>> /\ crashes' \in 0..MaxCrashes
      /\ (crashes' = crashes /\ worker[w].pc # "mark") \/ crashes' = crashes + 1
      /\ j \in JobRow /\ j.state \notin {"none", "active"} /\ (j.state = "waiting" => j.attemptsMade < Attempts /\ j.stalled <= MaxStalled)
    BY DEF WorkerReleases
<1>3. IdleWorker \in Delivery /\ IdleWorker.pc = "idle" /\ Idling(IdleWorker.pc)
    BY DEF IdleWorker, Delivery, Defaults, Prefs, Idling
<1>4. worker' \in [Workers -> Delivery] /\ worker'[w] = IdleWorker /\ \A v \in Workers \ {w} : worker'[v] = worker[v]
    BY <1>3, QueueTypes DEF WorkerReleases
<1>5. job' \in [Notes -> JobRow] /\ job'[n] = j /\ \A m \in Notes \ {n} : job'[m] = job[m]
    BY <1>1, <1>2, QueueTypes DEF WorkerReleases
<1>b. \A v \in Workers \ {w} : ~Idling(worker[v].pc) => worker[v].note \in Notes \ {n}
    BY <1>1 DEF OneByOne, Queue, Underway, WorkerReleases
<1> HIDE DEF n
<1>6. NotificationsTypeOK'
    BY <1>2, <1>4, <1>5 DEF Queue, NotificationsTypeOK, Delivery, JobRow
<1>7. Underway'
    BY <1>1, <1>2, <1>3, <1>4, <1>5 DEF Queue, Underway
<1>8. OneByOne'
    <2>1. \A c \in Callers : caller[c].pc = "enqueue" => caller[c].note \in Notes \ {n}
        BY <1>1 DEF Queue, Underway, Idling, OneByOne
    <2> QED BY <1>1, <1>2, <1>3, <1>4, <1>5, <1>b, <2>1 DEF OneByOne
<1>9. Accounted'
    <2>1. \A v \in Workers : worker'[v].pc \notin Committed => log[worker'[v].note].status \notin Delivered
        BY <1>3, <1>4 DEF Accounted, Committed
    <2>2. ASSUME NEW m \in Notes
          PROVE  \/ sent[m] <= crashes' + outages + unanswered
                 \/ sent[m] <= 1 + crashes' + outages + unanswered /\ (log[m].status \in Delivered \/ Marking(m)')
        <3>1. sent[m] \in Nat /\ crashes \in Nat /\ outages \in Nat /\ unanswered \in Nat /\ crashes' \in Nat
            BY <1>2, QueueTypes
        <3>2. CASE crashes' = crashes + 1
            BY <3>1, <3>2 DEF Accounted
        <3>3. CASE crashes' = crashes /\ worker[w].pc # "mark"
            <4>1. Marking(m) => Marking(m)'
                BY <1>4, <3>3 DEF Marking
            <4> QED BY <3>1, <3>3, <4>1 DEF Accounted
        <3> QED BY <1>2, <3>2, <3>3
    <2> QED BY <1>2, <2>1, <2>2 DEF Accounted, Committed
<1> QED BY <1>6, <1>7, <1>8, <1>9 DEF Queue

LEMMA TakeKeeps ==
    ASSUME Queue, OneByOne, Accounted, NEW w \in Workers, NEW n \in Notes, Take(w, n)
    PROVE  Queue' /\ OneByOne' /\ Accounted'
<1> DEFINE h == [IdleWorker EXCEPT !.pc = "read", !.note = n]
           j == [job[n] EXCEPT !.state = "active"]
<1>1. h \in Delivery /\ h.pc = "read" /\ h.note = n
    BY DEF IdleWorker, Delivery, Defaults, Prefs
<1>2. job[n] \in JobRow /\ job[n].state = "waiting" /\ Idling(worker[w].pc)
    BY QueueTypes DEF Take, WorkerAt, Idling
<1>3. j \in JobRow /\ j.state = "active" /\ j.attemptsMade < Attempts /\ j.stalled <= MaxStalled
    BY <1>2 DEF JobRow, Queue, Underway
<1>4. /\ job' = [job EXCEPT ![n] = j] /\ worker' = [worker EXCEPT ![w] = h]
      /\ UNCHANGED <<log, caller, prefs, sent, crashes, outages, unanswered>>
    BY DEF Take, faults
<1> HIDE DEF h, j
<1>5. worker' \in [Workers -> Delivery] /\ worker'[w] = h /\ \A v \in Workers \ {w} : worker'[v] = worker[v]
    BY <1>1, <1>4, QueueTypes
<1>6. job' \in [Notes -> JobRow] /\ job'[n] = j /\ \A m \in Notes \ {n} : job'[m] = job[m]
    BY <1>3, <1>4, QueueTypes
<1>b. \A v \in Workers : ~Idling(worker[v].pc) => worker[v].note \in Notes \ {n}
    BY <1>2 DEF OneByOne, Queue, Underway
<1>7. NotificationsTypeOK'
    BY <1>4, <1>5, <1>6 DEF Queue, NotificationsTypeOK, Delivery, JobRow
<1>8. Underway'
    BY <1>1, <1>3, <1>4, <1>5, <1>6 DEF Queue, Underway
<1>9. OneByOne'
    <2>1. \A c \in Callers : caller[c].pc = "enqueue" => caller[c].note \in Notes \ {n}
        BY <1>2 DEF Queue, Underway, Idling, OneByOne
    <2> QED BY <1>1, <1>2, <1>3, <1>4, <1>5, <1>6, <1>b, <2>1 DEF OneByOne
<1>10. Accounted'
    <2>1. \A m \in Notes : Marking(m) => Marking(m)'
        BY <1>2, <1>5 DEF Marking, Idling
    <2> QED BY <1>1, <1>4, <1>5, <2>1 DEF Accounted
<1> QED BY <1>7, <1>8, <1>9, <1>10 DEF Queue

(* The provider accepts the message, and says so or not.  Nobody else has  *)
(* this job and its row is not settled, so whatever went out before was    *)
(* lost to a fault.                                                        *)
LEMMA SendKeeps ==
    ASSUME Queue, OneByOne, Accounted, NEW w \in Workers, NEW pc, WorkerAt(w, "send"),
           sent' = [sent EXCEPT ![worker[w].note] = @ + 1],
           WorkerGoto(w, pc), pc \in {"mark", "fail"},
           unanswered' \in 0..MaxUnanswered,
           unanswered' = unanswered + (IF pc = "mark" THEN 0 ELSE 1),
           UNCHANGED <<log, job, caller, prefs, crashes, outages>>
    PROVE  Queue' /\ OneByOne' /\ Accounted'
<1> DEFINE n == worker[w].note
           h == [worker[w] EXCEPT !.pc = pc]
<1>1. n \in Notes /\ worker[w] \in Delivery /\ worker[w].pc = "send" /\ ~Idling(worker[w].pc)
    BY QueueTypes DEF WorkerAt, Queue, Underway, Idling
<1>2. h \in Delivery /\ h.pc = pc /\ h.note = n /\ ~Idling(h.pc)
    BY <1>1 DEF Delivery, Idling
<1>3. worker' = [worker EXCEPT ![w] = h] /\ UNCHANGED <<log, job, caller, prefs, crashes, outages>>
    BY DEF WorkerGoto
<1>a. log[n].status \notin Delivered
    BY <1>1 DEF Accounted
<1>b. \A v \in Workers \ {w} : ~Idling(worker[v].pc) => worker[v].note # n
    BY <1>1 DEF OneByOne
<1>4. sent' \in [Notes -> Nat] /\ sent'[n] = sent[n] + 1 /\ \A m \in Notes \ {n} : sent'[m] = sent[m]
    BY <1>1, QueueTypes
<1> HIDE DEF h
<1>5. worker' \in [Workers -> Delivery] /\ worker'[w] = h /\ \A v \in Workers \ {w} : worker'[v] = worker[v]
    BY <1>2, <1>3, QueueTypes
<1> HIDE DEF n
<1>6. NotificationsTypeOK'
    BY <1>3, <1>4, <1>5 DEF Queue, NotificationsTypeOK, Delivery
<1>7. Underway'
    BY <1>1, <1>2, <1>3, <1>5 DEF Queue, Underway
<1>8. OneByOne'
    BY <1>1, <1>2, <1>3, <1>5 DEF OneByOne, n
<1>9. Accounted'
    <2>1. \A v \in Workers : worker'[v].pc \notin Committed => log[worker'[v].note].status \notin Delivered
        BY <1>2, <1>5, <1>a DEF Accounted, Committed
    <2>2. ASSUME NEW m \in Notes
          PROVE  \/ sent'[m] <= crashes + outages + unanswered'
                 \/ sent'[m] <= 1 + crashes + outages + unanswered' /\ (log[m].status \in Delivered \/ Marking(m)')
        <3>1. sent[m] \in Nat /\ crashes \in Nat /\ outages \in Nat /\ unanswered \in Nat
            BY QueueTypes
        <3>2. CASE m = n
            <4>1. ~Marking(n)
                BY <1>1, <1>b DEF Marking, Idling
            <4>2. sent[n] <= crashes + outages + unanswered
                BY <1>1, <1>a, <4>1 DEF Accounted
            <4>3. pc = "mark" => Marking(m)'
                BY <1>2, <1>5, <3>2 DEF Marking
            <4>4. CASE pc = "mark"
                BY <1>4, <3>1, <3>2, <4>2, <4>3, <4>4
            <4>5. CASE pc = "fail"
                BY <1>4, <3>1, <3>2, <4>2, <4>5
            <4> QED BY <4>4, <4>5
        <3>3. CASE m # n
            <4>1. Marking(m) => Marking(m)'
                BY <1>1, <1>5, <3>3 DEF Marking, n
            <4>2. unanswered' \in Nat /\ unanswered' >= unanswered
                BY <3>1
            <4> QED BY <1>4, <3>1, <3>3, <4>1, <4>2 DEF Accounted
        <3> QED BY <3>2, <3>3
    <2> QED BY <1>3, <2>1, <2>2 DEF Accounted, Committed
<1> QED BY <1>6, <1>7, <1>8, <1>9 DEF Queue

(* Which action is which kind of step.                                     *)
LEMMA CallerStep ==
    ASSUME Queue, OneByOne, Accounted, NEW c \in Callers,
           (\E n \in Notes : Emit(c, n)) \/ Notify(c) \/ CallerFails(c)
    PROVE  Queue' /\ OneByOne' /\ Accounted'
<1>1. IdleCaller \in Call /\ Idling(IdleCaller.pc) /\ IdleCaller.pc = "idle"
    BY DEF IdleCaller, Call, Idling
<1>2. Return(c) /\ UNCHANGED <<log, job, worker, prefs, sent, faults>> => CallerMoves(c, IdleCaller)
    BY <1>1 DEF Return, CallerMoves, faults
<1>3. ASSUME NEW n \in Notes, Emit(c, n) PROVE CallerMoves(c, [pc |-> "insert", note |-> n])
    BY <1>3 DEF Emit, CallerMoves, Call, faults
<1>4. InsertLog(c) /\ log[caller[c].note].status # "NONE" => CallerMoves(c, IdleCaller)
    BY <1>2 DEF InsertLog, faults
<1>5. Link(c) \/ CallerFails(c) => CallerMoves(c, IdleCaller)
    BY <1>2 DEF Link, CallerFails
<1> QED BY <1>3, <1>4, <1>5, CallerMovesKeeps, InsertLogKeeps, EnqueueKeeps DEF Notify

LEMMA WorkerGoes ==
    ASSUME Queue, NEW w \in Workers, NEW pc, WorkerGoto(w, pc), ~Idling(worker[w].pc),
           pc \in {"read", "deliver", "lookup", "cache", "send", "mark", "skip", "done", "fail", "throw"}
    PROVE  \E h \in Delivery : /\ h.pc = pc /\ h.note = worker[w].note /\ worker[w].note \in Notes
                               /\ worker' = [worker EXCEPT ![w] = h]
<1> DEFINE h == [worker[w] EXCEPT !.pc = pc]
<1>1. worker[w] \in Delivery /\ worker[w].note \in Notes
    BY QueueTypes DEF Queue, Underway
<1>2. h \in Delivery /\ h.pc = pc /\ h.note = worker[w].note
    BY <1>1 DEF Delivery
<1>3. worker' = [worker EXCEPT ![w] = h]
    BY DEF WorkerGoto
<1> QED BY <1>1, <1>2, <1>3

LEMMA Moves ==
    ASSUME Queue, OneByOne, Accounted, NEW w \in Workers, NEW pc, WorkerGoto(w, pc), ~Idling(worker[w].pc),
           pc \in {"read", "deliver", "lookup", "cache", "send", "skip", "done", "fail", "throw"},
           pc \notin Committed => log[worker[w].note].status \notin Delivered,
           prefs' \in [Users -> Prefs], outages' \in 0..MaxOutages,
           (outages' = outages /\ worker[w].pc # "mark") \/ outages' = outages + 1,
           UNCHANGED <<log, job, caller, sent, crashes, unanswered>>
    PROVE  Queue' /\ OneByOne' /\ Accounted'
<1>1. PICK h \in Delivery : /\ h.pc = pc /\ h.note = worker[w].note
                            /\ worker' = [worker EXCEPT ![w] = h]
    BY WorkerGoes
<1>2. WorkerMoves(w, h)
    BY <1>1 DEF WorkerMoves, Idling
<1> QED BY <1>2, WorkerMovesKeeps

LEMMA Records ==
    ASSUME Queue, OneByOne, Accounted, NEW w \in Workers, NEW pc \in {"done", "throw"}, WorkerGoto(w, pc),
           worker[w].pc \notin Committed, NEW status \in Status \ {"NONE"},
           worker[w].pc = "mark" => status \in Delivered,
           log' = [log EXCEPT ![worker[w].note] = [status |-> status, attempts |-> Attempt(worker[w].note)]],
           UNCHANGED <<job, caller, prefs, sent, faults>>
    PROVE  Queue' /\ OneByOne' /\ Accounted'
<1> DEFINE n == worker[w].note
           r == [status |-> status, attempts |-> Attempt(n)]
<1>1. ~Idling(worker[w].pc)
    BY DEF Committed, Idling
<1>2. PICK h \in Delivery : /\ h.pc = pc /\ h.note = n /\ n \in Notes
                            /\ worker' = [worker EXCEPT ![w] = h]
    BY <1>1, WorkerGoes
<1>3. job[n] \in JobRow /\ job[n].attemptsMade < Attempts
    BY <1>1, <1>2, QueueTypes DEF OneByOne, Queue, Underway
<1>4. Attempt(n) \in 0..Attempts
    BY <1>3, QueueTypes DEF Attempt, JobRow
<1>5. r \in LogRow /\ r.status = status
    BY <1>4 DEF LogRow
<1>6. WorkerRecords(w, h, r)
    BY <1>2, <1>5 DEF WorkerRecords, faults
<1> QED BY <1>6, WorkerRecordsKeeps

LEMMA UntouchedPreferences ==
    ASSUME Queue, UNCHANGED <<log, job, caller, prefs, sent, faults>>
    PROVE  /\ UNCHANGED <<log, job, caller, sent, crashes, unanswered>> /\ prefs' \in [Users -> Prefs]
           /\ outages' = outages /\ outages' \in 0..MaxOutages
    BY QueueTypes DEF Queue, NotificationsTypeOK, faults

LEMMA ProcessStep ==
    ASSUME Queue, OneByOne, Accounted, NEW w \in Workers, Process(w)
    PROVE  Queue' /\ OneByOne' /\ Accounted'
<1>1. CASE ReadLog(w)
    <2> DEFINE pc == IF log[worker[w].note].status \in Delivered THEN "done" ELSE "deliver"
    <2>1. pc \in {"done", "deliver"} /\ (pc \notin Committed => log[worker[w].note].status \notin Delivered)
        BY DEF Committed
    <2>2. WorkerGoto(w, pc) /\ worker[w].pc = "read" /\ UNCHANGED <<log, job, caller, prefs, sent, faults>>
        BY <1>1 DEF ReadLog, WorkerAt
    <2> HIDE DEF pc
    <2> QED BY <2>1, <2>2, Moves, UntouchedPreferences DEF Idling
<1>2. CASE CheckPreferences(w)
    <2>1. PICK pc \in {"skip", "send", "lookup"}, p \in Prefs :
            worker' = [worker EXCEPT ![w].pc = pc, ![w].prefs = p]
        <3> DEFINE n == worker[w].note
                   p == prefs[To[n]]
                   Off == \/ Via[n] = "email" /\ ~p.email
                          \/ Via[n] = "channel" /\ ~SlackConfigured
                          \/ Via[n] = "slack" /\ (~SlackConfigured \/ ~p.slack)
                   Known == Via[n] = "slack" => p.known
                   pc == IF Off THEN "skip" ELSE IF Known THEN "send" ELSE "lookup"
                   q == IF Off \/ Known THEN worker[w].prefs ELSE p
        <3>1. n \in Notes /\ worker[w] \in Delivery
            BY <1>2, QueueTypes DEF CheckPreferences, WorkerAt, Queue, Underway, Idling
        <3>2. p \in Prefs
            BY <3>1, QueueTypes, NotificationsAssumption
        <3>3. worker[w].prefs \in Prefs
            BY <3>1 DEF Delivery
        <3>4. worker' = [worker EXCEPT ![w].pc = pc, ![w].prefs = q]
            BY <1>2 DEF CheckPreferences
        <3>5. pc \in {"skip", "send", "lookup"}
            OBVIOUS
        <3>6. q \in Prefs
            BY <3>2, <3>3
        <3> HIDE DEF pc, q
        <3> QED BY <3>4, <3>5, <3>6
    <2> DEFINE g == [worker[w] EXCEPT !.pc = pc]
               h == [g EXCEPT !.prefs = p]
    <2>2. worker[w] \in Delivery /\ worker[w].pc = "deliver"
        BY <1>2, QueueTypes DEF CheckPreferences, WorkerAt
    <2>3. g \in Delivery /\ g.pc = pc /\ g.note = worker[w].note
        BY <2>2 DEF Delivery
    <2>4. worker' = [worker EXCEPT ![w] = h]
        BY <2>1
    <2> HIDE DEF g
    <2>5. h \in Delivery /\ h.pc = pc /\ h.note = worker[w].note
        BY <2>3 DEF Delivery
    <2>6. log[worker[w].note].status \notin Delivered
        BY <2>2 DEF Accounted
    <2> HIDE DEF h
    <2>7. WorkerMoves(w, h)
        BY <1>2, <2>2, <2>4, <2>5, <2>6, UntouchedPreferences DEF WorkerMoves, CheckPreferences, Idling
    <2> QED BY <2>7, WorkerMovesKeeps
<1>3. CASE Lookup(w)
    <2>1. PICK pc \in {"cache", "skip", "fail"} : WorkerGoto(w, pc)
        BY <1>3 DEF Lookup
    <2>2. worker[w].pc = "lookup" /\ UNCHANGED <<log, job, caller, prefs, sent, faults>>
        BY <1>3 DEF Lookup, WorkerAt
    <2>3. log[worker[w].note].status \notin Delivered
        BY <2>2 DEF Accounted
    <2> QED BY <2>1, <2>2, <2>3, Moves, UntouchedPreferences DEF Idling
<1>4. CASE CacheSlackId(w)
    <2>1. /\ WorkerGoto(w, "send") /\ worker[w].pc = "cache" /\ worker[w] \in Delivery
          /\ UNCHANGED <<log, job, caller, sent, crashes, outages, unanswered>>
        BY <1>4, QueueTypes DEF CacheSlackId, WorkerAt, faults
    <2>2. [worker[w].prefs EXCEPT !.known = TRUE] \in Prefs
        BY <2>1 DEF Delivery, Prefs
    <2>3. prefs' \in [Users -> Prefs]
        BY <1>4, <2>2, QueueTypes DEF CacheSlackId
    <2>4. log[worker[w].note].status \notin Delivered /\ outages' \in 0..MaxOutages
        BY <2>1 DEF Accounted, Queue, NotificationsTypeOK
    <2> QED BY <2>1, <2>3, <2>4, Moves DEF Idling
<1>5. CASE Send(w)
    <2>1. CASE UNCHANGED <<sent, unanswered>> /\ WorkerGoto(w, "fail")
        <3>1. worker[w].pc = "send" /\ UNCHANGED <<log, job, caller, prefs, sent, faults>>
            BY <1>5, <2>1 DEF Send, WorkerAt, faults
        <3>2. log[worker[w].note].status \notin Delivered
            BY <3>1 DEF Accounted
        <3> QED BY <2>1, <3>1, <3>2, Moves, UntouchedPreferences DEF Idling
    <2>2. WorkerAt(w, "send") /\ UNCHANGED <<log, job, caller, prefs, crashes, outages>>
        BY <1>5 DEF Send
    <2>3. CASE /\ sent' = [sent EXCEPT ![worker[w].note] = @ + 1]
               /\ WorkerGoto(w, "mark") /\ UNCHANGED unanswered
        <3>1. unanswered' \in 0..MaxUnanswered /\ unanswered' = unanswered + 0
            BY <2>3, QueueTypes DEF Queue, NotificationsTypeOK
        <3> QED BY <2>2, <2>3, <3>1, SendKeeps
    <2>4. CASE /\ unanswered < MaxUnanswered /\ unanswered' = unanswered + 1
               /\ sent' = [sent EXCEPT ![worker[w].note] = @ + 1] /\ WorkerGoto(w, "fail")
        <3>1. unanswered' \in 0..MaxUnanswered
            BY <2>4, QueueTypes
        <3> QED BY <2>2, <2>4, <3>1, SendKeeps
    <2> QED BY <1>5, <2>1, <2>3, <2>4 DEF Send
<1>6. CASE MarkSent(w)
    <2> DEFINE s == "SENT"
    <2>1. worker[w].pc = "mark" /\ worker[w].pc \notin Committed /\ s \in Delivered /\ s \in Status \ {"NONE"}
        BY <1>6 DEF MarkSent, WorkerAt, Committed, Delivered, Status
    <2>2. /\ log' = [log EXCEPT ![worker[w].note] = [status |-> s, attempts |-> Attempt(worker[w].note)]]
          /\ WorkerGoto(w, "done") /\ UNCHANGED <<job, caller, prefs, sent, faults>>
        BY <1>6 DEF MarkSent
    <2> HIDE DEF s
    <2> QED BY <2>1, <2>2, Records
<1>7. CASE Skip(w)
    <2> DEFINE s == "SKIPPED"
    <2>1. worker[w].pc = "skip" /\ worker[w].pc \notin Committed /\ s \in Delivered /\ s \in Status \ {"NONE"}
        BY <1>7 DEF Skip, WorkerAt, Committed, Delivered, Status
    <2>2. /\ log' = [log EXCEPT ![worker[w].note] = [status |-> s, attempts |-> Attempt(worker[w].note)]]
          /\ WorkerGoto(w, "done") /\ UNCHANGED <<job, caller, prefs, sent, faults>>
        BY <1>7 DEF Skip
    <2> HIDE DEF s
    <2> QED BY <2>1, <2>2, Records
<1>8. CASE Complete(w)
    <2> DEFINE n == worker[w].note
               j == [job[n] EXCEPT !.state = "completed"]
    <2>1. worker[w].pc = "done" /\ n \in Notes /\ job[n] \in JobRow
        BY <1>8, QueueTypes DEF Complete, WorkerAt, Queue, Underway, Idling
    <2>2. j \in JobRow /\ j.state = "completed"
        BY <2>1 DEF JobRow
    <2>3. WorkerReleases(w, j)
        BY <1>8, <2>1, <2>2, UntouchedPreferences, QueueTypes
           DEF Complete, WorkerReleases, Idling, faults, Queue, NotificationsTypeOK
    <2> QED BY <2>3, WorkerReleasesKeeps
<1>9. CASE MarkFailed(w)
    <2> DEFINE s == IF Exhausted(worker[w].note) THEN "FAILED" ELSE "QUEUED"
    <2>1. worker[w].pc = "fail" /\ worker[w].pc \notin Committed /\ s \in Status \ {"NONE"}
        BY <1>9 DEF MarkFailed, WorkerAt, Committed, Status
    <2>2. /\ log' = [log EXCEPT ![worker[w].note] = [status |-> s, attempts |-> Attempt(worker[w].note)]]
          /\ WorkerGoto(w, "throw") /\ UNCHANGED <<job, caller, prefs, sent, faults>>
        BY <1>9 DEF MarkFailed
    <2> HIDE DEF s
    <2> QED BY <2>1, <2>2, Records
<1>10. CASE Throw(w)
    <2> DEFINE n == worker[w].note
               g == [job[n] EXCEPT !.attemptsMade = Attempt(n)]
               s == IF Attempt(n) < Attempts THEN "waiting" ELSE "failed"
               j == [g EXCEPT !.state = s]
    <2>1. worker[w].pc = "throw" /\ n \in Notes /\ job[n] \in JobRow /\ ~Idling(worker[w].pc)
        BY <1>10, QueueTypes DEF Throw, WorkerAt, Queue, Underway, Idling
    <2>2. Attempt(n) \in 0..Attempts /\ job[n].stalled <= MaxStalled
        BY <2>1, QueueTypes DEF OneByOne, Queue, Underway, Attempt, JobRow
    <2>3. g \in JobRow /\ g.attemptsMade = Attempt(n) /\ g.stalled <= MaxStalled
        BY <2>1, <2>2 DEF JobRow
    <2>4. s \in {"waiting", "failed"} /\ (s = "waiting" => Attempt(n) < Attempts)
        OBVIOUS
    <2>5. job' = [job EXCEPT ![n] = j] /\ worker' = [worker EXCEPT ![w] = IdleWorker]
        BY <1>10 DEF Throw
    <2> HIDE DEF g, s
    <2>6. j \in JobRow /\ j.state = s /\ j.attemptsMade = g.attemptsMade /\ j.stalled = g.stalled
        BY <2>3, <2>4 DEF JobRow
    <2> HIDE DEF j
    <2>7. UNCHANGED <<log, caller, prefs, sent, crashes, outages, unanswered>> /\ crashes' \in 0..MaxCrashes
        BY <1>10 DEF Throw, faults, Queue, NotificationsTypeOK
    <2>8. /\ j.state \notin {"none", "active"}
          /\ j.state = "waiting" => j.attemptsMade < Attempts /\ j.stalled <= MaxStalled
        BY <2>3, <2>4, <2>6
    <2>9. worker[w].pc # "mark"
        BY <2>1
    <2>10. WorkerReleases(w, j)
        BY <2>1, <2>5, <2>6, <2>7, <2>8, <2>9 DEF WorkerReleases
    <2> QED BY <2>10, WorkerReleasesKeeps
<1> QED BY <1>1, <1>2, <1>3, <1>4, <1>5, <1>6, <1>7, <1>8, <1>9, <1>10 DEF Process

LEMMA FaultStep ==
    ASSUME Queue, OneByOne, Accounted, NEW w \in Workers, DatabaseFails(w) \/ Crash(w)
    PROVE  Queue' /\ OneByOne' /\ Accounted'
<1>1. CASE DatabaseFails(w)
    <2>1. /\ outages' = outages + 1 /\ outages' \in 0..MaxOutages
          /\ UNCHANGED <<log, job, caller, prefs, sent, crashes, unanswered>> /\ prefs' \in [Users -> Prefs]
        BY <1>1, QueueTypes DEF DatabaseFails
    <2>2. CASE worker[w].pc \in {"deliver", "cache", "mark"} /\ WorkerGoto(w, "fail")
        <3>1. log[worker[w].note].status \notin Delivered
            BY <2>2 DEF Accounted
        <3> QED BY <2>1, <2>2, <3>1, Moves DEF Idling
    <2>3. CASE worker[w].pc \in {"read", "skip", "fail"} /\ WorkerGoto(w, "throw")
        BY <2>1, <2>3, Moves DEF Idling, Committed
    <2> QED BY <1>1, <2>2, <2>3 DEF DatabaseFails
<1>2. CASE Crash(w)
    <2> DEFINE n == worker[w].note
               s == IF job[n].stalled < MaxStalled THEN "waiting" ELSE "failed"
               g == [job[n] EXCEPT !.stalled = @ + 1]
               j == [g EXCEPT !.state = s]
    <2>1. /\ ~Idling(worker[w].pc) /\ n \in Notes /\ job[n] \in JobRow
          /\ job[n].attemptsMade < Attempts /\ job[n].stalled <= MaxStalled
        BY <1>2, QueueTypes DEF Crash, WorkerAt, Queue, Underway, Idling, OneByOne
    <2>2. g \in JobRow /\ g.attemptsMade = job[n].attemptsMade /\ g.stalled = job[n].stalled + 1
        BY <2>1, QueueTypes DEF JobRow
    <2>3. job' = [job EXCEPT ![n] = j] /\ worker' = [worker EXCEPT ![w] = IdleWorker]
        BY <1>2 DEF Crash
    <2>4. s \in {"waiting", "failed"} /\ (s = "waiting" => job[n].stalled + 1 <= MaxStalled)
        BY <2>1, QueueTypes DEF JobRow
    <2> HIDE DEF g, s
    <2>5. j \in JobRow /\ j.state = s /\ j.attemptsMade = g.attemptsMade /\ j.stalled = g.stalled
        BY <2>2, <2>4 DEF JobRow
    <2> HIDE DEF j
    <2>6. crashes' = crashes + 1 /\ crashes' \in 0..MaxCrashes /\ UNCHANGED <<log, caller, prefs, sent, outages, unanswered>>
        BY <1>2, QueueTypes DEF Crash
    <2>7. WorkerReleases(w, j)
        BY <2>1, <2>2, <2>3, <2>4, <2>5, <2>6 DEF WorkerReleases
    <2> QED BY <2>7, WorkerReleasesKeeps
<1> QED BY <1>1, <1>2

LEMMA NotificationsStep ==
    ASSUME Queue, OneByOne, Accounted, [NotificationsNext]_notifications
    PROVE  Queue' /\ OneByOne' /\ Accounted'
<1>1. CASE \E u \in Users, row \in Prefs : UpdatePreferences(u, row)
    <2>1. prefs' \in [Users -> Prefs] /\ UNCHANGED <<log, job, caller, worker, sent, crashes, outages, unanswered>>
        BY <1>1, QueueTypes DEF UpdatePreferences, faults
    <2> QED BY <2>1 DEF Queue, NotificationsTypeOK, Underway, OneByOne, Accounted, Marking
<1>2. CASE UNCHANGED notifications
    BY <1>2 DEF notifications, faults, Queue, NotificationsTypeOK, Underway, OneByOne, Accounted, Marking
<1> QED BY <1>1, <1>2, CallerStep, TakeKeeps, ProcessStep, FaultStep DEF NotificationsNext

(* The queue is well formed: no row or job ever counts more than the       *)
(* configured attempts, and a job that may still run has one left and has  *)
(* not stalled more often than BullMQ forgives.                            *)
THEOREM NotificationsTyped == NotificationsSpec => [](NotificationsTypeOK /\ Underway)
<1>1. Queue /\ OneByOne /\ Accounted /\ [NotificationsNext]_notifications => (Queue /\ OneByOne /\ Accounted)'
    BY NotificationsStep
<1>2. Queue => NotificationsTypeOK /\ Underway
    BY DEF Queue
<1> QED BY QueueInit, <1>1, <1>2, PTL DEF NotificationsSpec

(* Every duplicate is paid for by a fault: a message goes out once more    *)
(* only for a worker that died on it, for an update Postgres refused, or   *)
(* for a provider that took the message while the call to it threw.        *)
THEOREM DuplicatesAreFaults == NotificationsSpec => []DuplicatesNeedFaults
<1>1. Queue /\ OneByOne /\ Accounted /\ [NotificationsNext]_notifications => (Queue /\ OneByOne /\ Accounted)'
    BY NotificationsStep
<1>2. Queue /\ Accounted => DuplicatesNeedFaults
    <2> SUFFICES ASSUME Queue, Accounted, NEW n \in Notes PROVE sent[n] <= 1 + crashes + outages + unanswered
        BY DEF DuplicatesNeedFaults
    <2>1. sent[n] \in Nat /\ crashes \in Nat /\ outages \in Nat /\ unanswered \in Nat
        BY QueueTypes
    <2> QED BY <2>1 DEF Accounted
<1> QED BY QueueInit, <1>1, <1>2, PTL DEF NotificationsSpec

-----------------------------------------------------------------------------
(* Sessions.  The steps a handler can have left; Ending ends sessions,     *)
(* Refreshing hands one over to its next token.                            *)
Steps ==
    {"fail", "complete", "issue", "spend", "save", "regenerate", "password", "clear", "release",
     "load", "unlock", "accept", "resetLoad", "consume", "burn",
     "voidInvite", "newInvite", "voidReset", "newReset",
     "rotate", "context", "read", "store", "enter", "find", "revoke", "revokeFamily", "deny",
     "changed", "invalidate", "saveRole", "holders", "drop", "removeRole"}
Refreshing == {"rotate", "enter"}
Ending == {"find", "revoke", "revokeFamily", "deny", "changed"}
Fields == {"todo", "row", "token", "families", "ctx", "code", "perms", "role", "at"}

Mentions(todo) == {todo[i] : i \in DOMAIN todo}

(* Finding the live families is followed by revoking and denying them, and *)
(* a password change is announced when all of that is over.                *)
Ordered(todo) ==
    \A i \in DOMAIN todo :
        /\ todo[i] = "find" => /\ i + 1 \in DOMAIN todo /\ todo[i + 1] = "revoke"
                               /\ i + 2 \in DOMAIN todo /\ todo[i + 2] = "deny"
        /\ todo[i] = "changed" => \A j \in DOMAIN todo : j > i => todo[j] \notin Ending

LEMMA TailOf ==
    ASSUME NEW s \in Seq(Steps), s # <<>>
    PROVE  /\ Tail(s) \in Seq(Steps) /\ Head(s) \in Steps
           /\ Mentions(s) = {Head(s)} \cup Mentions(Tail(s))
           /\ Ordered(s) =>
                /\ Ordered(Tail(s))
                /\ Head(s) = "find" => {"revoke", "deny"} \subseteq Mentions(Tail(s))
                /\ Head(s) = "changed" => Mentions(Tail(s)) \cap Ending = {}
<1> DEFINE t == Tail(s)
           n == Len(s)
<1>1. t \in Seq(Steps) /\ n \in Nat \ {0} /\ Len(t) = n - 1 /\ \A i \in 1..Len(t) : t[i] = s[i + 1]
    BY HeadTailProperties, EmptySeq
<1>2. Head(s) = s[1] /\ Head(s) \in Steps
    OBVIOUS
<1>3. DOMAIN s = 1..n /\ DOMAIN t = 1..(n - 1) /\ n \in Nat \ {0}
    BY <1>1
<1>4. \A i \in 1..(n - 1) : t[i] = s[i + 1]
    BY <1>1
<1> HIDE DEF t, n
<1>5. \A i \in 1..n : i = 1 \/ (s[i] = t[i - 1] /\ i - 1 \in 1..(n - 1))
    <2> SUFFICES ASSUME NEW i \in 1..n, i # 1 PROVE s[i] = t[i - 1] /\ i - 1 \in 1..(n - 1)
        OBVIOUS
    <2>1. i - 1 \in 1..(n - 1) /\ (i - 1) + 1 = i
        BY <1>3
    <2>2. t[i - 1] = s[(i - 1) + 1]
        BY <2>1, <1>4
    <2> QED BY <2>1, <2>2
<1>6. \A i \in 1..(n - 1) : t[i] = s[i + 1] /\ i + 1 \in 1..n
    BY <1>3, <1>4
<1>7. Mentions(s) = {s[1]} \cup Mentions(t)
    <2>1. Mentions(s) \subseteq {s[1]} \cup Mentions(t)
        BY <1>3, <1>5 DEF Mentions
    <2>2. {s[1]} \cup Mentions(t) \subseteq Mentions(s)
        BY <1>3, <1>6, SMTT(30) DEF Mentions
    <2> QED BY <2>1, <2>2
<1>8. ASSUME Ordered(s)
      PROVE  /\ Ordered(t)
             /\ s[1] = "find" => {"revoke", "deny"} \subseteq Mentions(t)
             /\ s[1] = "changed" => Mentions(t) \cap Ending = {}
    <2>1. ASSUME NEW i \in 1..(n - 1), t[i] = "find"
          PROVE  /\ i + 1 \in 1..(n - 1) /\ t[i + 1] = "revoke"
                 /\ i + 2 \in 1..(n - 1) /\ t[i + 2] = "deny"
        <3> DEFINE k == i + 1
        <3>1. k \in 1..n /\ s[k] = "find"
            BY <1>6, <2>1
        <3> HIDE DEF k
        <3>2. k + 1 \in 1..n /\ s[k + 1] = "revoke" /\ k + 2 \in 1..n /\ s[k + 2] = "deny"
            BY <1>3, <1>8, <3>1 DEF Ordered
        <3>3. i + 1 \in 1..(n - 1) /\ i + 2 \in 1..(n - 1) /\ (i + 1) + 1 = k + 1 /\ (i + 2) + 1 = k + 2
            BY <1>3, <3>2 DEF k
        <3>4. t[i + 1] = s[(i + 1) + 1] /\ t[i + 2] = s[(i + 2) + 1]
            BY <1>4, <3>3
        <3> QED BY <3>2, <3>3, <3>4
    <2>2. ASSUME NEW i \in 1..(n - 1), t[i] = "changed", NEW j \in 1..(n - 1), j > i
          PROVE  t[j] \notin Ending
        <3>1. i + 1 \in 1..n /\ s[i + 1] = "changed" /\ j + 1 \in 1..n /\ j + 1 > i + 1
            BY <1>3, <1>6, <2>2
        <3>2. s[j + 1] \notin Ending
            BY <1>3, <1>8, <3>1 DEF Ordered
        <3> QED BY <1>6, <3>2
    <2>3. Ordered(t)
        BY <1>3, <2>1, <2>2 DEF Ordered
    <2>4. ASSUME s[1] = "find" PROVE {"revoke", "deny"} \subseteq Mentions(t)
        <3>1. 1 \in DOMAIN s
            BY <1>3
        <3>2. 1 + 1 \in DOMAIN s /\ s[1 + 1] = "revoke" /\ 1 + 2 \in DOMAIN s /\ s[1 + 2] = "deny"
            BY <1>8, <2>4, <3>1 DEF Ordered
        <3>3. 1 \in 1..(n - 1) /\ 2 \in 1..(n - 1) /\ s[2] = "revoke" /\ s[3] = "deny"
            BY <1>3, <3>2
        <3>4. t[1] = "revoke" /\ t[2] = "deny"
            BY <1>4, <3>3
        <3> QED BY <1>3, <3>3, <3>4 DEF Mentions
    <2>5. ASSUME s[1] = "changed" PROVE Mentions(t) \cap Ending = {}
        <3>1. ASSUME NEW i \in 1..(n - 1) PROVE t[i] \notin Ending
            <4>1. 1 \in 1..n /\ i + 1 \in 1..n /\ i + 1 > 1
                BY <1>3
            <4>2. s[i + 1] \notin Ending
                BY <1>3, <1>8, <2>5, <4>1 DEF Ordered
            <4> QED BY <1>6, <4>2
        <3> QED BY <1>3, <3>1 DEF Mentions
    <2> QED BY <2>3, <2>4, <2>5
<1> QED BY <1>1, <1>2, <1>7, <1>8 DEF t

LEMMA ConcatOf ==
    ASSUME NEW s \in Seq(Steps), NEW t \in Seq(Steps)
    PROVE  /\ s \o t \in Seq(Steps)
           /\ Mentions(s \o t) = Mentions(s) \cup Mentions(t)
           /\ Ordered(s) /\ Ordered(t) /\ ("changed" \notin Mentions(s) \/ Mentions(t) \cap Ending = {})
                => Ordered(s \o t)
<1> DEFINE u == s \o t
           m == Len(s)
           n == Len(t)
<1>1. u \in Seq(Steps) /\ Len(u) = m + n /\ m \in Nat /\ n \in Nat
    OBVIOUS
<1>2. DOMAIN s = 1..m /\ DOMAIN t = 1..n /\ DOMAIN u = 1..(m + n)
    BY <1>1
<1>3. \A i \in 1..m : u[i] = s[i] /\ i \in 1..(m + n)
    BY <1>1
<1>4. \A i \in 1..n : u[i + m] = t[i] /\ i + m \in 1..(m + n)
    BY <1>1
<1>5. \A i \in 1..(m + n) : i \in 1..m \/ (i - m \in 1..n /\ u[i] = t[i - m])
    BY <1>1
<1>a. m \in Nat /\ n \in Nat
    BY <1>1
<1> HIDE DEF u, m, n
<1>6. Mentions(u) = Mentions(s) \cup Mentions(t)
    <2>1. Mentions(u) \subseteq Mentions(s) \cup Mentions(t)
        BY <1>2, <1>3, <1>5 DEF Mentions
    <2>2. Mentions(s) \cup Mentions(t) \subseteq Mentions(u)
        BY <1>2, <1>3, <1>4 DEF Mentions
    <2> QED BY <2>1, <2>2
<1>7. ASSUME Ordered(s), Ordered(t), "changed" \notin Mentions(s) \/ Mentions(t) \cap Ending = {}
      PROVE  Ordered(u)
    <2>1. ASSUME NEW i \in 1..(m + n), u[i] = "find"
          PROVE  /\ i + 1 \in 1..(m + n) /\ u[i + 1] = "revoke"
                 /\ i + 2 \in 1..(m + n) /\ u[i + 2] = "deny"
        <3>1. CASE i \in 1..m
            <4>1. i + 1 \in 1..m /\ s[i + 1] = "revoke" /\ i + 2 \in 1..m /\ s[i + 2] = "deny"
                BY <1>2, <1>3, <1>7, <2>1, <3>1 DEF Ordered
            <4> QED BY <1>3, <4>1
        <3>2. CASE i - m \in 1..n /\ u[i] = t[i - m]
            <4> DEFINE k == i - m
            <4>1. k \in 1..n /\ t[k] = "find" /\ k + m = i
                BY <1>a, <2>1, <3>2
            <4> HIDE DEF k
            <4>2. k + 1 \in 1..n /\ t[k + 1] = "revoke" /\ k + 2 \in 1..n /\ t[k + 2] = "deny"
                BY <1>2, <1>7, <4>1 DEF Ordered
            <4>3. u[(k + 1) + m] = "revoke" /\ u[(k + 2) + m] = "deny"
                BY <1>4, <4>2
            <4>4. (k + 1) + m = i + 1 /\ (k + 2) + m = i + 2 /\ i + 1 \in 1..(m + n) /\ i + 2 \in 1..(m + n)
                BY <1>a, <4>1, <4>2
            <4> QED BY <4>3, <4>4
        <3> QED BY <1>5, <3>1, <3>2
    <2>2. ASSUME NEW i \in 1..(m + n), u[i] = "changed", NEW j \in 1..(m + n), j > i
          PROVE  u[j] \notin Ending
        <3>1. CASE i \in 1..m /\ j \in 1..m
            BY <1>2, <1>3, <1>7, <2>2, <3>1 DEF Ordered
        <3>2. CASE i \in 1..m /\ j - m \in 1..n /\ u[j] = t[j - m]
            <4>1. "changed" \in Mentions(s)
                BY <1>2, <1>3, <2>2, <3>2 DEF Mentions
            <4>2. t[j - m] \in Mentions(t)
                BY <1>2, <3>2 DEF Mentions
            <4> QED BY <1>7, <3>2, <4>1, <4>2
        <3>3. CASE i - m \in 1..n /\ u[i] = t[i - m] /\ j - m \in 1..n /\ u[j] = t[j - m]
            <4>1. j - m > i - m
                BY <1>a, <2>2
            <4> QED BY <1>2, <1>7, <2>2, <3>3, <4>1 DEF Ordered
        <3>4. ~(i - m \in 1..n /\ j \in 1..m)
            BY <1>a, <2>2
        <3> QED BY <1>5, <3>1, <3>2, <3>3, <3>4
    <2> QED BY <1>2, <2>1, <2>2 DEF Ordered
<1> QED BY <1>1, <1>6, <1>7 DEF u

(* A handler refreshes a session or ends sessions, never both; the token   *)
(* it refreshes exists.                                                    *)
Handler(h, ts, clock) ==
    /\ DOMAIN h = Fields /\ h.todo \in Seq(Steps) /\ Ordered(h.todo)
    /\ h.at \in Nat /\ h.at <= clock
    /\ Mentions(h.todo) \cap Refreshing # {} =>
        h.token \in 1..Len(ts) /\ Mentions(h.todo) \cap Ending = {}

AccessToken == [session : 1..MaxTokens, issued : Nat]

Stored ==
    /\ now \in Nat \ {0}
    /\ tokens \in Seq(RefreshToken) /\ \A t \in 1..Len(tokens) : tokens[t].family <= t
    /\ denied \in [1..MaxTokens -> Nat]
    /\ access \subseteq AccessToken /\ signedOut \subseteq AccessToken
    /\ \A a \in access \cup signedOut : a.issued <= now
Flying ==
    /\ DOMAIN procs = Procs /\ scenario \in Scenarios
    /\ \A p \in Procs : Handler(procs[p], tokens, now)
    /\ \A p \in Procs : procs[p] # Idle => p \in scenario.procs

(* The deny list outlives the access tokens that were signed out.          *)
DeniedIn(as, fs, den) == \A a \in as : a.session \in fs => den[a.session] >= a.issued + AccessTtl
Out == \A a \in signedOut : denied[a.session] >= a.issued + AccessTtl

(* One request at a time: what a handler refreshes is live, and what a     *)
(* password change has found is being revoked and denied before it ends.   *)
RevokedFor(ts, fs) == \A t \in 1..Len(ts) : ts[t].family \in fs => ts[t].revoked
Careful(h, ts, as, den) ==
    /\ Mentions(h.todo) \cap Refreshing # {} => ~ts[h.token].revoked
    /\ "changed" \in Mentions(h.todo) /\ "find" \notin Mentions(h.todo) =>
        /\ h.families \subseteq 1..Len(ts)
        /\ "revoke" \notin Mentions(h.todo) => RevokedFor(ts, h.families)
        /\ "deny" \notin Mentions(h.todo) => DeniedIn(as, h.families, den)
SingleChains(ts) ==
    \A s, t \in 1..Len(ts) : ts[s].family = ts[t].family /\ ~ts[s].revoked /\ ~ts[t].revoked => s = t
Orderly ==
    Serial =>
        /\ SingleChains(tokens)
        /\ ended \subseteq 1..Len(tokens) /\ RevokedFor(tokens, ended) /\ DeniedIn(access, ended, denied)
        /\ \A p \in Procs : Careful(procs[p], tokens, access, denied)

SessionsInv == Stored /\ Flying /\ Out /\ Orderly

LEMMA SessionsConstants ==
    AccessTtl \in Nat /\ RefreshTtl \in Nat /\ MaxTokens \in Nat /\ \A s \in Scenarios : IsFiniteSet(s.procs)
    BY SessionsAssumption

LEMMA IdleHas ==
    /\ DOMAIN Idle = Fields /\ Idle.todo = <<>> /\ Idle.todo \in Seq(Steps) /\ Ordered(Idle.todo)
    /\ Mentions(Idle.todo) = {} /\ Idle.at = 0
    BY DEF Idle, Fields, Ordered, Mentions

LEMMA IdleIsFine ==
    ASSUME NEW ts, NEW clock \in Nat, NEW as, NEW den
    PROVE  Handler(Idle, ts, clock) /\ Careful(Idle, ts, as, den)
<1>1. Mentions(Idle.todo) \cap Refreshing = {} /\ "changed" \notin Mentions(Idle.todo)
    BY IdleHas
<1>2. Idle.at \in Nat /\ Idle.at <= clock
    BY IdleHas
<1> QED BY <1>1, <1>2, IdleHas DEF Handler, Careful

LEMMA OneHandler ==
    ASSUME Flying, Serial, NEW p \in Procs, NEW q \in Procs, procs[p] # Idle \/ p \in scenario.procs, q # p
    PROVE  procs[q] = Idle
<1>1. IsFiniteSet(scenario.procs) /\ Cardinality(scenario.procs) = 1
    BY SessionsConstants DEF Flying, Serial
<1>2. PICK x : scenario.procs = {x}
    BY <1>1, FS_Singleton
<1> QED BY <1>2 DEF Flying

LEMMA SessionsInit == Init => SessionsInv
<1> SUFFICES ASSUME Init PROVE SessionsInv
    OBVIOUS
<1>1. now = 1 /\ tokens = <<>> /\ access = {} /\ signedOut = {} /\ ended = {} /\ procs = [p \in Procs |-> Idle]
      /\ denied = [f \in 1..MaxTokens |-> 0] /\ scenario \in Scenarios
    BY DEF Init
<1>2. Stored
    BY <1>1 DEF Stored
<1>3. Flying
    BY <1>1, IdleIsFine DEF Flying
<1>4. Out
    BY <1>1 DEF Out
<1>5. 1..Len(tokens) = {}
    BY <1>1
<1>6. \A p \in Procs : Careful(procs[p], tokens, access, denied)
    BY <1>1, IdleIsFine
<1>7. Orderly
    BY <1>1, <1>5, <1>6 DEF Orderly, SingleChains, RevokedFor, DeniedIn
<1> QED BY <1>2, <1>3, <1>4, <1>7 DEF SessionsInv

(* What a step does to the handlers: p has k left.                         *)
Tracked == Refreshing \cup Ending
Runs(p, k) ==
    /\ procs' = [procs EXCEPT ![p] = k]
    /\ DOMAIN k = Fields /\ k.todo \in Seq(Steps) /\ Ordered(k.todo)
    /\ k.at \in Nat /\ k.at <= now
    /\ p \in scenario.procs \/ k = Idle
    /\ UNCHANGED <<scenario, now>>
Fresh(k) ==
    /\ Mentions(k.todo) \cap Refreshing = {}
    /\ "changed" \in Mentions(k.todo) => "find" \in Mentions(k.todo)
Same(h, k) ==
    /\ Mentions(k.todo) \cap Tracked = Mentions(h.todo) \cap Tracked
    /\ Mentions(k.todo) # {} => k.token = h.token /\ k.families = h.families
Quiet(p, k) ==
    /\ Runs(p, k)
    /\ Fresh(k) \/ Same(procs[p], k)
    /\ UNCHANGED <<tokens, access, denied, signedOut, ended>>
Leaves(p, k, step) ==
    /\ Runs(p, k) /\ p \in scenario.procs
    /\ Mentions(procs[p].todo) = {step} \cup Mentions(k.todo)
    /\ step = "find" => {"revoke", "deny"} \subseteq Mentions(k.todo)
    /\ step = "changed" => Mentions(k.todo) \cap Ending = {}

LEMMA RunsKeepsFlying ==
    ASSUME Flying, Stored, NEW p \in Procs, NEW k, Runs(p, k), Len(tokens') \in Nat, Len(tokens') >= Len(tokens),
           Mentions(k.todo) \cap Refreshing # {} =>
                k.token \in 1..Len(tokens') /\ Mentions(k.todo) \cap Ending = {}
    PROVE  Flying' /\ procs'[p] = k /\ \A q \in Procs \ {p} : procs'[q] = procs[q]
<1>1. procs'[p] = k /\ DOMAIN procs' = Procs /\ \A q \in Procs \ {p} : procs'[q] = procs[q]
    BY DEF Runs, Flying
<1>2. Handler(k, tokens', now')
    BY DEF Runs, Handler
<1>3. Len(tokens) \in Nat
    BY DEF Stored
<1>4. ASSUME NEW q \in Procs \ {p} PROVE Handler(procs[q], tokens', now')
    BY <1>3 DEF Handler, Flying, Runs
<1>5. \A q \in Procs : procs'[q] # Idle => q \in scenario'.procs
    BY <1>1 DEF Flying, Runs
<1>6. scenario' \in Scenarios
    BY DEF Flying, Runs
<1> QED BY <1>1, <1>2, <1>4, <1>5, <1>6 DEF Flying

LEMMA QuietKeeps ==
    ASSUME SessionsInv, NEW p \in Procs, NEW k, Quiet(p, k)
    PROVE  SessionsInv'
<1>1. UNCHANGED <<tokens, access, denied, signedOut, ended, scenario, now>>
    BY DEF Quiet, Runs
<1>2. Stored' /\ Out'
    BY <1>1 DEF SessionsInv, Stored, Out
<1>3. Handler(procs[p], tokens, now) /\ now \in Nat /\ Len(tokens) \in Nat
    BY DEF SessionsInv, Flying, Stored
<1>4. ASSUME Mentions(k.todo) \cap Refreshing # {}
      PROVE  /\ k.token \in 1..Len(tokens) /\ Mentions(k.todo) \cap Ending = {}
             /\ Mentions(procs[p].todo) \cap Refreshing # {} /\ k.token = procs[p].token
    <2>1. Same(procs[p], k)
        BY <1>4 DEF Quiet, Fresh
    <2>2. k.token = procs[p].token /\ Mentions(procs[p].todo) \cap Refreshing # {}
        BY <1>4, <2>1 DEF Same, Tracked
    <2>3. procs[p].token \in 1..Len(tokens) /\ Mentions(procs[p].todo) \cap Ending = {}
        BY <1>3, <2>2 DEF Handler
    <2> QED BY <2>1, <2>2, <2>3 DEF Same, Tracked
<1>5. Flying' /\ procs'[p] = k /\ \A q \in Procs \ {p} : procs'[q] = procs[q]
    BY <1>1, <1>3, <1>4, RunsKeepsFlying DEF Quiet, SessionsInv
<1>6. ASSUME Careful(procs[p], tokens, access, denied) PROVE Careful(k, tokens, access, denied)
    <2>1. CASE Fresh(k)
        BY <2>1 DEF Fresh, Careful
    <2>2. CASE Same(procs[p], k)
        <3>1. ASSUME "changed" \in Mentions(k.todo), "find" \notin Mentions(k.todo)
              PROVE  /\ "changed" \in Mentions(procs[p].todo) /\ "find" \notin Mentions(procs[p].todo)
                     /\ "revoke" \in Mentions(k.todo) <=> "revoke" \in Mentions(procs[p].todo)
                     /\ "deny" \in Mentions(k.todo) <=> "deny" \in Mentions(procs[p].todo)
                     /\ k.families = procs[p].families
            BY <2>2, <3>1 DEF Same, Tracked, Ending
        <3> QED BY <1>4, <1>6, <3>1 DEF Careful
    <2> QED BY <2>1, <2>2 DEF Quiet
<1>7. Orderly'
    BY <1>1, <1>5, <1>6 DEF SessionsInv, Orderly, Serial
<1> QED BY <1>2, <1>5, <1>7 DEF SessionsInv

LEMMA RestHas ==
    ASSUME Flying, NEW p \in Procs, NEW step, At(p, step)
    PROVE  /\ DOMAIN Rest(p) = Fields /\ Rest(p).todo = Tail(procs[p].todo)
           /\ Rest(p).token = procs[p].token /\ Rest(p).families = procs[p].families
           /\ Rest(p).at \in Nat /\ Rest(p).at <= now
           /\ p \in scenario.procs
<1> DEFINE g == procs[p]
<1>1. DOMAIN g = Fields /\ g.at \in Nat /\ g.at <= now
    BY DEF Flying, Handler
<1>2. g.todo # <<>>
    BY DEF At
<1>3. p \in scenario.procs
    BY <1>2, IdleHas DEF Flying
<1>4. Rest(p) = [g EXCEPT !.todo = Tail(g.todo)]
    BY DEF Rest
<1> HIDE DEF g
<1>5. /\ DOMAIN Rest(p) = Fields /\ Rest(p).todo = Tail(g.todo)
      /\ Rest(p).token = g.token /\ Rest(p).families = g.families /\ Rest(p).at = g.at
    BY <1>1, <1>4 DEF Fields
<1> QED BY <1>1, <1>3, <1>5 DEF g

LEMMA RestLeaves ==
    ASSUME Flying, NEW p \in Procs, NEW step, At(p, step),
           NEW r, DOMAIN r = Fields, r.todo = Tail(procs[p].todo), r.at \in Nat, r.at <= now,
           Put(p, r), UNCHANGED <<scenario, now>>, now \in Nat
    PROVE  \E k : Leaves(p, k, step) /\ (k = r \/ (k = Idle /\ r.todo = <<>>))
<1> DEFINE s == procs[p].todo
<1>1. s \in Seq(Steps) /\ Ordered(s) /\ s # <<>> /\ Head(s) = step
    BY DEF Flying, Handler, At
<1>2. p \in scenario.procs
    BY RestHas
<1>3. PICK k : k = (IF r.todo = <<>> THEN Idle ELSE r)
    OBVIOUS
<1>4. procs' = [procs EXCEPT ![p] = k] /\ (k = r \/ (k = Idle /\ r.todo = <<>>))
    BY <1>3 DEF Put
<1>5. k.todo = Tail(s) /\ DOMAIN k = Fields /\ k.at \in Nat /\ k.at <= now
    <2>1. Idle.todo = <<>> /\ DOMAIN Idle = Fields /\ Idle.at \in Nat /\ Idle.at <= now
        BY IdleHas
    <2>2. CASE r.todo = <<>>
        BY <1>3, <2>1, <2>2
    <2>3. CASE r.todo # <<>>
        BY <1>3, <2>3
    <2> QED BY <2>2, <2>3
<1> HIDE DEF s
<1>6. /\ Tail(s) \in Seq(Steps) /\ Mentions(s) = {step} \cup Mentions(Tail(s)) /\ Ordered(Tail(s))
      /\ step = "find" => {"revoke", "deny"} \subseteq Mentions(Tail(s))
      /\ step = "changed" => Mentions(Tail(s)) \cap Ending = {}
    BY <1>1, TailOf
<1>7. Leaves(p, k, step)
    BY <1>2, <1>4, <1>5, <1>6 DEF Leaves, Runs, s
<1> QED BY <1>4, <1>7

LEMMA RestIsQuiet ==
    ASSUME SessionsInv, NEW p \in Procs, NEW step, At(p, step), step \notin Tracked,
           NEW r, DOMAIN r = Fields, r.todo = Tail(procs[p].todo), r.at \in Nat, r.at <= now,
           r.token = procs[p].token, r.families = procs[p].families, Put(p, r),
           UNCHANGED <<scenario, now, tokens, access, denied, signedOut, ended>>
    PROVE  SessionsInv'
<1>1. PICK k : Leaves(p, k, step) /\ (k = r \/ (k = Idle /\ r.todo = <<>>))
    BY RestLeaves DEF SessionsInv, Stored
<1>2. Mentions(k.todo) \cap Tracked = Mentions(procs[p].todo) \cap Tracked
    BY <1>1 DEF Leaves
<1>3. Mentions(k.todo) # {} => k = r
    BY <1>1, IdleHas
<1>4. Quiet(p, k)
    BY <1>1, <1>2, <1>3 DEF Quiet, Leaves, Same
<1> QED BY <1>4, QuietKeeps

(* A program: the steps a handler sets out with, or goes over to.          *)
Program(todo) ==
    /\ todo \in Seq(Steps) /\ Ordered(todo)
    /\ Mentions(todo) \cap Refreshing = {}
    /\ "changed" \in Mentions(todo) => "find" \in Mentions(todo)

LEMMA StartsProgram ==
    ASSUME SessionsInv, NEW p \in Procs, p \in scenario.procs,
           NEW r, DOMAIN r = Fields, Program(r.todo), r.at \in Nat, r.at <= now, Put(p, r),
           UNCHANGED <<scenario, now, tokens, access, denied, signedOut, ended>>
    PROVE  SessionsInv'
<1>1. PICK k : k = (IF r.todo = <<>> THEN Idle ELSE r)
    OBVIOUS
<1>2. now \in Nat
    BY DEF SessionsInv, Stored
<1>3. DOMAIN k = Fields /\ k.todo = r.todo /\ k.at \in Nat /\ k.at <= now
    BY <1>1, <1>2, IdleHas
<1>4. procs' = [procs EXCEPT ![p] = k]
    BY <1>1 DEF Put
<1>5. Quiet(p, k)
    BY <1>3, <1>4 DEF Quiet, Runs, Fresh, Program
<1> QED BY <1>5, QuietKeeps

LEMMA Stops ==
    ASSUME SessionsInv, NEW p \in Procs, Put(p, Idle),
           UNCHANGED <<scenario, now, tokens, access, denied, signedOut, ended>>
    PROVE  SessionsInv'
<1>1. procs' = [procs EXCEPT ![p] = Idle] /\ now \in Nat
    BY DEF Put, SessionsInv, Stored
<1>2. Quiet(p, Idle)
    BY <1>1, IdleHas DEF Quiet, Runs, Fresh
<1> QED BY <1>2, QuietKeeps

LEMMA Stays ==
    ASSUME SessionsInv, UNCHANGED <<procs, scenario, now, tokens, access, denied, signedOut, ended>>
    PROVE  SessionsInv'
<1>1. Stored' /\ Out'
    BY DEF SessionsInv, Stored, Out
<1>2. Flying'
    BY DEF SessionsInv, Flying
<1>3. Orderly'
    BY DEF SessionsInv, Orderly, Serial
<1> QED BY <1>1, <1>2, <1>3 DEF SessionsInv

-----------------------------------------------------------------------------
(* The steps that touch sessions.                                          *)
LEMMA AppendToken ==
    ASSUME NEW ts \in Seq(RefreshToken), NEW t \in RefreshToken
    PROVE  /\ Append(ts, t) \in Seq(RefreshToken) /\ Len(Append(ts, t)) = Len(ts) + 1
           /\ Len(ts) \in Nat /\ Append(ts, t)[Len(ts) + 1] = t
           /\ \A i \in 1..Len(ts) : Append(ts, t)[i] = ts[i]
           /\ 1..(Len(ts) + 1) = 1..Len(ts) \cup {Len(ts) + 1}
    OBVIOUS

LEMMA IssueKeeps ==
    ASSUME SessionsInv, NEW p \in Procs, Issue(p)
    PROVE  SessionsInv'
<1> DEFINE n == Len(tokens)
           new == [family |-> n + 1, expires |-> now + RefreshTtl, revoked |-> FALSE, given |-> TRUE]
           a == [session |-> n + 1, issued |-> now]
<1>1. /\ tokens \in Seq(RefreshToken) /\ n \in Nat /\ now \in Nat /\ n + 1 \in 1..MaxTokens
      /\ RefreshTtl \in Nat /\ AccessTtl \in Nat
    BY SessionsConstants DEF SessionsInv, Stored, Issue
<1>2. new \in RefreshToken /\ new.family = n + 1 /\ new.revoked = FALSE
    BY <1>1 DEF RefreshToken
<1>3. a \in AccessToken /\ a.session = n + 1 /\ a.issued = now
    BY <1>1 DEF AccessToken
<1>4. /\ tokens' = Append(tokens, new) /\ access' = access \cup {a}
      /\ UNCHANGED <<denied, now, scenario, signedOut, ended>>
    BY DEF Issue, redis, history
<1>5. PICK k : Leaves(p, k, "issue") /\ (k = Rest(p) \/ (k = Idle /\ Rest(p).todo = <<>>))
    <2> DEFINE r == Rest(p)
    <2>1. At(p, "issue") /\ Put(p, r) /\ UNCHANGED <<scenario, now>>
        BY <1>4 DEF Issue
    <2>2. DOMAIN r = Fields /\ r.todo = Tail(procs[p].todo) /\ r.at \in Nat /\ r.at <= now
        BY <2>1, RestHas DEF SessionsInv
    <2> HIDE DEF r
    <2> QED BY <1>1, <2>1, <2>2, RestLeaves DEF SessionsInv, r
<1>6. /\ Mentions(k.todo) # {} => k.token = procs[p].token /\ k.families = procs[p].families
      /\ Mentions(k.todo) \cap Tracked = Mentions(procs[p].todo) \cap Tracked
      /\ Runs(p, k)
    <2>1. At(p, "issue")
        BY DEF Issue
    <2>2. Rest(p).token = procs[p].token /\ Rest(p).families = procs[p].families
        BY <2>1, RestHas DEF SessionsInv
    <2> QED BY <1>5, <2>2, IdleHas DEF Leaves, Tracked, Refreshing, Ending
<1> HIDE DEF new, a, n
<1>7. /\ tokens' \in Seq(RefreshToken) /\ Len(tokens') = n + 1 /\ tokens'[n + 1] = new
      /\ (\A i \in 1..n : tokens'[i] = tokens[i]) /\ 1..(n + 1) = 1..n \cup {n + 1}
    BY <1>1, <1>2, <1>4, AppendToken DEF n
<1>8. \A i \in 1..n : tokens[i].family \in Nat /\ tokens[i].family <= i /\ tokens[i].family # n + 1
    <2>1. \A i \in 1..n : tokens[i] \in RefreshToken /\ tokens[i].family <= i
        BY <1>1 DEF SessionsInv, Stored, n
    <2> QED BY <1>1, <2>1 DEF RefreshToken
<1>9. Stored'
    BY <1>1, <1>2, <1>3, <1>4, <1>7, <1>8 DEF SessionsInv, Stored, n
<1>10. Flying' /\ procs'[p] = k /\ \A q \in Procs \ {p} : procs'[q] = procs[q]
    <2>1. Mentions(k.todo) \cap Refreshing # {} =>
            k.token \in 1..Len(tokens') /\ Mentions(k.todo) \cap Ending = {}
        <3>1. Handler(procs[p], tokens, now)
            BY DEF SessionsInv, Flying
        <3> QED BY <1>6, <1>7, <3>1 DEF Handler, Tracked, n
    <2> QED BY <1>1, <1>6, <1>7, <2>1, RunsKeepsFlying DEF SessionsInv, n
<1>11. Out'
    BY <1>4 DEF SessionsInv, Out
<1>12. ASSUME NEW fs, fs \subseteq 1..n
       PROVE  /\ RevokedFor(tokens, fs) => RevokedFor(tokens', fs)
              /\ DeniedIn(access, fs, denied) => DeniedIn(access', fs, denied)
    <2>1. n + 1 \notin fs
        BY <1>1, <1>12
    <2>2. RevokedFor(tokens, fs) => RevokedFor(tokens', fs)
        BY <1>2, <1>7, <2>1 DEF RevokedFor, n
    <2>3. DeniedIn(access, fs, denied) => DeniedIn(access', fs, denied)
        BY <1>3, <1>4, <2>1 DEF DeniedIn
    <2> QED BY <2>2, <2>3
<1>13. ASSUME NEW h, NEW g, Handler(g, tokens, now), Careful(g, tokens, access, denied),
              Mentions(h.todo) # {} => h.token = g.token /\ h.families = g.families,
              Mentions(h.todo) \cap Tracked = Mentions(g.todo) \cap Tracked
       PROVE  Careful(h, tokens', access', denied)
    <2>1. ASSUME Mentions(h.todo) \cap Refreshing # {} PROVE ~tokens'[h.token].revoked
        <3>1. Mentions(g.todo) \cap Refreshing # {} /\ h.token = g.token
            BY <1>13, <2>1 DEF Tracked
        <3>2. g.token \in 1..n /\ ~tokens[g.token].revoked
            BY <1>13, <3>1 DEF Handler, Careful, n
        <3> QED BY <1>7, <3>1, <3>2
    <2>2. ASSUME "changed" \in Mentions(h.todo), "find" \notin Mentions(h.todo)
          PROVE  /\ h.families \subseteq 1..Len(tokens')
                 /\ "revoke" \notin Mentions(h.todo) => RevokedFor(tokens', h.families)
                 /\ "deny" \notin Mentions(h.todo) => DeniedIn(access', h.families, denied)
        <3>1. /\ "changed" \in Mentions(g.todo) /\ "find" \notin Mentions(g.todo) /\ h.families = g.families
              /\ "revoke" \in Mentions(h.todo) <=> "revoke" \in Mentions(g.todo)
              /\ "deny" \in Mentions(h.todo) <=> "deny" \in Mentions(g.todo)
            BY <1>13, <2>2 DEF Tracked, Ending
        <3>2. g.families \subseteq 1..n
            BY <1>13, <3>1 DEF Careful, n
        <3> QED BY <1>7, <1>12, <1>13, <3>1, <3>2 DEF Careful
    <2> QED BY <2>1, <2>2 DEF Careful
<1>14. Orderly'
    <2> SUFFICES ASSUME Serial' PROVE
            /\ SingleChains(tokens')
            /\ ended' \subseteq 1..Len(tokens') /\ RevokedFor(tokens', ended') /\ DeniedIn(access', ended', denied')
            /\ \A q \in Procs : Careful(procs'[q], tokens', access', denied')
        BY DEF Orderly
    <2>1. Serial
        BY <1>4 DEF Serial
    <2>2. SingleChains(tokens')
        <3>1. SingleChains(tokens)
            BY <2>1 DEF SessionsInv, Orderly
        <3> QED BY <1>2, <1>7, <1>8, <3>1 DEF SingleChains, n
    <2>3. ended \subseteq 1..n /\ RevokedFor(tokens, ended) /\ DeniedIn(access, ended, denied)
        BY <2>1 DEF SessionsInv, Orderly, n
    <2>4. ended' \subseteq 1..Len(tokens') /\ RevokedFor(tokens', ended') /\ DeniedIn(access', ended', denied')
        <3> DEFINE e == ended
        <3>1. e \subseteq 1..n /\ RevokedFor(tokens, e) /\ DeniedIn(access, e, denied)
            BY <2>3
        <3> HIDE DEF e
        <3>2. RevokedFor(tokens', e) /\ DeniedIn(access', e, denied) /\ e \subseteq 1..Len(tokens')
            BY <1>7, <1>12, <3>1
        <3> QED BY <1>4, <3>2 DEF e
    <2>5. ASSUME NEW q \in Procs PROVE Careful(procs'[q], tokens', access', denied')
        <3> DEFINE h == procs'[q]
                   g == procs[q]
        <3>1. Handler(g, tokens, now) /\ Careful(g, tokens, access, denied)
            BY <2>1 DEF SessionsInv, Flying, Orderly
        <3>2. /\ Mentions(h.todo) # {} => h.token = g.token /\ h.families = g.families
              /\ Mentions(h.todo) \cap Tracked = Mentions(g.todo) \cap Tracked
            BY <1>6, <1>10
        <3> HIDE DEF h, g
        <3>3. Careful(h, tokens', access', denied)
            BY <1>13, <3>1, <3>2
        <3> QED BY <1>4, <3>3 DEF h
    <2> QED BY <2>2, <2>4, <2>5
<1> QED BY <1>9, <1>10, <1>11, <1>14 DEF SessionsInv

LEMMA StepLeaves ==
    ASSUME SessionsInv, NEW p \in Procs, NEW step, At(p, step), Put(p, Rest(p)), UNCHANGED <<scenario, now>>
    PROVE  \E k : /\ Leaves(p, k, step)
                  /\ Mentions(k.todo) # {} => k.token = procs[p].token /\ k.families = procs[p].families
<1> DEFINE r == Rest(p)
<1>1. /\ DOMAIN r = Fields /\ r.todo = Tail(procs[p].todo) /\ r.at \in Nat /\ r.at <= now
      /\ r.token = procs[p].token /\ r.families = procs[p].families
    BY RestHas DEF SessionsInv
<1>2. Put(p, r) /\ now \in Nat
    BY DEF SessionsInv, Stored
<1> HIDE DEF r
<1>3. PICK k : Leaves(p, k, step) /\ (k = r \/ (k = Idle /\ r.todo = <<>>))
    BY <1>1, <1>2, RestLeaves DEF SessionsInv
<1> QED BY <1>1, <1>3, IdleHas

(* A handler that leaves a step, while the tokens only grow in number.     *)
LEMMA LeavesKeepsFlying ==
    ASSUME SessionsInv, NEW p \in Procs, NEW step, NEW k, Leaves(p, k, step),
           Mentions(k.todo) # {} => k.token = procs[p].token, Len(tokens') = Len(tokens)
    PROVE  Flying' /\ procs'[p] = k /\ \A q \in Procs \ {p} : procs'[q] = procs[q]
<1>1. Handler(procs[p], tokens, now) /\ Len(tokens) \in Nat
    BY DEF SessionsInv, Flying, Stored
<1>2. Mentions(k.todo) \cap Refreshing # {} =>
        k.token \in 1..Len(tokens') /\ Mentions(k.todo) \cap Ending = {}
    BY <1>1 DEF Leaves, Handler
<1>3. Len(tokens') \in Nat /\ Len(tokens') >= Len(tokens) /\ Runs(p, k)
    BY <1>1 DEF Leaves
<1> QED BY <1>2, <1>3, RunsKeepsFlying DEF SessionsInv

(* One at a time: only the handler that took the step has to be looked at. *)
LEMMA AloneIsCareful ==
    ASSUME Flying, Serial, NEW p \in Procs, p \in scenario.procs, NEW k,
           procs'[p] = k, \A q \in Procs \ {p} : procs'[q] = procs[q],
           NEW ts, NEW as, NEW den, Careful(k, ts, as, den)
    PROVE  \A q \in Procs : Careful(procs'[q], ts, as, den)
<1>1. ASSUME NEW q \in Procs, q # p PROVE Careful(procs'[q], ts, as, den)
    <2>1. procs'[q] = Idle
        BY <1>1, OneHandler
    <2> QED BY <2>1, IdleIsFine
<1> QED BY <1>1

(* Tokens that were only revoked or handed out.                            *)
Revised(ts) ==
    /\ ts \in Seq(RefreshToken) /\ Len(ts) = Len(tokens)
    /\ \A i \in 1..Len(tokens) : ts[i].family = tokens[i].family /\ (tokens[i].revoked => ts[i].revoked)

LEMMA RevisedTokens ==
    ASSUME Stored, NEW ts, Revised(ts)
    PROVE  /\ \A i \in 1..Len(ts) : ts[i].family <= i
           /\ SingleChains(tokens) => SingleChains(ts)
           /\ \A fs : RevokedFor(tokens, fs) => RevokedFor(ts, fs)
<1>1. Len(ts) = Len(tokens) /\ \A i \in 1..Len(tokens) :
        ts[i].family = tokens[i].family /\ (tokens[i].revoked => ts[i].revoked)
    BY DEF Revised
<1>2. \A i \in 1..Len(ts) : ts[i].family <= i
    BY <1>1 DEF Stored
<1>3. SingleChains(tokens) => SingleChains(ts)
    BY <1>1 DEF SingleChains
<1>4. \A fs : RevokedFor(tokens, fs) => RevokedFor(ts, fs)
    BY <1>1 DEF RevokedFor
<1> QED BY <1>2, <1>3, <1>4

LEMMA RevokedInRevises ==
    ASSUME Stored, NEW fs
    PROVE  Revised(RevokedIn(fs)) /\ RevokedFor(RevokedIn(fs), fs)
<1> DEFINE n == Len(tokens)
           ts == RevokedIn(fs)
           new(t) == [tokens[t] EXCEPT !.revoked = TRUE]
<1>1. n \in Nat /\ \A t \in 1..n : tokens[t] \in RefreshToken
    BY DEF Stored
<1>2. ASSUME NEW t \in 1..n PROVE new(t) \in RefreshToken /\ new(t).family = tokens[t].family /\ new(t).revoked
    <2>1. tokens[t] \in RefreshToken
        BY <1>1
    <2> QED BY <2>1 DEF RefreshToken
<1>3. ts = [t \in 1..n |-> IF tokens[t].family \in fs THEN new(t) ELSE tokens[t]]
    BY DEF RevokedIn
<1> HIDE DEF n, new, ts
<1>4. ts \in [1..n -> RefreshToken] /\ \A t \in 1..n : ts[t] = IF tokens[t].family \in fs THEN new(t) ELSE tokens[t]
    BY <1>1, <1>2, <1>3
<1>5. ts \in Seq(RefreshToken) /\ Len(ts) = n
    BY <1>1, <1>4
<1>6. Revised(ts)
    BY <1>2, <1>4, <1>5 DEF Revised, n
<1>7. RevokedFor(ts, fs)
    BY <1>2, <1>4, <1>5 DEF RevokedFor
<1> QED BY <1>6, <1>7 DEF ts

LEMMA FindKeeps ==
    ASSUME SessionsInv, NEW p \in Procs, At(p, "find"), Put(p, [Rest(p) EXCEPT !.families = LiveFamilies]),
           UNCHANGED <<scenario, now, tokens, access, denied, signedOut, ended>>
    PROVE  SessionsInv'
<1> DEFINE r == [Rest(p) EXCEPT !.families = LiveFamilies]
<1>1. /\ DOMAIN r = Fields /\ r.todo = Tail(procs[p].todo) /\ r.at \in Nat /\ r.at <= now
      /\ r.token = procs[p].token /\ r.families = LiveFamilies /\ p \in scenario.procs
    BY RestHas DEF SessionsInv, Fields
<1>2. Put(p, r) /\ now \in Nat
    BY DEF SessionsInv, Stored
<1> HIDE DEF r
<1>3. PICK k : Leaves(p, k, "find") /\ (k = r \/ (k = Idle /\ r.todo = <<>>))
    BY <1>1, <1>2, RestLeaves DEF SessionsInv
<1>4. Flying' /\ procs'[p] = k /\ \A q \in Procs \ {p} : procs'[q] = procs[q]
    BY <1>1, <1>3, IdleHas, LeavesKeepsFlying
<1>5. Stored' /\ Out'
    BY DEF SessionsInv, Stored, Out
<1>6. LiveFamilies \subseteq 1..Len(tokens)
    <2>1. \A t \in 1..Len(tokens) : tokens[t] \in RefreshToken /\ tokens[t].family <= t /\ Len(tokens) \in Nat
        BY DEF SessionsInv, Stored
    <2>2. \A t \in 1..Len(tokens) : tokens[t].family \in 1..Len(tokens)
        BY <2>1, SessionsConstants DEF RefreshToken
    <2> QED BY <2>2 DEF LiveFamilies
<1>7. Careful(k, tokens, access, denied)
    <2>1. "find" \in Mentions(procs[p].todo) /\ {"revoke", "deny"} \subseteq Mentions(k.todo)
        BY <1>3 DEF Leaves
    <2>2. Mentions(k.todo) \cap Refreshing = {}
        BY <1>3, <2>1 DEF Leaves, SessionsInv, Flying, Handler, Ending
    <2>3. k.families = LiveFamilies
        BY <1>1, <1>3, <2>1, IdleHas
    <2> QED BY <1>6, <2>1, <2>2, <2>3 DEF Careful
<1>8. Orderly'
    <2> SUFFICES ASSUME Serial' PROVE
            /\ SingleChains(tokens')
            /\ ended' \subseteq 1..Len(tokens') /\ RevokedFor(tokens', ended') /\ DeniedIn(access', ended', denied')
            /\ \A q \in Procs : Careful(procs'[q], tokens', access', denied')
        BY DEF Orderly
    <2>1. Serial
        BY DEF Serial
    <2>2. \A q \in Procs : Careful(procs'[q], tokens, access, denied)
        BY <1>1, <1>4, <1>7, <2>1, AloneIsCareful DEF SessionsInv
    <2> QED BY <2>1, <2>2 DEF SessionsInv, Orderly
<1> QED BY <1>4, <1>5, <1>8 DEF SessionsInv

LEMMA RevokeKeeps ==
    ASSUME SessionsInv, NEW p \in Procs, NEW step \in {"revoke", "revokeFamily"}, At(p, step), Put(p, Rest(p)),
           tokens' = RevokedIn(IF step = "revoke" THEN 1..MaxTokens ELSE procs[p].families),
           UNCHANGED <<scenario, now, access, denied, signedOut, ended>>
    PROVE  SessionsInv'
<1> DEFINE fs == IF step = "revoke" THEN 1..MaxTokens ELSE procs[p].families
<1>1. PICK k : /\ Leaves(p, k, step)
               /\ Mentions(k.todo) # {} => k.token = procs[p].token /\ k.families = procs[p].families
    BY StepLeaves
<1>2. PICK ts : tokens' = ts
    OBVIOUS
<1>3. Revised(ts) /\ RevokedFor(ts, fs)
    <2>1. tokens' = RevokedIn(fs)
        OBVIOUS
    <2> HIDE DEF fs
    <2> QED BY <1>2, <2>1, RevokedInRevises DEF SessionsInv
<1>4. /\ \A i \in 1..Len(ts) : ts[i].family <= i
      /\ SingleChains(tokens) => SingleChains(ts)
      /\ \A gs : RevokedFor(tokens, gs) => RevokedFor(ts, gs)
    BY <1>3, RevisedTokens DEF SessionsInv
<1>5. Stored'
    BY <1>2, <1>3, <1>4 DEF SessionsInv, Stored, Revised
<1>6. Out'
    BY DEF SessionsInv, Out
<1>7. Flying' /\ procs'[p] = k /\ \A q \in Procs \ {p} : procs'[q] = procs[q]
    BY <1>1, <1>2, <1>3, LeavesKeepsFlying DEF Revised
<1>8. Orderly'
    <2> SUFFICES ASSUME Serial' PROVE
            /\ SingleChains(tokens')
            /\ ended' \subseteq 1..Len(tokens') /\ RevokedFor(tokens', ended') /\ DeniedIn(access', ended', denied')
            /\ \A q \in Procs : Careful(procs'[q], tokens', access', denied')
        BY DEF Orderly
    <2>1. Serial
        BY DEF Serial
    <2>2. SingleChains(tokens')
        BY <1>2, <1>4, <2>1 DEF SessionsInv, Orderly
    <2>3. ended' \subseteq 1..Len(tokens') /\ RevokedFor(tokens', ended') /\ DeniedIn(access', ended', denied')
        BY <1>2, <1>3, <1>4, <2>1 DEF SessionsInv, Orderly, Revised
    <2>4. Careful(k, ts, access, denied)
        <3>1. Careful(procs[p], tokens, access, denied) /\ Handler(procs[p], tokens, now)
            BY <2>1 DEF SessionsInv, Orderly, Flying
        <3>2. Mentions(k.todo) \cap Refreshing = {}
            BY <1>1, <3>1 DEF Leaves, Handler, Ending
        <3>3. ASSUME "changed" \in Mentions(k.todo), "find" \notin Mentions(k.todo)
              PROVE  /\ k.families \subseteq 1..Len(ts)
                     /\ "revoke" \notin Mentions(k.todo) => RevokedFor(ts, k.families)
                     /\ "deny" \notin Mentions(k.todo) => DeniedIn(access, k.families, denied)
            <4>1. /\ k.families = procs[p].families
                  /\ "changed" \in Mentions(procs[p].todo) /\ "find" \notin Mentions(procs[p].todo)
                  /\ "deny" \in Mentions(procs[p].todo) <=> "deny" \in Mentions(k.todo)
                  /\ step # "revoke" => ("revoke" \in Mentions(procs[p].todo) <=> "revoke" \in Mentions(k.todo))
                BY <1>1, <3>3 DEF Leaves
            <4>2. k.families \subseteq 1..Len(ts) /\ ("deny" \notin Mentions(k.todo) => DeniedIn(access, k.families, denied))
                BY <1>3, <3>1, <4>1 DEF Careful, Revised
            <4>3. CASE step = "revoke"
                <5>1. \A i \in 1..Len(ts) : ts[i].family \in 1..MaxTokens
                    <6>1. \A i \in 1..Len(ts) : ts[i] \in RefreshToken
                        BY <1>3, ElementOfSeq DEF Revised
                    <6> QED BY <6>1 DEF RefreshToken
                <5>2. RevokedFor(ts, k.families)
                    BY <1>3, <4>3, <5>1 DEF RevokedFor
                <5> QED BY <4>2, <5>2
            <4>4. CASE step # "revoke"
                BY <1>4, <3>1, <4>1, <4>2, <4>4 DEF Careful
            <4> QED BY <4>3, <4>4
        <3> QED BY <3>2, <3>3 DEF Careful
    <2>5. p \in scenario.procs
        BY <1>1 DEF Leaves
    <2>6. \A q \in Procs : Careful(procs'[q], ts, access, denied)
        BY <1>7, <2>1, <2>4, <2>5, AloneIsCareful DEF SessionsInv
    <2> QED BY <1>2, <2>2, <2>3, <2>6
<1> QED BY <1>5, <1>6, <1>7, <1>8 DEF SessionsInv

(* Denying never shortens what was denied before.                          *)
LEMMA DenyKeeps ==
    ASSUME SessionsInv, NEW p \in Procs, DenySessions(p)
    PROVE  SessionsInv'
<1> DEFINE fs == procs[p].families
<1>1. /\ denied' = [f \in DOMAIN denied |-> IF f \in fs THEN now + AccessTtl ELSE denied[f]]
      /\ signedOut' = signedOut \cup {a \in access : a.session \in fs}
      /\ At(p, "deny") /\ Put(p, Rest(p)) /\ UNCHANGED <<scenario, now, tokens, access, ended>>
    BY DEF DenySessions, rows, clients
<1>2. PICK k : /\ Leaves(p, k, "deny")
               /\ Mentions(k.todo) # {} => k.token = procs[p].token /\ k.families = fs
    BY <1>1, StepLeaves
<1> HIDE DEF fs
<1>3. /\ denied \in [1..MaxTokens -> Nat] /\ now \in Nat /\ AccessTtl \in Nat
      /\ access \subseteq AccessToken /\ signedOut \subseteq AccessToken
      /\ \A a \in access \cup signedOut : a.issued <= now
    BY SessionsConstants DEF SessionsInv, Stored
<1>4. /\ denied' \in [1..MaxTokens -> Nat]
      /\ \A f \in 1..MaxTokens : denied'[f] = IF f \in fs THEN now + AccessTtl ELSE denied[f]
    BY <1>1, <1>3
<1>5. ASSUME NEW a \in access \cup signedOut
      PROVE  /\ a.session \in fs => denied'[a.session] >= a.issued + AccessTtl
             /\ denied[a.session] >= a.issued + AccessTtl => denied'[a.session] >= a.issued + AccessTtl
    <2>1. a \in AccessToken /\ a.issued <= now
        BY <1>3
    <2>2. a.session \in 1..MaxTokens /\ a.issued \in Nat
        BY <2>1 DEF AccessToken
    <2> QED BY <1>3, <1>4, <2>1, <2>2
<1>6. Stored'
    BY <1>1, <1>3, <1>4 DEF SessionsInv, Stored
<1>7. Out'
    BY <1>1, <1>5 DEF SessionsInv, Out
<1>8. Flying' /\ procs'[p] = k /\ \A q \in Procs \ {p} : procs'[q] = procs[q]
    BY <1>1, <1>2, LeavesKeepsFlying
<1>9. ASSUME NEW gs
      PROVE  DeniedIn(access, gs, denied) => DeniedIn(access, gs, denied')
    BY <1>5 DEF DeniedIn
<1>10. Orderly'
    <2> SUFFICES ASSUME Serial' PROVE
            /\ SingleChains(tokens')
            /\ ended' \subseteq 1..Len(tokens') /\ RevokedFor(tokens', ended') /\ DeniedIn(access', ended', denied')
            /\ \A q \in Procs : Careful(procs'[q], tokens', access', denied')
        BY DEF Orderly
    <2>1. Serial
        BY <1>1 DEF Serial
    <2>2. SingleChains(tokens') /\ ended' \subseteq 1..Len(tokens') /\ RevokedFor(tokens', ended')
        BY <1>1, <2>1 DEF SessionsInv, Orderly
    <2> DEFINE e == ended
               d == denied'
    <2>3. DeniedIn(access, e, denied)
        BY <2>1 DEF SessionsInv, Orderly
    <2> HIDE DEF e
    <2>4. DeniedIn(access', ended', denied')
        <3>1. DeniedIn(access, e, denied')
            BY <1>9, <2>3
        <3> QED BY <1>1, <3>1 DEF e
    <2>5. Careful(k, tokens, access, d)
        <3>1. Careful(procs[p], tokens, access, denied) /\ Handler(procs[p], tokens, now)
            BY <2>1 DEF SessionsInv, Orderly, Flying
        <3>2. Mentions(k.todo) \cap Refreshing = {}
            BY <1>2, <3>1 DEF Leaves, Handler, Ending
        <3>3. DeniedIn(access, fs, denied')
            BY <1>5 DEF DeniedIn
        <3>4. ASSUME "changed" \in Mentions(k.todo), "find" \notin Mentions(k.todo)
              PROVE  /\ k.families \subseteq 1..Len(tokens)
                     /\ "revoke" \notin Mentions(k.todo) => RevokedFor(tokens, k.families)
                     /\ DeniedIn(access, k.families, d)
            <4>1. /\ k.families = fs
                  /\ "changed" \in Mentions(procs[p].todo) /\ "find" \notin Mentions(procs[p].todo)
                  /\ "revoke" \in Mentions(procs[p].todo) <=> "revoke" \in Mentions(k.todo)
                BY <1>2, <3>4 DEF Leaves
            <4> QED BY <3>1, <3>3, <4>1 DEF Careful, fs
        <3> QED BY <3>2, <3>4 DEF Careful
    <2>6. p \in scenario.procs
        BY <1>2 DEF Leaves
    <2> HIDE DEF d
    <2>7. \A q \in Procs : Careful(procs'[q], tokens, access, d)
        BY <1>8, <2>1, <2>5, <2>6, AloneIsCareful DEF SessionsInv
    <2> QED BY <1>1, <2>2, <2>4, <2>7 DEF d
<1> QED BY <1>6, <1>7, <1>8, <1>10 DEF SessionsInv

(* The password change is over: what it found is revoked and denied.       *)
LEMMA ChangedKeeps ==
    ASSUME SessionsInv, NEW p \in Procs, At(p, "changed"), Put(p, Rest(p)),
           ended' = ended \cup procs[p].families,
           UNCHANGED <<scenario, now, tokens, access, denied, signedOut>>
    PROVE  SessionsInv'
<1>1. PICK k : /\ Leaves(p, k, "changed")
               /\ Mentions(k.todo) # {} => k.token = procs[p].token /\ k.families = procs[p].families
    BY StepLeaves
<1>2. Stored' /\ Out'
    BY DEF SessionsInv, Stored, Out
<1>3. Flying' /\ procs'[p] = k /\ \A q \in Procs \ {p} : procs'[q] = procs[q]
    BY <1>1, LeavesKeepsFlying
<1>4. Orderly'
    <2> SUFFICES ASSUME Serial' PROVE
            /\ SingleChains(tokens')
            /\ ended' \subseteq 1..Len(tokens') /\ RevokedFor(tokens', ended') /\ DeniedIn(access', ended', denied')
            /\ \A q \in Procs : Careful(procs'[q], tokens', access', denied')
        BY DEF Orderly
    <2>1. Serial
        BY DEF Serial
    <2>2. Mentions(k.todo) \cap Ending = {} /\ Mentions(procs[p].todo) = {"changed"} \cup Mentions(k.todo)
        BY <1>1 DEF Leaves
    <2>3. Careful(procs[p], tokens, access, denied) /\ Handler(procs[p], tokens, now)
        BY <2>1 DEF SessionsInv, Orderly, Flying
    <2>4. "changed" \in Mentions(procs[p].todo) /\ Mentions(procs[p].todo) \cap {"find", "revoke", "deny"} = {}
        BY <2>2 DEF Ending
    <2>5. /\ procs[p].families \subseteq 1..Len(tokens) /\ RevokedFor(tokens, procs[p].families)
          /\ DeniedIn(access, procs[p].families, denied)
        BY <2>3, <2>4 DEF Careful
    <2>6. SingleChains(tokens) /\ ended \subseteq 1..Len(tokens) /\ RevokedFor(tokens, ended)
          /\ DeniedIn(access, ended, denied)
        BY <2>1 DEF SessionsInv, Orderly
    <2>7. ended' \subseteq 1..Len(tokens) /\ RevokedFor(tokens, ended') /\ DeniedIn(access, ended', denied)
        BY <2>5, <2>6 DEF RevokedFor, DeniedIn
    <2>8. Careful(k, tokens, access, denied)
        <3>1. Mentions(k.todo) \cap Refreshing = {}
            BY <2>2, <2>3 DEF Handler, Ending
        <3>2. "changed" \notin Mentions(k.todo)
            BY <2>2 DEF Ending
        <3> QED BY <3>1, <3>2 DEF Careful
    <2>9. p \in scenario.procs
        BY <1>1 DEF Leaves
    <2>10. \A q \in Procs : Careful(procs'[q], tokens, access, denied)
        BY <1>3, <2>1, <2>8, <2>9, AloneIsCareful DEF SessionsInv
    <2> QED BY <2>6, <2>7, <2>10
<1> QED BY <1>2, <1>3, <1>4 DEF SessionsInv

(* The refresh begins: one at a time, the token it found stays live.       *)
LEMMA RefreshKeeps ==
    ASSUME SessionsInv, NEW p \in Procs, p \in scenario.procs, NEW t \in 1..Len(tokens), ~tokens[t].revoked,
           Put(p, [Idle EXCEPT !.todo = <<"rotate", "context", "enter">>, !.token = t]),
           UNCHANGED <<scenario, now, tokens, access, denied, signedOut, ended>>
    PROVE  SessionsInv'
<1> DEFINE todo == <<"rotate", "context", "enter">>
           r == [Idle EXCEPT !.todo = todo, !.token = t]
<1>1. /\ todo \in Seq(Steps) /\ Ordered(todo) /\ Mentions(todo) = {"rotate", "context", "enter"} /\ todo # <<>>
    <2>1. todo \in Seq(Steps)
        BY DEF Steps
    <2>2. Ordered(todo)
        BY DEF Ordered
    <2>3. Mentions(todo) = {"rotate", "context", "enter"}
        BY DEF Mentions
    <2> QED BY <2>1, <2>2, <2>3
<1> HIDE DEF todo
<1>2. DOMAIN r = Fields /\ r.todo = todo /\ r.token = t /\ r.at = 0
    BY DEF Idle, Fields
<1>3. PICK k : k = r
    OBVIOUS
<1>4. procs' = [procs EXCEPT ![p] = k] /\ now \in Nat /\ Len(tokens) \in Nat
    BY <1>1, <1>2, <1>3 DEF Put, SessionsInv, Stored, todo
<1> HIDE DEF r
<1>5. Runs(p, k)
    BY <1>1, <1>2, <1>3, <1>4 DEF Runs
<1>6. Mentions(k.todo) \cap Ending = {} /\ k.token = t
    BY <1>1, <1>2, <1>3 DEF Ending
<1>7. Flying' /\ procs'[p] = k /\ \A q \in Procs \ {p} : procs'[q] = procs[q]
    BY <1>4, <1>5, <1>6, RunsKeepsFlying DEF SessionsInv
<1>8. Stored' /\ Out'
    BY DEF SessionsInv, Stored, Out
<1>9. Careful(k, tokens, access, denied)
    BY <1>6 DEF Careful, Ending
<1>10. Orderly'
    <2> SUFFICES ASSUME Serial' PROVE
            /\ SingleChains(tokens')
            /\ ended' \subseteq 1..Len(tokens') /\ RevokedFor(tokens', ended') /\ DeniedIn(access', ended', denied')
            /\ \A q \in Procs : Careful(procs'[q], tokens', access', denied')
        BY DEF Orderly
    <2>1. Serial
        BY DEF Serial
    <2>2. \A q \in Procs : Careful(procs'[q], tokens, access, denied)
        BY <1>7, <1>9, <2>1, AloneIsCareful DEF SessionsInv
    <2> QED BY <2>1, <2>2 DEF SessionsInv, Orderly
<1> QED BY <1>7, <1>8, <1>10 DEF SessionsInv

LEMMA RotateKeeps ==
    ASSUME SessionsInv, NEW p \in Procs, Rotate(p)
    PROVE  SessionsInv'
<1> DEFINE n == Len(tokens)
           t == procs[p].token
           old == [tokens[t] EXCEPT !.revoked = TRUE]
           ts == [tokens EXCEPT ![t] = old]
           new == [family |-> tokens[t].family, expires |-> now + RefreshTtl, revoked |-> FALSE, given |-> FALSE]
           r == [Rest(p) EXCEPT !.token = n + 1, !.at = now]
<1>1. At(p, "rotate") /\ n \in Nat /\ now \in Nat /\ tokens \in Seq(RefreshToken)
    BY DEF Rotate, SessionsInv, Stored
<1>2. PICK s : s = procs[p].todo /\ s \in Seq(Steps) /\ s # <<>> /\ Head(s) = "rotate"
    BY <1>1 DEF SessionsInv, Flying, Handler, At
<1>3. "rotate" \in Mentions(procs[p].todo)
    BY <1>2, TailOf
<1>4. t \in 1..n /\ Mentions(procs[p].todo) \cap Ending = {}
    BY <1>3 DEF SessionsInv, Flying, Handler, Refreshing
<1>5. tokens[t] \in RefreshToken /\ tokens[t].family <= t
    BY <1>1, <1>4 DEF SessionsInv, Stored
<1>6. old \in RefreshToken /\ old.family = tokens[t].family /\ old.revoked
    BY <1>5 DEF RefreshToken
<1>7. new \in RefreshToken /\ new.family = tokens[t].family /\ new.revoked = FALSE
    BY <1>1, <1>5, SessionsConstants DEF RefreshToken
<1>8. tokens' = Append(ts, new) /\ UNCHANGED <<scenario, now, access, denied, signedOut, ended>>
    BY DEF Rotate, redis, clients, history
<1> HIDE DEF old
<1>9. ts \in Seq(RefreshToken) /\ Len(ts) = n /\ ts[t] = old /\ \A i \in 1..n : i # t => ts[i] = tokens[i]
    BY <1>1, <1>4, <1>6, ExceptSeq
<1> HIDE DEF ts, new
<1>10. /\ tokens' \in Seq(RefreshToken) /\ Len(tokens') = n + 1 /\ tokens'[n + 1] = new
       /\ (\A i \in 1..n : tokens'[i] = ts[i]) /\ 1..(n + 1) = 1..n \cup {n + 1}
    BY <1>7, <1>8, <1>9, AppendToken
<1>11. /\ \A i \in 1..n : tokens'[i].family = tokens[i].family /\ (tokens[i].revoked => tokens'[i].revoked)
       /\ tokens'[t].revoked
       /\ \A i \in 1..n : i # t => tokens'[i] = tokens[i]
    BY <1>4, <1>6, <1>9, <1>10
<1>12. PICK k : /\ Leaves(p, k, "rotate")
                /\ Mentions(k.todo) # {} => k.token = n + 1
    <2>1. /\ DOMAIN r = Fields /\ r.todo = Tail(procs[p].todo) /\ r.token = n + 1 /\ r.at = now
        BY <1>1, RestHas DEF SessionsInv, Fields
    <2>2. Put(p, r)
        BY <1>10 DEF Rotate
    <2> HIDE DEF r, n, t
    <2>3. Flying /\ r.at \in Nat /\ r.at <= now /\ UNCHANGED <<scenario, now>>
        BY <1>1, <1>8, <2>1 DEF SessionsInv
    <2>4. PICK k : Leaves(p, k, "rotate") /\ (k = r \/ (k = Idle /\ r.todo = <<>>))
        BY <1>1, <2>1, <2>2, <2>3, RestLeaves
    <2>5. Mentions(k.todo) # {} => k.token = n + 1
        BY <2>1, <2>4, IdleHas
    <2> QED BY <2>4, <2>5
<1>13. Mentions(k.todo) \cap Ending = {} /\ (Mentions(k.todo) \cap Refreshing # {} => k.token = n + 1)
    BY <1>4, <1>12 DEF Leaves
<1>14. Flying' /\ procs'[p] = k /\ \A q \in Procs \ {p} : procs'[q] = procs[q]
    <2>1. Mentions(k.todo) \cap Refreshing # {} =>
            k.token \in 1..Len(tokens') /\ Mentions(k.todo) \cap Ending = {}
        BY <1>1, <1>10, <1>13
    <2>2. Runs(p, k) /\ Len(tokens') \in Nat /\ Len(tokens') >= Len(tokens)
        BY <1>1, <1>10, <1>12 DEF Leaves
    <2> QED BY <2>1, <2>2, RunsKeepsFlying DEF SessionsInv
<1>15. Stored'
    <2>1. \A i \in 1..(n + 1) : tokens'[i].family <= i
        <3>1. \A i \in 1..n : tokens[i].family <= i
            BY DEF SessionsInv, Stored
        <3>2. tokens[t].family \in Nat
            BY <1>5 DEF RefreshToken
        <3>3. new.family <= n + 1
            BY <1>1, <1>4, <1>5, <1>7, <3>2
        <3> QED BY <1>10, <1>11, <3>1, <3>3
    <2> QED BY <1>8, <1>10, <2>1 DEF SessionsInv, Stored
<1>16. Out'
    BY <1>8 DEF SessionsInv, Out
<1>17. Orderly'
    <2> SUFFICES ASSUME Serial' PROVE
            /\ SingleChains(tokens')
            /\ ended' \subseteq 1..Len(tokens') /\ RevokedFor(tokens', ended') /\ DeniedIn(access', ended', denied')
            /\ \A q \in Procs : Careful(procs'[q], tokens', access', denied')
        BY DEF Orderly
    <2>1. Serial
        BY <1>8 DEF Serial
    <2>2. ~tokens[t].revoked
        BY <1>3, <2>1 DEF SessionsInv, Orderly, Careful, Refreshing
    <2>3. /\ SingleChains(tokens) /\ ended \subseteq 1..n /\ RevokedFor(tokens, ended)
          /\ DeniedIn(access, ended, denied)
        BY <2>1 DEF SessionsInv, Orderly
    <2> HIDE DEF n, t
    <2>4. SingleChains(tokens')
        <3> SUFFICES ASSUME NEW i \in 1..(n + 1), NEW j \in 1..(n + 1), tokens'[i].family = tokens'[j].family,
                            ~tokens'[i].revoked, ~tokens'[j].revoked
                     PROVE  i = j
            BY <1>10 DEF SingleChains
        <3>1. ASSUME NEW l \in 1..n, tokens'[l].family = tokens[t].family, ~tokens'[l].revoked PROVE FALSE
            <4>1. tokens[l].family = tokens[t].family /\ ~tokens[l].revoked /\ l # t
                BY <1>11, <3>1
            <4> QED BY <1>4, <2>2, <2>3, <4>1 DEF SingleChains, n
        <3>2. CASE i \in 1..n /\ j \in 1..n
            BY <1>11, <2>3, <3>2 DEF SingleChains, n
        <3>3. CASE i = n + 1 /\ j \in 1..n
            BY <1>7, <1>10, <3>1, <3>3
        <3>4. CASE i \in 1..n /\ j = n + 1
            BY <1>7, <1>10, <3>1, <3>4
        <3> QED BY <1>10, <3>2, <3>3, <3>4
    <2>5. RevokedFor(tokens', ended)
        <3>1. tokens[t].family \notin ended
            BY <1>4, <2>2, <2>3 DEF RevokedFor, n
        <3> QED BY <1>7, <1>10, <1>11, <2>3, <3>1 DEF RevokedFor, n
    <2>6. Careful(k, tokens', access, denied)
        <3>1. "changed" \notin Mentions(k.todo)
            BY <1>13 DEF Ending
        <3> QED BY <1>7, <1>10, <1>13, <3>1 DEF Careful
    <2>7. p \in scenario.procs
        BY <1>12 DEF Leaves
    <2>8. \A q \in Procs : Careful(procs'[q], tokens', access, denied)
        <3> DEFINE us == tokens'
        <3>1. Careful(k, us, access, denied)
            BY <2>6
        <3> HIDE DEF us
        <3>2. \A q \in Procs : Careful(procs'[q], us, access, denied)
            BY <1>14, <2>1, <2>7, <3>1, AloneIsCareful DEF SessionsInv
        <3> QED BY <3>2 DEF us
    <2>9. ended \subseteq 1..Len(tokens')
        BY <1>10, <2>3
    <2> QED BY <1>8, <2>3, <2>4, <2>5, <2>8, <2>9
<1> QED BY <1>14, <1>15, <1>16, <1>17 DEF SessionsInv

LEMMA EnterKeeps ==
    ASSUME SessionsInv, NEW p \in Procs, At(p, "enter"),
           access' = access \cup {[session |-> tokens[procs[p].token].family, issued |-> procs[p].at]},
           tokens' = [tokens EXCEPT ![procs[p].token].given = TRUE],
           Put(p, Rest(p)), UNCHANGED <<scenario, now, denied, signedOut, ended>>
    PROVE  SessionsInv'
<1> DEFINE n == Len(tokens)
           t == procs[p].token
           new == [tokens[t] EXCEPT !.given = TRUE]
           a == [session |-> tokens[t].family, issued |-> procs[p].at]
<1>1. n \in Nat /\ now \in Nat /\ tokens \in Seq(RefreshToken) /\ procs[p].at \in Nat /\ procs[p].at <= now
    BY DEF SessionsInv, Stored, Flying, Handler
<1>2. PICK s : s = procs[p].todo /\ s \in Seq(Steps) /\ s # <<>> /\ Head(s) = "enter"
    BY DEF SessionsInv, Flying, Handler, At
<1>3. "enter" \in Mentions(procs[p].todo)
    BY <1>2, TailOf
<1>4. t \in 1..n /\ Mentions(procs[p].todo) \cap Ending = {}
    BY <1>3 DEF SessionsInv, Flying, Handler, Refreshing
<1>5. tokens[t] \in RefreshToken
    BY <1>1, <1>4
<1>6. new \in RefreshToken /\ new.family = tokens[t].family /\ new.revoked = tokens[t].revoked
    BY <1>5 DEF RefreshToken
<1>7. a \in AccessToken /\ a.session = tokens[t].family /\ a.issued = procs[p].at
    BY <1>1, <1>5 DEF AccessToken, RefreshToken
<1>8. tokens' = [tokens EXCEPT ![t] = new] /\ access' = access \cup {a}
    OBVIOUS
<1> HIDE DEF new, a
<1>9. PICK ts : tokens' = ts
    OBVIOUS
<1>10. ts \in Seq(RefreshToken) /\ Len(ts) = n /\ ts[t] = new /\ \A i \in 1..n : i # t => ts[i] = tokens[i]
    BY <1>1, <1>4, <1>6, <1>8, <1>9, ExceptSeq, SMTT(30)
<1>11. Revised(ts) /\ \A i \in 1..n : ts[i].revoked = tokens[i].revoked
    BY <1>6, <1>10 DEF Revised
<1>12. /\ \A i \in 1..Len(ts) : ts[i].family <= i
       /\ SingleChains(tokens) => SingleChains(ts)
       /\ \A gs : RevokedFor(tokens, gs) => RevokedFor(ts, gs)
    BY <1>11, RevisedTokens DEF SessionsInv
<1>13. PICK k : /\ Leaves(p, k, "enter")
                /\ Mentions(k.todo) # {} => k.token = t /\ k.families = procs[p].families
    BY StepLeaves
<1>14. Flying' /\ procs'[p] = k /\ \A q \in Procs \ {p} : procs'[q] = procs[q]
    BY <1>9, <1>10, <1>13, LeavesKeepsFlying
<1>15. Stored'
    BY <1>1, <1>7, <1>8, <1>9, <1>10, <1>12 DEF SessionsInv, Stored
<1>16. Out'
    BY DEF SessionsInv, Out
<1>17. Orderly'
    <2> SUFFICES ASSUME Serial' PROVE
            /\ SingleChains(tokens')
            /\ ended' \subseteq 1..Len(tokens') /\ RevokedFor(tokens', ended') /\ DeniedIn(access', ended', denied')
            /\ \A q \in Procs : Careful(procs'[q], tokens', access', denied')
        BY DEF Orderly
    <2>1. Serial
        BY DEF Serial
    <2>2. ~tokens[t].revoked
        BY <1>3, <2>1 DEF SessionsInv, Orderly, Careful, Refreshing
    <2>3. /\ SingleChains(tokens) /\ ended \subseteq 1..n /\ RevokedFor(tokens, ended)
          /\ DeniedIn(access, ended, denied)
        BY <2>1 DEF SessionsInv, Orderly
    <2>4. DeniedIn(access', ended, denied)
        <3>1. a.session \notin ended
            BY <1>4, <1>7, <2>2, <2>3 DEF RevokedFor
        <3> QED BY <1>8, <2>3, <3>1 DEF DeniedIn
    <2>5. PICK as : as = access'
        OBVIOUS
    <2>6. Careful(k, ts, as, denied)
        <3>1. Mentions(k.todo) \cap Ending = {}
            BY <1>4, <1>13 DEF Leaves
        <3>2. "changed" \notin Mentions(k.todo)
            BY <3>1 DEF Ending
        <3>3. Mentions(k.todo) \cap Refreshing # {} => k.token = t
            BY <1>13
        <3>4. ~ts[t].revoked
            BY <1>4, <1>11, <2>2
        <3> QED BY <3>2, <3>3, <3>4 DEF Careful
    <2>7. p \in scenario.procs
        BY <1>13 DEF Leaves
    <2>8. \A q \in Procs : Careful(procs'[q], ts, as, denied)
        BY <1>14, <2>1, <2>6, <2>7, AloneIsCareful DEF SessionsInv
    <2>9. SingleChains(ts) /\ ended \subseteq 1..Len(ts) /\ RevokedFor(ts, ended)
        <3> DEFINE e == ended
        <3>1. RevokedFor(tokens, e)
            BY <2>3
        <3> HIDE DEF e
        <3>2. RevokedFor(ts, e)
            BY <1>12, <3>1
        <3> QED BY <1>10, <1>12, <2>3, <3>2 DEF e
    <2> QED BY <1>9, <2>4, <2>5, <2>8, <2>9
<1> QED BY <1>14, <1>15, <1>16, <1>17 DEF SessionsInv

(* Time passes: what has expired is forgotten.                             *)
LEMMA TickKeeps ==
    ASSUME SessionsInv, Tick
    PROVE  SessionsInv'
<1>1. /\ now' = now + 1 /\ access' \subseteq access /\ signedOut' \subseteq signedOut
      /\ UNCHANGED <<tokens, denied, procs, scenario, ended>>
    BY DEF Tick, Unexpired, rows, redis
<1>2. now \in Nat \ {0} /\ now' \in Nat \ {0} /\ now' >= now
    BY <1>1 DEF SessionsInv, Stored
<1>3. Stored'
    <2>1. \A a \in access \cup signedOut : a.issued \in Nat /\ a.issued <= now
        BY DEF SessionsInv, Stored, AccessToken
    <2>2. \A a \in access' \cup signedOut' : a.issued <= now'
        BY <1>1, <1>2, <2>1
    <2> QED BY <1>1, <1>2, <2>2 DEF SessionsInv, Stored
<1>4. Flying'
    <2>1. ASSUME NEW p \in Procs PROVE Handler(procs[p], tokens, now')
        BY <1>2 DEF SessionsInv, Flying, Handler
    <2> QED BY <1>1, <2>1 DEF SessionsInv, Flying
<1>5. Out'
    BY <1>1 DEF SessionsInv, Out
<1>6. ASSUME NEW fs, DeniedIn(access, fs, denied) PROVE DeniedIn(access', fs, denied)
    BY <1>1, <1>6 DEF DeniedIn
<1>7. ASSUME NEW h, Careful(h, tokens, access, denied) PROVE Careful(h, tokens, access', denied)
    BY <1>6, <1>7 DEF Careful
<1>8. Orderly'
    <2> SUFFICES ASSUME Serial' PROVE
            /\ SingleChains(tokens')
            /\ ended' \subseteq 1..Len(tokens') /\ RevokedFor(tokens', ended') /\ DeniedIn(access', ended', denied')
            /\ \A q \in Procs : Careful(procs'[q], tokens', access', denied')
        BY DEF Orderly
    <2>1. Serial
        BY <1>1 DEF Serial
    <2>2. DeniedIn(access', ended, denied)
        BY <1>1, <2>1 DEF SessionsInv, Orderly, DeniedIn
    <2> QED BY <1>1, <1>7, <2>1, <2>2 DEF SessionsInv, Orderly
<1> QED BY <1>3, <1>4, <1>5, <1>8 DEF SessionsInv

-----------------------------------------------------------------------------
(* The programs of the handlers.                                           *)
LEMMA ProgramConcat ==
    ASSUME NEW s, NEW t, Program(s), Program(t), "changed" \notin Mentions(s) \/ Mentions(t) \cap Ending = {}
    PROVE  Program(s \o t) /\ Mentions(s \o t) = Mentions(s) \cup Mentions(t)
<1>1. s \in Seq(Steps) /\ t \in Seq(Steps) /\ Ordered(s) /\ Ordered(t)
    BY DEF Program
<1>2. s \o t \in Seq(Steps) /\ Ordered(s \o t) /\ Mentions(s \o t) = Mentions(s) \cup Mentions(t)
    BY <1>1, ConcatOf
<1> QED BY <1>2 DEF Program

(* A list of steps without any that is tracked is a program.               *)
LEMMA PlainProgram ==
    ASSUME NEW s \in Seq(Steps), Mentions(s) \cap Tracked = {}
    PROVE  Program(s) /\ "changed" \notin Mentions(s) /\ Mentions(s) \cap Ending = {}
<1>1. \A i \in DOMAIN s : s[i] \notin Tracked
    BY DEF Mentions
<1>2. Ordered(s)
    BY <1>1 DEF Ordered, Tracked, Ending
<1> QED BY <1>2 DEF Program, Tracked, Ending

LEMMA Lists ==
    /\ \A x \in Steps : <<x>> \in Seq(Steps) /\ Mentions(<<x>>) = {x}
    /\ \A x, y \in Steps : <<x, y>> \in Seq(Steps) /\ Mentions(<<x, y>>) = {x, y}
    /\ \A x, y, z \in Steps : <<x, y, z>> \in Seq(Steps) /\ Mentions(<<x, y, z>>) = {x, y, z}
<1>1. ASSUME NEW x \in Steps PROVE <<x>> \in Seq(Steps) /\ Mentions(<<x>>) = {x}
    BY DEF Mentions
<1>2. ASSUME NEW x \in Steps, NEW y \in Steps PROVE <<x, y>> \in Seq(Steps) /\ Mentions(<<x, y>>) = {x, y}
    BY DEF Mentions
<1>3. ASSUME NEW x \in Steps, NEW y \in Steps, NEW z \in Steps
      PROVE  <<x, y, z>> \in Seq(Steps) /\ Mentions(<<x, y, z>>) = {x, y, z}
    BY DEF Mentions
<1> QED BY <1>1, <1>2, <1>3

Free == Steps \ Tracked
LEMMA FreeSteps ==
    {"fail", "complete", "issue", "spend", "save", "regenerate", "password", "clear", "release", "load", "unlock",
     "accept", "resetLoad", "consume", "burn", "voidInvite", "newInvite", "voidReset", "newReset", "context",
     "read", "store", "invalidate", "saveRole", "holders", "drop", "removeRole"} \subseteq Free
    BY DEF Free, Steps, Tracked, Refreshing, Ending

LEMMA FreeLists ==
    /\ \A x \in Free : Program(<<x>>) /\ Mentions(<<x>>) \cap Tracked = {}
    /\ \A x, y \in Free : Program(<<x, y>>) /\ Mentions(<<x, y>>) \cap Tracked = {}
    /\ \A x, y, z \in Free : Program(<<x, y, z>>) /\ Mentions(<<x, y, z>>) \cap Tracked = {}
<1>1. ASSUME NEW x \in Free PROVE Program(<<x>>) /\ Mentions(<<x>>) \cap Tracked = {}
    <2>1. <<x>> \in Seq(Steps) /\ Mentions(<<x>>) \cap Tracked = {}
        BY Lists DEF Free
    <2> QED BY <2>1, PlainProgram
<1>2. ASSUME NEW x \in Free, NEW y \in Free PROVE Program(<<x, y>>) /\ Mentions(<<x, y>>) \cap Tracked = {}
    <2>1. <<x, y>> \in Seq(Steps) /\ Mentions(<<x, y>>) \cap Tracked = {}
        BY Lists DEF Free
    <2> QED BY <2>1, PlainProgram
<1>3. ASSUME NEW x \in Free, NEW y \in Free, NEW z \in Free
      PROVE  Program(<<x, y, z>>) /\ Mentions(<<x, y, z>>) \cap Tracked = {}
    <2>1. <<x, y, z>> \in Seq(Steps) /\ Mentions(<<x, y, z>>) \cap Tracked = {}
        BY Lists DEF Free
    <2> QED BY <2>1, PlainProgram
<1> QED BY <1>1, <1>2, <1>3

LEMMA RevokingPrograms ==
    /\ Program(RevokeAll) /\ "changed" \notin Mentions(RevokeAll) /\ "find" \in Mentions(RevokeAll)
    /\ Program(RevokeFamily)
<1>1. RevokeAll \in Seq(Steps) /\ RevokeFamily \in Seq(Steps)
    BY DEF RevokeAll, RevokeFamily, Steps
<1>2. Mentions(RevokeAll) = {"find", "revoke", "deny"} /\ Mentions(RevokeFamily) = {"revokeFamily", "deny"}
    BY DEF RevokeAll, RevokeFamily, Mentions
<1>3. Ordered(RevokeAll) /\ Ordered(RevokeFamily)
    BY DEF RevokeAll, RevokeFamily, Ordered
<1> QED BY <1>1, <1>2, <1>3 DEF Program, Refreshing

(* "changed" alone is no program: it has to follow the search.             *)
LEMMA ApplyNewPasswordIs ==
    Program(ApplyNewPassword) /\ "find" \in Mentions(ApplyNewPassword)
<1> DEFINE s == <<"password">> \o RevokeAll
           t == <<"changed">>
<1>1. Program(<<"password">>) /\ "changed" \notin Mentions(<<"password">>)
    BY FreeSteps, FreeLists DEF Tracked, Ending
<1>2. Program(s) /\ Mentions(s) = Mentions(<<"password">>) \cup Mentions(RevokeAll)
    BY <1>1, RevokingPrograms, ProgramConcat
<1>3. t \in Seq(Steps) /\ Mentions(t) = {"changed"}
    <2>1. "changed" \in Steps
        BY DEF Steps
    <2> QED BY <2>1, Lists
<1>4. Ordered(t)
    BY DEF Ordered
<1>5. "changed" \notin Mentions(s) /\ "find" \in Mentions(s)
    BY <1>1, <1>2, RevokingPrograms
<1>6. s \in Seq(Steps) /\ Ordered(s) /\ Mentions(s) \cap Refreshing = {}
    BY <1>2 DEF Program
<1> HIDE DEF s, t
<1>7. s \o t \in Seq(Steps) /\ Mentions(s \o t) = Mentions(s) \cup Mentions(t) /\ Ordered(s \o t)
    BY <1>3, <1>4, <1>5, <1>6, ConcatOf
<1>8. Program(s \o t) /\ "find" \in Mentions(s \o t)
    BY <1>3, <1>5, <1>6, <1>7 DEF Program, Refreshing
<1> QED BY <1>8 DEF ApplyNewPassword, s, t

LEMMA ResetIs ==
    /\ Program(<<"consume", "burn">> \o ApplyNewPassword)
    /\ Program(<<"spend">> \o (<<"consume", "burn">> \o ApplyNewPassword))
<1>1. Program(<<"consume", "burn">>) /\ "changed" \notin Mentions(<<"consume", "burn">>)
    BY FreeSteps, FreeLists DEF Tracked, Ending
<1>2. Program(<<"spend">>) /\ "changed" \notin Mentions(<<"spend">>)
    BY FreeSteps, FreeLists DEF Tracked, Ending
<1>3. Program(<<"consume", "burn">> \o ApplyNewPassword)
    BY <1>1, ApplyNewPasswordIs, ProgramConcat
<1> QED BY <1>2, <1>3, ProgramConcat

LEMMA SpendingIs ==
    ASSUME NEW todo, Program(todo)
    PROVE  Program(<<"spend">> \o todo)
<1>1. Program(<<"spend">>) /\ "changed" \notin Mentions(<<"spend">>)
    BY FreeSteps, FreeLists DEF Tracked, Ending
<1> QED BY <1>1, ProgramConcat

LEMMA RecoverIs ==
    ASSUME NEW setPassword \in BOOLEAN
    PROVE  Program(<<"unlock", "release", "load", "clear", "invalidate">> \o RevokeAll
                   \o (IF setPassword THEN <<"load">> \o ApplyNewPassword ELSE <<>>)
                   \o <<"invalidate">>)
<1> DEFINE a == <<"unlock", "release", "load", "clear", "invalidate">>
           x == IF setPassword THEN <<"load">> \o ApplyNewPassword ELSE <<>>
           z == <<"invalidate">>
<1>1. Program(a) /\ "changed" \notin Mentions(a)
    <2>1. a \in Seq(Steps)
        BY DEF Steps
    <2>2. Mentions(a) = {"unlock", "release", "load", "clear", "invalidate"}
        BY DEF Mentions
    <2> HIDE DEF a
    <2>3. Mentions(a) \cap Tracked = {}
        BY <2>2 DEF Tracked, Refreshing, Ending
    <2> QED BY <2>1, <2>3, PlainProgram
<1>2. Program(x)
    <2>1. Program(<<"load">>) /\ "changed" \notin Mentions(<<"load">>)
        BY FreeSteps, FreeLists DEF Tracked, Ending
    <2>2. Program(<<"load">> \o ApplyNewPassword)
        BY <2>1, ApplyNewPasswordIs, ProgramConcat
    <2>3. Program(<<>>)
        BY DEF Program, Ordered, Mentions
    <2> QED BY <2>2, <2>3
<1>3. Program(z) /\ Mentions(z) \cap Ending = {}
    BY FreeSteps, FreeLists DEF Tracked
<1> HIDE DEF a, x, z
<1>4. Program(a \o RevokeAll) /\ "changed" \notin Mentions(a \o RevokeAll)
    BY <1>1, RevokingPrograms, ProgramConcat
<1>5. Program((a \o RevokeAll) \o x)
    BY <1>2, <1>4, ProgramConcat
<1>6. Program(((a \o RevokeAll) \o x) \o z)
    BY <1>3, <1>5, ProgramConcat
<1> QED BY <1>6 DEF a, x, z

Untouched == UNCHANGED <<scenario, now, tokens, access, denied, signedOut, ended>>

LEMMA GoKeeps ==
    ASSUME SessionsInv, NEW p \in Procs, p \in scenario.procs, NEW todo, NEW row, Program(todo),
           Go(p, todo, row), Untouched
    PROVE  SessionsInv'
<1> DEFINE r == [Idle EXCEPT !.todo = todo, !.row = row]
<1>1. DOMAIN r = Fields /\ r.todo = todo /\ r.at = 0
    BY DEF Idle, Fields
<1>2. Put(p, r) /\ now \in Nat
    BY DEF Go, SessionsInv, Stored
<1> HIDE DEF r
<1> QED BY <1>1, <1>2, StartsProgram DEF Untouched

LEMMA GoSpendingKeeps ==
    ASSUME SessionsInv, NEW p \in Procs, p \in scenario.procs, NEW code, NEW todo, Program(todo),
           GoSpending(p, code, todo), Untouched
    PROVE  SessionsInv'
<1> DEFINE l == <<"spend">> \o todo
           r == [Idle EXCEPT !.todo = l, !.row = Spent(user, code), !.code = code]
<1>1. Program(l)
    BY SpendingIs
<1>2. Put(p, r) /\ now \in Nat
    BY DEF GoSpending, SessionsInv, Stored
<1> HIDE DEF l
<1>3. DOMAIN r = Fields /\ r.todo = l /\ r.at = 0
    BY DEF Idle, Fields
<1> HIDE DEF r
<1> QED BY <1>1, <1>2, <1>3, StartsProgram DEF Untouched

LEMMA PutTokenKeeps ==
    ASSUME SessionsInv, NEW p \in Procs, p \in scenario.procs, NEW todo, NEW t, Program(todo),
           Put(p, [Idle EXCEPT !.todo = todo, !.token = t]), Untouched
    PROVE  SessionsInv'
<1> DEFINE r == [Idle EXCEPT !.todo = todo, !.token = t]
<1>1. DOMAIN r = Fields /\ r.todo = todo /\ r.at = 0
    BY DEF Idle, Fields
<1>2. Put(p, r) /\ now \in Nat
    BY DEF SessionsInv, Stored
<1> HIDE DEF r
<1> QED BY <1>1, <1>2, StartsProgram DEF Untouched

LEMMA PutFamilyKeeps ==
    ASSUME SessionsInv, NEW p \in Procs, p \in scenario.procs, NEW fs,
           Put(p, [Idle EXCEPT !.todo = RevokeFamily, !.families = fs]), Untouched
    PROVE  SessionsInv'
<1> DEFINE r == [Idle EXCEPT !.todo = RevokeFamily, !.families = fs]
<1>1. DOMAIN r = Fields /\ r.todo = RevokeFamily /\ r.at = 0
    BY DEF Idle, Fields
<1>2. Put(p, r) /\ now \in Nat
    BY DEF SessionsInv, Stored
<1> HIDE DEF r
<1> QED BY <1>1, <1>2, RevokingPrograms, StartsProgram DEF Untouched

(* Every request either stays away from sessions or begins a program.      *)
LEMMA AskStep ==
    ASSUME SessionsInv, NEW p \in Procs, Ask(p)
    PROVE  SessionsInv'
<1> DEFINE Begun == p \in scenario.procs /\ Untouched
<1>a. \A x \in Free : Program(<<x>>)
    BY FreeLists
<1>b. \A x, y \in Free : Program(<<x, y>>)
    BY FreeLists
<1>c. \A x, y, z \in Free : Program(<<x, y, z>>)
    BY FreeLists
<1>1. CASE Login(p)
    <2>1. Begun
        BY <1>1 DEF Login, MayStart, Untouched, rows, redis, history
    <2>2. CASE Go(p, <<"fail">>, NoUser)
        BY <1>a, <2>1, <2>2, FreeSteps, GoKeeps
    <2>3. CASE Go(p, <<"complete", "issue">>, user)
        BY <1>b, <2>1, <2>3, FreeSteps, GoKeeps
    <2>4. CASE UNCHANGED procs
        BY <2>1, <2>4, Stays DEF Untouched
    <2> QED BY <1>1, <2>2, <2>3, <2>4 DEF Login
<1>2. CASE VerifyMfa(p)
    <2>1. Begun
        BY <1>2 DEF VerifyMfa, MayStart, Untouched, rows, redis, clients, history
    <2>2. CASE Go(p, <<"fail">>, NoUser)
        BY <1>a, <2>1, <2>2, FreeSteps, GoKeeps
    <2>3. ASSUME NEW code, GoSpending(p, code, <<"complete", "issue">>) PROVE SessionsInv'
        BY <1>b, <2>1, <2>3, FreeSteps, GoSpendingKeeps
    <2> QED BY <1>2, <2>2, <2>3 DEF VerifyMfa
<1>3. CASE Refresh(p)
    <2>1. Begun
        BY <1>3 DEF Refresh, MayStart, Untouched, rows, redis, clients, history
    <2>2. PICK t \in 1..Len(tokens) :
            \/ Put(p, [Idle EXCEPT !.todo = RevokeFamily, !.families = {tokens[t].family}])
            \/ /\ ~tokens[t].revoked
               /\ Put(p, [Idle EXCEPT !.todo = <<"rotate", "context", "enter">>, !.token = t])
        BY <1>3 DEF Refresh
    <2>3. CASE Put(p, [Idle EXCEPT !.todo = RevokeFamily, !.families = {tokens[t].family}])
        BY <2>1, <2>3, PutFamilyKeeps
    <2>4. CASE /\ ~tokens[t].revoked
               /\ Put(p, [Idle EXCEPT !.todo = <<"rotate", "context", "enter">>, !.token = t])
        BY <2>1, <2>4, RefreshKeeps DEF Untouched
    <2> QED BY <2>2, <2>3, <2>4
<1>4. CASE Logout(p)
    <2>1. Begun
        BY <1>4 DEF Logout, MayStart, Untouched, rows, redis, clients, history
    <2>2. PICK t \in 1..Len(tokens) :
            Put(p, [Idle EXCEPT !.todo = RevokeFamily, !.families = {tokens[t].family}])
        BY <1>4 DEF Logout
    <2> QED BY <2>1, <2>2, PutFamilyKeeps
<1>5. CASE LogoutAll(p)
    <2>1. Begun /\ Go(p, RevokeAll, NoUser)
        BY <1>5 DEF LogoutAll, MayStart, Untouched, rows, redis, clients, history
    <2> QED BY <2>1, RevokingPrograms, GoKeeps
<1>6. CASE Invite(p) \/ RequestPasswordReset(p)
    <2>1. Begun
        BY <1>6 DEF Invite, RequestPasswordReset, MayStart, Untouched, rows, redis, clients, history
    <2>2. Program(IssueOneTime("INVITE")) /\ Program(IssueOneTime("PASSWORD_RESET"))
        BY <1>b, FreeSteps DEF IssueOneTime, Void, New
    <2>3. Go(p, IssueOneTime("INVITE"), NoUser) \/ Go(p, IssueOneTime("PASSWORD_RESET"), NoUser)
        BY <1>6 DEF Invite, RequestPasswordReset
    <2> QED BY <2>1, <2>2, <2>3, GoKeeps
<1>7. CASE AcceptInvite(p)
    <2>1. Begun
        BY <1>7 DEF AcceptInvite, MayStart, Untouched, rows, redis, clients, history
    <2>2. PICK t \in 1..Len(oneTime) : Put(p, [Idle EXCEPT !.todo = <<"burn", "accept">>, !.token = t])
        BY <1>7 DEF AcceptInvite
    <2> QED BY <1>b, <2>1, <2>2, FreeSteps, PutTokenKeeps
<1>8. CASE ResetPassword(p)
    <2>1. Begun
        BY <1>8 DEF ResetPassword, MayStart, Untouched, rows, redis, clients, history
    <2>2. PICK t \in 1..Len(oneTime) : Put(p, [Idle EXCEPT !.todo = <<"resetLoad">>, !.token = t])
        BY <1>8 DEF ResetPassword
    <2> QED BY <1>a, <2>1, <2>2, FreeSteps, PutTokenKeeps
<1>9. CASE ChangePassword(p)
    <2>1. Begun /\ Go(p, ApplyNewPassword, user)
        BY <1>9 DEF ChangePassword, MayStart, Untouched, rows, redis, clients, history
    <2> QED BY <2>1, ApplyNewPasswordIs, GoKeeps
<1>10. CASE RecoverAccount(p)
    <2>1. Begun
        BY <1>10 DEF RecoverAccount, MayStart, Untouched, rows, redis, clients, history
    <2>2. PICK setPassword \in BOOLEAN :
            Go(p, <<"unlock", "release", "load", "clear", "invalidate">> \o RevokeAll
                  \o (IF setPassword THEN <<"load">> \o ApplyNewPassword ELSE <<>>)
                  \o <<"invalidate">>, NoUser)
        BY <1>10 DEF RecoverAccount
    <2> DEFINE todo == <<"unlock", "release", "load", "clear", "invalidate">> \o RevokeAll
                       \o (IF setPassword THEN <<"load">> \o ApplyNewPassword ELSE <<>>)
                       \o <<"invalidate">>
    <2>3. Program(todo) /\ Go(p, todo, NoUser)
        BY <2>2, RecoverIs
    <2> HIDE DEF todo
    <2> QED BY <2>1, <2>3, GoKeeps
<1>11. CASE BeginSetup(p)
    <2>1. Begun
        BY <1>11 DEF BeginSetup, MayStart, Untouched, redis, clients, history
    <2>2. PICK row : Go(p, <<"save">>, row)
        BY <1>11 DEF BeginSetup
    <2> QED BY <1>a, <2>1, <2>2, FreeSteps, GoKeeps
<1>12. CASE Enable(p)
    <2>1. Begun
        BY <1>12 DEF Enable, MayStart, Untouched, redis, clients, history
    <2>2. PICK code, row : Put(p, [Idle EXCEPT !.todo = <<"spend", "invalidate">>, !.code = code, !.row = row])
        BY <1>12 DEF Enable
    <2> DEFINE l == <<"spend", "invalidate">>
               r == [Idle EXCEPT !.todo = l, !.code = code, !.row = row]
    <2>3. Program(l) /\ Put(p, r) /\ now \in Nat
        BY <1>b, <2>2, FreeSteps DEF SessionsInv, Stored
    <2> HIDE DEF l
    <2>4. DOMAIN r = Fields /\ r.todo = l /\ r.at = 0
        BY DEF Idle, Fields
    <2> HIDE DEF r
    <2> QED BY <2>1, <2>3, <2>4, StartsProgram DEF Untouched
<1>13. CASE RegenerateRecoveryCodes(p)
    <2>1. Begun
        BY <1>13 DEF RegenerateRecoveryCodes, MayStart, Untouched, redis, clients, history
    <2>2. PICK code : GoSpending(p, code, <<"regenerate">>)
        BY <1>13 DEF RegenerateRecoveryCodes
    <2> QED BY <1>a, <2>1, <2>2, FreeSteps, GoSpendingKeeps
<1>14. CASE Disable(p)
    <2>1. Begun
        BY <1>14 DEF Disable, MayStart, Untouched, rows, redis, clients, history
    <2>2. PICK code : GoSpending(p, code, <<"clear", "invalidate">>)
        BY <1>14 DEF Disable
    <2> QED BY <1>b, <2>1, <2>2, FreeSteps, GoSpendingKeeps
<1>15. CASE ResetMfa(p)
    <2>1. Begun /\ Go(p, <<"clear", "invalidate">>, user)
        BY <1>15 DEF ResetMfa, MayStart, Untouched, rows, redis, clients, history
    <2> QED BY <1>b, <2>1, FreeSteps, GoKeeps
<1>16. CASE EditUser(p)
    <2>1. Begun
        BY <1>16 DEF EditUser, MayStart, Untouched, rows, redis, clients, history
    <2>2. PICK row : Go(p, <<"save">>, row) \/ Go(p, <<"save", "invalidate">>, row) \/ Go(p, <<"release">>, row)
        BY <1>16 DEF EditUser
    <2> QED BY <1>a, <1>b, <2>1, <2>2, FreeSteps, GoKeeps
<1>17. CASE EditRole(p)
    <2>1. Begun
        BY <1>17 DEF EditRole, MayStart, Untouched, redis, clients, history
    <2>2. CASE UNCHANGED procs
        BY <2>1, <2>2, Stays DEF Untouched
    <2>3. ASSUME NEW r \in Roles, NEW perms,
                 Put(p, [Idle EXCEPT !.todo = <<"saveRole", "holders", "drop">>, !.role = r, !.perms = perms])
          PROVE  SessionsInv'
        <3> DEFINE l == <<"saveRole", "holders", "drop">>
                   h == [Idle EXCEPT !.todo = l, !.role = r, !.perms = perms]
        <3>1. Program(l) /\ Put(p, h) /\ now \in Nat
            BY <1>c, <2>3, FreeSteps DEF SessionsInv, Stored
        <3> HIDE DEF l
        <3>2. DOMAIN h = Fields /\ h.todo = l /\ h.at = 0
            BY DEF Idle, Fields
        <3> HIDE DEF h
        <3> QED BY <2>1, <3>1, <3>2, StartsProgram DEF Untouched
    <2>4. ASSUME NEW r \in Roles, Put(p, [Idle EXCEPT !.todo = <<"holders", "drop", "removeRole">>, !.role = r])
          PROVE  SessionsInv'
        <3> DEFINE l == <<"holders", "drop", "removeRole">>
                   h == [Idle EXCEPT !.todo = l, !.role = r]
        <3>1. Program(l) /\ Put(p, h) /\ now \in Nat
            BY <1>c, <2>4, FreeSteps DEF SessionsInv, Stored
        <3> HIDE DEF l
        <3>2. DOMAIN h = Fields /\ h.todo = l /\ h.at = 0
            BY DEF Idle, Fields
        <3> HIDE DEF h
        <3> QED BY <2>1, <3>1, <3>2, StartsProgram DEF Untouched
    <2> QED BY <1>17, <2>2, <2>3, <2>4 DEF EditRole
<1>18. CASE Request(p)
    <2>1. Begun /\ Go(p, <<"context">>, NoUser)
        BY <1>18 DEF Request, MayStart, Untouched, rows, redis, clients, history
    <2> QED BY <1>a, <2>1, FreeSteps, GoKeeps
<1> QED BY <1>1, <1>2, <1>3, <1>4, <1>5, <1>6, <1>7, <1>8, <1>9, <1>10, <1>11, <1>12, <1>13, <1>14, <1>15,
           <1>16, <1>17, <1>18 DEF Ask

(* A step that is not tracked goes on with the rest of the program.        *)
LEMMA RestKeeps ==
    ASSUME SessionsInv, NEW p \in Procs, NEW step \in Free, At(p, step), Put(p, Rest(p)), Untouched
    PROVE  SessionsInv'
<1> DEFINE r == Rest(p)
<1>1. /\ DOMAIN r = Fields /\ r.todo = Tail(procs[p].todo) /\ r.at \in Nat /\ r.at <= now
      /\ r.token = procs[p].token /\ r.families = procs[p].families /\ Put(p, r)
    BY RestHas DEF SessionsInv
<1>2. step \notin Tracked
    BY DEF Free
<1> HIDE DEF r
<1> QED BY <1>1, <1>2, RestIsQuiet DEF Untouched

LEMMA RestRowKeeps ==
    ASSUME SessionsInv, NEW p \in Procs, NEW step \in Free, At(p, step), NEW row,
           Put(p, [Rest(p) EXCEPT !.row = row]), Untouched
    PROVE  SessionsInv'
<1> DEFINE r == [Rest(p) EXCEPT !.row = row]
<1>1. /\ DOMAIN r = Fields /\ r.todo = Tail(procs[p].todo) /\ r.at \in Nat /\ r.at <= now
      /\ r.token = procs[p].token /\ r.families = procs[p].families /\ Put(p, r)
    BY RestHas DEF SessionsInv, Fields
<1>2. step \notin Tracked
    BY DEF Free
<1> HIDE DEF r
<1> QED BY <1>1, <1>2, RestIsQuiet DEF Untouched

LEMMA RestContextKeeps ==
    ASSUME SessionsInv, NEW p \in Procs, NEW step \in Free, At(p, step), NEW ctx,
           Put(p, [Rest(p) EXCEPT !.ctx = ctx]), Untouched
    PROVE  SessionsInv'
<1> DEFINE r == [Rest(p) EXCEPT !.ctx = ctx]
<1>1. /\ DOMAIN r = Fields /\ r.todo = Tail(procs[p].todo) /\ r.at \in Nat /\ r.at <= now
      /\ r.token = procs[p].token /\ r.families = procs[p].families /\ Put(p, r)
    BY RestHas DEF SessionsInv, Fields
<1>2. step \notin Tracked
    BY DEF Free
<1> HIDE DEF r
<1> QED BY <1>1, <1>2, RestIsQuiet DEF Untouched

LEMMA RestAtKeeps ==
    ASSUME SessionsInv, NEW p \in Procs, NEW step \in Free, At(p, step), NEW at \in {0, 1},
           Put(p, [Rest(p) EXCEPT !.at = at]), Untouched
    PROVE  SessionsInv'
<1> DEFINE r == [Rest(p) EXCEPT !.at = at]
<1>1. /\ DOMAIN r = Fields /\ r.todo = Tail(procs[p].todo) /\ r.at = at
      /\ r.token = procs[p].token /\ r.families = procs[p].families /\ Put(p, r)
    BY RestHas DEF SessionsInv, Fields
<1>2. step \notin Tracked
    BY DEF Free
<1>3. at \in Nat /\ at <= now
    BY DEF SessionsInv, Stored
<1> HIDE DEF r
<1> QED BY <1>1, <1>2, <1>3, RestIsQuiet DEF Untouched

(* A handler goes over to another program, keeping what it knows.          *)
LEMMA TurnsTo ==
    ASSUME SessionsInv, NEW p \in Procs, p \in scenario.procs, NEW r, NEW todo, Program(todo),
           DOMAIN r = Fields, r.todo = todo, r.at = procs[p].at, Put(p, r), Untouched
    PROVE  SessionsInv'
<1>1. procs[p].at \in Nat /\ procs[p].at <= now
    BY DEF SessionsInv, Flying, Handler
<1> QED BY <1>1, StartsProgram DEF Untouched

LEMMA ReloadKeeps ==
    ASSUME SessionsInv, NEW p \in Procs, Reload(p)
    PROVE  SessionsInv'
<1>1. Untouched
    BY DEF Reload, Untouched, rows, redis, clients, history
<1>2. DOMAIN procs[p] = Fields
    BY DEF SessionsInv, Flying, Handler
<1>3. CASE At(p, "load") /\ Put(p, [Rest(p) EXCEPT !.row = user])
    BY <1>1, <1>3, FreeSteps, RestRowKeeps
<1>4. CASE At(p, "unlock") /\ Put(p, [Rest(p) EXCEPT !.row = [user EXCEPT !.attempts = 0, !.locked = 0]])
    <2>1. PICK row : Put(p, [Rest(p) EXCEPT !.row = row])
        BY <1>4
    <2> QED BY <1>1, <1>4, <2>1, FreeSteps, RestRowKeeps
<1>5. ASSUME At(p, "accept"), NEW row,
             Put(p, [procs[p] EXCEPT !.row = row, !.todo = <<"save", "invalidate", "issue">>])
      PROVE  SessionsInv'
    <2> DEFINE l == <<"save", "invalidate", "issue">>
               r == [procs[p] EXCEPT !.row = row, !.todo = l]
    <2>1. Program(l) /\ Put(p, r) /\ p \in scenario.procs
        BY <1>5, FreeSteps, FreeLists, RestHas DEF SessionsInv
    <2> HIDE DEF l
    <2>2. DOMAIN r = Fields /\ r.todo = l /\ r.at = procs[p].at
        BY <1>2 DEF Fields
    <2> HIDE DEF r
    <2> QED BY <1>1, <2>1, <2>2, TurnsTo
<1>6. CASE /\ At(p, "accept")
           /\ IF user.status = "INVITED"
              THEN Put(p, [procs[p] EXCEPT
                      !.row = [user EXCEPT !.status = "ACTIVE", !.password = TRUE, !.changed = now],
                      !.todo = <<"save", "invalidate", "issue">>])
              ELSE Put(p, Idle)
    BY <1>1, <1>5, <1>6, Stops DEF Untouched
<1>7. CASE At(p, "consume") /\ Put(p, IF IsUsable(procs[p].token) THEN Rest(p) ELSE Idle)
    <2>1. CASE Put(p, Rest(p))
        BY <1>1, <1>7, <2>1, FreeSteps, RestKeeps
    <2>2. CASE Put(p, Idle)
        BY <1>1, <2>2, Stops DEF Untouched
    <2> QED BY <1>7, <2>1, <2>2
<1> DEFINE rest == <<"consume", "burn">> \o ApplyNewPassword
           after == <<"spend">> \o rest
<1>8. Program(rest) /\ Program(after)
    BY ResetIs
<1>9. ASSUME At(p, "resetLoad"),
             \/ ~CanLogin(user) /\ Put(p, Idle)
             \/ CanLogin(user) /\ ~user.mfa /\ Put(p, [procs[p] EXCEPT !.row = user, !.todo = rest])
             \/ /\ CanLogin(user) /\ user.mfa
                /\ \/ Go(p, <<"fail">>, NoUser)
                   \/ \E code \in Verify(user) :
                        Put(p, [procs[p] EXCEPT !.row = Spent(user, code), !.code = code, !.todo = after])
      PROVE  SessionsInv'
    <2>1. p \in scenario.procs
        BY <1>9, RestHas DEF SessionsInv
    <2>2. CASE Put(p, Idle)
        BY <1>1, <2>2, Stops DEF Untouched
    <2>3. CASE Go(p, <<"fail">>, NoUser)
        BY <1>1, <2>1, <2>3, FreeSteps, FreeLists, GoKeeps
    <2> HIDE DEF rest, after
    <2>4. CASE Put(p, [procs[p] EXCEPT !.row = user, !.todo = rest])
        <3> DEFINE r == [procs[p] EXCEPT !.row = user, !.todo = rest]
        <3>1. DOMAIN r = Fields /\ r.todo = rest /\ r.at = procs[p].at /\ Put(p, r)
            BY <1>2, <2>4 DEF Fields
        <3> HIDE DEF r
        <3> QED BY <1>1, <1>8, <2>1, <3>1, TurnsTo
    <2>5. ASSUME NEW row, NEW code, Put(p, [procs[p] EXCEPT !.row = row, !.code = code, !.todo = after])
          PROVE  SessionsInv'
        <3> DEFINE r == [procs[p] EXCEPT !.row = row, !.code = code, !.todo = after]
        <3>1. DOMAIN r = Fields /\ r.todo = after /\ r.at = procs[p].at /\ Put(p, r)
            BY <1>2, <2>5 DEF Fields
        <3> HIDE DEF r
        <3> QED BY <1>1, <1>8, <2>1, <3>1, TurnsTo
    <2> QED BY <1>9, <2>2, <2>3, <2>4, <2>5
<1>10. CASE /\ At(p, "resetLoad")
            /\ \/ ~CanLogin(user) /\ Put(p, Idle)
               \/ CanLogin(user) /\ ~user.mfa /\ Put(p, [procs[p] EXCEPT !.row = user, !.todo = rest])
               \/ /\ CanLogin(user) /\ user.mfa
                  /\ \/ Go(p, <<"fail">>, NoUser)
                     \/ \E code \in Verify(user) :
                          Put(p, [procs[p] EXCEPT !.row = Spent(user, code), !.code = code, !.todo = after])
    BY <1>9, <1>10
<1> QED BY <1>3, <1>4, <1>6, <1>7, <1>10 DEF Reload

(* A miss in the cache: two more steps before the rest.                    *)
LEMMA GetAuthUserKeeps ==
    ASSUME SessionsInv, NEW p \in Procs, GetAuthUser(p)
    PROVE  SessionsInv'
<1>1. Untouched /\ At(p, "context")
    BY DEF GetAuthUser, Untouched, rows, redis, clients, history
<1>2. CASE Put(p, [Rest(p) EXCEPT !.ctx = cache])
    BY <1>1, <1>2, FreeSteps, RestContextKeeps
<1>3. CASE Put(p, [Rest(p) EXCEPT !.todo = <<"read", "store">> \o @])
    <2> DEFINE s == procs[p].todo
               l == <<"read", "store">> \o Tail(s)
               r == [Rest(p) EXCEPT !.todo = l]
    <2>1. /\ DOMAIN r = Fields /\ r.todo = l /\ r.at \in Nat /\ r.at <= now
          /\ r.token = procs[p].token /\ r.families = procs[p].families /\ p \in scenario.procs
        BY <1>1, RestHas DEF SessionsInv, Fields
    <2>2. Put(p, r)
        BY <1>1, <1>3, RestHas DEF SessionsInv, Fields
    <2>3. s \in Seq(Steps) /\ Ordered(s) /\ s # <<>> /\ Head(s) = "context"
        BY <1>1 DEF SessionsInv, Flying, Handler, At
    <2> HIDE DEF s
    <2>4. Tail(s) \in Seq(Steps) /\ Ordered(Tail(s)) /\ Mentions(s) = {"context"} \cup Mentions(Tail(s))
        BY <2>3, TailOf
    <2>5. Program(<<"read", "store">>) /\ Mentions(<<"read", "store">>) \cap Tracked = {}
        BY FreeSteps, FreeLists
    <2>6. "changed" \notin Mentions(<<"read", "store">>)
        BY <2>5 DEF Tracked, Ending
    <2>7. l \in Seq(Steps) /\ Ordered(l) /\ Mentions(l) = Mentions(<<"read", "store">>) \cup Mentions(Tail(s))
        BY <2>4, <2>5, <2>6, ConcatOf DEF Program
    <2>8. Mentions(l) \cap Tracked = Mentions(s) \cap Tracked
        BY <2>4, <2>5, <2>7, FreeSteps DEF Free
    <2>9. l # <<>>
        <3>1. Len(l) = 2 + Len(Tail(s)) /\ Len(Tail(s)) \in Nat
            BY <2>4
        <3>2. Len(l) # 0
            BY <3>1
        <3> QED BY <3>2
    <2> HIDE DEF l
    <2>10. PICK k : k = r
        OBVIOUS
    <2>11. procs' = [procs EXCEPT ![p] = k]
        BY <2>1, <2>2, <2>9, <2>10 DEF Put
    <2> HIDE DEF r
    <2>12. Quiet(p, k)
        BY <1>1, <2>1, <2>7, <2>8, <2>10, <2>11 DEF Quiet, Runs, Same, Untouched, s
    <2> QED BY <2>12, QuietKeeps
<1> QED BY <1>2, <1>3 DEF GetAuthUser

LEMMA SessionStep ==
    ASSUME SessionsInv, NEW p \in Procs, Step(p)
    PROVE  SessionsInv'
<1>1. CASE SaveUser(p)
    <2>1. Untouched
        BY <1>1 DEF SaveUser, Untouched, redis, clients
    <2>2. PICK step \in {"save", "spend", "release", "complete", "password", "clear", "regenerate"} :
            At(p, step) /\ (Put(p, Idle) \/ \E row : Put(p, [Rest(p) EXCEPT !.row = row]))
        BY <1>1 DEF SaveUser
    <2>3. step \in Free
        BY <2>2, FreeSteps
    <2> QED BY <2>1, <2>2, <2>3, RestRowKeeps, Stops DEF Untouched
<1>2. CASE RecordFailedLogin(p)
    <2>1. Untouched /\ At(p, "fail") /\ Put(p, Rest(p))
        BY <1>2 DEF RecordFailedLogin, Untouched, redis, clients
    <2> QED BY <2>1, FreeSteps, RestKeeps
<1>3. CASE WriteOneTime(p)
    <2>1. Untouched /\ Put(p, Rest(p))
        BY <1>3 DEF WriteOneTime, Untouched, redis, clients, history
    <2>2. PICK step \in {"voidInvite", "newInvite", "voidReset", "newReset", "burn"} : At(p, step)
        BY <1>3 DEF WriteOneTime, Void, New
    <2>3. step \in Free
        BY <2>2, FreeSteps
    <2> QED BY <2>1, <2>2, <2>3, RestKeeps
<1>4. CASE Enter(p)
    <2>1. At(p, "enter") /\ p \in scenario.procs
        BY <1>4, RestHas DEF Enter, SessionsInv
    <2>2. CASE Go(p, RevokeAll, NoUser) /\ UNCHANGED <<access, tokens>>
        <3>1. Untouched
            BY <1>4, <2>2 DEF Enter, Untouched, redis, history
        <3> QED BY <2>1, <2>2, <3>1, RevokingPrograms, GoKeeps
    <2>3. CASE procs[p].ctx.status = "ACTIVE"
        BY <1>4, <2>1, <2>3, EnterKeeps DEF Enter, redis, history
    <2> QED BY <1>4, <2>2, <2>3 DEF Enter
<1>5. CASE Revoke(p)
    <2>1. UNCHANGED <<scenario, now, access, denied, signedOut, ended>>
        BY <1>5 DEF Revoke, redis, clients, history
    <2>2. CASE /\ At(p, "find")
               /\ Put(p, [Rest(p) EXCEPT !.families = LiveFamilies])
               /\ UNCHANGED tokens
        BY <2>1, <2>2, FindKeeps
    <2>3. CASE At(p, "revoke") /\ tokens' = RevokedIn(1..MaxTokens) /\ Put(p, Rest(p))
        BY <2>1, <2>3, RevokeKeeps
    <2>4. CASE At(p, "revokeFamily") /\ tokens' = RevokedIn(procs[p].families) /\ Put(p, Rest(p))
        BY <2>1, <2>4, RevokeKeeps
    <2> QED BY <1>5, <2>2, <2>3, <2>4 DEF Revoke
<1>6. CASE ReadContext(p)
    <2>1. Untouched /\ At(p, "read") /\ Put(p, [Rest(p) EXCEPT !.ctx = Context(user)])
        BY <1>6 DEF ReadContext, Untouched, rows, redis, clients, history
    <2> QED BY <2>1, FreeSteps, RestContextKeeps
<1>7. CASE StoreContext(p)
    <2>1. Untouched /\ At(p, "store") /\ Put(p, Rest(p))
        BY <1>7 DEF StoreContext, Untouched, rows, clients, history
    <2> QED BY <2>1, FreeSteps, RestKeeps
<1>8. CASE Invalidate(p)
    <2>1. /\ Put(p, Rest(p)) /\ UNCHANGED <<scenario, now, tokens, access, denied, signedOut>>
          /\ ended' = IF At(p, "changed") THEN ended \cup procs[p].families ELSE ended
        BY <1>8 DEF Invalidate, rows, clients
    <2>2. CASE At(p, "changed")
        BY <2>1, <2>2, ChangedKeeps
    <2>3. CASE At(p, "invalidate") /\ ~At(p, "changed")
        BY <2>1, <2>3, FreeSteps, RestKeeps DEF Untouched
    <2> QED BY <1>8, <2>2, <2>3 DEF Invalidate
<1>9. CASE WriteRole(p)
    <2>1. Untouched
        BY <1>9 DEF WriteRole, Untouched, clients, history
    <2>2. CASE At(p, "saveRole") /\ Put(p, Rest(p))
        BY <2>1, <2>2, FreeSteps, RestKeeps
    <2>3. CASE At(p, "holders") /\ \E at \in {0, 1} : Put(p, [Rest(p) EXCEPT !.at = at])
        BY <2>1, <2>3, FreeSteps, RestAtKeeps
    <2>4. CASE At(p, "drop") /\ Put(p, Rest(p))
        BY <2>1, <2>4, FreeSteps, RestKeeps
    <2>5. CASE At(p, "removeRole") /\ Put(p, Rest(p))
        BY <2>1, <2>5, FreeSteps, RestKeeps
    <2>6. ASSUME At(p, "holders"), Put(p, [Rest(p) EXCEPT !.at = IF procs[p].role \in user.roles THEN 1 ELSE 0])
          PROVE  \E at \in {0, 1} : Put(p, [Rest(p) EXCEPT !.at = at])
        BY <2>6
    <2> QED BY <1>9, <2>2, <2>3, <2>4, <2>5, <2>6 DEF WriteRole
<1> QED BY <1>1, <1>2, <1>3, <1>4, <1>5, <1>6, <1>7, <1>8, <1>9, ReloadKeeps, IssueKeeps, RotateKeeps, DenyKeeps,
           GetAuthUserKeeps DEF Step

LEMMA SessionsStep ==
    ASSUME SessionsInv, [Next]_vars
    PROVE  SessionsInv'
<1>1. ASSUME NEW p \in Procs, Die(p) PROVE SessionsInv'
    BY <1>1, Stops DEF Die, rows, redis, clients, history
<1>2. CASE CacheExpires
    BY <1>2, Stays DEF CacheExpires, rows, clients, history
<1>3. CASE UNCHANGED vars
    BY <1>3, Stays DEF vars, rows, redis, clients, history
<1> QED BY <1>1, <1>2, <1>3, AskStep, SessionStep, TickKeeps DEF Next

(* Whatever overlaps and whichever handlers end half-way, an access token  *)
(* whose session was signed out is never accepted again.                   *)
THEOREM SignedOutForGood == Spec => []SignedOutStaysOut
<1>1. SessionsInv /\ [Next]_vars => SessionsInv'
    BY SessionsStep
<1>2. SessionsInv => SignedOutStaysOut
    <2> SUFFICES ASSUME SessionsInv, NEW a \in signedOut, Accepts(a, Seen) PROVE FALSE
        BY DEF SignedOutStaysOut
    <2>1. a \in AccessToken /\ denied[a.session] >= a.issued + AccessTtl
        BY DEF SessionsInv, Stored, Out
    <2>2. denied[a.session] \in Nat /\ a.issued \in Nat /\ AccessTtl \in Nat /\ now \in Nat
        BY <2>1, SessionsConstants DEF AccessToken, SessionsInv, Stored
    <2>3. a.issued + AccessTtl > now /\ denied[a.session] <= now
        BY DEF Accepts
    <2> QED BY <2>1, <2>2, <2>3
<1> QED BY SessionsInit, <1>1, <1>2, PTL DEF Spec

(* Requests served one at a time: once a password change has ended, no     *)
(* session it found live can be used or refreshed.                         *)
THEOREM PasswordChangesEndSessions == Spec => []PasswordChangeEndsSessions
<1>1. SessionsInv /\ [Next]_vars => SessionsInv'
    BY SessionsStep
<1>2. SessionsInv => PasswordChangeEndsSessions
    <2> SUFFICES ASSUME SessionsInv, Serial
                 PROVE  /\ \A t \in 1..Len(tokens) : tokens[t].family \in ended => tokens[t].revoked
                        /\ \A a \in access : a.session \in ended => ~Accepts(a, Seen)
        BY DEF PasswordChangeEndsSessions
    <2>1. RevokedFor(tokens, ended) /\ DeniedIn(access, ended, denied)
        BY DEF SessionsInv, Orderly
    <2>2. ASSUME NEW a \in access, a.session \in ended, Accepts(a, Seen) PROVE FALSE
        <3>1. a \in AccessToken /\ denied[a.session] >= a.issued + AccessTtl
            BY <2>1, <2>2 DEF SessionsInv, Stored, DeniedIn
        <3>2. denied[a.session] \in Nat /\ a.issued \in Nat /\ AccessTtl \in Nat /\ now \in Nat
            BY <3>1, SessionsConstants DEF AccessToken, SessionsInv, Stored
        <3>3. a.issued + AccessTtl > now /\ denied[a.session] <= now
            BY <2>2 DEF Accepts
        <3> QED BY <3>1, <3>2, <3>3
    <2> QED BY <2>1, <2>2 DEF RevokedFor
<1> QED BY SessionsInit, <1>1, <1>2, PTL DEF Spec

(* Requests served one at a time: a device has one live refresh token.     *)
THEOREM RefreshChainsStaySingle == Spec => []RefreshChainsAreSingle
<1>1. SessionsInv /\ [Next]_vars => SessionsInv'
    BY SessionsStep
<1>2. SessionsInv => RefreshChainsAreSingle
    BY DEF SessionsInv, Orderly, SingleChains, RefreshChainsAreSingle
<1> QED BY SessionsInit, <1>1, <1>2, PTL DEF Spec

-----------------------------------------------------------------------------
(* The rows of a login, and the codes it accepts.                          *)

(* A handler carries a copy of the row that it may write back.             *)
Typed(h, made) ==
    /\ h.row \in UserRow /\ h.perms \in (SUBSET Permissions) \cup {NoRole}
    /\ "regenerate" \in Mentions(h.todo) => made >= 1
RowsInv ==
    /\ user \in UserRow
    /\ roles \in [Roles -> (SUBSET Permissions) \cup {NoRole}]
    /\ oneTime \in Seq(OneTimeToken)
    /\ secrets \in 0..MaxSecrets /\ now \in 1..MaxTime
    /\ \A p \in Procs : Typed(procs[p], secrets)

(* Spent codes belong to seeds and recovery codes that were made, and a    *)
(* row that knows of them accepts none of them again: not by its last      *)
(* step, not by an enrolment of a seed it has not confirmed, and not by    *)
(* its recovery codes.                                                     *)
Known(c, made) ==
    \/ c[1] = "totp" /\ c[2] \in 1..made /\ c[3] \in Int
    \/ c[1] = "recovery" /\ c[2] \in 1..made
Honest(row, acc, made) ==
    /\ row.secret <= made /\ row.codes \subseteq 1..made
    /\ \A c \in acc :
        /\ c[1] = "totp" /\ c[2] = row.secret => row.mfa /\ c[3] <= row.lastStep
        /\ c[1] = "recovery" => c[2] \notin row.codes

(* One request at a time: the copy in flight knows of the codes spent so   *)
(* far and of the one its handler is about to spend, which is a new one;   *)
(* a handler spends once, and the recovery code it makes is unspent.       *)
Owed(h) == IF h.todo # <<>> /\ Head(h.todo) = "spend" THEN {h.code} ELSE {}
Spends(h, acc, made) ==
    /\ \A c \in Owed(h) : Known(c, made) /\ c \notin acc
    /\ Honest(h.row, acc \cup Owed(h), made)
    /\ h.todo # <<>> => "spend" \notin Mentions(Tail(h.todo))
    /\ "regenerate" \in Mentions(h.todo) =>
        \A c \in acc \cup Owed(h) : c[1] = "recovery" => c[2] # made
CodesInv ==
    Serial =>
        /\ reused = {}
        /\ \A c \in accepted : Known(c, secrets)
        /\ Honest(user, accepted, secrets)
        /\ \A p \in Procs : Spends(procs[p], accepted, secrets)

LEMMA RowConstants ==
    /\ MaxTime \in Nat \ {0} /\ MaxSecrets \in Nat /\ MaxAttempts \in Nat \ {0} /\ LockTime \in Nat \ {0}
    /\ Window \in Nat /\ OneTimeTtl \in Nat
    BY SessionsAssumption

LEMMA NoUserIsARow == NoUser \in UserRow /\ NoUser.secret = 0 /\ NoUser.codes = {}
    BY RowConstants DEF NoUser, UserRow

LEMMA IdleIsTyped ==
    ASSUME NEW made
    PROVE  Typed(Idle, made) /\ Idle.row = NoUser /\ Owed(Idle) = {}
<1>1. Idle.row = NoUser /\ Idle.perms = NoRole
    BY DEF Idle
<1> QED BY <1>1, NoUserIsARow, IdleHas DEF Typed, Owed

(* The rows the handlers make of a row they hold.                          *)
Alike(row, new) ==
    /\ new \in UserRow
    /\ new.secret = row.secret /\ new.mfa = row.mfa /\ new.lastStep = row.lastStep /\ new.codes = row.codes

LEMMA AlikeRows ==
    ASSUME NEW row \in UserRow
    PROVE  /\ Alike(row, row)
           /\ \A a \in 0..MaxAttempts - 1, l \in Nat : Alike(row, [row EXCEPT !.attempts = a, !.locked = l])
           /\ \A a \in 0..MaxAttempts - 1 : Alike(row, [row EXCEPT !.attempts = a])
           /\ \A s \in {"ACTIVE", "SUSPENDED"} : Alike(row, [row EXCEPT !.status = s])
           /\ \A rs \in SUBSET Roles : Alike(row, [row EXCEPT !.roles = rs])
           /\ \A t \in 1..MaxTime : Alike(row, [row EXCEPT !.password = TRUE, !.changed = t])
           /\ \A t \in 1..MaxTime :
                Alike(row, [row EXCEPT !.status = "ACTIVE", !.password = TRUE, !.changed = t])
<1>1. \A a \in 0..MaxAttempts - 1, l \in Nat : Alike(row, [row EXCEPT !.attempts = a, !.locked = l])
    BY DEF Alike, UserRow
<1>2. \A a \in 0..MaxAttempts - 1 : Alike(row, [row EXCEPT !.attempts = a])
    BY DEF Alike, UserRow
<1>3. \A s \in {"ACTIVE", "SUSPENDED"} : Alike(row, [row EXCEPT !.status = s])
    BY DEF Alike, UserRow
<1>4. \A rs \in SUBSET Roles : Alike(row, [row EXCEPT !.roles = rs])
    BY DEF Alike, UserRow
<1>a. \A t \in 1..MaxTime : t \in 0..MaxTime
    BY RowConstants
<1>b. \A t \in 0..MaxTime : Alike(row, [row EXCEPT !.password = TRUE, !.changed = t])
    BY DEF Alike, UserRow
<1>c. \A t \in 0..MaxTime : Alike(row, [row EXCEPT !.status = "ACTIVE", !.password = TRUE, !.changed = t])
    BY DEF Alike, UserRow
<1>5. \A t \in 1..MaxTime : Alike(row, [row EXCEPT !.password = TRUE, !.changed = t])
    BY <1>a, <1>b
<1>6. \A t \in 1..MaxTime : Alike(row, [row EXCEPT !.status = "ACTIVE", !.password = TRUE, !.changed = t])
    BY <1>a, <1>c
<1> QED BY <1>1, <1>2, <1>3, <1>4, <1>5, <1>6 DEF Alike

LEMMA AlikeIsHonest ==
    ASSUME NEW row, NEW new, Alike(row, new), NEW acc, NEW made, Honest(row, acc, made)
    PROVE  Honest(new, acc, made)
    BY DEF Alike, Honest

LEMMA ClearedIsHonest ==
    ASSUME NEW row \in UserRow, NEW made \in Nat, NEW acc
    PROVE  Cleared(row) \in UserRow /\ ((\A c \in acc : Known(c, made)) => Honest(Cleared(row), acc, made))
<1>a. 0 \in 0..MaxSecrets /\ {} \in SUBSET (1..MaxSecrets) /\ -1 \in Int
    BY RowConstants
<1>1. Cleared(row) \in UserRow /\ Cleared(row).secret = 0 /\ Cleared(row).codes = {}
    BY <1>a DEF Cleared, UserRow
<1> QED BY <1>1 DEF Honest, Known

(* New recovery codes, a new seed, and the seed confirmed.                 *)
LEMMA RegeneratedIsHonest ==
    ASSUME NEW row \in UserRow, NEW made \in 1..MaxSecrets, NEW acc
    PROVE  /\ [row EXCEPT !.codes = {made}] \in UserRow
           /\ Honest(row, acc, made) /\ (\A c \in acc : c[1] = "recovery" => c[2] # made)
                => Honest([row EXCEPT !.codes = {made}], acc, made)
<1> DEFINE new == [row EXCEPT !.codes = {made}]
<1>1. new \in UserRow /\ new.secret = row.secret /\ new.mfa = row.mfa /\ new.lastStep = row.lastStep
      /\ new.codes = {made}
    BY DEF UserRow
<1>2. made \in 1..made
    BY RowConstants
<1> HIDE DEF new
<1>3. Honest(row, acc, made) /\ (\A c \in acc : c[1] = "recovery" => c[2] # made) => Honest(new, acc, made)
    BY <1>1, <1>2 DEF Honest
<1> QED BY <1>1, <1>3 DEF new

LEMMA SeededIsHonest ==
    ASSUME NEW row \in UserRow, NEW made \in Nat, made + 1 <= MaxSecrets, NEW acc
    PROVE  /\ [row EXCEPT !.secret = made + 1] \in UserRow
           /\ Honest(row, acc, made) /\ (\A c \in acc : Known(c, made))
                => Honest([row EXCEPT !.secret = made + 1], acc, made + 1)
<1> DEFINE new == [row EXCEPT !.secret = made + 1]
<1>1. new \in UserRow /\ new.secret = made + 1 /\ new.codes = row.codes
    BY RowConstants DEF UserRow
<1> HIDE DEF new
<1>2. ASSUME Honest(row, acc, made), \A c \in acc : Known(c, made) PROVE Honest(new, acc, made + 1)
    <2>1. \A c \in acc : c[1] = "totp" => c[2] # made + 1
        BY <1>2 DEF Known
    <2>2. new.codes \subseteq 1..(made + 1)
        BY <1>1, <1>2 DEF Honest
    <2> QED BY <1>1, <1>2, <2>1, <2>2 DEF Honest
<1> QED BY <1>1, <1>2 DEF new

LEMMA EnabledIsHonest ==
    ASSUME NEW row \in UserRow, ~row.mfa, row.secret # 0, NEW made \in Nat, made + 1 <= MaxSecrets,
           NEW acc, NEW s \in Int
    PROVE  LET new  == [row EXCEPT !.mfa = TRUE, !.lastStep = s, !.codes = {made + 1}]
               code == <<"totp", row.secret, s>>
           IN  /\ new \in UserRow
               /\ Honest(row, acc, made) /\ (\A c \in acc : Known(c, made)) =>
                    /\ Known(code, made + 1) /\ code \notin acc
                    /\ Honest(new, acc \cup {code}, made + 1)
<1> DEFINE new == [row EXCEPT !.mfa = TRUE, !.lastStep = s, !.codes = {made + 1}]
           code == <<"totp", row.secret, s>>
<1>a. {made + 1} \in SUBSET (1..MaxSecrets)
    BY RowConstants
<1>1. new \in UserRow /\ new.secret = row.secret /\ new.mfa = TRUE /\ new.lastStep = s
      /\ new.codes = {made + 1}
    BY <1>a DEF UserRow
<1>2. code[1] = "totp" /\ code[2] = row.secret /\ code[3] = s
    OBVIOUS
<1> HIDE DEF new, code
<1>3. ASSUME Honest(row, acc, made), \A c \in acc : Known(c, made)
      PROVE  Known(code, made + 1) /\ code \notin acc /\ Honest(new, acc \cup {code}, made + 1)
    <2>1. \A c \in acc : ~(c[1] = "totp" /\ c[2] = row.secret)
        BY <1>3 DEF Honest
    <2>2. row.secret \in 1..(made + 1) /\ row.secret <= made + 1
        BY <1>3 DEF Honest, UserRow
    <2>3. \A c \in acc : c[1] = "recovery" => c[2] # made + 1
        BY <1>3 DEF Known
    <2>4. \A c \in acc \cup {code} : c[1] = "totp" /\ c[2] = row.secret => c[3] <= s
        BY <1>2, <2>1
    <2>5. \A c \in acc \cup {code} : c[1] = "recovery" => c[2] # made + 1
        BY <1>2, <2>3
    <2>6. Honest(new, acc \cup {code}, made + 1)
        BY <1>1, <2>2, <2>4, <2>5 DEF Honest
    <2> QED BY <1>2, <2>1, <2>2, <2>6 DEF Known
<1> QED BY <1>1, <1>3 DEF new, code

(* A code the second factor takes is a new one, and the row it is spent on *)
(* knows of it.                                                            *)
LEMMA VerifiedIsNew ==
    ASSUME NEW row \in UserRow, NEW code \in Verify(row), now \in Nat, NEW made \in Nat, NEW acc
    PROVE  /\ Spent(row, code) \in UserRow
           /\ Honest(row, acc, made) /\ (\A c \in acc : Known(c, made)) =>
                /\ Known(code, made) /\ code \notin acc
                /\ Honest(Spent(row, code), acc \cup {code}, made)
<1> DEFINE new == Spent(row, code)
<1>1. row.mfa /\ row.secret # 0 /\ row.lastStep \in Int
    BY DEF Verify, UserRow
<1>2. CASE \E s \in (now - Window)..(now + Window) : s > row.lastStep /\ code = <<"totp", row.secret, s>>
    <2>1. PICK s \in Int : s > row.lastStep /\ code = <<"totp", row.secret, s>>
        BY <1>2, RowConstants
    <2>2. code[1] = "totp" /\ code[2] = row.secret /\ code[3] = s
        BY <2>1
    <2>3. new = [row EXCEPT !.lastStep = s]
        BY <2>2 DEF Spent
    <2>4. new \in UserRow /\ new.secret = row.secret /\ new.mfa = row.mfa /\ new.lastStep = s
          /\ new.codes = row.codes
        BY <2>3 DEF UserRow
    <2> HIDE DEF new
    <2>5. ASSUME Honest(row, acc, made), \A c \in acc : Known(c, made)
          PROVE  Known(code, made) /\ code \notin acc /\ Honest(new, acc \cup {code}, made)
        <3>1. Known(code, made)
            BY <1>1, <2>2, <2>5 DEF Known, Honest, UserRow
        <3>2. code \notin acc
            BY <1>1, <2>1, <2>2, <2>5 DEF Honest
        <3>3. ASSUME NEW c \in acc, c[1] = "totp", c[2] = row.secret PROVE c[3] <= s
            <4>1. c[3] <= row.lastStep /\ c[3] \in Int
                BY <2>5, <3>3 DEF Honest, Known
            <4> QED BY <1>1, <2>1, <4>1
        <3>4. \A c \in acc \cup {code} : c[1] = "totp" /\ c[2] = row.secret => c[3] <= s
            BY <2>2, <3>3
        <3>5. \A c \in acc \cup {code} : c[1] = "recovery" => c[2] \notin row.codes
            BY <2>2, <2>5 DEF Honest
        <3>6. Honest(new, acc \cup {code}, made)
            BY <1>1, <2>4, <2>5, <3>4, <3>5 DEF Honest
        <3> QED BY <3>1, <3>2, <3>6
    <2> QED BY <2>4, <2>5 DEF new
<1>3. CASE \E k \in row.codes : code = <<"recovery", k>>
    <2>1. PICK k \in row.codes : code = <<"recovery", k>>
        BY <1>3
    <2>2. code[1] = "recovery" /\ code[2] = k
        BY <2>1
    <2>3. new = [row EXCEPT !.codes = row.codes \ {k}]
        BY <2>2 DEF Spent
    <2>4. new \in UserRow /\ new.secret = row.secret /\ new.mfa = row.mfa /\ new.lastStep = row.lastStep
          /\ new.codes = row.codes \ {k}
        BY <2>3 DEF UserRow
    <2> HIDE DEF new
    <2>5. ASSUME Honest(row, acc, made), \A c \in acc : Known(c, made)
          PROVE  Known(code, made) /\ code \notin acc /\ Honest(new, acc \cup {code}, made)
        <3>1. Known(code, made) /\ code \notin acc
            BY <2>1, <2>2, <2>5 DEF Known, Honest
        <3>2. \A c \in acc \cup {code} : c[1] = "recovery" => c[2] \notin row.codes \ {k}
            BY <2>2, <2>5 DEF Honest
        <3>3. \A c \in acc \cup {code} : c[1] = "totp" /\ c[2] = row.secret => row.mfa /\ c[3] <= row.lastStep
            BY <2>2, <2>5 DEF Honest
        <3> QED BY <2>4, <2>5, <3>1, <3>2, <3>3 DEF Honest
    <2> QED BY <2>4, <2>5 DEF new
<1> QED BY <1>1, <1>2, <1>3 DEF Verify, VerifyTotp

LEMMA LargerIsHonest ==
    ASSUME NEW row \in UserRow, NEW made \in Nat, NEW more \in Nat, more >= made, NEW acc, Honest(row, acc, made)
    PROVE  Honest(row, acc, more)
    BY DEF Honest, UserRow

LEMMA NoUserIsHonest ==
    ASSUME NEW made \in Nat, NEW acc, \A c \in acc : Known(c, made)
    PROVE  Honest(NoUser, acc, made)
    BY NoUserIsARow DEF Honest, Known

LEMMA IdleSpends ==
    ASSUME NEW made \in Nat, NEW acc, \A c \in acc : Known(c, made)
    PROVE  Spends(Idle, acc, made)
<1>1. Idle.row = NoUser /\ Owed(Idle) = {} /\ Idle.todo = <<>> /\ Mentions(Idle.todo) = {}
    BY IdleIsTyped, IdleHas
<1> QED BY <1>1, NoUserIsHonest DEF Spends

(* What a step does to the handlers, once more: p goes on with r.          *)
Goes(p, r) ==
    /\ p \in scenario.procs /\ Put(p, r) /\ UNCHANGED <<scenario, now>>
    /\ user' \in UserRow /\ roles' \in [Roles -> (SUBSET Permissions) \cup {NoRole}]
    /\ oneTime' \in Seq(OneTimeToken)
    /\ secrets' \in secrets..MaxSecrets /\ Typed(r, secrets')
    /\ Serial =>
        /\ reused' = {}
        /\ \A c \in accepted' : Known(c, secrets')
        /\ Honest(user', accepted', secrets')
        /\ Spends(r, accepted', secrets')

LEMMA GoesKeeps ==
    ASSUME SessionsInv, RowsInv, CodesInv, NEW p \in Procs, NEW r, Goes(p, r)
    PROVE  RowsInv' /\ CodesInv'
<1>1. PICK k : k = IF r.todo = <<>> THEN Idle ELSE r
    OBVIOUS
<1>2. procs'[p] = k /\ \A q \in Procs \ {p} : procs'[q] = procs[q]
    BY <1>1 DEF Goes, Put, SessionsInv, Flying
<1>3. secrets \in Nat /\ secrets' \in Nat /\ secrets' >= secrets /\ secrets' \in 0..MaxSecrets
    BY RowConstants DEF Goes, RowsInv
<1>4. Typed(k, secrets')
    BY <1>1, IdleIsTyped DEF Goes
<1>5. \A q \in Procs : Typed(procs'[q], secrets')
    BY <1>2, <1>3, <1>4 DEF RowsInv, Typed
<1>6. RowsInv'
    BY <1>3, <1>5 DEF RowsInv, Goes
<1>7. CodesInv'
    <2> SUFFICES ASSUME Serial'
                 PROVE  /\ reused' = {}
                        /\ \A c \in accepted' : Known(c, secrets')
                        /\ Honest(user', accepted', secrets')
                        /\ \A q \in Procs : Spends(procs'[q], accepted', secrets')
        BY DEF CodesInv
    <2>1. Serial
        BY DEF Serial, Goes
    <2>2. Spends(Idle, accepted', secrets')
        BY <1>3, <2>1, IdleSpends DEF Goes
    <2>3. Spends(k, accepted', secrets')
        BY <1>1, <2>1, <2>2 DEF Goes
    <2>4. ASSUME NEW q \in Procs \ {p} PROVE procs'[q] = Idle
        <3>1. procs[q] = Idle
            BY <2>1, OneHandler DEF Goes, SessionsInv
        <3> QED BY <1>2, <3>1
    <2>5. ASSUME NEW q \in Procs PROVE Spends(procs'[q], accepted', secrets')
        BY <1>2, <2>2, <2>3, <2>4
    <2> QED BY <2>1, <2>5 DEF Goes
<1> QED BY <1>6, <1>7

(* Neither the rows nor the handlers change.                               *)
LEMMA RestsKeeps ==
    ASSUME RowsInv, CodesInv, now' \in 1..MaxTime,
           UNCHANGED <<user, roles, oneTime, secrets, procs, accepted, reused, scenario>>
    PROVE  RowsInv' /\ CodesInv'
<1>1. RowsInv'
    BY DEF RowsInv
<1>2. CodesInv'
    BY DEF CodesInv, Serial
<1> QED BY <1>1, <1>2

LEMMA RowsInit == Init => RowsInv /\ CodesInv
<1> SUFFICES ASSUME Init PROVE RowsInv /\ CodesInv
    OBVIOUS
<1>1. /\ user = scenario.account /\ secrets = scenario.account.secret /\ scenario \in Scenarios
      /\ roles \in [Roles -> {Permissions, NoRole}] /\ oneTime = <<>> /\ now = 1
      /\ procs = [p \in Procs |-> Idle] /\ accepted = {} /\ reused = {}
    BY DEF Init
<1>2. user \in UserRow /\ user.codes \subseteq 1..user.secret
    BY <1>1, SessionsAssumption
<1>3. secrets \in 0..MaxSecrets /\ user.secret = secrets
    BY <1>1, <1>2 DEF UserRow
<1>4. secrets \in Nat
    BY <1>3, RowConstants
<1>5. RowsInv
    BY <1>1, <1>2, <1>3, IdleIsTyped, RowConstants DEF RowsInv
<1>6. Honest(user, accepted, secrets)
    BY <1>1, <1>2, <1>3, <1>4 DEF Honest
<1>7. \A p \in Procs : Spends(procs[p], accepted, secrets)
    BY <1>1, <1>4, IdleSpends
<1> QED BY <1>1, <1>5, <1>6, <1>7 DEF CodesInv

(* Programs that neither spend a code nor make new ones.                   *)
Calm(todo) == todo \in Seq(Steps) /\ Mentions(todo) \cap {"spend", "regenerate"} = {}

LEMMA CalmConcat ==
    ASSUME NEW s, NEW t, Calm(s), Calm(t)
    PROVE  Calm(s \o t)
    BY ConcatOf DEF Calm

LEMMA CalmLists ==
    LET Others == Steps \ {"spend", "regenerate"}
    IN  /\ Calm(<<>>)
        /\ \A x \in Others : Calm(<<x>>)
        /\ \A x, y \in Others : Calm(<<x, y>>)
        /\ \A x, y, z \in Others : Calm(<<x, y, z>>)
<1>1. Calm(<<>>)
    BY DEF Calm, Mentions
<1> QED BY <1>1, Lists DEF Calm

LEMMA CalmPrograms ==
    /\ Calm(RevokeAll) /\ Calm(RevokeFamily) /\ Calm(ApplyNewPassword)
    /\ Calm(<<"consume", "burn">> \o ApplyNewPassword)
    /\ \A type \in {"INVITE", "PASSWORD_RESET"} : Calm(IssueOneTime(type))
    /\ \A setPassword \in BOOLEAN :
        Calm(<<"unlock", "release", "load", "clear", "invalidate">> \o RevokeAll
             \o (IF setPassword THEN <<"load">> \o ApplyNewPassword ELSE <<>>)
             \o <<"invalidate">>)
<1> DEFINE Others == Steps \ {"spend", "regenerate"}
<1>1. {"find", "revoke", "deny", "revokeFamily", "password", "changed", "consume", "burn", "voidInvite", "newInvite",
       "voidReset", "newReset", "load", "clear", "invalidate", "unlock", "release"} \subseteq Others
    BY DEF Steps
<1>2. Calm(RevokeAll) /\ Calm(RevokeFamily)
    BY <1>1, CalmLists DEF RevokeAll, RevokeFamily
<1>3. Calm(<<"password">>) /\ Calm(<<"changed">>) /\ Calm(<<"load">>) /\ Calm(<<"invalidate">>) /\ Calm(<<>>)
      /\ Calm(<<"consume", "burn">>) /\ Calm(<<"unlock", "release", "load">>) /\ Calm(<<"clear", "invalidate">>)
    BY <1>1, CalmLists
<1>4. Calm(ApplyNewPassword)
    BY <1>2, <1>3, CalmConcat DEF ApplyNewPassword
<1>5. Calm(<<"consume", "burn">> \o ApplyNewPassword)
    BY <1>3, <1>4, CalmConcat
<1>6. ASSUME NEW type \in {"INVITE", "PASSWORD_RESET"} PROVE Calm(IssueOneTime(type))
    BY <1>1, CalmLists DEF IssueOneTime, Void, New
<1>7. ASSUME NEW setPassword \in BOOLEAN
      PROVE  Calm(<<"unlock", "release", "load", "clear", "invalidate">> \o RevokeAll
                  \o (IF setPassword THEN <<"load">> \o ApplyNewPassword ELSE <<>>)
                  \o <<"invalidate">>)
    <2> DEFINE a == <<"unlock", "release", "load", "clear", "invalidate">>
               x == IF setPassword THEN <<"load">> \o ApplyNewPassword ELSE <<>>
               z == <<"invalidate">>
    <2>1. Calm(a)
        <3>1. a \in Seq(Steps)
            BY DEF Steps
        <3>2. Mentions(a) = {"unlock", "release", "load", "clear", "invalidate"}
            BY DEF Mentions
        <3> QED BY <3>1, <3>2 DEF Calm
    <2>2. Calm(x)
        <3>1. Calm(<<"load">> \o ApplyNewPassword)
            BY <1>3, <1>4, CalmConcat
        <3> QED BY <1>3, <3>1
    <2>3. Calm(z)
        BY <1>3
    <2> HIDE DEF a, x, z
    <2>4. Calm(a \o RevokeAll)
        BY <1>2, <2>1, CalmConcat
    <2>5. Calm((a \o RevokeAll) \o x)
        BY <2>2, <2>4, CalmConcat
    <2>6. Calm(((a \o RevokeAll) \o x) \o z)
        BY <2>3, <2>5, CalmConcat
    <2> QED BY <2>6 DEF a, x, z
<1> QED BY <1>2, <1>4, <1>5, <1>6, <1>7

(* The rows behind a step: the clock stands still, and nothing is spent.   *)
Unspent == UNCHANGED <<scenario, now, accepted, reused>>
RowsTyped ==
    /\ user' \in UserRow /\ roles' \in [Roles -> (SUBSET Permissions) \cup {NoRole}]
    /\ oneTime' \in Seq(OneTimeToken) /\ secrets' \in secrets..MaxSecrets

(* A handler goes over to a program that spends nothing.                   *)
LEMMA CalmGoes ==
    ASSUME SessionsInv, RowsInv, CodesInv, NEW p \in Procs, p \in scenario.procs, NEW r, Calm(r.todo),
           r.row \in UserRow, r.perms \in (SUBSET Permissions) \cup {NoRole}, Put(p, r), Unspent, RowsTyped,
           Serial => Honest(user', accepted, secrets') /\ Honest(r.row, accepted, secrets')
    PROVE  RowsInv' /\ CodesInv'
<1>1. secrets \in Nat /\ secrets' \in Nat /\ secrets' >= secrets
    BY RowConstants DEF RowsInv, RowsTyped
<1>2. Typed(r, secrets')
    BY DEF Calm, Typed
<1>3. Serial => reused' = {} /\ \A c \in accepted' : Known(c, secrets')
    <2>1. \A c : Known(c, secrets) => Known(c, secrets')
        BY <1>1 DEF Known
    <2> QED BY <2>1 DEF CodesInv, Unspent
<1>4. r.todo # <<>> => Head(r.todo) # "spend" /\ "spend" \notin Mentions(Tail(r.todo))
    BY TailOf DEF Calm
<1>5. Owed(r) = {}
    BY <1>4 DEF Owed
<1>6. Serial => Spends(r, accepted, secrets')
    BY <1>4, <1>5 DEF Spends, Calm
<1>7. Goes(p, r)
    BY <1>2, <1>3, <1>6 DEF Goes, Unspent, RowsTyped
<1> QED BY <1>7, GoesKeeps

(* A handler begins by spending a code.                                    *)
LEMMA SpendingGoes ==
    ASSUME SessionsInv, RowsInv, CodesInv, NEW p \in Procs, p \in scenario.procs, NEW r,
           NEW l \in Seq(Steps), r.todo = <<"spend">> \o l, "spend" \notin Mentions(l),
           r.row \in UserRow, r.perms \in (SUBSET Permissions) \cup {NoRole}, Put(p, r), Unspent, RowsTyped,
           "regenerate" \in Mentions(l) => secrets' = secrets + 1,
           Serial => /\ Honest(user', accepted, secrets')
                     /\ Known(r.code, IF "regenerate" \in Mentions(l) THEN secrets ELSE secrets')
                     /\ r.code \notin accepted
                     /\ Honest(r.row, accepted \cup {r.code}, secrets')
    PROVE  RowsInv' /\ CodesInv'
<1>1. secrets \in Nat /\ secrets' \in Nat /\ secrets' >= secrets
    BY RowConstants DEF RowsInv, RowsTyped
<1>2. "spend" \in Steps /\ <<"spend">> \in Seq(Steps)
    BY DEF Steps
<1>a. Mentions(<<"spend">>) = {"spend"}
    BY <1>2, Lists
<1>3. r.todo \in Seq(Steps) /\ Mentions(r.todo) = {"spend"} \cup Mentions(l)
    BY <1>2, <1>a, ConcatOf
<1>4. r.todo # <<>> /\ Head(r.todo) = "spend" /\ Tail(r.todo) = l
    BY <1>2
<1>5. Typed(r, secrets')
    BY <1>1, <1>3 DEF Typed
<1>6. \A c : Known(c, secrets) => Known(c, secrets')
    BY <1>1 DEF Known
<1>7. Serial => reused' = {} /\ \A c \in accepted' : Known(c, secrets')
    BY <1>6 DEF CodesInv, Unspent
<1>8. Owed(r) = {r.code}
    BY <1>4 DEF Owed
<1>9. ASSUME Serial PROVE Spends(r, accepted, secrets')
    <2>1. Known(r.code, secrets') /\ r.code \notin accepted
        BY <1>6, <1>9
    <2>2. ASSUME "regenerate" \in Mentions(r.todo), NEW c \in accepted \cup {r.code}, c[1] = "recovery"
          PROVE  c[2] # secrets'
        <3>1. "regenerate" \in Mentions(l) /\ secrets' = secrets + 1
            BY <1>3, <2>2
        <3>2. Known(c, secrets)
            BY <1>9, <2>2, <3>1 DEF CodesInv
        <3> QED BY <1>1, <2>2, <3>1, <3>2 DEF Known
    <2> QED BY <1>4, <1>8, <1>9, <2>1, <2>2 DEF Spends
<1>10. Goes(p, r)
    BY <1>5, <1>7, <1>9 DEF Goes, Unspent, RowsTyped
<1> QED BY <1>10, GoesKeeps

(* The copy in flight, and a handler that goes on with the rest.           *)
LEMMA InFlight ==
    ASSUME SessionsInv, RowsInv, CodesInv, NEW p \in Procs, NEW step, At(p, step)
    PROVE  /\ p \in scenario.procs /\ Tail(procs[p].todo) \in Seq(Steps)
           /\ Mentions(procs[p].todo) = {step} \cup Mentions(Tail(procs[p].todo))
           /\ procs[p].row \in UserRow /\ procs[p].perms \in (SUBSET Permissions) \cup {NoRole}
           /\ Rest(p).row = procs[p].row /\ Rest(p).perms = procs[p].perms /\ Rest(p).code = procs[p].code
           /\ Rest(p).todo = Tail(procs[p].todo) /\ DOMAIN Rest(p) = Fields /\ DOMAIN procs[p] = Fields
           /\ step # "spend" /\ Serial => Honest(procs[p].row, accepted, secrets)
<1>1. /\ DOMAIN Rest(p) = Fields /\ Rest(p).todo = Tail(procs[p].todo) /\ p \in scenario.procs
    BY RestHas DEF SessionsInv
<1>2. procs[p].todo \in Seq(Steps) /\ procs[p].todo # <<>> /\ Head(procs[p].todo) = step /\ DOMAIN procs[p] = Fields
    BY DEF SessionsInv, Flying, Handler, At
<1>3. Rest(p).row = procs[p].row /\ Rest(p).perms = procs[p].perms /\ Rest(p).code = procs[p].code
    BY <1>2 DEF Rest, Fields
<1>4. Tail(procs[p].todo) \in Seq(Steps) /\ Mentions(procs[p].todo) = {step} \cup Mentions(Tail(procs[p].todo))
    BY <1>2, TailOf
<1>5. procs[p].row \in UserRow /\ procs[p].perms \in (SUBSET Permissions) \cup {NoRole}
    BY DEF RowsInv, Typed
<1>6. ASSUME step # "spend", Serial PROVE Honest(procs[p].row, accepted, secrets)
    <2>1. Owed(procs[p]) = {}
        BY <1>2, <1>6 DEF Owed
    <2>2. Spends(procs[p], accepted, secrets)
        BY <1>6 DEF CodesInv
    <2> QED BY <2>1, <2>2 DEF Spends
<1> QED BY <1>1, <1>2, <1>3, <1>4, <1>5, <1>6

LEMMA RestGoes ==
    ASSUME SessionsInv, RowsInv, CodesInv, NEW p \in Procs, NEW step, At(p, step), step # "spend",
           NEW r, r.todo = Tail(procs[p].todo), r.row \in UserRow,
           r.perms \in (SUBSET Permissions) \cup {NoRole}, Put(p, r), Unspent, RowsTyped, UNCHANGED secrets,
           Serial => Honest(user', accepted, secrets) /\ Honest(r.row, accepted, secrets)
    PROVE  RowsInv' /\ CodesInv'
<1>1. /\ p \in scenario.procs /\ r.todo \in Seq(Steps)
      /\ Mentions(procs[p].todo) = {step} \cup Mentions(r.todo)
      /\ procs[p].todo # <<>> /\ Head(procs[p].todo) = step
    BY InFlight DEF At
<1>2. Typed(r, secrets')
    BY <1>1 DEF RowsInv, Typed
<1>3. Serial => reused' = {} /\ \A c \in accepted' : Known(c, secrets')
    BY DEF CodesInv, Unspent
<1>4. ASSUME Serial PROVE Spends(r, accepted, secrets)
    <2>1. Spends(procs[p], accepted, secrets)
        BY <1>4 DEF CodesInv
    <2>2. "spend" \notin Mentions(r.todo) /\ Owed(procs[p]) = {}
        BY <1>1, <2>1 DEF Spends, Owed
    <2>3. r.todo # <<>> => Head(r.todo) # "spend" /\ "spend" \notin Mentions(Tail(r.todo))
        BY <1>1, <2>2, TailOf
    <2>4. Owed(r) = {}
        BY <2>3 DEF Owed
    <2> QED BY <1>1, <1>4, <2>1, <2>2, <2>3, <2>4 DEF Spends
<1>5. Goes(p, r)
    BY <1>1, <1>2, <1>3, <1>4 DEF Goes, Unspent, RowsTyped
<1> QED BY <1>5, GoesKeeps

-----------------------------------------------------------------------------
(* The requests.                                                           *)
LEMMA GoCalm ==
    ASSUME SessionsInv, RowsInv, CodesInv, NEW p \in Procs, p \in scenario.procs, NEW todo, NEW row \in UserRow,
           Calm(todo), Go(p, todo, row), Unspent, RowsTyped,
           Serial => Honest(user', accepted, secrets') /\ Honest(row, accepted, secrets')
    PROVE  RowsInv' /\ CodesInv'
<1> DEFINE r == [Idle EXCEPT !.todo = todo, !.row = row]
<1>1. r.todo = todo /\ r.row = row /\ r.perms = NoRole
    BY DEF Idle
<1>2. Put(p, r)
    BY DEF Go
<1> HIDE DEF r
<1> QED BY <1>1, <1>2, CalmGoes

(* Nothing changes but the handler, which writes back what it read.        *)
Standing == UNCHANGED <<scenario, now, user, roles, oneTime, secrets, accepted, reused>>

LEMMA StandingRows ==
    ASSUME RowsInv, CodesInv, Standing
    PROVE  /\ Unspent /\ RowsTyped
           /\ Serial => Honest(user', accepted, secrets') /\ Honest(user, accepted, secrets')
                        /\ Honest(NoUser, accepted, secrets')
<1>1. secrets \in Nat /\ secrets <= MaxSecrets /\ secrets \in secrets..MaxSecrets
    BY RowConstants DEF RowsInv
<1>2. RowsTyped
    BY <1>1 DEF RowsInv, RowsTyped, Standing
<1>3. Serial => Honest(NoUser, accepted, secrets)
    BY <1>1, NoUserIsHonest DEF CodesInv
<1> QED BY <1>2, <1>3 DEF Standing, Unspent, CodesInv

LEMMA GoStanding ==
    ASSUME SessionsInv, RowsInv, CodesInv, NEW p \in Procs, p \in scenario.procs, NEW todo, Calm(todo), NEW row,
           row = NoUser \/ Alike(user, row), Go(p, todo, row), Standing
    PROVE  RowsInv' /\ CodesInv'
<1>1. row \in UserRow
    BY NoUserIsARow DEF Alike
<1>2. Serial => Honest(row, accepted, secrets')
    BY StandingRows, AlikeIsHonest DEF Standing
<1> QED BY <1>1, <1>2, StandingRows, GoCalm

LEMMA PutStanding ==
    ASSUME SessionsInv, RowsInv, CodesInv, NEW p \in Procs, p \in scenario.procs, NEW r, Calm(r.todo),
           r.row = NoUser, r.perms \in (SUBSET Permissions) \cup {NoRole}, Put(p, r), Standing
    PROVE  RowsInv' /\ CodesInv'
    BY NoUserIsARow, StandingRows, CalmGoes

LEMMA GoSpendingGoes ==
    ASSUME SessionsInv, RowsInv, CodesInv, NEW p \in Procs, p \in scenario.procs, NEW todo, Calm(todo),
           NEW code \in Verify(user), GoSpending(p, code, todo), Standing
    PROVE  RowsInv' /\ CodesInv'
<1> DEFINE l == <<"spend">> \o todo
           r == [Idle EXCEPT !.todo = l, !.row = Spent(user, code), !.code = code]
<1>1. r.todo = l /\ r.row = Spent(user, code) /\ r.code = code /\ r.perms = NoRole
    BY DEF Idle
<1>2. Put(p, r)
    BY DEF GoSpending
<1> HIDE DEF r
<1>3. user \in UserRow /\ now \in Nat /\ secrets \in Nat
    BY RowConstants DEF RowsInv
<1>4. Spent(user, code) \in UserRow
    BY <1>3, VerifiedIsNew
<1>5. Serial => /\ Known(code, secrets) /\ code \notin accepted
                /\ Honest(Spent(user, code), accepted \cup {code}, secrets)
    BY <1>3, VerifiedIsNew DEF CodesInv
<1>6. todo \in Seq(Steps) /\ "spend" \notin Mentions(todo) /\ "regenerate" \notin Mentions(todo)
    BY DEF Calm
<1>7. Unspent /\ RowsTyped /\ secrets' = secrets /\ (Serial => Honest(user', accepted, secrets'))
    BY StandingRows DEF Standing
<1> QED BY <1>1, <1>2, <1>4, <1>5, <1>6, <1>7, SpendingGoes

(* Requests with no effect on the rows of the login.                       *)
LEMMA AskCalm ==
    ASSUME SessionsInv, RowsInv, CodesInv, NEW p \in Procs,
           \/ Login(p) \/ VerifyMfa(p) \/ Refresh(p) \/ Logout(p) \/ LogoutAll(p) \/ AcceptInvite(p)
           \/ RequestPasswordReset(p) \/ ResetPassword(p) \/ ChangePassword(p) \/ RecoverAccount(p)
           \/ Disable(p) \/ ResetMfa(p) \/ EditUser(p) \/ Request(p)
    PROVE  RowsInv' /\ CodesInv'
<1> DEFINE Begun == p \in scenario.procs /\ Standing
<1>a. /\ Calm(<<"fail">>) /\ Calm(<<"complete", "issue">>) /\ Calm(<<"rotate", "context", "enter">>)
      /\ Calm(<<"burn", "accept">>) /\ Calm(<<"resetLoad">>) /\ Calm(<<"clear", "invalidate">>) /\ Calm(<<"save">>)
      /\ Calm(<<"save", "invalidate">>) /\ Calm(<<"release">>) /\ Calm(<<"context">>)
    <2>1. {"fail", "complete", "issue", "rotate", "context", "enter", "burn", "accept", "resetLoad", "clear",
           "invalidate", "save", "release"} \subseteq Steps \ {"spend", "regenerate"}
        BY DEF Steps
    <2> QED BY <2>1, CalmLists
<1>b. user \in UserRow
    BY DEF RowsInv
<1>c. Alike(user, user)
    BY <1>b, AlikeRows
<1>1. CASE Login(p)
    <2>1. Begun
        BY <1>1 DEF Login, MayStart, Standing, rows, redis, history
    <2>2. CASE Go(p, <<"fail">>, NoUser)
        BY <1>a, <2>1, <2>2, GoStanding
    <2>3. CASE Go(p, <<"complete", "issue">>, user)
        BY <1>a, <1>c, <2>1, <2>3, GoStanding
    <2>4. CASE UNCHANGED procs
        <3>1. now' \in 1..MaxTime
            BY <2>1 DEF Standing, RowsInv
        <3> QED BY <2>1, <2>4, <3>1, RestsKeeps DEF Standing
    <2> QED BY <1>1, <2>2, <2>3, <2>4 DEF Login
<1>2. CASE VerifyMfa(p)
    <2>1. Begun
        BY <1>2 DEF VerifyMfa, MayStart, Standing, rows, redis, clients, history
    <2>2. CASE Go(p, <<"fail">>, NoUser)
        BY <1>a, <2>1, <2>2, GoStanding
    <2>3. ASSUME NEW code \in Verify(user), GoSpending(p, code, <<"complete", "issue">>)
          PROVE  RowsInv' /\ CodesInv'
        BY <1>a, <2>1, <2>3, GoSpendingGoes
    <2> QED BY <1>2, <2>2, <2>3 DEF VerifyMfa
<1>d. ASSUME NEW fs, Put(p, [Idle EXCEPT !.todo = RevokeFamily, !.families = fs]), Begun
      PROVE  RowsInv' /\ CodesInv'
    <2> DEFINE r == [Idle EXCEPT !.todo = RevokeFamily, !.families = fs]
    <2>1. r.todo = RevokeFamily /\ r.row = NoUser /\ r.perms = NoRole
        BY DEF Idle
    <2>2. Put(p, r)
        BY <1>d
    <2> HIDE DEF r
    <2> QED BY <1>d, <2>1, <2>2, CalmPrograms, PutStanding
<1>e. ASSUME NEW todo, Calm(todo), NEW t, Put(p, [Idle EXCEPT !.todo = todo, !.token = t]), Begun
      PROVE  RowsInv' /\ CodesInv'
    <2> DEFINE r == [Idle EXCEPT !.todo = todo, !.token = t]
    <2>1. r.todo = todo /\ r.row = NoUser /\ r.perms = NoRole
        BY DEF Idle
    <2>2. Put(p, r)
        BY <1>e
    <2> HIDE DEF r
    <2> QED BY <1>e, <2>1, <2>2, PutStanding
<1>3. CASE Refresh(p)
    <2>1. Begun
        BY <1>3 DEF Refresh, MayStart, Standing, rows, redis, clients, history
    <2>2. PICK t \in 1..Len(tokens) :
            \/ Put(p, [Idle EXCEPT !.todo = RevokeFamily, !.families = {tokens[t].family}])
            \/ Put(p, [Idle EXCEPT !.todo = <<"rotate", "context", "enter">>, !.token = t])
        BY <1>3 DEF Refresh
    <2> QED BY <1>a, <1>d, <1>e, <2>1, <2>2
<1>4. CASE Logout(p)
    <2>1. Begun
        BY <1>4 DEF Logout, MayStart, Standing, rows, redis, clients, history
    <2>2. PICK t \in 1..Len(tokens) :
            Put(p, [Idle EXCEPT !.todo = RevokeFamily, !.families = {tokens[t].family}])
        BY <1>4 DEF Logout
    <2> QED BY <1>d, <2>1, <2>2
<1>5. CASE LogoutAll(p)
    <2>1. Begun /\ Go(p, RevokeAll, NoUser)
        BY <1>5 DEF LogoutAll, MayStart, Standing, rows, redis, clients, history
    <2> QED BY <2>1, CalmPrograms, GoStanding
<1>6. CASE AcceptInvite(p)
    <2>1. Begun
        BY <1>6 DEF AcceptInvite, MayStart, Standing, rows, redis, clients, history
    <2>2. PICK t \in 1..Len(oneTime) : Put(p, [Idle EXCEPT !.todo = <<"burn", "accept">>, !.token = t])
        BY <1>6 DEF AcceptInvite
    <2> QED BY <1>a, <1>e, <2>1, <2>2
<1>7. CASE RequestPasswordReset(p)
    <2>1. Begun /\ Go(p, IssueOneTime("PASSWORD_RESET"), NoUser)
        BY <1>7 DEF RequestPasswordReset, MayStart, Standing, rows, redis, clients, history
    <2> QED BY <2>1, CalmPrograms, GoStanding
<1>8. CASE ResetPassword(p)
    <2>1. Begun
        BY <1>8 DEF ResetPassword, MayStart, Standing, rows, redis, clients, history
    <2>2. PICK t \in 1..Len(oneTime) : Put(p, [Idle EXCEPT !.todo = <<"resetLoad">>, !.token = t])
        BY <1>8 DEF ResetPassword
    <2> QED BY <1>a, <1>e, <2>1, <2>2
<1>9. CASE ChangePassword(p)
    <2>1. Begun /\ Go(p, ApplyNewPassword, user)
        BY <1>9 DEF ChangePassword, MayStart, Standing, rows, redis, clients, history
    <2> QED BY <1>c, <2>1, CalmPrograms, GoStanding
<1>10. CASE RecoverAccount(p)
    <2>1. Begun
        BY <1>10 DEF RecoverAccount, MayStart, Standing, rows, redis, clients, history
    <2>2. PICK setPassword \in BOOLEAN :
            Go(p, <<"unlock", "release", "load", "clear", "invalidate">> \o RevokeAll
                  \o (IF setPassword THEN <<"load">> \o ApplyNewPassword ELSE <<>>)
                  \o <<"invalidate">>, NoUser)
        BY <1>10 DEF RecoverAccount
    <2> DEFINE l == <<"unlock", "release", "load", "clear", "invalidate">> \o RevokeAll
                    \o (IF setPassword THEN <<"load">> \o ApplyNewPassword ELSE <<>>)
                    \o <<"invalidate">>
    <2>3. Calm(l) /\ Go(p, l, NoUser)
        BY <2>2, CalmPrograms
    <2> HIDE DEF l
    <2> QED BY <2>1, <2>3, GoStanding
<1>11. CASE Disable(p)
    <2>1. Begun
        BY <1>11 DEF Disable, MayStart, Standing, rows, redis, clients, history
    <2>2. PICK code \in Verify(user) : GoSpending(p, code, <<"clear", "invalidate">>)
        BY <1>11 DEF Disable
    <2> QED BY <1>a, <2>1, <2>2, GoSpendingGoes
<1>12. CASE ResetMfa(p)
    <2>1. Begun /\ Go(p, <<"clear", "invalidate">>, user)
        BY <1>12 DEF ResetMfa, MayStart, Standing, rows, redis, clients, history
    <2> QED BY <1>a, <1>c, <2>1, GoStanding
<1>13. CASE EditUser(p)
    <2>1. Begun
        BY <1>13 DEF EditUser, MayStart, Standing, rows, redis, clients, history
    <2>2. CASE Go(p, <<"save">>, user)
        BY <1>a, <1>c, <2>1, <2>2, GoStanding
    <2>3. ASSUME NEW rs \in SUBSET Existing, Go(p, <<"save", "invalidate">>, [user EXCEPT !.roles = rs])
          PROVE  RowsInv' /\ CodesInv'
        <3>1. Alike(user, [user EXCEPT !.roles = rs])
            BY <1>b, AlikeRows DEF Existing
        <3> QED BY <1>a, <2>1, <2>3, <3>1, GoStanding
    <2>4. ASSUME NEW status \in {"ACTIVE", "SUSPENDED"},
                 Go(p, <<"save", "invalidate">>, [user EXCEPT !.status = status])
          PROVE  RowsInv' /\ CodesInv'
        <3>1. Alike(user, [user EXCEPT !.status = status])
            BY <1>b, AlikeRows
        <3> QED BY <1>a, <2>1, <2>4, <3>1, GoStanding
    <2>5. CASE Go(p, <<"release">>, [user EXCEPT !.attempts = 0, !.locked = 0])
        <3>1. 0 \in 0..MaxAttempts - 1 /\ 0 \in Nat
            BY RowConstants
        <3>2. Alike(user, [user EXCEPT !.attempts = 0, !.locked = 0])
            BY <1>b, <3>1, AlikeRows
        <3> QED BY <1>a, <2>1, <2>5, <3>2, GoStanding
    <2> QED BY <1>13, <2>2, <2>3, <2>4, <2>5 DEF EditUser
<1>14. CASE Request(p)
    <2>1. Begun /\ Go(p, <<"context">>, NoUser)
        BY <1>14 DEF Request, MayStart, Standing, rows, redis, clients, history
    <2> QED BY <1>a, <2>1, GoStanding
<1> QED BY <1>1, <1>2, <1>3, <1>4, <1>5, <1>6, <1>7, <1>8, <1>9, <1>10, <1>11, <1>12, <1>13, <1>14

LEMMA InviteGoes ==
    ASSUME SessionsInv, RowsInv, CodesInv, NEW p \in Procs, Invite(p)
    PROVE  RowsInv' /\ CodesInv'
<1>1. /\ p \in scenario.procs /\ Go(p, IssueOneTime("INVITE"), NoUser)
      /\ UNCHANGED <<scenario, now, roles, oneTime, secrets, accepted, reused>>
    BY DEF Invite, MayStart, redis, clients, history
<1>2. secrets \in Nat /\ secrets \in secrets..MaxSecrets
    BY RowConstants DEF RowsInv
<1>3. Serial => Honest(NoUser, accepted, secrets)
    BY <1>2, NoUserIsHonest DEF CodesInv
<1>4. user' \in UserRow /\ (Serial => Honest(user', accepted, secrets))
    <2>1. CASE UNCHANGED user
        BY <2>1 DEF RowsInv, CodesInv
    <2>2. ASSUME NEW rs \in SUBSET Existing, user' = [NoUser EXCEPT !.status = "INVITED", !.roles = rs]
          PROVE  user' \in UserRow /\ (Serial => Honest(user', accepted, secrets))
        <3>1. Alike(NoUser, user')
            BY <2>2, NoUserIsARow DEF Alike, UserRow, Existing
        <3> QED BY <1>3, <3>1, AlikeIsHonest DEF Alike
    <2> QED BY <2>1, <2>2 DEF Invite
<1>5. Unspent /\ RowsTyped
    BY <1>1, <1>2, <1>4 DEF Unspent, RowsTyped, RowsInv
<1> QED BY <1>1, <1>3, <1>4, <1>5, CalmPrograms, NoUserIsARow, GoCalm

(* Enrolment and new recovery codes make a seed or a code.                 *)
LEMMA MadeOne ==
    ASSUME RowsInv, CodesInv, secrets < MaxSecrets, secrets' = secrets + 1, UNCHANGED user,
           UNCHANGED <<scenario, now, roles, oneTime, accepted, reused>>
    PROVE  /\ Unspent /\ RowsTyped /\ secrets \in Nat /\ secrets + 1 <= MaxSecrets /\ secrets + 1 \in 1..MaxSecrets
           /\ user \in UserRow /\ now \in Nat
           /\ Serial => Honest(user', accepted, secrets')
<1>1. secrets \in Nat /\ secrets' \in Nat /\ secrets' >= secrets /\ secrets' \in secrets..MaxSecrets
      /\ secrets + 1 <= MaxSecrets /\ secrets + 1 \in 1..MaxSecrets /\ now \in Nat
    BY RowConstants DEF RowsInv
<1>2. user \in UserRow
    BY DEF RowsInv
<1>3. RowsTyped
    BY <1>1 DEF RowsInv, RowsTyped
<1>4. Serial => Honest(user, accepted, secrets')
    BY <1>1, <1>2, LargerIsHonest DEF CodesInv
<1> QED BY <1>1, <1>2, <1>3, <1>4 DEF Unspent

LEMMA BeginSetupGoes ==
    ASSUME SessionsInv, RowsInv, CodesInv, NEW p \in Procs, BeginSetup(p)
    PROVE  RowsInv' /\ CodesInv'
<1> DEFINE row == [user EXCEPT !.secret = secrets + 1]
<1>1. /\ p \in scenario.procs /\ Go(p, <<"save">>, row) /\ secrets < MaxSecrets /\ secrets' = secrets + 1
      /\ UNCHANGED user /\ UNCHANGED <<scenario, now, roles, oneTime, accepted, reused>>
    BY DEF BeginSetup, MayStart, redis, clients, history
<1> HIDE DEF row
<1>2. /\ Unspent /\ RowsTyped /\ secrets \in Nat /\ secrets + 1 <= MaxSecrets
      /\ user \in UserRow /\ (Serial => Honest(user', accepted, secrets'))
    BY <1>1, MadeOne
<1>3. row \in UserRow /\ (Serial => Honest(row, accepted, secrets'))
    BY <1>1, <1>2, SeededIsHonest DEF row, CodesInv
<1>4. Calm(<<"save">>)
    <2>1. "save" \in Steps \ {"spend", "regenerate"}
        BY DEF Steps
    <2> QED BY <2>1, CalmLists
<1> QED BY <1>1, <1>2, <1>3, <1>4, GoCalm

LEMMA EnableGoes ==
    ASSUME SessionsInv, RowsInv, CodesInv, NEW p \in Procs, Enable(p)
    PROVE  RowsInv' /\ CodesInv'
<1>1. /\ p \in scenario.procs /\ secrets < MaxSecrets /\ secrets' = secrets + 1 /\ ~user.mfa /\ user.secret # 0
      /\ UNCHANGED user /\ UNCHANGED <<scenario, now, roles, oneTime, accepted, reused>>
    BY DEF Enable, MayStart, redis, clients, history
<1>2. /\ Unspent /\ RowsTyped /\ secrets \in Nat /\ secrets + 1 <= MaxSecrets /\ now \in Nat
      /\ user \in UserRow /\ (Serial => Honest(user', accepted, secrets'))
    BY <1>1, MadeOne
<1>3. PICK s \in (now - Window)..(now + Window) :
        LET code == <<"totp", user.secret, s>> IN
        Put(p, [Idle EXCEPT !.todo = <<"spend", "invalidate">>, !.code = code,
                    !.row = [user EXCEPT !.mfa = TRUE, !.lastStep = s, !.codes = {secrets'}]])
    BY DEF Enable
<1> DEFINE code == <<"totp", user.secret, s>>
           row == [user EXCEPT !.mfa = TRUE, !.lastStep = s, !.codes = {secrets + 1}]
           l == <<"invalidate">>
           r == [Idle EXCEPT !.todo = <<"spend", "invalidate">>, !.code = code, !.row = row]
<1>4. Put(p, r)
    BY <1>1, <1>3
<1>5. s \in Int
    BY <1>2, RowConstants
<1>6. row \in UserRow /\ (Serial => /\ Known(code, secrets') /\ code \notin accepted
                                    /\ Honest(row, accepted \cup {code}, secrets'))
    BY <1>1, <1>2, <1>5, EnabledIsHonest DEF CodesInv
<1>7. r.todo = <<"spend", "invalidate">> /\ r.code = code /\ r.row = row /\ r.perms = NoRole
    BY DEF Idle
<1>8. <<"spend", "invalidate">> = <<"spend">> \o l
    OBVIOUS
<1>9. l \in Seq(Steps) /\ "spend" \notin Mentions(l) /\ "regenerate" \notin Mentions(l)
    <2>1. "invalidate" \in Steps
        BY DEF Steps
    <2> QED BY <2>1, Lists
<1> HIDE DEF code, row, l, r
<1>10. r.todo = <<"spend">> \o l
    BY <1>7, <1>8
<1> QED BY <1>1, <1>2, <1>4, <1>6, <1>7, <1>9, <1>10, SpendingGoes

LEMMA RegenerateGoes ==
    ASSUME SessionsInv, RowsInv, CodesInv, NEW p \in Procs, RegenerateRecoveryCodes(p)
    PROVE  RowsInv' /\ CodesInv'
<1>1. /\ p \in scenario.procs /\ secrets < MaxSecrets /\ secrets' = secrets + 1 /\ user.mfa /\ user.secret # 0
      /\ UNCHANGED user /\ UNCHANGED <<scenario, now, roles, oneTime, accepted, reused>>
    BY DEF RegenerateRecoveryCodes, MayStart, redis, clients, history
<1>2. /\ Unspent /\ RowsTyped /\ secrets \in Nat /\ secrets' \in Nat /\ secrets' >= secrets /\ now \in Nat
      /\ user \in UserRow /\ (Serial => Honest(user', accepted, secrets'))
    BY <1>1, MadeOne
<1>3. PICK code \in VerifyTotp(user) : GoSpending(p, code, <<"regenerate">>)
    BY DEF RegenerateRecoveryCodes
<1> DEFINE l == <<"regenerate">>
           row == Spent(user, code)
           r == [Idle EXCEPT !.todo = <<"spend">> \o l, !.row = row, !.code = code]
<1>4. code \in Verify(user)
    BY <1>1, <1>3 DEF Verify
<1>5. Put(p, r)
    BY <1>3 DEF GoSpending
<1>8. r.todo = <<"spend">> \o l /\ r.code = code /\ r.row = row /\ r.perms = NoRole
    BY DEF Idle
<1>6. /\ row \in UserRow
      /\ Serial => /\ Known(code, secrets) /\ code \notin accepted
                   /\ Honest(row, accepted \cup {code}, secrets')
    <2>1. row \in UserRow
        BY <1>2, <1>4, VerifiedIsNew
    <2>2. Serial => /\ Known(code, secrets) /\ code \notin accepted
                    /\ Honest(row, accepted \cup {code}, secrets)
        BY <1>2, <1>4, VerifiedIsNew DEF CodesInv
    <2> HIDE DEF row
    <2> QED BY <1>2, <2>1, <2>2, LargerIsHonest
<1>7. l \in Seq(Steps) /\ Mentions(l) = {"regenerate"}
    <2>1. "regenerate" \in Steps
        BY DEF Steps
    <2> QED BY <2>1, Lists
<1> HIDE DEF row, l, r
<1> QED BY <1>1, <1>2, <1>5, <1>6, <1>7, <1>8, SpendingGoes


LEMMA EditRoleGoes ==
    ASSUME SessionsInv, RowsInv, CodesInv, NEW p \in Procs, EditRole(p)
    PROVE  RowsInv' /\ CodesInv'
<1>1. /\ p \in scenario.procs /\ UNCHANGED <<user, oneTime, secrets>> /\ UNCHANGED <<scenario, now, accepted, reused>>
    BY DEF EditRole, MayStart, redis, clients, history
<1>2. /\ Calm(<<"saveRole", "holders", "drop">>) /\ Calm(<<"holders", "drop", "removeRole">>)
    <2>1. {"saveRole", "holders", "drop", "removeRole"} \subseteq Steps \ {"spend", "regenerate"}
        BY DEF Steps
    <2> QED BY <2>1, CalmLists
<1>3. ASSUME NEW r \in Roles, NEW perms \in SUBSET Permissions, roles' = [roles EXCEPT ![r] = perms],
             UNCHANGED procs
      PROVE  RowsInv' /\ CodesInv'
    <2>1. RowsInv'
        BY <1>1, <1>3 DEF RowsInv
    <2>2. CodesInv'
        BY <1>1, <1>3 DEF CodesInv, Serial
    <2> QED BY <2>1, <2>2
<1>4. ASSUME NEW r \in Roles, NEW perms \in SUBSET Permissions, UNCHANGED roles,
             Put(p, [Idle EXCEPT !.todo = <<"saveRole", "holders", "drop">>, !.role = r, !.perms = perms])
      PROVE  RowsInv' /\ CodesInv'
    <2> DEFINE h == [Idle EXCEPT !.todo = <<"saveRole", "holders", "drop">>, !.role = r, !.perms = perms]
    <2>1. h.todo = <<"saveRole", "holders", "drop">> /\ h.row = NoUser /\ h.perms = perms
        BY DEF Idle
    <2>2. Put(p, h)
        BY <1>4
    <2> HIDE DEF h
    <2> QED BY <1>1, <1>2, <1>4, <2>1, <2>2, PutStanding DEF Standing
<1>5. ASSUME NEW r \in Roles, UNCHANGED roles,
             Put(p, [Idle EXCEPT !.todo = <<"holders", "drop", "removeRole">>, !.role = r])
      PROVE  RowsInv' /\ CodesInv'
    <2> DEFINE h == [Idle EXCEPT !.todo = <<"holders", "drop", "removeRole">>, !.role = r]
    <2>1. h.todo = <<"holders", "drop", "removeRole">> /\ h.row = NoUser /\ h.perms = NoRole
        BY DEF Idle
    <2>2. Put(p, h)
        BY <1>5
    <2> HIDE DEF h
    <2> QED BY <1>1, <1>2, <1>5, <2>1, <2>2, PutStanding DEF Standing
<1> QED BY <1>3, <1>4, <1>5 DEF EditRole

LEMMA AskRows ==
    ASSUME SessionsInv, RowsInv, CodesInv, NEW p \in Procs, Ask(p)
    PROVE  RowsInv' /\ CodesInv'
<1>1. CASE \/ Login(p) \/ VerifyMfa(p) \/ Refresh(p) \/ Logout(p) \/ LogoutAll(p) \/ AcceptInvite(p)
           \/ RequestPasswordReset(p) \/ ResetPassword(p) \/ ChangePassword(p) \/ RecoverAccount(p)
           \/ Disable(p) \/ ResetMfa(p) \/ EditUser(p) \/ Request(p)
    BY <1>1, AskCalm
<1> QED BY <1>1, InviteGoes, BeginSetupGoes, EnableGoes, RegenerateGoes, EditRoleGoes DEF Ask

-----------------------------------------------------------------------------
(* The steps.                                                              *)

(* A handler ends, or its rest has nothing to do with the rows.            *)
LEMMA EndsRows ==
    ASSUME SessionsInv, RowsInv, CodesInv, NEW p \in Procs, Put(p, Idle), Standing
    PROVE  RowsInv' /\ CodesInv'
<1>1. procs' = [procs EXCEPT ![p] = Idle]
    BY DEF Put
<1>2. procs'[p] = Idle /\ \A q \in Procs \ {p} : procs'[q] = procs[q]
    BY <1>1 DEF SessionsInv, Flying
<1>3. secrets \in Nat
    BY RowConstants DEF RowsInv
<1>4. RowsInv'
    BY <1>2, IdleIsTyped DEF RowsInv, Standing
<1>5. Serial => Spends(Idle, accepted, secrets)
    BY <1>3, IdleSpends DEF CodesInv
<1>6. CodesInv'
    BY <1>2, <1>5 DEF CodesInv, Serial, Standing
<1> QED BY <1>4, <1>6

LEMMA RestStanding ==
    ASSUME SessionsInv, RowsInv, CodesInv, NEW p \in Procs, NEW step, At(p, step), step # "spend",
           NEW r, r.todo = Tail(procs[p].todo), r.row = procs[p].row \/ r.row = user, r.perms = procs[p].perms,
           Put(p, r), Standing
    PROVE  RowsInv' /\ CodesInv'
<1>1. r.row \in UserRow /\ r.perms \in (SUBSET Permissions) \cup {NoRole}
    BY InFlight DEF RowsInv
<1>2. Serial => Honest(r.row, accepted, secrets)
    BY InFlight DEF CodesInv
<1>3. Serial => Honest(user', accepted, secrets)
    BY DEF CodesInv, Standing
<1> QED BY <1>1, <1>2, <1>3, StandingRows, RestGoes DEF Standing

(* users.save                                                              *)
LEMMA WrittenIsHonest ==
    ASSUME SessionsInv, RowsInv, CodesInv, NEW p \in Procs,
           NEW step \in {"save", "release", "complete", "password", "clear", "regenerate"}, At(p, step)
    PROVE  LET row == Written(step, procs[p].row)
           IN  row \in UserRow /\ (Serial => Honest(row, accepted, secrets))
<1> DEFINE old == procs[p].row
           row == Written(step, old)
<1>1. old \in UserRow /\ (Serial => Honest(old, accepted, secrets))
    BY InFlight
<1>2. secrets \in Nat /\ secrets <= MaxSecrets /\ now \in 1..MaxTime /\ 0 \in 0..MaxAttempts - 1 /\ 0 \in Nat
    BY RowConstants DEF RowsInv
<1>3. Serial => \A c \in accepted : Known(c, secrets)
    BY DEF CodesInv
<1> HIDE DEF old
<1>4. CASE step \in {"save", "release"}
    <2>1. row = old
        BY <1>4 DEF Written
    <2> QED BY <1>1, <2>1 DEF old
<1>5. CASE step = "complete"
    <2>1. row = [old EXCEPT !.attempts = 0, !.locked = 0]
        BY <1>5 DEF Written
    <2> HIDE DEF row
    <2>2. Alike(old, row)
        BY <1>1, <1>2, <2>1, AlikeRows
    <2>3. row \in UserRow /\ (Serial => Honest(row, accepted, secrets))
        BY <1>1, <2>2, AlikeIsHonest DEF Alike
    <2> QED BY <2>3 DEF row, old
<1>6. CASE step = "password"
    <2>1. row = [old EXCEPT !.password = TRUE, !.changed = now]
        BY <1>6 DEF Written
    <2> HIDE DEF row
    <2>2. Alike(old, row)
        BY <1>1, <1>2, <2>1, AlikeRows
    <2>3. row \in UserRow /\ (Serial => Honest(row, accepted, secrets))
        BY <1>1, <2>2, AlikeIsHonest DEF Alike
    <2> QED BY <2>3 DEF row, old
<1>7. CASE step = "clear"
    <2>1. row = Cleared(old)
        BY <1>7 DEF Written
    <2>2. row \in UserRow /\ (Serial => Honest(row, accepted, secrets))
        BY <1>1, <1>2, <1>3, <2>1, ClearedIsHonest
    <2> QED BY <2>2 DEF old
<1>8. CASE step = "regenerate"
    <2>1. row = [old EXCEPT !.codes = {secrets}]
        BY <1>8 DEF Written
    <2>2. "regenerate" \in Mentions(procs[p].todo)
        BY <1>8, InFlight
    <2>3. secrets \in 1..MaxSecrets
        BY <1>2, <2>2 DEF RowsInv, Typed
    <2>4. ASSUME Serial PROVE \A c \in accepted : c[1] = "recovery" => c[2] # secrets
        BY <2>2, <2>4 DEF CodesInv, Spends
    <2> HIDE DEF row
    <2>5. row \in UserRow /\ (Serial => Honest(row, accepted, secrets))
        BY <1>1, <2>1, <2>3, <2>4, RegeneratedIsHonest
    <2> QED BY <2>5 DEF row, old
<1> QED BY <1>4, <1>5, <1>6, <1>7, <1>8

LEMMA SaveUserRows ==
    ASSUME SessionsInv, RowsInv, CodesInv, NEW p \in Procs, SaveUser(p)
    PROVE  RowsInv' /\ CodesInv'
<1>1. PICK step \in {"save", "spend", "release", "complete", "password", "clear", "regenerate"} :
        /\ At(p, step)
        /\ LET row == Written(step, procs[p].row)
               code == procs[p].code
               spending == step = "spend" /\ row.roles \subseteq Existing
           IN  /\ \/ /\ row.roles \subseteq Existing
                     /\ user' = row
                     /\ Put(p, [Rest(p) EXCEPT !.row = row])
                  \/ /\ ~(row.roles \subseteq Existing)
                     /\ Put(p, Idle)
                     /\ UNCHANGED user
               /\ accepted' = IF spending THEN accepted \cup {code} ELSE accepted
               /\ reused' = IF spending /\ code \in accepted THEN reused \cup {code} ELSE reused
    BY DEF SaveUser
<1>2. UNCHANGED <<scenario, now, roles, oneTime, secrets>>
    BY DEF SaveUser
<1> DEFINE row == Written(step, procs[p].row)
           r == [Rest(p) EXCEPT !.row = row]
<1>3. CASE ~(row.roles \subseteq Existing)
    <2>1. Put(p, Idle) /\ Standing
        BY <1>1, <1>2, <1>3 DEF Standing
    <2> QED BY <2>1, EndsRows
<1>4. r.todo = Tail(procs[p].todo) /\ r.row = row /\ r.perms = procs[p].perms /\ r.code = procs[p].code
    BY <1>1, InFlight DEF Fields
<1>5. procs[p].perms \in (SUBSET Permissions) \cup {NoRole} /\ secrets \in Nat /\ secrets \in secrets..MaxSecrets
    BY RowConstants DEF RowsInv, Typed
<1>6. CASE row.roles \subseteq Existing /\ step # "spend"
    <2>1. row \in UserRow /\ (Serial => Honest(row, accepted, secrets))
        BY <1>1, <1>6, WrittenIsHonest
    <2>2. user' = row /\ Put(p, r) /\ accepted' = accepted /\ reused' = reused
        BY <1>1, <1>6
    <2> HIDE DEF row, r
    <2>3. Unspent /\ RowsTyped
        BY <1>2, <1>5, <2>1, <2>2 DEF Unspent, RowsTyped, RowsInv
    <2> QED BY <1>1, <1>2, <1>4, <1>5, <1>6, <2>1, <2>2, <2>3, RestGoes
<1>7. CASE row.roles \subseteq Existing /\ step = "spend"
    <2>1. row = procs[p].row
        BY <1>7 DEF Written
    <2>2. /\ user' = row /\ Put(p, r) /\ accepted' = accepted \cup {procs[p].code}
          /\ procs[p].code \notin accepted => reused' = reused
        BY <1>1, <1>7
    <2>3. /\ p \in scenario.procs /\ r.todo \in Seq(Steps) /\ row \in UserRow
          /\ Mentions(procs[p].todo) = {step} \cup Mentions(r.todo)
          /\ procs[p].todo # <<>> /\ Head(procs[p].todo) = "spend"
        BY <1>1, <1>4, <1>7, <2>1, InFlight DEF At
    <2> HIDE DEF row, r
    <2>4. Typed(r, secrets')
        BY <1>2, <1>4, <1>5, <2>3 DEF Typed, RowsInv
    <2>5. ASSUME Serial
          PROVE  /\ reused' = {} /\ \A c \in accepted' : Known(c, secrets)
                 /\ Honest(row, accepted', secrets) /\ Spends(r, accepted', secrets)
        <3>1. Spends(procs[p], accepted, secrets) /\ Owed(procs[p]) = {procs[p].code}
            BY <2>3, <2>5 DEF CodesInv, Owed
        <3>2. Known(procs[p].code, secrets) /\ procs[p].code \notin accepted /\ Honest(row, accepted', secrets)
            BY <2>1, <2>2, <3>1 DEF Spends
        <3>3. "spend" \notin Mentions(r.todo)
            BY <1>4, <2>3, <3>1 DEF Spends
        <3>4. r.todo # <<>> => Head(r.todo) # "spend" /\ "spend" \notin Mentions(Tail(r.todo))
            BY <2>3, <3>3, TailOf
        <3>5. Owed(r) = {}
            BY <3>4 DEF Owed
        <3>6. "regenerate" \in Mentions(r.todo) => \A c \in accepted' : c[1] = "recovery" => c[2] # secrets
            <4>1. "regenerate" \in Mentions(r.todo) => "regenerate" \in Mentions(procs[p].todo)
                BY <2>3
            <4>2. accepted' = accepted \cup Owed(procs[p])
                BY <2>2, <3>1
            <4> QED BY <3>1, <4>1, <4>2 DEF Spends
        <3>7. Spends(r, accepted', secrets)
            BY <1>4, <3>2, <3>4, <3>5, <3>6 DEF Spends
        <3>8. reused' = {} /\ \A c \in accepted' : Known(c, secrets)
            BY <2>2, <2>5, <3>2 DEF CodesInv
        <3> QED BY <3>2, <3>7, <3>8
    <2>6. Goes(p, r)
        BY <1>2, <1>5, <2>2, <2>3, <2>4, <2>5 DEF Goes, RowsInv
    <2> QED BY <2>6, GoesKeeps
<1> QED BY <1>3, <1>6, <1>7

(* A failed attempt: one update of the row, no code is spent.              *)
LEMMA RecordFailedLoginRows ==
    ASSUME SessionsInv, RowsInv, CodesInv, NEW p \in Procs, RecordFailedLogin(p)
    PROVE  RowsInv' /\ CodesInv'
<1>1. /\ At(p, "fail") /\ Put(p, Rest(p))
      /\ UNCHANGED <<scenario, now, roles, oneTime, secrets, accepted, reused>>
    BY DEF RecordFailedLogin, redis, clients
<1>2. user \in UserRow /\ now \in Nat /\ secrets \in Nat /\ secrets \in secrets..MaxSecrets
    BY RowConstants DEF RowsInv
<1>3. user.attempts \in 0..MaxAttempts - 1 /\ user.attempts + 1 \in Nat
    BY <1>2, RowConstants DEF UserRow
<1>4. Alike(user, user')
    <2>1. CASE user.attempts + 1 >= MaxAttempts
        <3>1. user' = [user EXCEPT !.attempts = 0, !.locked = now + LockTime]
            BY <2>1 DEF RecordFailedLogin
        <3>2. 0 \in 0..MaxAttempts - 1 /\ now + LockTime \in Nat
            BY <1>2, RowConstants
        <3> QED BY <1>2, <3>1, <3>2, AlikeRows
    <2>2. CASE ~(user.attempts + 1 >= MaxAttempts)
        <3>1. user' = [user EXCEPT !.attempts = user.attempts + 1]
            BY <2>2 DEF RecordFailedLogin
        <3>2. user.attempts + 1 \in 0..MaxAttempts - 1
            BY <1>3, <2>2, RowConstants
        <3> QED BY <1>2, <3>1, <3>2, AlikeRows
    <2> QED BY <2>1, <2>2
<1>5. user' \in UserRow /\ (Serial => Honest(user', accepted, secrets))
    BY <1>4, AlikeIsHonest DEF Alike, CodesInv
<1>6. Unspent /\ RowsTyped
    BY <1>1, <1>2, <1>5 DEF Unspent, RowsTyped, RowsInv
<1>7. /\ Rest(p).todo = Tail(procs[p].todo) /\ Rest(p).row \in UserRow
      /\ Rest(p).perms \in (SUBSET Permissions) \cup {NoRole}
      /\ Serial => Honest(Rest(p).row, accepted, secrets)
    BY <1>1, InFlight
<1> QED BY <1>1, <1>5, <1>6, <1>7, RestGoes

LEMMA ReloadRows ==
    ASSUME SessionsInv, RowsInv, CodesInv, NEW p \in Procs, Reload(p)
    PROVE  RowsInv' /\ CodesInv'
<1>1. Standing
    BY DEF Reload, Standing, rows, redis, clients, history
<1>2. user \in UserRow /\ now \in 1..MaxTime /\ now \in Nat /\ secrets \in Nat
    BY RowConstants DEF RowsInv
<1>3. ASSUME NEW step, At(p, step), step # "spend", NEW row, Alike(user, row), Put(p, [Rest(p) EXCEPT !.row = row])
      PROVE  RowsInv' /\ CodesInv'
    <2> DEFINE r == [Rest(p) EXCEPT !.row = row]
    <2>1. r.todo = Tail(procs[p].todo) /\ r.row = row /\ r.perms = procs[p].perms
        BY <1>3, InFlight DEF Fields
    <2>2. r.perms \in (SUBSET Permissions) \cup {NoRole}
        BY <1>3, <2>1, InFlight
    <2>3. Put(p, r)
        BY <1>3
    <2> HIDE DEF r
    <2>4. row \in UserRow /\ (Serial => Honest(row, accepted, secrets))
        BY <1>3, AlikeIsHonest DEF Alike, CodesInv
    <2>5. Serial => Honest(user', accepted, secrets)
        BY <1>1 DEF Standing, CodesInv
    <2> QED BY <1>1, <1>3, <2>1, <2>2, <2>3, <2>4, <2>5, StandingRows, RestGoes DEF Standing
<1>4. ASSUME NEW step, At(p, step), NEW row, Alike(user, row), NEW todo, Calm(todo),
             Put(p, [procs[p] EXCEPT !.row = row, !.todo = todo])
      PROVE  RowsInv' /\ CodesInv'
    <2> DEFINE r == [procs[p] EXCEPT !.row = row, !.todo = todo]
    <2>1. r.todo = todo /\ r.row = row /\ r.perms = procs[p].perms
        BY <1>4, InFlight DEF Fields
    <2>2. r.perms \in (SUBSET Permissions) \cup {NoRole} /\ p \in scenario.procs
        BY <1>4, <2>1, InFlight
    <2>3. Put(p, r)
        BY <1>4
    <2> HIDE DEF r
    <2>4. row \in UserRow /\ (Serial => Honest(row, accepted, secrets'))
        BY <1>1, <1>4, AlikeIsHonest DEF Alike, CodesInv, Standing
    <2> QED BY <1>1, <1>4, <2>1, <2>2, <2>3, <2>4, StandingRows, CalmGoes
<1>5. CASE At(p, "load") /\ Put(p, [Rest(p) EXCEPT !.row = user])
    <2>1. Alike(user, user)
        BY <1>2, AlikeRows
    <2> QED BY <1>3, <1>5, <2>1
<1>6. CASE At(p, "unlock") /\ Put(p, [Rest(p) EXCEPT !.row = [user EXCEPT !.attempts = 0, !.locked = 0]])
    <2>1. 0 \in 0..MaxAttempts - 1 /\ 0 \in Nat
        BY RowConstants
    <2>2. Alike(user, [user EXCEPT !.attempts = 0, !.locked = 0])
        BY <1>2, <2>1, AlikeRows
    <2> QED BY <1>3, <1>6, <2>2
<1>7. CASE /\ At(p, "accept")
           /\ IF user.status = "INVITED"
              THEN Put(p, [procs[p] EXCEPT
                      !.row = [user EXCEPT !.status = "ACTIVE", !.password = TRUE, !.changed = now],
                      !.todo = <<"save", "invalidate", "issue">>])
              ELSE Put(p, Idle)
    <2>1. Alike(user, [user EXCEPT !.status = "ACTIVE", !.password = TRUE, !.changed = now])
        BY <1>2, AlikeRows
    <2>2. Calm(<<"save", "invalidate", "issue">>)
        <3>1. {"save", "invalidate", "issue"} \subseteq Steps \ {"spend", "regenerate"}
            BY DEF Steps
        <3> QED BY <3>1, CalmLists
    <2>3. CASE user.status = "INVITED"
        BY <1>4, <1>7, <2>1, <2>2, <2>3
    <2>4. CASE user.status # "INVITED"
        BY <1>1, <1>7, <2>4, EndsRows
    <2> QED BY <2>3, <2>4
<1>8. CASE At(p, "consume") /\ Put(p, IF IsUsable(procs[p].token) THEN Rest(p) ELSE Idle)
    <2>1. CASE Put(p, Rest(p))
        <3>1. Rest(p).todo = Tail(procs[p].todo) /\ Rest(p).row = procs[p].row /\ Rest(p).perms = procs[p].perms
            BY <1>8, InFlight
        <3> QED BY <1>1, <1>8, <2>1, <3>1, RestStanding
    <2>2. CASE Put(p, Idle)
        BY <1>1, <2>2, EndsRows
    <2> QED BY <1>8, <2>1, <2>2
<1> DEFINE rest == <<"consume", "burn">> \o ApplyNewPassword
           after == <<"spend">> \o rest
<1>9. Calm(rest)
    BY CalmPrograms
<1>10. ASSUME At(p, "resetLoad"),
              \/ ~CanLogin(user) /\ Put(p, Idle)
              \/ CanLogin(user) /\ ~user.mfa /\ Put(p, [procs[p] EXCEPT !.row = user, !.todo = rest])
              \/ /\ CanLogin(user) /\ user.mfa
                 /\ \/ Go(p, <<"fail">>, NoUser)
                    \/ \E code \in Verify(user) :
                         Put(p, [procs[p] EXCEPT !.row = Spent(user, code), !.code = code, !.todo = after])
      PROVE  RowsInv' /\ CodesInv'
    <2> HIDE DEF rest
    <2>1. p \in scenario.procs /\ procs[p].perms \in (SUBSET Permissions) \cup {NoRole} /\ DOMAIN procs[p] = Fields
        BY <1>10, InFlight
    <2>2. CASE Put(p, Idle)
        BY <1>1, <2>2, EndsRows
    <2>3. CASE Go(p, <<"fail">>, NoUser)
        <3>1. "fail" \in Steps \ {"spend", "regenerate"}
            BY DEF Steps
        <3>2. Calm(<<"fail">>)
            BY <3>1, CalmLists
        <3> QED BY <1>1, <2>1, <2>3, <3>2, GoStanding
    <2>4. CASE Put(p, [procs[p] EXCEPT !.row = user, !.todo = rest])
        <3>1. Alike(user, user)
            BY <1>2, AlikeRows
        <3> QED BY <1>4, <1>9, <1>10, <2>4, <3>1
    <2>5. ASSUME NEW code \in Verify(user),
                 Put(p, [procs[p] EXCEPT !.row = Spent(user, code), !.code = code, !.todo = after])
          PROVE  RowsInv' /\ CodesInv'
        <3> DEFINE row == Spent(user, code)
                   r == [procs[p] EXCEPT !.row = row, !.code = code, !.todo = after]
        <3>1. Put(p, r)
            BY <2>5
        <3>2. row \in UserRow /\ (Serial => /\ Known(code, secrets) /\ code \notin accepted
                                            /\ Honest(row, accepted \cup {code}, secrets))
            BY <1>2, VerifiedIsNew DEF CodesInv
        <3> HIDE DEF row
        <3>3. r.todo = <<"spend">> \o rest /\ r.row = row /\ r.code = code /\ r.perms = procs[p].perms
            BY <2>1 DEF Fields
        <3>4. rest \in Seq(Steps) /\ "spend" \notin Mentions(rest) /\ "regenerate" \notin Mentions(rest)
            BY <1>9 DEF Calm
        <3>5. Unspent /\ RowsTyped /\ secrets' = secrets /\ (Serial => Honest(user', accepted, secrets'))
            BY <1>1, StandingRows DEF Standing
        <3> HIDE DEF r
        <3> QED BY <2>1, <3>1, <3>2, <3>3, <3>4, <3>5, SpendingGoes
    <2> QED BY <1>10, <2>2, <2>3, <2>4, <2>5
<1>11. CASE /\ At(p, "resetLoad")
            /\ \/ ~CanLogin(user) /\ Put(p, Idle)
               \/ CanLogin(user) /\ ~user.mfa /\ Put(p, [procs[p] EXCEPT !.row = user, !.todo = rest])
               \/ /\ CanLogin(user) /\ user.mfa
                  /\ \/ Go(p, <<"fail">>, NoUser)
                     \/ \E code \in Verify(user) :
                          Put(p, [procs[p] EXCEPT !.row = Spent(user, code), !.code = code, !.todo = after])
    BY <1>10, <1>11
<1> QED BY <1>5, <1>6, <1>7, <1>8, <1>11 DEF Reload

LEMMA VoidedTokens ==
    ASSUME NEW ts \in Seq(OneTimeToken), NEW new, DOMAIN new = 1..Len(ts), new = [t \in DOMAIN new |-> new[t]],
           \A t \in 1..Len(ts) : new[t] = ts[t] \/ new[t] = [ts[t] EXCEPT !.used = TRUE]
    PROVE  new \in Seq(OneTimeToken)
<1>1. ASSUME NEW t \in 1..Len(ts) PROVE new[t] \in OneTimeToken
    <2>1. ts[t] \in OneTimeToken
        OBVIOUS
    <2>2. [ts[t] EXCEPT !.used = TRUE] \in OneTimeToken
        BY <2>1 DEF OneTimeToken
    <2> QED BY <2>1, <2>2
<1>2. Len(ts) \in Nat
    OBVIOUS
<1>3. new \in [1..Len(ts) -> OneTimeToken]
    BY <1>1
<1> QED BY <1>2, <1>3

LEMMA WriteOneTimeRows ==
    ASSUME SessionsInv, RowsInv, CodesInv, NEW p \in Procs, WriteOneTime(p)
    PROVE  RowsInv' /\ CodesInv'
<1>1. /\ Put(p, Rest(p)) /\ UNCHANGED <<scenario, now, user, roles, secrets, accepted, reused>>
    BY DEF WriteOneTime, redis, clients, history
<1>2. PICK step \in {"voidInvite", "newInvite", "voidReset", "newReset", "burn"} : At(p, step)
    BY DEF WriteOneTime, Void, New
<1>3. oneTime \in Seq(OneTimeToken) /\ now \in Nat /\ OneTimeTtl \in Nat
    BY RowConstants DEF RowsInv
<1>4. oneTime' \in Seq(OneTimeToken)
    <2>1. ASSUME NEW type,
                 oneTime' = [t \in 1..Len(oneTime) |->
                               IF oneTime[t].type = type THEN [oneTime[t] EXCEPT !.used = TRUE] ELSE oneTime[t]]
          PROVE  oneTime' \in Seq(OneTimeToken)
        BY <1>3, <2>1, VoidedTokens
    <2>2. ASSUME NEW type \in {"INVITE", "PASSWORD_RESET"},
                 oneTime' = Append(oneTime, [type |-> type, used |-> FALSE, expires |-> now + OneTimeTtl])
          PROVE  oneTime' \in Seq(OneTimeToken)
        <3>1. [type |-> type, used |-> FALSE, expires |-> now + OneTimeTtl] \in OneTimeToken
            BY <1>3 DEF OneTimeToken
        <3> QED BY <1>3, <2>2, <3>1
    <2>3. ASSUME NEW k, oneTime' = [oneTime EXCEPT ![k].used = TRUE]
          PROVE  oneTime' \in Seq(OneTimeToken)
        <3>1. DOMAIN oneTime = 1..Len(oneTime) /\ oneTime = [t \in 1..Len(oneTime) |-> oneTime[t]]
            BY <1>3
        <3>2. DOMAIN oneTime' = 1..Len(oneTime) /\ oneTime' = [t \in DOMAIN oneTime' |-> oneTime'[t]]
              /\ \A t \in 1..Len(oneTime) :
                    oneTime'[t] = oneTime[t] \/ oneTime'[t] = [oneTime[t] EXCEPT !.used = TRUE]
            BY <2>3, <3>1
        <3> QED BY <1>3, <3>2, VoidedTokens
    <2> QED BY <2>1, <2>2, <2>3 DEF WriteOneTime
<1>5. Unspent /\ RowsTyped
    <2>1. secrets \in secrets..MaxSecrets
        BY RowConstants DEF RowsInv
    <2> QED BY <1>1, <1>4, <2>1 DEF Unspent, RowsTyped, RowsInv
<1>6. /\ Rest(p).todo = Tail(procs[p].todo) /\ Rest(p).row \in UserRow
      /\ Rest(p).perms \in (SUBSET Permissions) \cup {NoRole}
      /\ Serial => Honest(Rest(p).row, accepted, secrets)
    BY <1>2, InFlight
<1>7. Serial => Honest(user', accepted, secrets)
    BY <1>1 DEF CodesInv
<1> QED BY <1>1, <1>2, <1>5, <1>6, <1>7, RestGoes

LEMMA GetAuthUserRows ==
    ASSUME SessionsInv, RowsInv, CodesInv, NEW p \in Procs, GetAuthUser(p)
    PROVE  RowsInv' /\ CodesInv'
<1>1. Standing /\ At(p, "context")
    BY DEF GetAuthUser, Standing, rows, redis, clients, history
<1>2. CASE Put(p, [Rest(p) EXCEPT !.ctx = cache])
    <2> DEFINE r == [Rest(p) EXCEPT !.ctx = cache]
    <2>1. r.todo = Tail(procs[p].todo) /\ r.row = procs[p].row /\ r.perms = procs[p].perms /\ Put(p, r)
        BY <1>1, <1>2, InFlight DEF Fields
    <2> HIDE DEF r
    <2> QED BY <1>1, <2>1, RestStanding
<1>3. CASE Put(p, [Rest(p) EXCEPT !.todo = <<"read", "store">> \o @])
    <2> DEFINE l == <<"read", "store">> \o Tail(procs[p].todo)
               r == [Rest(p) EXCEPT !.todo = l]
    <2>1. r.todo = l /\ r.row = procs[p].row /\ r.perms = procs[p].perms /\ r.code = procs[p].code /\ Put(p, r)
        BY <1>1, <1>3, InFlight DEF Fields
    <2>2. Tail(procs[p].todo) \in Seq(Steps) /\ p \in scenario.procs
          /\ Mentions(procs[p].todo) = {"context"} \cup Mentions(Tail(procs[p].todo))
        BY <1>1, InFlight
    <2>3. {"read", "store"} \subseteq Steps
        BY DEF Steps
    <2>4. <<"read", "store">> \in Seq(Steps) /\ Mentions(<<"read", "store">>) = {"read", "store"}
        BY <2>3, Lists
    <2>5. l \in Seq(Steps) /\ Mentions(l) = {"read", "store"} \cup Mentions(Tail(procs[p].todo))
        BY <2>2, <2>4, ConcatOf
    <2> HIDE DEF l, r
    <2>6. procs[p].row \in UserRow /\ procs[p].perms \in (SUBSET Permissions) \cup {NoRole}
          /\ ("regenerate" \in Mentions(l) => secrets >= 1)
        BY <2>2, <2>5 DEF RowsInv, Typed
    <2>7. ASSUME Serial PROVE Spends(r, accepted, secrets)
        <3>1. Spends(procs[p], accepted, secrets) /\ procs[p].todo # <<>> /\ Head(procs[p].todo) = "context"
            BY <1>1, <2>7 DEF CodesInv, At
        <3>2. "spend" \notin Mentions(l) /\ Owed(procs[p]) = {}
            BY <2>5, <3>1 DEF Spends, Owed
        <3>3. l # <<>> => Head(l) # "spend" /\ "spend" \notin Mentions(Tail(l))
            BY <2>5, <3>2, TailOf
        <3>4. Owed(r) = {}
            BY <2>1, <3>3 DEF Owed
        <3> QED BY <2>1, <2>2, <2>5, <3>1, <3>2, <3>3, <3>4 DEF Spends
    <2>8. Goes(p, r)
        <3>1. Typed(r, secrets')
            BY <1>1, <2>1, <2>6 DEF Typed, Standing
        <3>2. Unspent /\ RowsTyped
            BY <1>1, StandingRows
        <3> QED BY <1>1, <2>1, <2>2, <2>7, <3>1, <3>2 DEF Goes, Unspent, RowsTyped, Standing, CodesInv
    <2> QED BY <2>8, GoesKeeps
<1> QED BY <1>2, <1>3 DEF GetAuthUser

LEMMA WriteRoleRows ==
    ASSUME SessionsInv, RowsInv, CodesInv, NEW p \in Procs, WriteRole(p)
    PROVE  RowsInv' /\ CodesInv'
<1> DEFINE r == procs[p].role
<1>1. UNCHANGED <<scenario, now, oneTime, secrets, accepted, reused>>
    BY DEF WriteRole, clients, history
<1>2. user \in UserRow /\ roles \in [Roles -> (SUBSET Permissions) \cup {NoRole}] /\ oneTime \in Seq(OneTimeToken)
      /\ secrets \in secrets..MaxSecrets
    BY RowConstants DEF RowsInv
<1>3. ASSUME NEW step, At(p, step), step # "spend", Put(p, Rest(p)), Alike(user, user'),
             roles' \in [Roles -> (SUBSET Permissions) \cup {NoRole}]
      PROVE  RowsInv' /\ CodesInv'
    <2>1. user' \in UserRow /\ (Serial => Honest(user', accepted, secrets))
        BY <1>3, AlikeIsHonest DEF Alike, CodesInv
    <2>2. Unspent /\ RowsTyped
        BY <1>1, <1>2, <1>3, <2>1 DEF Unspent, RowsTyped
    <2>3. /\ Rest(p).todo = Tail(procs[p].todo) /\ Rest(p).row \in UserRow
          /\ Rest(p).perms \in (SUBSET Permissions) \cup {NoRole}
          /\ Serial => Honest(Rest(p).row, accepted, secrets)
        BY <1>3, InFlight
    <2> QED BY <1>1, <1>3, <2>1, <2>2, <2>3, RestGoes
<1>4. Alike(user, user)
    BY <1>2, AlikeRows
<1>5. CASE /\ At(p, "saveRole")
           /\ Put(p, Rest(p))
           /\ roles' = [roles EXCEPT ![r] = procs[p].perms]
           /\ UNCHANGED <<user, cache>>
    <2>1. procs[p].perms \in (SUBSET Permissions) \cup {NoRole}
        BY <1>5, InFlight
    <2>2. roles' \in [Roles -> (SUBSET Permissions) \cup {NoRole}]
        BY <1>2, <1>5, <2>1
    <2> QED BY <1>3, <1>4, <1>5, <2>2
<1>6. CASE /\ At(p, "holders")
           /\ Put(p, [Rest(p) EXCEPT !.at = IF r \in user.roles THEN 1 ELSE 0])
           /\ UNCHANGED <<user, roles, cache>>
    <2> DEFINE h == [Rest(p) EXCEPT !.at = IF r \in user.roles THEN 1 ELSE 0]
    <2>1. h.todo = Tail(procs[p].todo) /\ h.row = procs[p].row /\ h.perms = procs[p].perms /\ Put(p, h)
        BY <1>6, InFlight DEF Fields
    <2> HIDE DEF h
    <2> QED BY <1>1, <1>6, <2>1, RestStanding DEF Standing
<1>7. CASE At(p, "drop") /\ Put(p, Rest(p)) /\ UNCHANGED <<user, roles>>
    BY <1>2, <1>3, <1>4, <1>7
<1>8. CASE /\ At(p, "removeRole")
           /\ roles' = [roles EXCEPT ![r] = NoRole]
           /\ user' = [user EXCEPT !.roles = @ \ {r}]
           /\ Put(p, Rest(p))
    <2>1. roles' \in [Roles -> (SUBSET Permissions) \cup {NoRole}]
        BY <1>2, <1>8
    <2>2. user.roles \ {r} \in SUBSET Roles
        BY <1>2 DEF UserRow
    <2>3. Alike(user, user')
        BY <1>2, <1>8, <2>2, AlikeRows
    <2> QED BY <1>3, <1>8, <2>1, <2>3
<1> QED BY <1>5, <1>6, <1>7, <1>8 DEF WriteRole

(* The steps that touch the tokens, the cache and the deny list.           *)
LEMMA OtherRows ==
    ASSUME SessionsInv, RowsInv, CodesInv, NEW p \in Procs,
           \/ Issue(p) \/ Rotate(p) \/ Enter(p) \/ Revoke(p) \/ DenySessions(p)
           \/ ReadContext(p) \/ StoreContext(p) \/ Invalidate(p)
    PROVE  RowsInv' /\ CodesInv'
<1>1. Standing
    BY DEF Issue, Rotate, Enter, Revoke, DenySessions, ReadContext, StoreContext, Invalidate, Standing, rows, redis,
           clients, history
<1>2. ASSUME NEW step, At(p, step), step # "spend", Put(p, Rest(p)) PROVE RowsInv' /\ CodesInv'
    <2>1. Rest(p).todo = Tail(procs[p].todo) /\ Rest(p).row = procs[p].row /\ Rest(p).perms = procs[p].perms
        BY <1>2, InFlight
    <2> QED BY <1>1, <1>2, <2>1, RestStanding
<1>3. CASE Issue(p)
    BY <1>2, <1>3 DEF Issue
<1>4. CASE Rotate(p)
    <2> DEFINE h == [Rest(p) EXCEPT !.token = Len(tokens'), !.at = now]
    <2>1. At(p, "rotate") /\ Put(p, h)
        BY <1>4 DEF Rotate
    <2>2. h.todo = Tail(procs[p].todo) /\ h.row = procs[p].row /\ h.perms = procs[p].perms
        BY <2>1, InFlight DEF Fields
    <2> HIDE DEF h
    <2> QED BY <1>1, <2>1, <2>2, RestStanding
<1>5. CASE Enter(p)
    <2>1. At(p, "enter") /\ (Put(p, Rest(p)) \/ Go(p, RevokeAll, NoUser))
        BY <1>5 DEF Enter
    <2>2. p \in scenario.procs
        BY <2>1, InFlight
    <2> QED BY <1>1, <1>2, <2>1, <2>2, CalmPrograms, GoStanding
<1>6. CASE Revoke(p)
    <2>1. CASE At(p, "find") /\ Put(p, [Rest(p) EXCEPT !.families = LiveFamilies])
        <3> DEFINE h == [Rest(p) EXCEPT !.families = LiveFamilies]
        <3>1. h.todo = Tail(procs[p].todo) /\ h.row = procs[p].row /\ h.perms = procs[p].perms /\ Put(p, h)
            BY <2>1, InFlight DEF Fields
        <3> HIDE DEF h
        <3> QED BY <1>1, <2>1, <3>1, RestStanding
    <2> QED BY <1>2, <1>6, <2>1 DEF Revoke
<1>7. CASE DenySessions(p)
    BY <1>2, <1>7 DEF DenySessions
<1>8. CASE ReadContext(p)
    <2> DEFINE h == [Rest(p) EXCEPT !.ctx = Context(user)]
    <2>1. At(p, "read") /\ Put(p, h)
        BY <1>8 DEF ReadContext
    <2>2. h.todo = Tail(procs[p].todo) /\ h.row = procs[p].row /\ h.perms = procs[p].perms
        BY <2>1, InFlight DEF Fields
    <2> HIDE DEF h
    <2> QED BY <1>1, <2>1, <2>2, RestStanding
<1>9. CASE StoreContext(p)
    BY <1>2, <1>9 DEF StoreContext
<1>10. CASE Invalidate(p)
    BY <1>2, <1>10 DEF Invalidate
<1> QED BY <1>3, <1>4, <1>5, <1>6, <1>7, <1>8, <1>9, <1>10

LEMMA RowsStep ==
    ASSUME SessionsInv, RowsInv, CodesInv, [Next]_vars
    PROVE  RowsInv' /\ CodesInv'
<1>a. now \in 1..MaxTime /\ MaxTime \in Nat
    BY RowConstants DEF RowsInv
<1>1. CASE Tick
    <2>1. now' \in 1..MaxTime
        BY <1>a, <1>1 DEF Tick
    <2> QED BY <1>1, <2>1, RestsKeeps DEF Tick, rows
<1>2. CASE CacheExpires
    BY <1>a, <1>2, RestsKeeps DEF CacheExpires, rows, clients, history
<1>3. CASE UNCHANGED vars
    BY <1>a, <1>3, RestsKeeps DEF vars, rows, redis, clients, history
<1>4. ASSUME NEW p \in Procs, Die(p) PROVE RowsInv' /\ CodesInv'
    BY <1>4, EndsRows DEF Die, Standing, rows, redis, clients, history
<1>5. ASSUME NEW p \in Procs, Step(p) PROVE RowsInv' /\ CodesInv'
    BY <1>5, SaveUserRows, RecordFailedLoginRows, ReloadRows, WriteOneTimeRows, GetAuthUserRows, WriteRoleRows,
       OtherRows DEF Step
<1> QED BY <1>1, <1>2, <1>3, <1>4, <1>5, AskRows DEF Next

(* Every row, token and role keeps its shape, and nobody holds an access   *)
(* token of the future, whatever overlaps and wherever handlers end.       *)
THEOREM SessionsTyped == Spec => []TypeOK
<1>1. SessionsInv /\ RowsInv /\ CodesInv /\ [Next]_vars => (SessionsInv /\ RowsInv /\ CodesInv)'
    BY SessionsStep, RowsStep
<1>2. SessionsInv /\ RowsInv => TypeOK
    <2> SUFFICES ASSUME SessionsInv, RowsInv PROVE TypeOK
        OBVIOUS
    <2>1. now \in 1..MaxTime /\ MaxTime \in Nat
        BY RowConstants DEF RowsInv
    <2>2. ASSUME NEW a \in access PROVE a \in [session : 1..MaxTokens, issued : 0..MaxTime]
        <3>1. a \in AccessToken /\ a.issued <= now
            BY DEF SessionsInv, Stored
        <3> QED BY <2>1, <3>1 DEF AccessToken
    <2> QED BY <2>2 DEF TypeOK, SessionsInv, Stored, RowsInv
<1> QED BY SessionsInit, RowsInit, <1>1, <1>2, PTL DEF Spec

(* Requests served one at a time: no second-factor code is spent twice,    *)
(* wherever handlers end and however often the factor is turned off and on.*)
THEOREM CodesAreSpentOnce == Spec => []CodesWorkOnce
<1>1. SessionsInv /\ RowsInv /\ CodesInv /\ [Next]_vars => (SessionsInv /\ RowsInv /\ CodesInv)'
    BY SessionsStep, RowsStep
<1>2. CodesInv => CodesWorkOnce
    BY DEF CodesInv, CodesWorkOnce
<1> QED BY SessionsInit, RowsInit, <1>1, <1>2, PTL DEF Spec

-----------------------------------------------------------------------------
(* The lock.  An account has a password once its invitation is accepted;   *)
(* only the break-glass command can set one before.                        *)
Unaccepted == {"NONE", "INVITED"}
AcceptedFirst == user.status \in Unaccepted => ~user.password

(* Steps that write the row a handler holds, and steps after which it      *)
(* holds the row that is there, or has lifted the lock.                    *)
Saves == {"save", "spend", "complete", "password", "clear", "regenerate"}
Fetches == {"load", "release"}
WritesBack(todo) ==
    \E i \in DOMAIN todo : todo[i] \in Saves /\ \A j \in DOMAIN todo : j < i => todo[j] \notin Fetches

(* Lifting the lock is followed by saving that; a failure is all there is. *)
Paired(todo) ==
    \A i \in DOMAIN todo :
        /\ todo[i] = "unlock" => i + 1 \in DOMAIN todo /\ todo[i + 1] = "release"
        /\ todo[i] = "fail" => i = 1 /\ 2 \notin DOMAIN todo

(* One request at a time: the row and the copy a handler writes back know  *)
(* of the lock, and a handler that is to open a session found none.        *)
Kept(row, bar, clock) == bar > clock => row.locked >= bar /\ row.status \notin Unaccepted
Guarded(h, row, bar, clock) ==
    /\ Paired(h.todo)
    /\ WritesBack(h.todo) => Kept(h.row, bar, clock)
    /\ Mentions(h.todo) \cap {"complete", "issue"} # {} => ~(bar > clock)
    /\ "fail" \in Mentions(h.todo) => row.status \notin Unaccepted
LockInv ==
    /\ barred \in Nat
    /\ Serial => Kept(user, barred, now) /\ \A p \in Procs : Guarded(procs[p], user, barred, now)

LEMMA IdleIsGuarded ==
    ASSUME NEW row, NEW bar, NEW clock
    PROVE  Guarded(Idle, row, bar, clock)
<1>1. Idle.todo = <<>> /\ Mentions(Idle.todo) = {} /\ DOMAIN Idle.todo = {}
    BY IdleHas
<1> QED BY <1>1 DEF Guarded, Paired, WritesBack

LEMMA LockTail ==
    ASSUME NEW s \in Seq(Steps), s # <<>>, Paired(s)
    PROVE  /\ Paired(Tail(s))
           /\ Head(s) \notin Fetches /\ WritesBack(Tail(s)) => WritesBack(s)
           /\ Head(s) \in Saves => WritesBack(s)
           /\ Head(s) = "fail" => Tail(s) = <<>>
           /\ "fail" \notin Mentions(Tail(s))
           /\ Head(s) = "unlock" => ~WritesBack(Tail(s))
<1> DEFINE t == Tail(s)
           n == Len(s)
<1>1. n \in Nat \ {0} /\ DOMAIN s = 1..n /\ DOMAIN t = 1..(n - 1) /\ t \in Seq(Steps) /\ Len(t) = n - 1
      /\ Head(s) = s[1]
    BY EmptySeq, HeadTailProperties
<1>2. \A i \in 1..(n - 1) : t[i] = s[i + 1] /\ i + 1 \in 1..n
    BY <1>1, HeadTailProperties
<1>e. n = 1 => t = <<>>
    BY <1>1, EmptySeq
<1> HIDE DEF t, n
<1>8. ASSUME NEW i \in 1..(n - 1) PROVE t[i] # "fail"
    <2>1. i + 1 \in DOMAIN s /\ i + 1 # 1 /\ t[i] = s[i + 1]
        BY <1>1, <1>2
    <2> QED BY <2>1 DEF Paired
<1>3. Paired(t)
    <2>1. ASSUME NEW i \in 1..(n - 1), t[i] = "unlock"
          PROVE  i + 1 \in 1..(n - 1) /\ t[i + 1] = "release"
        <3>1. (i + 1) + 1 \in 1..n /\ s[(i + 1) + 1] = "release"
            BY <1>1, <1>2, <2>1 DEF Paired
        <3>2. i + 1 \in 1..(n - 1)
            BY <1>1, <3>1
        <3> QED BY <1>2, <3>1, <3>2
    <2> QED BY <1>1, <1>8, <2>1 DEF Paired
<1>4. ASSUME s[1] \notin Fetches, WritesBack(t) PROVE WritesBack(s)
    <2>1. PICK i \in 1..(n - 1) : t[i] \in Saves /\ \A j \in 1..(n - 1) : j < i => t[j] \notin Fetches
        BY <1>1, <1>4 DEF WritesBack
    <2>2. i + 1 \in 1..n /\ s[i + 1] \in Saves
        BY <1>2, <2>1
    <2>3. ASSUME NEW j \in 1..n, j < i + 1 PROVE s[j] \notin Fetches
        <3>1. CASE j = 1
            BY <1>4, <3>1
        <3>2. CASE j # 1
            <4> DEFINE k == j - 1
            <4>1. k \in 1..(n - 1) /\ k < i /\ k + 1 = j
                BY <1>1, <2>1, <2>3, <3>2
            <4> HIDE DEF k
            <4>2. t[k] = s[j]
                BY <1>2, <4>1
            <4> QED BY <2>1, <4>1, <4>2
        <3> QED BY <3>1, <3>2
    <2> QED BY <1>1, <2>2, <2>3 DEF WritesBack
<1>5. ASSUME s[1] \in Saves PROVE WritesBack(s)
    <2>1. 1 \in 1..n /\ \A j \in 1..n : ~(j < 1)
        BY <1>1
    <2> QED BY <1>1, <1>5, <2>1 DEF WritesBack
<1>6. ASSUME s[1] = "fail" PROVE t = <<>>
    <2>1. 1 \in DOMAIN s
        BY <1>1
    <2>2. 2 \notin 1..n
        BY <1>1, <1>6, <2>1 DEF Paired
    <2> QED BY <1>1, <1>e, <2>2
<1>7. ASSUME s[1] = "unlock", WritesBack(t) PROVE FALSE
    <2>a. 1 \in DOMAIN s
        BY <1>1
    <2>b. 1 + 1 \in DOMAIN s /\ s[1 + 1] = "release"
        BY <1>7, <2>a DEF Paired
    <2>1. 1 \in 1..n /\ 1 + 1 \in 1..n /\ s[1 + 1] = "release"
        BY <1>1, <2>a, <2>b
    <2>2. 1 \in 1..(n - 1) /\ t[1] = "release"
        BY <1>1, <1>2, <2>1
    <2>3. PICK i \in 1..(n - 1) : t[i] \in Saves /\ \A j \in 1..(n - 1) : j < i => t[j] \notin Fetches
        BY <1>1, <1>7 DEF WritesBack
    <2>4. i # 1
        BY <2>2, <2>3 DEF Saves
    <2> QED BY <2>2, <2>3, <2>4 DEF Fetches
<1>9. "fail" \notin Mentions(t)
    BY <1>1, <1>8 DEF Mentions
<1> QED BY <1>1, <1>3, <1>4, <1>5, <1>6, <1>7, <1>9 DEF t

(* Programs without these steps.                                           *)
Plain(todo) == todo \in Seq(Steps) /\ Mentions(todo) \cap {"unlock", "fail"} = {}

LEMMA PlainIsPaired ==
    ASSUME NEW todo, Plain(todo)
    PROVE  Paired(todo) /\ (Mentions(todo) \cap Saves = {} => ~WritesBack(todo))
    BY DEF Plain, Paired, WritesBack, Mentions

LEMMA PlainConcat ==
    ASSUME NEW s, NEW t, Plain(s), Plain(t)
    PROVE  Plain(s \o t) /\ Mentions(s \o t) = Mentions(s) \cup Mentions(t)
    BY ConcatOf DEF Plain

(* A handler that has looked the login up goes on with two more steps.     *)
LEMMA LockLookup ==
    ASSUME NEW t \in Seq(Steps), Paired(t), "fail" \notin Mentions(t), NEW s, s = <<"read", "store">> \o t
    PROVE  Paired(s) /\ (WritesBack(s) => WritesBack(t))
<1> DEFINE n == Len(t)
<1>1. n \in Nat /\ DOMAIN t = 1..n /\ DOMAIN s = 1..(n + 2) /\ s[1] = "read" /\ s[2] = "store"
    OBVIOUS
<1>2. \A i \in 1..n : s[i + 2] = t[i] /\ i + 2 \in 1..(n + 2)
    OBVIOUS
<1> HIDE DEF n
<1>3. \A i \in 1..(n + 2) : i = 1 \/ i = 2 \/ (i - 2 \in 1..n /\ s[i] = t[i - 2])
    <2> SUFFICES ASSUME NEW i \in 1..(n + 2), i # 1, i # 2 PROVE i - 2 \in 1..n /\ s[i] = t[i - 2]
        OBVIOUS
    <2> DEFINE k == i - 2
    <2>1. k \in 1..n /\ k + 2 = i
        BY <1>1
    <2> HIDE DEF k
    <2>2. s[i] = t[k]
        BY <1>2, <2>1
    <2> QED BY <2>1, <2>2 DEF k
<1>4. Paired(s)
    <2>1. ASSUME NEW i \in 1..(n + 2), s[i] = "unlock"
          PROVE  i + 1 \in 1..(n + 2) /\ s[i + 1] = "release"
        <3> DEFINE k == i - 2
        <3>1. k \in 1..n /\ t[k] = "unlock" /\ k + 2 = i
            BY <1>1, <1>3, <2>1
        <3> HIDE DEF k
        <3>2. k + 1 \in 1..n /\ t[k + 1] = "release"
            BY <1>1, <3>1 DEF Paired
        <3>3. (k + 1) + 2 = i + 1
            BY <1>1, <3>1
        <3> QED BY <1>2, <3>2, <3>3
    <2>2. ASSUME NEW i \in 1..(n + 2) PROVE s[i] # "fail"
        BY <1>1, <1>3 DEF Mentions
    <2> QED BY <1>1, <2>1, <2>2 DEF Paired
<1>5. ASSUME WritesBack(s) PROVE WritesBack(t)
    <2>1. PICK i \in 1..(n + 2) : s[i] \in Saves /\ \A j \in 1..(n + 2) : j < i => s[j] \notin Fetches
        BY <1>1, <1>5 DEF WritesBack
    <2> DEFINE k == i - 2
    <2>2. k \in 1..n /\ t[k] \in Saves /\ k + 2 = i
        BY <1>1, <1>3, <2>1 DEF Saves
    <2> HIDE DEF k
    <2>3. ASSUME NEW j \in 1..n, j < k PROVE t[j] \notin Fetches
        <3>1. s[j + 2] = t[j] /\ j + 2 \in 1..(n + 2) /\ j + 2 < i
            BY <1>1, <1>2, <2>2, <2>3
        <3> QED BY <2>1, <3>1
    <2> QED BY <1>1, <2>2, <2>3 DEF WritesBack
<1> QED BY <1>4, <1>5

(* The break-glass command lifts the lock before it writes anything else.  *)
Unlocking(todo) ==
    /\ todo \in Seq(Steps) /\ 2 \in DOMAIN todo /\ todo[1] = "unlock" /\ todo[2] = "release"
    /\ \A i \in DOMAIN todo : i > 2 => todo[i] \notin {"unlock", "fail", "issue", "complete"}

LEMMA UnlockingIs ==
    ASSUME NEW todo, Unlocking(todo)
    PROVE  /\ Paired(todo) /\ ~WritesBack(todo)
           /\ Mentions(todo) \cap {"complete", "issue", "fail"} = {}
<1> DEFINE n == Len(todo)
<1>1. DOMAIN todo = 1..n /\ n \in Nat
    BY DEF Unlocking
<1> HIDE DEF n
<1>2. 1 \in 1..n /\ 2 \in 1..n /\ todo[1] = "unlock" /\ todo[2] = "release"
    BY <1>1 DEF Unlocking
<1>3. \A i \in 1..n : i = 1 \/ i = 2 \/ todo[i] \notin {"unlock", "fail", "issue", "complete"}
    BY <1>1 DEF Unlocking
<1>4. Paired(todo)
    <2>1. 1 + 1 = 2
        OBVIOUS
    <2> QED BY <1>1, <1>2, <1>3, <2>1 DEF Paired
<1>5. ~WritesBack(todo)
    <2> SUFFICES ASSUME NEW i \in 1..n, todo[i] \in Saves, \A j \in 1..n : j < i => todo[j] \notin Fetches
                 PROVE  FALSE
        BY <1>1 DEF WritesBack
    <2>1. i # 1 /\ i # 2
        BY <1>2 DEF Saves
    <2>2. 2 < i
        BY <1>1, <2>1
    <2> QED BY <1>2, <2>2 DEF Fetches
<1> QED BY <1>1, <1>2, <1>3, <1>4, <1>5 DEF Mentions

LEMMA UnlockingConcat ==
    ASSUME NEW s, NEW t, Unlocking(s), t \in Seq(Steps),
           Mentions(t) \cap {"unlock", "fail", "issue", "complete"} = {}
    PROVE  Unlocking(s \o t)
<1> DEFINE u == s \o t
           m == Len(s)
           n == Len(t)
<1>1. s \in Seq(Steps) /\ t \in Seq(Steps) /\ u \in Seq(Steps) /\ m \in Nat /\ n \in Nat
      /\ DOMAIN s = 1..m /\ DOMAIN t = 1..n /\ DOMAIN u = 1..(m + n)
    BY DEF Unlocking
<1>2. \A i \in 1..m : u[i] = s[i]
    BY <1>1
<1>3. \A i \in 1..(m + n) : i \in 1..m \/ (i - m \in 1..n /\ u[i] = t[i - m])
    BY <1>1
<1> HIDE DEF u, m, n
<1>4. 2 \in 1..m /\ 1 \in 1..m /\ s[1] = "unlock" /\ s[2] = "release"
    BY <1>1 DEF Unlocking
<1>5. \A i \in 1..(m + n) : i > 2 => u[i] \notin {"unlock", "fail", "issue", "complete"}
    BY <1>1, <1>2, <1>3 DEF Unlocking, Mentions
<1>6. 2 \in 1..(m + n) /\ u[1] = "unlock" /\ u[2] = "release"
    BY <1>1, <1>2, <1>4
<1>7. Unlocking(u)
    BY <1>1, <1>5, <1>6 DEF Unlocking
<1> QED BY <1>7 DEF u

-----------------------------------------------------------------------------
(* What the lock asks of a step: p goes on with r.                         *)
LEMMA LockGoes ==
    ASSUME SessionsInv, LockInv, NEW p \in Procs, p \in scenario.procs, NEW r, Put(p, r), UNCHANGED scenario,
           barred' \in Nat,
           Serial => Kept(user', barred', now') /\ Guarded(r, user', barred', now')
    PROVE  LockInv'
<1>1. PICK k : k = IF r.todo = <<>> THEN Idle ELSE r
    OBVIOUS
<1>2. procs'[p] = k /\ \A q \in Procs \ {p} : procs'[q] = procs[q]
    BY <1>1 DEF Put, SessionsInv, Flying
<1>3. Serial => Guarded(k, user', barred', now')
    BY <1>1, IdleIsGuarded
<1>4. Serial => \A q \in Procs \ {p} : procs'[q] = Idle
    BY <1>2, OneHandler DEF SessionsInv
<1>5. Serial => \A q \in Procs : Guarded(procs'[q], user', barred', now')
    BY <1>2, <1>3, <1>4, IdleIsGuarded
<1>6. Serial' => Serial
    BY DEF Serial
<1> QED BY <1>5, <1>6 DEF LockInv

(* Rows that are locked as the row that is there, and requests or steps    *)
(* that leave that row and the lock alone.                                 *)
Locked == UNCHANGED <<scenario, now, user, barred>>
LockedAs(row) == row.locked = user.locked /\ (row.status = user.status \/ row.status \notin Unaccepted)

LEMMA LockedAsKept ==
    ASSUME LockInv, Serial, NEW row, LockedAs(row)
    PROVE  Kept(row, barred, now)
    BY DEF LockInv, Kept, LockedAs

LEMMA Unlocked ==
    ASSUME LockInv, RowsInv, Serial, ~(user.locked > now)
    PROVE  ~(barred > now)
<1>1. user.locked \in Nat /\ barred \in Nat /\ now \in Int
    BY DEF LockInv, RowsInv, UserRow
<1> QED BY <1>1 DEF LockInv, Kept

LEMMA LockStarts ==
    ASSUME SessionsInv, LockInv, NEW p \in Procs, p \in scenario.procs, NEW r, Put(p, r), Locked, Plain(r.todo),
           Mentions(r.todo) \cap Saves = {} \/ (Serial => Kept(r.row, barred, now)),
           Mentions(r.todo) \cap {"complete", "issue"} # {} => (Serial => ~(barred > now))
    PROVE  LockInv'
<1>1. "fail" \notin Mentions(r.todo)
    BY DEF Plain
<1>2. Serial => Guarded(r, user, barred, now)
    BY <1>1, PlainIsPaired DEF Guarded
<1>3. Serial => Kept(user, barred, now)
    BY DEF LockInv
<1> QED BY <1>2, <1>3, LockGoes DEF Locked, LockInv

LEMMA LockRests ==
    ASSUME SessionsInv, LockInv, NEW p \in Procs, NEW step, At(p, step),
           NEW r, r.todo = Tail(procs[p].todo), Put(p, r), UNCHANGED <<scenario, now, barred>>,
           Serial => Kept(user', barred, now),
           \/ Serial => Kept(r.row, barred, now)
           \/ r.row = procs[p].row /\ step \notin Fetches
           \/ step = "unlock"
    PROVE  LockInv'
<1> DEFINE s == procs[p].todo
<1>1. p \in scenario.procs /\ s \in Seq(Steps) /\ s # <<>> /\ Head(s) = step
    BY RestHas DEF SessionsInv, Flying, Handler, At
<1>2. Mentions(s) = {step} \cup Mentions(Tail(s))
    BY <1>1, TailOf
<1>3. ASSUME Serial PROVE Guarded(r, user', barred, now)
    <2>1. Guarded(procs[p], user, barred, now)
        BY <1>3 DEF LockInv
    <2>2. /\ Paired(Tail(s)) /\ (Head(s) \notin Fetches /\ WritesBack(Tail(s)) => WritesBack(s))
          /\ (Head(s) = "unlock" => ~WritesBack(Tail(s))) /\ "fail" \notin Mentions(Tail(s))
        BY <1>1, <2>1, LockTail DEF Guarded
    <2> HIDE DEF s
    <2>3. WritesBack(r.todo) => Kept(r.row, barred, now)
        BY <1>1, <1>3, <2>1, <2>2 DEF Guarded, s
    <2> QED BY <1>2, <2>1, <2>2, <2>3 DEF Guarded, s
<1>4. barred' \in Nat
    BY DEF LockInv
<1> QED BY <1>1, <1>3, <1>4, LockGoes

LEMMA LockEnds ==
    ASSUME SessionsInv, LockInv, NEW p \in Procs, procs[p] # Idle, Put(p, Idle), UNCHANGED <<scenario, now, barred>>,
           Serial => Kept(user', barred, now)
    PROVE  LockInv'
<1>1. p \in scenario.procs /\ barred' \in Nat
    BY DEF SessionsInv, Flying, LockInv
<1> QED BY <1>1, IdleIsGuarded, LockGoes

(* The rows the handlers hold and make.                                    *)
LEMMA LockGo ==
    ASSUME SessionsInv, RowsInv, LockInv, NEW p \in Procs, p \in scenario.procs, NEW todo, NEW row,
           Go(p, todo, row), Locked, Plain(todo), Mentions(todo) \cap Saves = {} \/ LockedAs(row),
           Mentions(todo) \cap {"complete", "issue"} # {} => ~(user.locked > now)
    PROVE  LockInv'
<1> DEFINE r == [Idle EXCEPT !.todo = todo, !.row = row]
<1>1. r.todo = todo /\ r.row = row
    BY DEF Idle
<1>2. Put(p, r)
    BY DEF Go
<1> HIDE DEF r
<1>3. LockedAs(row) => (Serial => Kept(r.row, barred, now))
    BY <1>1, LockedAsKept
<1> QED BY <1>1, <1>2, <1>3, LockStarts, Unlocked

LEMMA LockInit == Init => LockInv
<1> SUFFICES ASSUME Init PROVE LockInv
    OBVIOUS
<1>1. barred = 0 /\ now = 1 /\ procs = [p \in Procs |-> Idle]
    BY DEF Init
<1> QED BY <1>1, IdleIsGuarded DEF LockInv, Kept

(* Programs that write back nothing, and those that write back a row.      *)
Reading == Steps \ (Saves \cup {"unlock", "fail", "complete", "issue"})
Writing == Steps \ {"unlock", "fail", "complete", "issue"}
Reads(todo) == todo \in Seq(Steps) /\ Mentions(todo) \subseteq Reading
Writes(todo) == todo \in Seq(Steps) /\ Mentions(todo) \subseteq Writing

LEMMA LockSteps ==
    /\ {"load", "release", "accept", "resetLoad", "consume", "burn", "voidInvite", "newInvite", "voidReset",
        "newReset", "rotate", "context", "read", "store", "enter", "find", "revoke", "revokeFamily", "deny",
        "changed", "invalidate", "saveRole", "holders", "drop", "removeRole"} \subseteq Reading
    /\ {"spend", "save", "regenerate", "password", "clear"} \cup Reading \subseteq Writing
    /\ Reading \subseteq Steps /\ Writing \subseteq Steps
    BY DEF Reading, Writing, Steps, Saves

LEMMA LockLists ==
    /\ \A x \in Reading : Reads(<<x>>)
    /\ \A x, y \in Reading : Reads(<<x, y>>)
    /\ \A x, y, z \in Reading : Reads(<<x, y, z>>)
    /\ \A x \in Writing : Writes(<<x>>)
    /\ \A x, y \in Writing : Writes(<<x, y>>)
<1>1. \A x \in Steps : <<x>> \in Seq(Steps) /\ Mentions(<<x>>) = {x}
    BY Lists
<1>2. \A x, y \in Steps : <<x, y>> \in Seq(Steps) /\ Mentions(<<x, y>>) = {x, y}
    BY Lists
<1>3. \A x, y, z \in Steps : <<x, y, z>> \in Seq(Steps) /\ Mentions(<<x, y, z>>) = {x, y, z}
    BY Lists
<1> QED BY <1>1, <1>2, <1>3, LockSteps DEF Reads, Writes

LEMMA WritesConcat ==
    ASSUME NEW s, NEW t, Writes(s), Writes(t)
    PROVE  Writes(s \o t)
<1>1. s \in Seq(Steps) /\ t \in Seq(Steps)
    BY DEF Writes
<1>2. s \o t \in Seq(Steps) /\ Mentions(s \o t) = Mentions(s) \cup Mentions(t)
    BY <1>1, ConcatOf
<1> QED BY <1>2 DEF Writes

LEMMA ReadsIsPlain ==
    ASSUME NEW todo, Reads(todo)
    PROVE  Plain(todo) /\ Mentions(todo) \cap Saves = {} /\ Mentions(todo) \cap {"complete", "issue"} = {}
    BY DEF Reads, Reading, Plain

LEMMA WritesIsPlain ==
    ASSUME NEW todo, Writes(todo)
    PROVE  Plain(todo) /\ Mentions(todo) \cap {"complete", "issue"} = {}
    BY DEF Writes, Writing, Plain

LEMMA LockPrograms ==
    /\ Reads(RevokeAll) /\ Reads(RevokeFamily) /\ Writes(ApplyNewPassword)
    /\ Writes(<<"consume", "burn">> \o ApplyNewPassword)
    /\ Writes(<<"spend">> \o (<<"consume", "burn">> \o ApplyNewPassword))
    /\ \A type \in {"INVITE", "PASSWORD_RESET"} : Reads(IssueOneTime(type))
<1>1. Reads(RevokeAll) /\ Reads(RevokeFamily)
    BY LockSteps, LockLists DEF RevokeAll, RevokeFamily
<1>2. Writes(RevokeAll)
    BY <1>1, LockSteps DEF Reads, Writes
<1>3. Writes(<<"password">>) /\ Writes(<<"changed">>) /\ Writes(<<"consume", "burn">>) /\ Writes(<<"spend">>)
    BY LockSteps, LockLists
<1>4. Writes(ApplyNewPassword)
    BY <1>2, <1>3, WritesConcat DEF ApplyNewPassword
<1>5. Writes(<<"consume", "burn">> \o ApplyNewPassword)
    BY <1>3, <1>4, WritesConcat
<1>6. Writes(<<"spend">> \o (<<"consume", "burn">> \o ApplyNewPassword))
    BY <1>3, <1>5, WritesConcat
<1>7. ASSUME NEW type \in {"INVITE", "PASSWORD_RESET"} PROVE Reads(IssueOneTime(type))
    BY LockSteps, LockLists DEF IssueOneTime, Void, New
<1> QED BY <1>1, <1>4, <1>5, <1>6, <1>7

LEMMA RecoverUnlocks ==
    ASSUME NEW setPassword \in BOOLEAN
    PROVE  Unlocking(<<"unlock", "release", "load", "clear", "invalidate">> \o RevokeAll
                     \o (IF setPassword THEN <<"load">> \o ApplyNewPassword ELSE <<>>)
                     \o <<"invalidate">>)
<1> DEFINE a == <<"unlock", "release", "load", "clear", "invalidate">>
           x == IF setPassword THEN <<"load">> \o ApplyNewPassword ELSE <<>>
           z == <<"invalidate">>
<1>1. Unlocking(a)
    <2>1. a \in Seq(Steps)
        BY DEF Steps
    <2>2. DOMAIN a = 1..5 /\ a[1] = "unlock" /\ a[2] = "release" /\ a[3] = "load" /\ a[4] = "clear"
          /\ a[5] = "invalidate"
        OBVIOUS
    <2> HIDE DEF a
    <2> QED BY <2>1, <2>2 DEF Unlocking
<1>2. Writes(x)
    <2>1. Writes(<<"load">>)
        BY LockSteps, LockLists
    <2>2. Writes(<<"load">> \o ApplyNewPassword)
        BY <2>1, LockPrograms, WritesConcat
    <2>3. Writes(<<>>)
        BY DEF Writes, Mentions
    <2> QED BY <2>2, <2>3
<1>3. Writes(z)
    BY LockSteps, LockLists
<1> HIDE DEF a, x, z
<1>4. \A t : Writes(t) => t \in Seq(Steps) /\ Mentions(t) \cap {"unlock", "fail", "issue", "complete"} = {}
    BY DEF Writes, Writing
<1>5. Writes(RevokeAll)
    BY LockPrograms, LockSteps DEF Reads, Writes
<1>6. Unlocking(a \o RevokeAll)
    BY <1>1, <1>4, <1>5, UnlockingConcat
<1>7. Unlocking((a \o RevokeAll) \o x)
    BY <1>2, <1>4, <1>6, UnlockingConcat
<1>8. Unlocking(((a \o RevokeAll) \o x) \o z)
    BY <1>3, <1>4, <1>7, UnlockingConcat
<1> QED BY <1>8 DEF a, x, z

-----------------------------------------------------------------------------
(* The requests.                                                           *)
LEMMA LockGoReads ==
    ASSUME SessionsInv, RowsInv, LockInv, NEW p \in Procs, p \in scenario.procs, NEW todo, NEW row,
           Go(p, todo, row), Locked, Reads(todo)
    PROVE  LockInv'
    BY ReadsIsPlain, LockGo

LEMMA LockGoWrites ==
    ASSUME SessionsInv, RowsInv, LockInv, NEW p \in Procs, p \in scenario.procs, NEW todo, NEW row,
           Go(p, todo, row), Locked, Writes(todo), LockedAs(row)
    PROVE  LockInv'
    BY WritesIsPlain, LockGo

(* A failing attempt is about an account that has been accepted.           *)
LEMMA LockFails ==
    ASSUME SessionsInv, LockInv, NEW p \in Procs, p \in scenario.procs, Go(p, <<"fail">>, NoUser), Locked,
           user.status \notin Unaccepted
    PROVE  LockInv'
<1> DEFINE r == [Idle EXCEPT !.todo = <<"fail">>, !.row = NoUser]
<1>1. r.todo = <<"fail">> /\ Put(p, r)
    BY DEF Idle, Go
<1> HIDE DEF r
<1>2. "fail" \in Steps
    BY DEF Steps
<1>3. Mentions(r.todo) = {"fail"} /\ DOMAIN r.todo = {1} /\ r.todo[1] = "fail"
    BY <1>1, <1>2, Lists
<1>4. Paired(r.todo) /\ ~WritesBack(r.todo)
    BY <1>3 DEF Paired, WritesBack, Saves
<1>5. Guarded(r, user, barred, now)
    BY <1>3, <1>4 DEF Guarded
<1> QED BY <1>1, <1>5, LockGoes DEF Locked, LockInv

LEMMA SpentIsLockedAs ==
    ASSUME user \in UserRow, NEW code
    PROVE  LockedAs(Spent(user, code))
    BY DEF Spent, LockedAs, UserRow

LEMMA LockSpends ==
    ASSUME SessionsInv, RowsInv, LockInv, NEW p \in Procs, p \in scenario.procs, NEW todo, NEW code,
           GoSpending(p, code, todo), Locked, Plain(todo),
           Mentions(todo) \cap {"complete", "issue"} # {} => ~(user.locked > now)
    PROVE  LockInv'
<1> DEFINE l == <<"spend">> \o todo
           r == [Idle EXCEPT !.todo = l, !.row = Spent(user, code), !.code = code]
<1>1. r.todo = l /\ r.row = Spent(user, code)
    BY DEF Idle
<1>2. Put(p, r)
    BY DEF GoSpending
<1>3. "spend" \in Steps
    BY DEF Steps
<1>4. Plain(<<"spend">>) /\ Mentions(<<"spend">>) = {"spend"}
    BY <1>3, Lists DEF Plain
<1>5. Plain(l) /\ Mentions(l) = {"spend"} \cup Mentions(todo)
    BY <1>4, PlainConcat
<1> HIDE DEF l, r
<1>6. Serial => Kept(r.row, barred, now)
    BY <1>1, SpentIsLockedAs, LockedAsKept DEF RowsInv
<1>7. Mentions(l) \cap {"complete", "issue"} # {} => (Serial => ~(barred > now))
    BY <1>5, Unlocked
<1> QED BY <1>1, <1>2, <1>5, <1>6, <1>7, LockStarts

LEMMA LockPut ==
    ASSUME SessionsInv, LockInv, NEW p \in Procs, p \in scenario.procs, NEW r, Put(p, r), Locked, Reads(r.todo)
    PROVE  LockInv'
    BY ReadsIsPlain, LockStarts

LEMMA LockStays ==
    ASSUME LockInv, UNCHANGED <<scenario, user, barred, procs, now>>
    PROVE  LockInv'
    BY DEF LockInv, Serial

LEMMA AskLock ==
    ASSUME SessionsInv, RowsInv, LockInv, AcceptedFirst, NEW p \in Procs, Ask(p)
    PROVE  LockInv'
<1> DEFINE Begun == p \in scenario.procs /\ Locked
<1>a. user \in UserRow /\ LockedAs(user)
    BY DEF RowsInv, LockedAs
<1>b. Plain(<<"complete", "issue">>)
    <2>1. {"complete", "issue"} \subseteq Steps
        BY DEF Steps
    <2> QED BY <2>1, Lists DEF Plain
<1>c. /\ Writes(<<"save">>) /\ Writes(<<"save", "invalidate">>) /\ Writes(<<"clear", "invalidate">>)
      /\ Writes(<<"regenerate">>) /\ Writes(<<"spend", "invalidate">>)
    BY LockSteps, LockLists
<1>d. /\ Reads(<<"rotate", "context", "enter">>) /\ Reads(<<"burn", "accept">>) /\ Reads(<<"resetLoad">>)
      /\ Reads(<<"release">>) /\ Reads(<<"context">>) /\ Reads(<<"saveRole", "holders", "drop">>)
      /\ Reads(<<"holders", "drop", "removeRole">>)
    BY LockSteps, LockLists
<1>e. ASSUME NEW todo, Reads(todo), NEW t, Put(p, [Idle EXCEPT !.todo = todo, !.token = t]), Begun PROVE LockInv'
    <2> DEFINE r == [Idle EXCEPT !.todo = todo, !.token = t]
    <2>1. r.todo = todo
        BY DEF Idle
    <2>2. Put(p, r)
        BY <1>e
    <2> HIDE DEF r
    <2> QED BY <1>e, <2>1, <2>2, LockPut
<1>f. ASSUME NEW fs, Put(p, [Idle EXCEPT !.todo = RevokeFamily, !.families = fs]), Begun PROVE LockInv'
    <2> DEFINE r == [Idle EXCEPT !.todo = RevokeFamily, !.families = fs]
    <2>1. r.todo = RevokeFamily
        BY DEF Idle
    <2>2. Put(p, r)
        BY <1>f
    <2> HIDE DEF r
    <2> QED BY <1>f, <2>1, <2>2, LockPrograms, LockPut
<1>g. ASSUME NEW todo, Writes(todo), NEW code, GoSpending(p, code, todo), Begun PROVE LockInv'
    BY <1>g, WritesIsPlain, LockSpends
<1>1. CASE Login(p)
    <2>1. Begun /\ user.password /\ ~(user.locked > now)
        BY <1>1 DEF Login, MayStart, IsLocked, Locked, rows, redis, history
    <2>2. CASE Go(p, <<"fail">>, NoUser)
        BY <2>1, <2>2, LockFails DEF AcceptedFirst
    <2>3. CASE Go(p, <<"complete", "issue">>, user)
        BY <1>a, <1>b, <2>1, <2>3, LockGo
    <2>4. CASE UNCHANGED procs
        BY <2>1, <2>4, LockStays DEF Locked
    <2> QED BY <1>1, <2>2, <2>3, <2>4 DEF Login
<1>2. CASE VerifyMfa(p)
    <2>1. Begun /\ user.status \notin Unaccepted /\ ~(user.locked > now)
        BY <1>2 DEF VerifyMfa, MayStart, IsLocked, CanLogin, Unaccepted, Locked, rows, redis, clients, history
    <2>2. CASE Go(p, <<"fail">>, NoUser)
        BY <2>1, <2>2, LockFails
    <2>3. ASSUME NEW code, GoSpending(p, code, <<"complete", "issue">>) PROVE LockInv'
        BY <1>b, <2>1, <2>3, LockSpends
    <2> QED BY <1>2, <2>2, <2>3 DEF VerifyMfa
<1>3. CASE Refresh(p)
    <2>1. Begun
        BY <1>3 DEF Refresh, MayStart, Locked, rows, redis, clients, history
    <2>2. PICK t \in 1..Len(tokens) :
            \/ Put(p, [Idle EXCEPT !.todo = RevokeFamily, !.families = {tokens[t].family}])
            \/ Put(p, [Idle EXCEPT !.todo = <<"rotate", "context", "enter">>, !.token = t])
        BY <1>3 DEF Refresh
    <2> QED BY <1>d, <1>e, <1>f, <2>1, <2>2
<1>4. CASE Logout(p)
    <2>1. Begun
        BY <1>4 DEF Logout, MayStart, Locked, rows, redis, clients, history
    <2>2. PICK t \in 1..Len(tokens) :
            Put(p, [Idle EXCEPT !.todo = RevokeFamily, !.families = {tokens[t].family}])
        BY <1>4 DEF Logout
    <2> QED BY <1>f, <2>1, <2>2
<1>5. CASE LogoutAll(p)
    <2>1. Begun /\ Go(p, RevokeAll, NoUser)
        BY <1>5 DEF LogoutAll, MayStart, Locked, rows, redis, clients, history
    <2> QED BY <2>1, LockPrograms, LockGoReads
<1>6. CASE Invite(p)
    <2>1. p \in scenario.procs /\ Go(p, IssueOneTime("INVITE"), NoUser) /\ UNCHANGED <<scenario, now, barred>>
        BY <1>6 DEF Invite, MayStart, redis, clients, history
    <2>2. CASE UNCHANGED user
        BY <2>1, <2>2, LockPrograms, LockGoReads DEF Locked
    <2>3. CASE user.status = "NONE"
        <3>1. Serial => ~(barred > now)
            BY <2>3 DEF LockInv, Kept, Unaccepted
        <3> DEFINE todo == IssueOneTime("INVITE")
                   r == [Idle EXCEPT !.todo = todo, !.row = NoUser]
        <3>2. r.todo = todo /\ Put(p, r)
            BY <2>1 DEF Idle, Go
        <3>3. Reads(todo)
            BY LockPrograms
        <3> HIDE DEF todo, r
        <3>4. Paired(r.todo) /\ ~WritesBack(r.todo) /\ "fail" \notin Mentions(r.todo)
            BY <3>2, <3>3, ReadsIsPlain, PlainIsPaired DEF Plain
        <3>5. Serial => Kept(user', barred, now) /\ Guarded(r, user', barred, now)
            BY <3>1, <3>4 DEF Kept, Guarded
        <3> QED BY <2>1, <3>2, <3>5, LockGoes DEF LockInv
    <2> QED BY <1>6, <2>2, <2>3 DEF Invite
<1>7. CASE AcceptInvite(p)
    <2>1. Begun
        BY <1>7 DEF AcceptInvite, MayStart, Locked, rows, redis, clients, history
    <2>2. PICK t \in 1..Len(oneTime) : Put(p, [Idle EXCEPT !.todo = <<"burn", "accept">>, !.token = t])
        BY <1>7 DEF AcceptInvite
    <2> QED BY <1>d, <1>e, <2>1, <2>2
<1>8. CASE RequestPasswordReset(p)
    <2>1. Begun /\ Go(p, IssueOneTime("PASSWORD_RESET"), NoUser)
        BY <1>8 DEF RequestPasswordReset, MayStart, Locked, rows, redis, clients, history
    <2> QED BY <2>1, LockPrograms, LockGoReads
<1>9. CASE ResetPassword(p)
    <2>1. Begun
        BY <1>9 DEF ResetPassword, MayStart, Locked, rows, redis, clients, history
    <2>2. PICK t \in 1..Len(oneTime) : Put(p, [Idle EXCEPT !.todo = <<"resetLoad">>, !.token = t])
        BY <1>9 DEF ResetPassword
    <2> QED BY <1>d, <1>e, <2>1, <2>2
<1>10. CASE ChangePassword(p)
    <2>1. Begun /\ Go(p, ApplyNewPassword, user)
        BY <1>10 DEF ChangePassword, MayStart, Locked, rows, redis, clients, history
    <2> QED BY <1>a, <2>1, LockPrograms, LockGoWrites
<1>11. CASE RecoverAccount(p)
    <2>1. Begun
        BY <1>11 DEF RecoverAccount, MayStart, Locked, rows, redis, clients, history
    <2>2. PICK setPassword \in BOOLEAN :
            Go(p, <<"unlock", "release", "load", "clear", "invalidate">> \o RevokeAll
                  \o (IF setPassword THEN <<"load">> \o ApplyNewPassword ELSE <<>>)
                  \o <<"invalidate">>, NoUser)
        BY <1>11 DEF RecoverAccount
    <2> DEFINE todo == <<"unlock", "release", "load", "clear", "invalidate">> \o RevokeAll
                       \o (IF setPassword THEN <<"load">> \o ApplyNewPassword ELSE <<>>)
                       \o <<"invalidate">>
               r == [Idle EXCEPT !.todo = todo, !.row = NoUser]
    <2>3. Unlocking(todo)
        BY RecoverUnlocks
    <2>4. Put(p, r)
        BY <2>2 DEF Go
    <2> HIDE DEF todo
    <2>5. r.todo = todo
        BY DEF Idle
    <2> HIDE DEF r
    <2>6. Guarded(r, user, barred, now)
        BY <2>3, <2>5, UnlockingIs DEF Guarded
    <2> QED BY <2>1, <2>4, <2>6, LockGoes DEF Locked, LockInv
<1>12. CASE BeginSetup(p)
    <2>1. Begun /\ Go(p, <<"save">>, [user EXCEPT !.secret = secrets'])
        BY <1>12 DEF BeginSetup, MayStart, Locked, redis, clients, history
    <2>2. LockedAs([user EXCEPT !.secret = secrets'])
        BY <1>a DEF LockedAs, UserRow
    <2> QED BY <1>c, <2>1, <2>2, LockGoWrites
<1>13. CASE Enable(p)
    <2>1. Begun
        BY <1>13 DEF Enable, MayStart, Locked, redis, clients, history
    <2>2. PICK s \in (now - Window)..(now + Window) :
            Put(p, [Idle EXCEPT !.todo = <<"spend", "invalidate">>, !.code = <<"totp", user.secret, s>>,
                        !.row = [user EXCEPT !.mfa = TRUE, !.lastStep = s, !.codes = {secrets'}]])
        BY <1>13 DEF Enable
    <2> DEFINE row == [user EXCEPT !.mfa = TRUE, !.lastStep = s, !.codes = {secrets'}]
               r == [Idle EXCEPT !.todo = <<"spend", "invalidate">>, !.code = <<"totp", user.secret, s>>, !.row = row]
    <2>3. LockedAs(row)
        BY <1>a DEF LockedAs, UserRow
    <2>4. Put(p, r)
        BY <2>2
    <2> HIDE DEF row
    <2>5. r.todo = <<"spend", "invalidate">> /\ r.row = row
        BY DEF Idle
    <2> HIDE DEF r
    <2>6. Serial => Kept(r.row, barred, now)
        BY <2>3, <2>5, LockedAsKept
    <2> QED BY <1>c, <2>1, <2>4, <2>5, <2>6, WritesIsPlain, LockStarts
<1>14. CASE RegenerateRecoveryCodes(p)
    <2>1. Begun
        BY <1>14 DEF RegenerateRecoveryCodes, MayStart, Locked, redis, clients, history
    <2>2. PICK code \in VerifyTotp(user) : GoSpending(p, code, <<"regenerate">>)
        BY <1>14 DEF RegenerateRecoveryCodes
    <2> QED BY <1>c, <1>g, <2>1, <2>2
<1>15. CASE Disable(p)
    <2>1. Begun
        BY <1>15 DEF Disable, MayStart, Locked, rows, redis, clients, history
    <2>2. PICK code \in Verify(user) : GoSpending(p, code, <<"clear", "invalidate">>)
        BY <1>15 DEF Disable
    <2> QED BY <1>c, <1>g, <2>1, <2>2
<1>16. CASE ResetMfa(p)
    <2>1. Begun /\ Go(p, <<"clear", "invalidate">>, user)
        BY <1>16 DEF ResetMfa, MayStart, Locked, rows, redis, clients, history
    <2> QED BY <1>a, <1>c, <2>1, LockGoWrites
<1>17. CASE EditUser(p)
    <2>1. Begun
        BY <1>17 DEF EditUser, MayStart, Locked, rows, redis, clients, history
    <2>2. CASE Go(p, <<"save">>, user)
        BY <1>a, <1>c, <2>1, <2>2, LockGoWrites
    <2>3. ASSUME NEW rs, Go(p, <<"save", "invalidate">>, [user EXCEPT !.roles = rs])
          PROVE  LockInv'
        <3>1. LockedAs([user EXCEPT !.roles = rs])
            BY <1>a DEF LockedAs, UserRow
        <3> QED BY <1>c, <2>1, <2>3, <3>1, LockGoWrites
    <2>4. ASSUME NEW status \in {"ACTIVE", "SUSPENDED"},
                 Go(p, <<"save", "invalidate">>, [user EXCEPT !.status = status])
          PROVE  LockInv'
        <3>1. LockedAs([user EXCEPT !.status = status])
            BY <1>a DEF LockedAs, UserRow, Unaccepted
        <3> QED BY <1>c, <2>1, <2>4, <3>1, LockGoWrites
    <2>5. CASE Go(p, <<"release">>, [user EXCEPT !.attempts = 0, !.locked = 0])
        BY <1>d, <2>1, <2>5, LockGoReads
    <2> QED BY <1>17, <2>2, <2>3, <2>4, <2>5 DEF EditUser
<1>18. CASE EditRole(p)
    <2>1. Begun
        BY <1>18 DEF EditRole, MayStart, Locked, redis, clients, history
    <2>2. CASE UNCHANGED procs
        BY <2>1, <2>2, LockStays DEF Locked
    <2>3. ASSUME NEW r, NEW perms,
                 Put(p, [Idle EXCEPT !.todo = <<"saveRole", "holders", "drop">>, !.role = r, !.perms = perms])
          PROVE  LockInv'
        <3> DEFINE h == [Idle EXCEPT !.todo = <<"saveRole", "holders", "drop">>, !.role = r, !.perms = perms]
        <3>1. h.todo = <<"saveRole", "holders", "drop">> /\ Put(p, h)
            BY <2>3 DEF Idle
        <3> HIDE DEF h
        <3> QED BY <1>d, <2>1, <3>1, LockPut
    <2>4. ASSUME NEW r, Put(p, [Idle EXCEPT !.todo = <<"holders", "drop", "removeRole">>, !.role = r])
          PROVE  LockInv'
        <3> DEFINE h == [Idle EXCEPT !.todo = <<"holders", "drop", "removeRole">>, !.role = r]
        <3>1. h.todo = <<"holders", "drop", "removeRole">> /\ Put(p, h)
            BY <2>4 DEF Idle
        <3> HIDE DEF h
        <3> QED BY <1>d, <2>1, <3>1, LockPut
    <2> QED BY <1>18, <2>2, <2>3, <2>4 DEF EditRole
<1>19. CASE Request(p)
    <2>1. Begun /\ Go(p, <<"context">>, NoUser)
        BY <1>19 DEF Request, MayStart, Locked, rows, redis, clients, history
    <2> QED BY <1>d, <2>1, LockGoReads
<1> QED BY <1>1, <1>2, <1>3, <1>4, <1>5, <1>6, <1>7, <1>8, <1>9, <1>10, <1>11, <1>12, <1>13, <1>14, <1>15,
           <1>16, <1>17, <1>18, <1>19 DEF Ask

-----------------------------------------------------------------------------
(* The steps.                                                              *)
LEMMA SaveUserLock ==
    ASSUME SessionsInv, RowsInv, LockInv, NEW p \in Procs, SaveUser(p)
    PROVE  LockInv'
<1>1. PICK step \in {"save", "spend", "release", "complete", "password", "clear", "regenerate"} :
        /\ At(p, step)
        /\ \/ /\ Written(step, procs[p].row).roles \subseteq Existing
              /\ user' = Written(step, procs[p].row)
              /\ Put(p, [Rest(p) EXCEPT !.row = Written(step, procs[p].row)])
              /\ barred' = IF step = "release" THEN 0 ELSE barred
           \/ /\ Put(p, Idle)
              /\ UNCHANGED <<user, barred>>
    BY DEF SaveUser
<1>2. UNCHANGED <<scenario, now>>
    BY DEF SaveUser
<1> DEFINE old == procs[p].row
           row == Written(step, old)
           r == [Rest(p) EXCEPT !.row = row]
           s == procs[p].todo
<1>3. p \in scenario.procs /\ procs[p] # Idle /\ s \in Seq(Steps) /\ s # <<>> /\ Head(s) = step
    <2>1. procs[p].todo # <<>>
        BY <1>1 DEF At
    <2> QED BY <1>1, <2>1, IdleHas, RestHas DEF SessionsInv, Flying, Handler, At
<1>4. r.todo = Tail(s) /\ r.row = row
    BY <1>1, RestHas DEF SessionsInv, Fields
<1>5. CASE Put(p, Idle) /\ UNCHANGED <<user, barred>>
    <2>1. Serial => Kept(user', barred, now)
        BY <1>5 DEF LockInv
    <2> QED BY <1>2, <1>3, <1>5, <2>1, LockEnds
<1>6. ASSUME user' = row, Put(p, r), step # "release", UNCHANGED barred PROVE LockInv'
    <2>1. ASSUME Serial PROVE Kept(row, barred, now)
        <3>1. Guarded(procs[p], user, barred, now)
            BY <2>1 DEF LockInv
        <3>2. Kept(old, barred, now)
            <4>1. WritesBack(s)
                BY <1>3, <1>6, <3>1, LockTail DEF Guarded, Saves
            <4> QED BY <3>1, <4>1 DEF Guarded
        <3>3. old \in UserRow
            BY DEF RowsInv, Typed
        <3> HIDE DEF old
        <3>4. CASE step = "complete"
            <4>1. step \in Mentions(s)
                BY <1>3, TailOf
            <4>2. ~(barred > now)
                BY <3>1, <3>4, <4>1 DEF Guarded
            <4> QED BY <4>2 DEF Kept
        <3>5. CASE step # "complete"
            <4>1. row.locked = old.locked /\ row.status = old.status
                BY <1>6, <3>3, <3>5 DEF Written, Cleared, UserRow
            <4> QED BY <3>2, <4>1 DEF Kept
        <3> QED BY <3>4, <3>5
    <2> HIDE DEF row, r
    <2> QED BY <1>1, <1>2, <1>4, <1>6, <2>1, LockRests
<1>7. ASSUME Put(p, r), step = "release", barred' = 0 PROVE LockInv'
    <2>1. ~(0 > now) /\ 0 \in Nat
        BY DEF RowsInv
    <2>2. ASSUME Serial PROVE Kept(user', barred', now') /\ Guarded(r, user', barred', now')
        <3>1. Guarded(procs[p], user, barred, now)
            BY <2>2 DEF LockInv
        <3>2. Paired(Tail(s)) /\ "fail" \notin Mentions(Tail(s))
            BY <1>3, <3>1, LockTail DEF Guarded
        <3> HIDE DEF r, s
        <3> QED BY <1>2, <1>4, <1>7, <2>1, <3>2 DEF Kept, Guarded
    <2> HIDE DEF r
    <2> QED BY <1>2, <1>3, <1>7, <2>1, <2>2, LockGoes
<1> QED BY <1>1, <1>5, <1>6, <1>7

(* The failure that locks the login is recorded in the row.                *)
LEMMA RecordFailedLoginLock ==
    ASSUME SessionsInv, RowsInv, LockInv, NEW p \in Procs, RecordFailedLogin(p)
    PROVE  LockInv'
<1> DEFINE s == procs[p].todo
<1>1. At(p, "fail") /\ Put(p, Rest(p)) /\ UNCHANGED <<scenario, now>>
    BY DEF RecordFailedLogin, redis, clients
<1>2. p \in scenario.procs /\ s \in Seq(Steps) /\ s # <<>> /\ Head(s) = "fail" /\ Rest(p).todo = Tail(s)
    BY <1>1, RestHas DEF SessionsInv, Flying, Handler, At
<1>3. user \in UserRow /\ now \in Nat /\ now + LockTime \in Nat /\ barred \in Nat
    BY RowConstants DEF RowsInv, LockInv
<1>4. barred' \in Nat
    BY <1>3 DEF RecordFailedLogin
<1>5. ASSUME Serial PROVE Kept(user', barred', now') /\ Guarded(Rest(p), user', barred', now')
    <2>1. Guarded(procs[p], user, barred, now)
        BY <1>5 DEF LockInv
    <2>2. Tail(s) = <<>> /\ "fail" \in Mentions(s)
        BY <1>2, <2>1, LockTail, TailOf DEF Guarded
    <2>3. user.status \notin Unaccepted
        BY <2>1, <2>2 DEF Guarded
    <2>4. Kept(user', barred', now)
        <3>1. CASE user.attempts + 1 >= MaxAttempts
            <4>1. user'.locked = now + LockTime /\ user'.status = user.status /\ barred' = now + LockTime
                BY <1>3, <3>1 DEF RecordFailedLogin, UserRow
            <4> QED BY <1>3, <2>3, <4>1 DEF Kept
        <3>2. CASE ~(user.attempts + 1 >= MaxAttempts)
            <4>1. user'.locked = user.locked /\ user'.status = user.status /\ barred' = barred
                BY <1>3, <3>2 DEF RecordFailedLogin, UserRow
            <4> QED BY <1>5, <4>1 DEF Kept, LockInv
        <3> QED BY <3>1, <3>2
    <2>5. Rest(p).todo = <<>>
        BY <1>2, <2>2
    <2>6. Mentions(Rest(p).todo) = {} /\ DOMAIN Rest(p).todo = {}
        BY <2>5 DEF Mentions
    <2> QED BY <1>1, <2>4, <2>6 DEF Guarded, Paired, WritesBack
<1> QED BY <1>1, <1>2, <1>4, <1>5, LockGoes

(* Steps that leave the row and the lock alone.                            *)
LEMMA LockRest ==
    ASSUME SessionsInv, LockInv, NEW p \in Procs, NEW step, At(p, step), step \notin {"fail"} \cup Fetches,
           NEW r, r.todo = Tail(procs[p].todo), r.row = procs[p].row, Put(p, r), Locked
    PROVE  LockInv'
<1>1. Serial => Kept(user', barred, now)
    BY DEF LockInv, Locked
<1> QED BY <1>1, LockRests DEF Locked

LEMMA LockStops ==
    ASSUME SessionsInv, LockInv, NEW p \in Procs, procs[p] # Idle, Put(p, Idle), Locked
    PROVE  LockInv'
<1>1. Serial => Kept(user', barred, now)
    BY DEF LockInv, Locked
<1> QED BY <1>1, LockEnds DEF Locked

LEMMA ReloadLock ==
    ASSUME SessionsInv, RowsInv, LockInv, NEW p \in Procs, Reload(p)
    PROVE  LockInv'
<1>1. Locked
    BY DEF Reload, Locked, rows, redis, clients, history
<1>2. user \in UserRow /\ DOMAIN procs[p] = Fields /\ (Serial => Kept(user, barred, now))
    BY DEF RowsInv, SessionsInv, Flying, Handler, LockInv
<1>3. \A step : At(p, step) => p \in scenario.procs /\ procs[p] # Idle
    BY RestHas, IdleHas DEF SessionsInv, At
<1>4. CASE At(p, "load") /\ Put(p, [Rest(p) EXCEPT !.row = user])
    <2> DEFINE r == [Rest(p) EXCEPT !.row = user]
    <2>1. r.todo = Tail(procs[p].todo) /\ r.row = user /\ Put(p, r)
        BY <1>4, RestHas DEF SessionsInv, Fields
    <2> HIDE DEF r
    <2> QED BY <1>1, <1>2, <1>4, <2>1, LockRests DEF Locked
<1>5. CASE At(p, "unlock") /\ Put(p, [Rest(p) EXCEPT !.row = [user EXCEPT !.attempts = 0, !.locked = 0]])
    <2> DEFINE r == [Rest(p) EXCEPT !.row = [user EXCEPT !.attempts = 0, !.locked = 0]]
    <2>1. r.todo = Tail(procs[p].todo) /\ Put(p, r)
        BY <1>5, RestHas DEF SessionsInv, Fields
    <2> HIDE DEF r
    <2> QED BY <1>1, <1>2, <1>5, <2>1, LockRests DEF Locked
<1>6. CASE /\ At(p, "accept")
           /\ IF user.status = "INVITED"
              THEN Put(p, [procs[p] EXCEPT
                      !.row = [user EXCEPT !.status = "ACTIVE", !.password = TRUE, !.changed = now],
                      !.todo = <<"save", "invalidate", "issue">>])
              ELSE Put(p, Idle)
    <2>1. CASE user.status = "INVITED"
        <3> DEFINE r == [procs[p] EXCEPT
                           !.row = [user EXCEPT !.status = "ACTIVE", !.password = TRUE, !.changed = now],
                           !.todo = <<"save", "invalidate", "issue">>]
        <3>1. r.todo = <<"save", "invalidate", "issue">> /\ Put(p, r)
            BY <1>2, <1>6, <2>1 DEF Fields
        <3> HIDE DEF r
        <3>2. Serial => ~(barred > now)
            BY <1>2, <2>1 DEF Kept, Unaccepted
        <3>3. Plain(r.todo)
            <4>1. {"save", "invalidate", "issue"} \subseteq Steps
                BY DEF Steps
            <4> QED BY <3>1, <4>1, Lists DEF Plain
        <3>4. Serial => Kept(r.row, barred, now)
            BY <3>2 DEF Kept
        <3> QED BY <1>1, <1>3, <1>6, <3>1, <3>2, <3>3, <3>4, LockStarts
    <2>2. CASE user.status # "INVITED"
        BY <1>1, <1>3, <1>6, <2>2, LockStops
    <2> QED BY <2>1, <2>2
<1>7. CASE At(p, "consume") /\ Put(p, IF IsUsable(procs[p].token) THEN Rest(p) ELSE Idle)
    <2>1. CASE Put(p, Rest(p))
        <3>1. Rest(p).todo = Tail(procs[p].todo) /\ Rest(p).row = procs[p].row
            BY <1>2, <1>7, RestHas DEF SessionsInv, Rest, Fields
        <3>2. "consume" \notin {"fail"} \cup Fetches
            BY DEF Fetches
        <3> QED BY <1>1, <1>7, <2>1, <3>1, <3>2, LockRest
    <2>2. CASE Put(p, Idle)
        BY <1>1, <1>3, <1>7, <2>2, LockStops
    <2> QED BY <1>7, <2>1, <2>2
<1> DEFINE rest == <<"consume", "burn">> \o ApplyNewPassword
           after == <<"spend">> \o rest
<1>8. Writes(rest) /\ Writes(after)
    BY LockPrograms
<1>9. ASSUME At(p, "resetLoad"),
             \/ ~CanLogin(user) /\ Put(p, Idle)
             \/ CanLogin(user) /\ ~user.mfa /\ Put(p, [procs[p] EXCEPT !.row = user, !.todo = rest])
             \/ /\ CanLogin(user) /\ user.mfa
                /\ \/ Go(p, <<"fail">>, NoUser)
                   \/ \E code \in Verify(user) :
                        Put(p, [procs[p] EXCEPT !.row = Spent(user, code), !.code = code, !.todo = after])
      PROVE  LockInv'
    <2> HIDE DEF rest, after
    <2>1. CASE Put(p, Idle)
        BY <1>1, <1>3, <1>9, <2>1, LockStops
    <2>2. CASE CanLogin(user) /\ Go(p, <<"fail">>, NoUser)
        BY <1>1, <1>3, <1>9, <2>2, LockFails DEF CanLogin, Unaccepted
    <2>3. CASE Put(p, [procs[p] EXCEPT !.row = user, !.todo = rest])
        <3> DEFINE r == [procs[p] EXCEPT !.row = user, !.todo = rest]
        <3>1. r.todo = rest /\ r.row = user /\ Put(p, r)
            BY <1>2, <2>3 DEF Fields
        <3> HIDE DEF r
        <3> QED BY <1>1, <1>2, <1>3, <1>8, <1>9, <3>1, WritesIsPlain, LockStarts
    <2>4. ASSUME NEW code,
                 Put(p, [procs[p] EXCEPT !.row = Spent(user, code), !.code = code, !.todo = after])
          PROVE  LockInv'
        <3> DEFINE r == [procs[p] EXCEPT !.row = Spent(user, code), !.code = code, !.todo = after]
        <3>1. r.todo = after /\ r.row = Spent(user, code) /\ Put(p, r)
            BY <1>2, <2>4 DEF Fields
        <3> HIDE DEF r
        <3>2. Serial => Kept(r.row, barred, now)
            BY <1>2, <3>1, SpentIsLockedAs, LockedAsKept
        <3> QED BY <1>1, <1>3, <1>8, <1>9, <3>1, <3>2, WritesIsPlain, LockStarts
    <2> QED BY <1>9, <2>1, <2>2, <2>3, <2>4
<1>10. CASE /\ At(p, "resetLoad")
            /\ \/ ~CanLogin(user) /\ Put(p, Idle)
               \/ CanLogin(user) /\ ~user.mfa /\ Put(p, [procs[p] EXCEPT !.row = user, !.todo = rest])
               \/ /\ CanLogin(user) /\ user.mfa
                  /\ \/ Go(p, <<"fail">>, NoUser)
                     \/ \E code \in Verify(user) :
                          Put(p, [procs[p] EXCEPT !.row = Spent(user, code), !.code = code, !.todo = after])
    BY <1>9, <1>10
<1> QED BY <1>4, <1>5, <1>6, <1>7, <1>10 DEF Reload

LEMMA GetAuthUserLock ==
    ASSUME SessionsInv, RowsInv, LockInv, NEW p \in Procs, GetAuthUser(p)
    PROVE  LockInv'
<1> DEFINE s == procs[p].todo
<1>1. Locked /\ At(p, "context") /\ DOMAIN procs[p] = Fields
    BY DEF GetAuthUser, Locked, rows, redis, clients, history, SessionsInv, Flying, Handler
<1>2. CASE Put(p, [Rest(p) EXCEPT !.ctx = cache])
    <2> DEFINE r == [Rest(p) EXCEPT !.ctx = cache]
    <2>1. r.todo = Tail(procs[p].todo) /\ r.row = procs[p].row /\ Put(p, r)
        BY <1>1, <1>2 DEF Rest, Fields
    <2> HIDE DEF r
    <2>2. "context" \notin {"fail"} \cup Fetches
        BY DEF Fetches
    <2> QED BY <1>1, <2>1, <2>2, LockRest
<1>3. CASE Put(p, [Rest(p) EXCEPT !.todo = <<"read", "store">> \o @])
    <2> DEFINE l == <<"read", "store">> \o Tail(s)
               r == [Rest(p) EXCEPT !.todo = l]
    <2>1. r.todo = l /\ r.row = procs[p].row /\ Put(p, r)
        BY <1>1, <1>3 DEF Rest, Fields
    <2>2. p \in scenario.procs /\ s \in Seq(Steps) /\ s # <<>> /\ Head(s) = "context"
        BY <1>1, RestHas DEF SessionsInv, Flying, Handler, At
    <2> HIDE DEF r
    <2>3. ASSUME Serial PROVE Guarded(r, user, barred, now)
        <3>1. Guarded(procs[p], user, barred, now)
            BY <2>3 DEF LockInv
        <3> DEFINE t == Tail(s)
        <3>2. t \in Seq(Steps) /\ Mentions(s) = {"context"} \cup Mentions(t)
            BY <2>2, TailOf
        <3>3. Paired(t) /\ (WritesBack(t) => WritesBack(s)) /\ "fail" \notin Mentions(t)
            BY <2>2, <3>1, LockTail DEF Guarded, Fetches
        <3> HIDE DEF t
        <3>4. Paired(l) /\ (WritesBack(l) => WritesBack(t))
            BY <3>2, <3>3, LockLookup DEF t
        <3>5. {"read", "store"} \subseteq Steps
            BY DEF Steps
        <3>6. <<"read", "store">> \in Seq(Steps) /\ Mentions(<<"read", "store">>) = {"read", "store"}
            BY <3>5, Lists
        <3>7. Mentions(l) = {"read", "store"} \cup Mentions(t)
            BY <3>2, <3>6, ConcatOf DEF t
        <3> HIDE DEF l, s
        <3> QED BY <2>1, <3>1, <3>2, <3>3, <3>4, <3>7 DEF Guarded, s
    <2> HIDE DEF l
    <2>4. Serial => Kept(user, barred, now)
        BY DEF LockInv
    <2> QED BY <1>1, <2>1, <2>2, <2>3, <2>4, LockGoes DEF Locked, LockInv
<1> QED BY <1>2, <1>3 DEF GetAuthUser

LEMMA WriteRoleLock ==
    ASSUME SessionsInv, RowsInv, LockInv, NEW p \in Procs, WriteRole(p)
    PROVE  LockInv'
<1>1. UNCHANGED <<scenario, now, barred>>
    BY DEF WriteRole, clients, history
<1>2. /\ \E step \in {"saveRole", "holders", "drop", "removeRole"} : At(p, step)
      /\ user' = user \/ user' = [user EXCEPT !.roles = @ \ {procs[p].role}]
      /\ Put(p, Rest(p)) \/ (\E x : Put(p, [Rest(p) EXCEPT !.at = x]))
    BY DEF WriteRole
<1>3. user \in UserRow /\ DOMAIN procs[p] = Fields
    BY DEF RowsInv, SessionsInv, Flying, Handler
<1>4. user'.locked = user.locked /\ user'.status = user.status
    BY <1>2, <1>3 DEF UserRow
<1>5. Serial => Kept(user', barred, now)
    BY <1>4 DEF LockInv, Kept
<1>6. PICK step : At(p, step) /\ step \notin {"fail"} \cup Fetches
    BY <1>2 DEF Fetches
<1>7. ASSUME NEW r, r.todo = Tail(procs[p].todo), r.row = procs[p].row, Put(p, r) PROVE LockInv'
    BY <1>1, <1>5, <1>6, <1>7, LockRests
<1>8. CASE Put(p, Rest(p))
    <2>1. Rest(p).todo = Tail(procs[p].todo) /\ Rest(p).row = procs[p].row
        BY <1>3 DEF Rest, Fields
    <2> QED BY <1>7, <1>8, <2>1
<1>9. ASSUME NEW x, Put(p, [Rest(p) EXCEPT !.at = x]) PROVE LockInv'
    <2> DEFINE r == [Rest(p) EXCEPT !.at = x]
    <2>1. r.todo = Tail(procs[p].todo) /\ r.row = procs[p].row /\ Put(p, r)
        BY <1>3, <1>9 DEF Rest, Fields
    <2> HIDE DEF r
    <2> QED BY <1>7, <2>1
<1> QED BY <1>2, <1>8, <1>9

LEMMA OtherLock ==
    ASSUME SessionsInv, RowsInv, LockInv, NEW p \in Procs,
           \/ Issue(p) \/ Rotate(p) \/ Enter(p) \/ Revoke(p) \/ DenySessions(p)
           \/ ReadContext(p) \/ StoreContext(p) \/ Invalidate(p) \/ WriteOneTime(p)
    PROVE  LockInv'
<1>1. Locked
    BY DEF Issue, Rotate, Enter, Revoke, DenySessions, ReadContext, StoreContext, Invalidate, WriteOneTime, Locked,
           rows, redis, clients, history
<1>2. DOMAIN procs[p] = Fields
    BY DEF SessionsInv, Flying, Handler
<1>3. ASSUME NEW step, At(p, step), step \notin {"fail"} \cup Fetches, Put(p, Rest(p)) PROVE LockInv'
    <2>1. Rest(p).todo = Tail(procs[p].todo) /\ Rest(p).row = procs[p].row
        BY <1>2 DEF Rest, Fields
    <2> QED BY <1>1, <1>3, <2>1, LockRest
<1>4. CASE Issue(p)
    BY <1>3, <1>4 DEF Issue, Fetches
<1>5. CASE Rotate(p)
    <2> DEFINE h == [Rest(p) EXCEPT !.token = Len(tokens'), !.at = now]
    <2>1. At(p, "rotate") /\ Put(p, h)
        BY <1>5 DEF Rotate
    <2>2. h.todo = Tail(procs[p].todo) /\ h.row = procs[p].row
        BY <1>2 DEF Rest, Fields
    <2> HIDE DEF h
    <2> QED BY <1>1, <2>1, <2>2, LockRest DEF Fetches
<1>6. CASE Enter(p)
    <2>1. At(p, "enter") /\ (Put(p, Rest(p)) \/ Go(p, RevokeAll, NoUser))
        BY <1>6 DEF Enter
    <2>2. p \in scenario.procs
        BY <2>1, RestHas DEF SessionsInv
    <2>3. CASE Put(p, Rest(p))
        BY <1>3, <2>1, <2>3 DEF Fetches
    <2> QED BY <1>1, <2>1, <2>2, <2>3, LockPrograms, LockGoReads
<1>7. CASE Revoke(p)
    <2>1. CASE At(p, "find") /\ Put(p, [Rest(p) EXCEPT !.families = LiveFamilies])
        <3> DEFINE h == [Rest(p) EXCEPT !.families = LiveFamilies]
        <3>1. h.todo = Tail(procs[p].todo) /\ h.row = procs[p].row /\ Put(p, h)
            BY <1>2, <2>1 DEF Rest, Fields
        <3> HIDE DEF h
        <3> QED BY <1>1, <2>1, <3>1, LockRest DEF Fetches
    <2> QED BY <1>3, <1>7, <2>1 DEF Revoke, Fetches
<1>8. CASE DenySessions(p)
    BY <1>3, <1>8 DEF DenySessions, Fetches
<1>9. CASE ReadContext(p)
    <2> DEFINE h == [Rest(p) EXCEPT !.ctx = Context(user)]
    <2>1. At(p, "read") /\ Put(p, h)
        BY <1>9 DEF ReadContext
    <2>2. h.todo = Tail(procs[p].todo) /\ h.row = procs[p].row
        BY <1>2 DEF Rest, Fields
    <2> HIDE DEF h
    <2> QED BY <1>1, <2>1, <2>2, LockRest DEF Fetches
<1>10. CASE StoreContext(p)
    BY <1>3, <1>10 DEF StoreContext, Fetches
<1>11. CASE Invalidate(p)
    BY <1>3, <1>11 DEF Invalidate, Fetches
<1>12. CASE WriteOneTime(p)
    <2>1. PICK step \in {"voidInvite", "newInvite", "voidReset", "newReset", "burn"} : At(p, step)
        BY <1>12 DEF WriteOneTime, Void, New
    <2> QED BY <1>3, <1>12, <2>1 DEF WriteOneTime, Fetches
<1> QED BY <1>4, <1>5, <1>6, <1>7, <1>8, <1>9, <1>10, <1>11, <1>12

LEMMA LockStep ==
    ASSUME SessionsInv, RowsInv, LockInv, AcceptedFirst, [Next]_vars
    PROVE  LockInv'
<1>1. CASE Tick
    <2>1. now' = now + 1 /\ UNCHANGED <<scenario, user, procs, barred>>
        BY <1>1 DEF Tick, rows
    <2>2. now \in Int /\ barred \in Nat
        BY DEF RowsInv, LockInv
    <2>3. barred > now' => barred > now
        BY <2>1, <2>2
    <2>4. \A row : Kept(row, barred, now) => Kept(row, barred, now')
        BY <2>3 DEF Kept
    <2>5. \A h : Guarded(h, user, barred, now) => Guarded(h, user, barred, now')
        BY <2>3, <2>4 DEF Guarded
    <2> QED BY <2>1, <2>4, <2>5 DEF LockInv, Serial
<1>2. CASE CacheExpires
    BY <1>2, LockStays DEF CacheExpires, rows, clients, history
<1>3. CASE UNCHANGED vars
    BY <1>3, LockStays DEF vars, rows, redis, clients, history
<1>4. ASSUME NEW p \in Procs, Die(p) PROVE LockInv'
    BY <1>4, LockStops DEF Die, Locked, rows, redis, clients, history
<1>5. ASSUME NEW p \in Procs, Step(p) PROVE LockInv'
    BY <1>5, SaveUserLock, RecordFailedLoginLock, ReloadLock, GetAuthUserLock, WriteRoleLock, OtherLock DEF Step
<1> QED BY <1>1, <1>2, <1>3, <1>4, <1>5, AskLock DEF Next

(* While a login is locked, no step opens a session: only the end of a     *)
(* login and of an accepted invitation start a family, and both found no   *)
(* lock.                                                                   *)
LEMMA LockedOutOf ==
    ASSUME SessionsInv, LockInv, [Next]_vars, Serial, barred > now,
           NEW t \in (Len(tokens) + 1)..Len(tokens')
    PROVE  tokens'[t].family # t
<1>1. tokens \in Seq(RefreshToken) /\ Len(tokens) \in Nat /\ \A i \in 1..Len(tokens) : tokens[i].family <= i
    BY DEF SessionsInv, Stored
<1>2. Len(tokens') # Len(tokens)
    BY <1>1
<1>3. PICK p \in Procs : Issue(p) \/ Rotate(p)
    <2>1. tokens' # tokens
        BY <1>2
    <2>2. CASE UNCHANGED tokens
        BY <2>1, <2>2
    <2>3. ASSUME NEW p \in Procs, Enter(p) PROVE Len(tokens') = Len(tokens)
        BY <1>1, <2>3 DEF Enter
    <2>4. ASSUME NEW p \in Procs, Revoke(p) PROVE Len(tokens') = Len(tokens)
        <3>1. \A fs : DOMAIN RevokedIn(fs) = 1..Len(tokens) /\ Len(RevokedIn(fs)) = Len(tokens)
            BY <1>1 DEF RevokedIn
        <3> QED BY <2>4, <3>1 DEF Revoke
    <2>5. ASSUME NEW p \in Procs, Ask(p) PROVE UNCHANGED tokens
        BY <2>5 DEF Ask, Login, VerifyMfa, Refresh, Logout, LogoutAll, Invite, AcceptInvite, RequestPasswordReset,
           ResetPassword, ChangePassword, RecoverAccount, BeginSetup, Enable, RegenerateRecoveryCodes, Disable,
           ResetMfa, EditUser, EditRole, Request, rows
    <2>6. ASSUME NEW p \in Procs, Step(p) PROVE Issue(p) \/ Rotate(p) \/ Enter(p) \/ Revoke(p) \/ UNCHANGED tokens
        BY <2>6 DEF Step, SaveUser, RecordFailedLogin, Reload, WriteOneTime, DenySessions, GetAuthUser, ReadContext,
           StoreContext, Invalidate, WriteRole, rows
    <2>7. ASSUME NEW p \in Procs, Die(p) PROVE UNCHANGED tokens
        BY <2>7 DEF Die, rows
    <2>8. CASE Tick \/ CacheExpires \/ UNCHANGED vars
        BY <2>1, <2>8 DEF Tick, CacheExpires, vars, rows
    <2> QED BY <1>2, <2>1, <2>3, <2>4, <2>5, <2>6, <2>7, <2>8 DEF Next
<1>4. CASE Issue(p)
    <2>1. At(p, "issue") /\ Guarded(procs[p], user, barred, now)
        BY <1>4 DEF Issue, LockInv
    <2>2. "issue" \in Mentions(procs[p].todo)
        BY <2>1, TailOf DEF At, SessionsInv, Flying, Handler
    <2> QED BY <2>1, <2>2 DEF Guarded
<1>5. CASE Rotate(p)
    <2> DEFINE k == procs[p].token
               older == [tokens EXCEPT ![k].revoked = TRUE]
               new == [family |-> tokens[k].family, expires |-> now + RefreshTtl, revoked |-> FALSE, given |-> FALSE]
    <2>1. At(p, "rotate") /\ tokens' = Append(older, new)
        BY <1>5 DEF Rotate
    <2>2. "rotate" \in Mentions(procs[p].todo)
        BY <2>1, TailOf DEF At, SessionsInv, Flying, Handler
    <2>3. k \in 1..Len(tokens)
        BY <2>2 DEF SessionsInv, Flying, Handler, Refreshing
    <2>4. Len(older) = Len(tokens) /\ older \in Seq(RefreshToken)
        <3>1. tokens[k] \in RefreshToken
            BY <1>1, <2>3
        <3>2. [tokens[k] EXCEPT !.revoked = TRUE] \in RefreshToken
            BY <3>1 DEF RefreshToken
        <3> QED BY <1>1, <2>3, <3>2
    <2>5. new.family = tokens[k].family
        OBVIOUS
    <2> HIDE DEF older, new
    <2>6. Len(tokens') = Len(tokens) + 1 /\ tokens'[Len(tokens) + 1] = new
        BY <2>1, <2>4
    <2>7. t = Len(tokens) + 1
        BY <1>1, <2>6
    <2>8. tokens[k].family <= k /\ k <= Len(tokens) /\ tokens[k].family \in Int
        <3>1. tokens[k] \in RefreshToken
            BY <1>1, <2>3
        <3>2. MaxTokens \in Nat
            BY SessionsConstants
        <3> QED BY <1>1, <2>3, <3>1, <3>2 DEF RefreshToken
    <2> QED BY <1>1, <2>3, <2>5, <2>6, <2>7, <2>8
<1> QED BY <1>3, <1>4, <1>5

(* Requests served one at a time, and accounts that have a password only   *)
(* once their invitation is accepted: failed attempts that lock a login    *)
(* keep everybody out until the lock is over or lifted, whether they were  *)
(* made with the password, the second factor or a reset link.              *)
THEOREM LocksKeepOut == Spec /\ []AcceptedFirst => LockKeepsOut
<1> DEFINE IInv == SessionsInv /\ RowsInv /\ CodesInv /\ LockInv
           NoEntry == Serial /\ barred > now =>
                        \A t \in (Len(tokens) + 1)..Len(tokens') : tokens'[t].family # t
<1>1. Init => IInv
    BY SessionsInit, RowsInit, LockInit
<1>2. IInv /\ AcceptedFirst /\ [Next]_vars => IInv'
    BY SessionsStep, RowsStep, LockStep
<1>3. IInv /\ [Next]_vars => [NoEntry]_vars
    BY LockedOutOf
<1>4. Spec /\ []AcceptedFirst => [][NoEntry]_vars
    <2> HIDE DEF IInv, NoEntry
    <2> QED BY <1>1, <1>2, <1>3, PTL DEF Spec
<1> QED BY <1>4 DEF LockKeepsOut
=============================================================================
