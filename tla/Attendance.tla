----------------------------- MODULE Attendance -----------------------------
(***************************************************************************)
(* Clock sessions (AttendanceService, AttendanceProcessor): employees      *)
(* clock in and out, HR enters and corrects records, an hourly job closes  *)
(* what was forgotten.  Requests and the job are split at their awaits and *)
(* write whole rows they read before.                                      *)
(*                                                                         *)
(* Time is in hours, and hours are short: a request ends within the hour   *)
(* it is made in.  Notes and the names of who made an entry are left out.  *)
(***************************************************************************)
EXTENDS Integers, Sequences, FiniteSets, FiniteSetsExt, Sums

CONSTANTS
    Staff,        \* employees
    Desks,        \* requests that may be in flight together
    MaxSession,   \* MAX_SESSION_HOURS
    DayLength,    \* hours of a day, and the longest session HR may enter
    DaysPerMonth,
    ManualHours,  \* clock times HR enters
    LastHour, MaxRequests, MaxRecords   \* bounds

VARIABLES
    records,    \* attendance_records, NoRecord when absent
    inserted,   \* records inserted so far
    desks,      \* requests in flight
    job,        \* rows the hourly job has changed and not saved
    hour,
    requests,   \* requests made so far
    cleared,    \* history: HR reopened a session
    overlaps    \* history: the kinds of requests that were in flight together

attendance == <<records, inserted, desks, job, hour, requests, cleared, overlaps>>

NoClockOut == -1
Records == 1..MaxRecords
NoRecord == [emp |-> "none", date |-> 0, in |-> 0, out |-> 0, worked |-> 0, source |-> "CLOCK", auto |-> FALSE]
Hours == 0..LastHour
AttendanceRecord ==
    [emp : Staff, date : Nat, in : Hours, out : Hours \cup {NoClockOut} \cup (0..(LastHour + MaxSession)),
     worked : Nat \cup {NoClockOut}, source : {"CLOCK", "MANUAL"}, auto : BOOLEAN]

ASSUME AttendanceAssumption ==
    /\ "none" \notin Staff
    /\ {MaxSession, DayLength, DaysPerMonth} \subseteq Nat \ {0}
    /\ LastHour \in Nat /\ ManualHours \subseteq Hours /\ {MaxRequests, MaxRecords} \subseteq Nat

Stored(r) == records[r] # NoRecord
IsOpen(row) == row # NoRecord /\ row.out = NoClockOut
OpenSessions(e) == {r \in Records : IsOpen(records[r]) /\ records[r].emp = e}

(* The latest one, if a mistake left several.                              *)
OpenSession(e) ==
    CHOOSE r \in OpenSessions(e) : \A s \in OpenSessions(e) : records[s].in <= records[r].in

DateOf(t) == t \div DayLength
HoursBetween(a, b) == Max({0, b - a})
Worked(in, out) == IF out = NoClockOut THEN NoClockOut ELSE HoursBetween(in, out)
AssertRange(in, out) == out # NoClockOut => out > in /\ HoursBetween(in, out) <= DayLength

Session(e, in, out, source) ==
    [emp |-> e, date |-> DateOf(in), in |-> in, out |-> out, worked |-> Worked(in, out),
     source |-> source, auto |-> FALSE]

-----------------------------------------------------------------------------
(* Requests: what was read decides, and is written a step later.           *)
Free == [step |-> "none", kind |-> "none", rec |-> 0, row |-> NoRecord]
Busy == {d \in Desks : desks[d] # Free}
Receive(d, kind) ==
    /\ desks[d] = Free
    /\ requests < MaxRequests /\ requests' = requests + 1
    /\ overlaps' = overlaps \cup {{kind, desks[b].kind} : b \in Busy}
HasRoom == inserted + Cardinality({b \in Busy : desks[b].step = "insert"}) < MaxRecords
Hold(d, step, kind, r, row) ==
    desks' = [desks EXCEPT ![d] = [step |-> step, kind |-> kind, rec |-> r, row |-> row]]

ClockIn(d, e) ==
    /\ Receive(d, "open") /\ HasRoom
    /\ OpenSessions(e) = {}
    /\ Hold(d, "insert", "open", 0, Session(e, hour, NoClockOut, "CLOCK"))
    /\ UNCHANGED <<records, inserted, job, hour, cleared>>

ClockOut(d, e) ==
    /\ Receive(d, "close")
    /\ OpenSessions(e) # {}
    /\ LET r == OpenSession(e)
       IN  Hold(d, "save", "close", r,
                [records[r] EXCEPT !.out = hour, !.worked = Worked(records[r].in, hour)])
    /\ UNCHANGED <<records, inserted, job, hour, cleared>>

(* Mutant: a manual entry is not checked against an open session.          *)
CreateManualUnchecked(d, e) ==
    /\ Receive(d, "open") /\ HasRoom
    /\ \E in \in ManualHours, out \in ManualHours \cup {NoClockOut} :
        /\ AssertRange(in, out)
        /\ Hold(d, "insert", "open", 0, Session(e, in, out, "MANUAL"))
    /\ UNCHANGED <<records, inserted, job, hour, cleared>>

CreateManual(d, e) ==
    /\ Receive(d, "open") /\ HasRoom
    /\ \E in \in ManualHours, out \in ManualHours \cup {NoClockOut} :
        /\ AssertRange(in, out)
        /\ out = NoClockOut => OpenSessions(e) = {}
        /\ Hold(d, "insert", "open", 0, Session(e, in, out, "MANUAL"))
    /\ UNCHANGED <<records, inserted, job, hour, cleared>>

(* Mutant: a corrected clock-in leaves the record on its old day.          *)
UpdateRecordDay(d, r) ==
    /\ Receive(d, "edit")
    /\ Stored(r)
    /\ LET old == records[r]
       IN  \E in \in ManualHours \cup {old.in}, out \in ManualHours \cup {NoClockOut, old.out} :
            /\ AssertRange(in, out)
            /\ Hold(d, "save", "edit", r, [Session(old.emp, in, out, "MANUAL") EXCEPT !.date = old.date])
            /\ cleared' = (cleared \/ (out = NoClockOut /\ old.out # NoClockOut))
    /\ UNCHANGED <<records, inserted, job, hour>>

(* Either time may be left as it is; a clock-out may be cleared, whether   *)
(* or not another session is open.                                         *)
UpdateRecord(d, r) ==
    /\ Receive(d, "edit")
    /\ Stored(r)
    /\ LET old == records[r]
       IN  \E in \in ManualHours \cup {old.in}, out \in ManualHours \cup {NoClockOut, old.out} :
            /\ AssertRange(in, out)
            /\ Hold(d, "save", "edit", r, Session(old.emp, in, out, "MANUAL"))
            /\ cleared' = (cleared \/ (out = NoClockOut /\ old.out # NoClockOut))
    /\ UNCHANGED <<records, inserted, job, hour>>

RemoveRecord(d, r) ==
    /\ Receive(d, "remove")
    /\ Stored(r)
    /\ Hold(d, "save", "remove", r, NoRecord)
    /\ UNCHANGED <<records, inserted, job, hour, cleared>>

(* A record that is gone is inserted again by the save of a stale row.     *)
Write(d) ==
    LET h == desks[d]
    IN  /\ h # Free
        /\ \/ /\ h.step = "insert"
              /\ inserted' = inserted + 1
              /\ records' = [records EXCEPT ![inserted'] = h.row]
           \/ h.step # "insert" /\ records' = [records EXCEPT ![h.rec] = h.row] /\ UNCHANGED inserted
        /\ desks' = [desks EXCEPT ![d] = Free]
        /\ UNCHANGED <<job, hour, requests, cleared, overlaps>>

-----------------------------------------------------------------------------
(* The hourly job: one read, one transaction that saves all rows.          *)
(* Mutant: only sessions that were clocked are looked at.                  *)
StaleClocked(row) == IsOpen(row) /\ row.source = "CLOCK" /\ row.in < hour - MaxSession
Stale(row) == IsOpen(row) /\ row.in < hour - MaxSession

Closed(row) == [row EXCEPT !.out = row.in + MaxSession, !.worked = MaxSession, !.auto = TRUE]

AutoCloseStaleSessions ==
    LET stale == {r \in Records : Stale(records[r])}
    IN  /\ job = <<>>
        /\ stale # {}
        /\ job' = [r \in stale |-> Closed(records[r])]
        /\ UNCHANGED <<records, inserted, desks, hour, requests, cleared, overlaps>>

SaveClosed ==
    /\ job # <<>>
    /\ records' = [r \in Records |-> IF r \in DOMAIN job THEN job[r] ELSE records[r]]
    /\ job' = <<>>
    /\ UNCHANGED <<inserted, desks, hour, requests, cleared, overlaps>>

HourPasses ==
    /\ hour < LastHour /\ hour' = hour + 1
    /\ Busy = {} /\ job = <<>>
    /\ UNCHANGED <<records, inserted, desks, job, requests, cleared, overlaps>>

-----------------------------------------------------------------------------
(* Reports: sums over the stored days and the stored hours.                *)
Months == 0..(LastHour \div (DayLength * DaysPerMonth))
DaysOf(m) == (m * DaysPerMonth)..((m + 1) * DaysPerMonth - 1)
RecordsFor(e, days) == {r \in Records : Stored(r) /\ records[r].emp = e /\ records[r].date \in days}
TotalWorked(rs) ==
    SumOver([r \in rs |-> IF records[r].worked = NoClockOut THEN 0 ELSE records[r].worked], rs)

DailySummary(e, day) ==
    LET rs == RecordsFor(e, {day})
    IN  [worked |-> TotalWorked(rs), sessions |-> Cardinality(rs),
         hasOpenSession |-> \E r \in rs : IsOpen(records[r])]

MonthlyReport(e, m) ==
    LET rs == RecordsFor(e, DaysOf(m))
    IN  [daysPresent |-> Cardinality({records[r].date : r \in rs}),
         worked |-> TotalWorked(rs),
         autoClosed |-> Cardinality({r \in rs : records[r].auto})]

-----------------------------------------------------------------------------
AttendanceInit ==
    /\ records = [r \in Records |-> NoRecord] /\ inserted = 0
    /\ desks = [d \in Desks |-> Free]
    /\ job = <<>>
    /\ hour = 0 /\ requests = 0 /\ cleared = FALSE /\ overlaps = {}

Request(d) ==
    \/ \E e \in Staff : ClockIn(d, e) \/ ClockOut(d, e) \/ CreateManual(d, e)
    \/ \E r \in Records : UpdateRecord(d, r) \/ RemoveRecord(d, r)
    \/ Write(d)

AttendanceNext ==
    \/ \E d \in Desks : Request(d)
    \/ AutoCloseStaleSessions \/ SaveClosed \/ HourPasses

(* Requests that were received end, the job runs every hour, time passes.  *)
AttendanceFairness ==
    /\ \A d \in Desks : WF_attendance(Write(d))
    /\ WF_attendance(AutoCloseStaleSessions)
    /\ WF_attendance(SaveClosed)
    /\ WF_attendance(HourPasses)

AttendanceSpec == AttendanceInit /\ [][AttendanceNext]_attendance /\ AttendanceFairness

-----------------------------------------------------------------------------
AttendanceTypeOK ==
    /\ records \in [Records -> AttendanceRecord \cup {NoRecord}]
    /\ DOMAIN job \subseteq Records
    /\ hour \in Hours

(* An employee has one open session at most, unless HR cleared a clock-out *)
(* or an entry was in flight together with another entry or an edit, even  *)
(* if records are removed, moved or closed by the job meanwhile.           *)
SecondOpenNeedsCause ==
    \/ \A e \in Staff : Cardinality(OpenSessions(e)) <= 1
    \/ cleared
    \/ overlaps \cap {{"open"}, {"open", "edit"}} # {}

(* The totals of a month are those of its days, and both are the time      *)
(* between the clock times of the sessions that began in it, whatever was  *)
(* corrected, moved to another day, reopened, removed or closed by the job,*)
(* and whatever raced with it.                                             *)
HoursAddUp ==
    \A e \in Staff, m \in Months :
        LET report == MonthlyReport(e, m)
            days == {day \in DaysOf(m) : DailySummary(e, day).sessions > 0}
            daily == [day \in days |-> DailySummary(e, day).worked]
            begun == {r \in Records : Stored(r) /\ records[r].emp = e /\ DateOf(records[r].in) \in DaysOf(m)}
            span == [r \in begun |->
                        IF IsOpen(records[r]) THEN 0 ELSE HoursBetween(records[r].in, records[r].out)]
        IN  /\ report.worked = SumOver(daily, days)
            /\ report.worked = SumOver(span, begun)
            /\ report.daysPresent = Cardinality(days)

(* Forgotten sessions are closed in the end, clocked or entered by HR,     *)
(* even if they are several, or edited meanwhile: again and again there is *)
(* a time when there is none.                                              *)
Forgotten(r) == IsOpen(records[r]) /\ records[r].in + MaxSession < LastHour
ForgottenIsClosed == []<>(\A r \in Records : ~Forgotten(r))
=============================================================================
