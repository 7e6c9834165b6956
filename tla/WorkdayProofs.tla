--------------------------- MODULE WorkdayProofs ---------------------------
(***************************************************************************)
(* TLAPS proofs about Attendance and about Assistant, two components that  *)
(* share no state, for every value of their constants.                     *)
(***************************************************************************)
EXTENDS Attendance, Assistant, SumTheorems

-----------------------------------------------------------------------------
(* Attendance.  Every row that is stored, held by a request or about to be *)
(* saved by the job has the day and the hours of its clock times; only     *)
(* entries and edits hold open ones.                                       *)
Row ==
    {NoRecord} \cup {r \in AttendanceRecord : r.date = DateOf(r.in) /\ r.worked = Worked(r.in, r.out)}
ClosedRow == {r \in Row : ~IsOpen(r)}
Desk ==
    {Free} \cup [step : {"insert"}, kind : {"open"}, rec : {0}, row : Row]
           \cup [step : {"save"}, kind : {"edit"}, rec : Records, row : Row]
           \cup [step : {"save"}, kind : {"close", "remove"}, rec : Records, row : ClosedRow]

Rows ==
    /\ records \in [Records -> Row]
    /\ desks \in [Desks -> Desk]
    /\ DOMAIN job \subseteq Records /\ \A r \in DOMAIN job : job[r] \in ClosedRow
    /\ hour \in Hours
    /\ cleared \in BOOLEAN

LEMMA AttendanceConstants ==
    /\ LastHour \in Nat /\ MaxSession \in Nat \ {0} /\ DayLength \in Nat \ {0} /\ DaysPerMonth \in Nat \ {0}
    /\ MaxRecords \in Nat /\ ManualHours \subseteq Hours /\ Hours \subseteq Nat /\ "none" \notin Staff
    BY AttendanceAssumption DEF Hours

LEMMA HoursAreNumbers ==
    ASSUME NEW h \in Hours
    PROVE  h \in Nat /\ h <= LastHour
    BY AttendanceConstants DEF Hours

LEMMA HoursBetweenIs ==
    ASSUME NEW a \in Int, NEW b \in Int
    PROVE  HoursBetween(a, b) = IF b >= a THEN b - a ELSE 0
<1> DEFINE S == {0, b - a}
<1>1. S \subseteq Int /\ S # {}
    OBVIOUS
<1>2. IsFiniteSet(S)
    <2>1. IsFiniteSet({0})
        BY FS_Singleton
    <2> QED BY <2>1, FS_AddElement
<1>3. Max(S) \in S /\ \A y \in S : Max(S) >= y
    <2> HIDE DEF S
    <2> QED BY <1>1, <1>2, MaxIsOne
<1>4. HoursBetween(a, b) = Max(S)
    BY DEF HoursBetween
<1> DEFINE m == Max(S)
<1>5. (m = 0 \/ m = b - a) /\ m >= 0 /\ m >= b - a
    BY <1>3
<1> HIDE DEF m
<1> QED BY <1>4, <1>5 DEF m

LEMMA SessionRow ==
    ASSUME NEW e \in Staff, NEW in \in Hours,
           NEW out \in Hours \cup {NoClockOut} \cup (0..(LastHour + MaxSession)), NEW source \in {"CLOCK", "MANUAL"}
    PROVE  /\ Session(e, in, out, source) \in Row
           /\ IsOpen(Session(e, in, out, source)) <=> out = NoClockOut
           /\ Session(e, in, out, source).emp = e
<1>1. in \in Nat /\ (out # NoClockOut => out \in Nat) /\ NoClockOut = -1
    BY AttendanceConstants DEF NoClockOut
<1>2. Worked(in, out) \in Nat \cup {NoClockOut}
    BY <1>1, HoursBetweenIs DEF Worked
<1>3. DateOf(in) \in Nat
    BY <1>1, AttendanceConstants DEF DateOf
<1> DEFINE s == Session(e, in, out, source)
<1>4. s \in AttendanceRecord
    BY <1>2, <1>3 DEF Session, AttendanceRecord
<1>5. s.date = DateOf(s.in) /\ s.worked = Worked(s.in, s.out) /\ s.emp = e /\ s.out = out
    BY DEF Session
<1>6. NoRecord.emp = "none"
    BY DEF NoRecord
<1>7. s # NoRecord
    BY <1>5, <1>6, AttendanceConstants
<1> HIDE DEF s
<1> QED BY <1>4, <1>5, <1>7 DEF Row, IsOpen, s

(* The rows that are written over an open session close it.                *)
LEMMA ClosingRow ==
    ASSUME NEW row \in Row, IsOpen(row), NEW out \in 0..(LastHour + MaxSession)
    PROVE  [row EXCEPT !.out = out, !.worked = Worked(row.in, out)] \in ClosedRow
<1>1. row \in AttendanceRecord /\ row.date = DateOf(row.in) /\ row # NoRecord
    BY DEF Row, IsOpen
<1>2. row.in \in Nat /\ out \in Nat /\ NoClockOut = -1 /\ NoRecord.emp = "none" /\ row.emp \in Staff
    <2>1. row.in \in Hours /\ row.emp \in Staff
        BY <1>1 DEF AttendanceRecord
    <2>2. NoRecord.emp = "none" /\ NoClockOut = -1
        BY DEF NoRecord, NoClockOut
    <2>3. out \in Nat
        BY AttendanceConstants
    <2>4. row.in \in Nat
        BY <2>1, HoursAreNumbers
    <2> QED BY <2>1, <2>2, <2>3, <2>4
<1> DEFINE w == Worked(row.in, out)
           mid == [row EXCEPT !.out = out]
           new == [mid EXCEPT !.worked = w]
<1>3. w \in Nat /\ w = Worked(row.in, out)
    BY <1>2, HoursBetweenIs DEF Worked
<1> HIDE DEF w
<1>4. mid \in AttendanceRecord /\ mid.in = row.in /\ mid.out = out /\ mid.date = row.date /\ mid.emp = row.emp
    BY <1>1, <1>2 DEF AttendanceRecord
<1> HIDE DEF mid
<1>5. new \in AttendanceRecord /\ new.in = row.in /\ new.out = out /\ new.date = row.date
      /\ new.emp = row.emp /\ new.worked = w
    BY <1>3, <1>4 DEF AttendanceRecord
<1>6. [row EXCEPT !.out = out, !.worked = Worked(row.in, out)] = new
    BY DEF mid, w
<1> HIDE DEF new
<1>7. new # NoRecord /\ new.out # NoClockOut
    BY <1>2, <1>5, AttendanceConstants
<1> QED BY <1>1, <1>3, <1>5, <1>6, <1>7 DEF ClosedRow, Row, IsOpen

LEMMA ClosedByJob ==
    ASSUME NEW row \in Row, IsOpen(row)
    PROVE  Closed(row) \in ClosedRow
<1>1. row \in AttendanceRecord /\ row.date = DateOf(row.in) /\ row # NoRecord
    BY DEF Row, IsOpen
<1>2. row.in \in Hours /\ row.in \in Nat /\ row.emp \in Staff /\ NoClockOut = -1 /\ NoRecord.emp = "none"
    BY <1>1, AttendanceConstants DEF AttendanceRecord, NoClockOut, NoRecord
<1> DEFINE out == row.in + MaxSession
           one == [row EXCEPT !.out = out]
           two == [one EXCEPT !.worked = MaxSession]
           new == [two EXCEPT !.auto = TRUE]
<1>3. out \in 0..(LastHour + MaxSession) /\ out \in Nat /\ Worked(row.in, out) = MaxSession
    BY <1>2, AttendanceConstants, HoursBetweenIs DEF Worked, Hours
<1> HIDE DEF out
<1>4. one \in AttendanceRecord /\ one.in = row.in /\ one.out = out /\ one.date = row.date /\ one.emp = row.emp
    BY <1>1, <1>3 DEF AttendanceRecord
<1> HIDE DEF one
<1>5. two \in AttendanceRecord /\ two.in = row.in /\ two.out = out /\ two.date = row.date /\ two.emp = row.emp
      /\ two.worked = MaxSession
    BY <1>4, AttendanceConstants DEF AttendanceRecord
<1> HIDE DEF two
<1>6. new \in AttendanceRecord /\ new.in = row.in /\ new.out = out /\ new.date = row.date /\ new.emp = row.emp
      /\ new.worked = MaxSession
    BY <1>5 DEF AttendanceRecord
<1>7. Closed(row) = new
    BY DEF Closed, one, two, out
<1> HIDE DEF new
<1>8. new # NoRecord /\ new.out # NoClockOut
    BY <1>2, <1>3, <1>6, AttendanceConstants
<1> QED BY <1>1, <1>3, <1>6, <1>7, <1>8 DEF ClosedRow, Row, IsOpen

LEMMA NoRecordRow == NoRecord \in ClosedRow
    BY DEF ClosedRow, Row, IsOpen

(* openSession finds an open session if there is one.                      *)
LEMMA OpenSessionIsOne ==
    ASSUME Rows, NEW e, OpenSessions(e) # {}
    PROVE  OpenSession(e) \in OpenSessions(e)
<1> DEFINE S == OpenSessions(e)
           ins == {records[s].in : s \in S}
           f == [s \in S |-> records[s].in]
<1>1. IsFiniteSet(S) /\ S \subseteq Records
    <2>1. IsFiniteSet(Records)
        BY AttendanceConstants, FS_Interval DEF Records
    <2> QED BY <2>1, FS_Subset DEF OpenSessions
<1>2. \A s \in S : records[s].in \in Int
    <2>1. \A s \in S : records[s] \in AttendanceRecord
        BY DEF OpenSessions, IsOpen, Rows, Row
    <2>2. \A s \in S : records[s].in \in Hours
        BY <2>1 DEF AttendanceRecord
    <2> QED BY <2>2, HoursAreNumbers
<1>3. ins \subseteq Int /\ ins # {}
    BY <1>2
<1>4. f \in Surjection(S, ins)
    BY DEF Surjection
<1> HIDE DEF f, S
<1>5. IsFiniteSet(ins)
    BY <1>1, <1>4, FS_Surjection
<1> DEFINE m == Max(ins)
<1>6. m \in ins /\ \A y \in ins : m >= y
    <2> HIDE DEF ins
    <2> QED BY <1>3, <1>5, MaxIsOne
<1>7. PICK r \in S : m = records[r].in
    BY <1>6
<1> HIDE DEF m
<1>8. \A s \in S : records[s].in <= records[r].in
    BY <1>2, <1>6, <1>7
<1> HIDE DEF ins
<1> QED BY <1>8 DEF OpenSession, S

-----------------------------------------------------------------------------
(* What a request puts on its desk.                                        *)
Takes(d, h) ==
    /\ h \in Desk /\ h # Free /\ desks[d] = Free
    /\ desks' = [desks EXCEPT ![d] = h]
    /\ overlaps' = overlaps \cup {{h.kind, desks[b].kind} : b \in Busy}
    /\ UNCHANGED <<records, job, hour>>
    /\ cleared' \in BOOLEAN /\ (cleared => cleared')
    /\ IsOpen(h.row) =>
        \/ h.kind = "open" /\ OpenSessions(h.row.emp) = {}
        \/ h.kind = "edit" /\ (cleared' \/ h.rec \in OpenSessions(h.row.emp))

LEMMA InsertHeld ==
    ASSUME NEW row \in Row
    PROVE  LET h == [step |-> "insert", kind |-> "open", rec |-> 0, row |-> row]
           IN  h \in Desk /\ h # Free /\ h.row = row /\ h.kind = "open"
    BY DEF Desk, Free

LEMMA EditHeld ==
    ASSUME NEW row \in Row, NEW r \in Records
    PROVE  LET h == [step |-> "save", kind |-> "edit", rec |-> r, row |-> row]
           IN  h \in Desk /\ h # Free /\ h.row = row /\ h.kind = "edit" /\ h.rec = r
    BY DEF Desk, Free

LEMMA CloseHeld ==
    ASSUME NEW row \in ClosedRow, NEW r \in Records, NEW k \in {"close", "remove"}
    PROVE  LET h == [step |-> "save", kind |-> k, rec |-> r, row |-> row]
           IN  h \in Desk /\ h # Free /\ h.row = row /\ h.kind = k /\ ~IsOpen(h.row)
    BY DEF Desk, Free, ClosedRow

LEMMA ClockInTakes ==
    ASSUME Rows, NEW d \in Desks, NEW e \in Staff, ClockIn(d, e)
    PROVE  \E h : Takes(d, h)
<1> DEFINE row == Session(e, hour, NoClockOut, "CLOCK")
           h == [step |-> "insert", kind |-> "open", rec |-> 0, row |-> row]
<1>1. hour \in Hours /\ NoClockOut \in Hours \cup {NoClockOut} \cup (0..(LastHour + MaxSession))
    BY DEF Rows
<1>2. row \in Row /\ row.emp = e
    BY <1>1, SessionRow
<1> HIDE DEF row
<1>3. h \in Desk /\ h # Free /\ h.row = row /\ h.kind = "open"
    BY <1>2, InsertHeld
<1>4. desks' = [desks EXCEPT ![d] = h] /\ desks[d] = Free
      /\ overlaps' = overlaps \cup {{"open", desks[b].kind} : b \in Busy}
    BY DEF ClockIn, Hold, Receive, row
<1> HIDE DEF h
<1>5. OpenSessions(h.row.emp) = {}
    BY <1>2, <1>3 DEF ClockIn
<1>6. UNCHANGED <<records, job, hour, cleared>> /\ cleared \in BOOLEAN
    BY DEF ClockIn, Rows
<1> QED BY <1>3, <1>4, <1>5, <1>6 DEF Takes

LEMMA ClockOutTakes ==
    ASSUME Rows, NEW d \in Desks, NEW e \in Staff, ClockOut(d, e)
    PROVE  \E h : Takes(d, h)
<1> DEFINE r == OpenSession(e)
           row == [records[r] EXCEPT !.out = hour, !.worked = Worked(records[r].in, hour)]
           h == [step |-> "save", kind |-> "close", rec |-> r, row |-> row]
<1>1. r \in OpenSessions(e)
    BY OpenSessionIsOne DEF ClockOut
<1>2. r \in Records /\ IsOpen(records[r])
    BY <1>1 DEF OpenSessions
<1>3. records[r] \in Row
    BY <1>2 DEF Rows
<1>4. hour \in 0..(LastHour + MaxSession)
    BY AttendanceConstants, HoursAreNumbers DEF Rows
<1> DEFINE old == records[r]
<1>5. [old EXCEPT !.out = hour, !.worked = Worked(old.in, hour)] \in ClosedRow
    <2> HIDE DEF old
    <2>1. old \in Row /\ IsOpen(old)
        BY <1>2, <1>3 DEF old
    <2> QED BY <1>4, <2>1, ClosingRow
<1>6. row \in ClosedRow
    BY <1>5
<1>7. desks' = [desks EXCEPT ![d] = h] /\ desks[d] = Free
      /\ overlaps' = overlaps \cup {{"close", desks[b].kind} : b \in Busy}
    BY DEF ClockOut, Hold, Receive
<1> HIDE DEF r, row
<1>8. h \in Desk /\ h # Free /\ h.row = row /\ h.kind = "close" /\ ~IsOpen(h.row)
    BY <1>2, <1>6, CloseHeld
<1>9. UNCHANGED <<records, job, hour, cleared>> /\ cleared \in BOOLEAN
    BY DEF ClockOut, Rows
<1> HIDE DEF h
<1> QED BY <1>7, <1>8, <1>9 DEF Takes

LEMMA CreateManualTakes ==
    ASSUME Rows, NEW d \in Desks, NEW e \in Staff, CreateManual(d, e)
    PROVE  \E h : Takes(d, h)
<1>1. PICK in \in ManualHours, out \in ManualHours \cup {NoClockOut} :
        /\ out = NoClockOut => OpenSessions(e) = {}
        /\ Hold(d, "insert", "open", 0, Session(e, in, out, "MANUAL"))
    BY DEF CreateManual
<1> DEFINE row == Session(e, in, out, "MANUAL")
           h == [step |-> "insert", kind |-> "open", rec |-> 0, row |-> row]
<1>2. in \in Hours /\ out \in Hours \cup {NoClockOut} \cup (0..(LastHour + MaxSession))
    BY AttendanceConstants
<1>3. row \in Row /\ row.emp = e /\ (IsOpen(row) <=> out = NoClockOut)
    BY <1>2, SessionRow
<1>4. desks' = [desks EXCEPT ![d] = h]
    BY <1>1 DEF Hold
<1>5. desks[d] = Free /\ overlaps' = overlaps \cup {{"open", desks[b].kind} : b \in Busy}
    BY DEF CreateManual, Receive
<1> HIDE DEF row
<1>6. h \in Desk /\ h # Free /\ h.row = row /\ h.kind = "open"
    BY <1>3, InsertHeld
<1> HIDE DEF h
<1>7. UNCHANGED <<records, job, hour, cleared>> /\ cleared \in BOOLEAN
    BY DEF CreateManual, Rows
<1> QED BY <1>1, <1>3, <1>4, <1>5, <1>6, <1>7 DEF Takes

LEMMA UpdateRecordTakes ==
    ASSUME Rows, NEW d \in Desks, NEW r \in Records, UpdateRecord(d, r)
    PROVE  \E h : Takes(d, h)
<1> DEFINE old == records[r]
<1>1. PICK in \in ManualHours \cup {old.in}, out \in ManualHours \cup {NoClockOut, old.out} :
        /\ Hold(d, "save", "edit", r, Session(old.emp, in, out, "MANUAL"))
        /\ cleared' = (cleared \/ (out = NoClockOut /\ old.out # NoClockOut))
    BY DEF UpdateRecord
<1>2. old \in AttendanceRecord /\ old # NoRecord
    BY DEF UpdateRecord, Stored, Rows, Row
<1>3. old.emp \in Staff /\ old.in \in Hours /\ old.out \in Hours \cup {NoClockOut} \cup (0..(LastHour + MaxSession))
    BY <1>2 DEF AttendanceRecord
<1> DEFINE e == old.emp
           row == Session(e, in, out, "MANUAL")
           h == [step |-> "save", kind |-> "edit", rec |-> r, row |-> row]
<1>4. in \in Hours /\ out \in Hours \cup {NoClockOut} \cup (0..(LastHour + MaxSession))
    BY <1>3, AttendanceConstants
<1>5. row \in Row /\ row.emp = e /\ (IsOpen(row) <=> out = NoClockOut)
    <2> HIDE DEF e
    <2> QED BY <1>3, <1>4, SessionRow DEF e
<1>6. desks' = [desks EXCEPT ![d] = h]
    BY <1>1 DEF Hold
<1>7. desks[d] = Free /\ overlaps' = overlaps \cup {{"edit", desks[b].kind} : b \in Busy}
    BY DEF UpdateRecord, Receive
<1> HIDE DEF row
<1>8. h \in Desk /\ h # Free /\ h.row = row /\ h.kind = "edit" /\ h.rec = r
    BY <1>5, EditHeld
<1> HIDE DEF h
<1>9. UNCHANGED <<records, job, hour>> /\ cleared \in BOOLEAN
    BY DEF UpdateRecord, Rows
<1>10. cleared' \in BOOLEAN /\ (cleared => cleared') /\ (out = NoClockOut /\ old.out # NoClockOut => cleared')
    BY <1>1, <1>9
<1>11. old.out = NoClockOut => r \in OpenSessions(e)
    BY <1>2 DEF OpenSessions, IsOpen
<1> HIDE DEF old, e
<1> QED BY <1>5, <1>6, <1>7, <1>8, <1>9, <1>10, <1>11 DEF Takes

LEMMA RemoveRecordTakes ==
    ASSUME Rows, NEW d \in Desks, NEW r \in Records, RemoveRecord(d, r)
    PROVE  \E h : Takes(d, h)
<1> DEFINE row == NoRecord
           h == [step |-> "save", kind |-> "remove", rec |-> r, row |-> row]
<1>1. desks' = [desks EXCEPT ![d] = h] /\ desks[d] = Free
      /\ overlaps' = overlaps \cup {{"remove", desks[b].kind} : b \in Busy}
    BY DEF RemoveRecord, Hold, Receive
<1>2. row \in ClosedRow
    BY NoRecordRow
<1> HIDE DEF row
<1>3. h \in Desk /\ h # Free /\ h.row = row /\ h.kind = "remove" /\ ~IsOpen(h.row)
    BY <1>2, CloseHeld
<1> HIDE DEF h
<1>4. UNCHANGED <<records, job, hour, cleared>> /\ cleared \in BOOLEAN
    BY DEF RemoveRecord, Rows
<1> QED BY <1>1, <1>3, <1>4 DEF Takes

(* Every step either takes a request, writes one row, is the job or leaves *)
(* the rows alone.                                                         *)
Writes(d, r) ==
    /\ desks[d] # Free
    /\ r = desks[d].rec \/ desks[d].step = "insert"
    /\ records' = [records EXCEPT ![r] = desks[d].row]
    /\ desks' = [desks EXCEPT ![d] = Free]
    /\ UNCHANGED <<job, hour, cleared, overlaps>>

LEMMA AttendanceSteps ==
    ASSUME Rows, [AttendanceNext]_attendance
    PROVE  \/ \E d \in Desks : \E h : Takes(d, h)
           \/ \E d \in Desks : \E r : Writes(d, r)
           \/ AutoCloseStaleSessions
           \/ SaveClosed
           \/ UNCHANGED <<records, desks, job, cleared, overlaps>> /\ hour' \in Hours
<1>1. CASE \E d \in Desks : \E e \in Staff : ClockIn(d, e) \/ ClockOut(d, e) \/ CreateManual(d, e)
    BY <1>1, ClockInTakes, ClockOutTakes, CreateManualTakes
<1>2. CASE \E d \in Desks : \E r \in Records : UpdateRecord(d, r) \/ RemoveRecord(d, r)
    BY <1>2, UpdateRecordTakes, RemoveRecordTakes
<1>3. ASSUME NEW d \in Desks, Write(d)
      PROVE  \E r : Writes(d, r)
    <2>1. CASE desks[d].step = "insert"
        <3>1. Writes(d, inserted')
            BY <1>3, <2>1 DEF Write, Writes
        <3> QED BY <3>1
    <2>2. CASE desks[d].step # "insert"
        <3>1. Writes(d, desks[d].rec)
            BY <1>3, <2>2 DEF Write, Writes
        <3> QED BY <3>1
    <2> QED BY <2>1, <2>2
<1>4. CASE HourPasses
    BY <1>4, AttendanceConstants, HoursAreNumbers DEF HourPasses, Rows, Hours
<1>5. CASE UNCHANGED attendance
    BY <1>5 DEF attendance, Rows
<1> QED BY <1>1, <1>2, <1>3, <1>4, <1>5 DEF AttendanceNext, Request

(* What a request in flight holds.                                         *)
LEMMA DeskRows ==
    ASSUME NEW h \in Desk, h # Free
    PROVE  /\ h.row \in Row /\ h.kind \in {"open", "edit", "close", "remove"}
           /\ IsOpen(h.row) => h.kind \in {"open", "edit"}
           /\ h.step = "insert" => h.kind = "open"
           /\ h.kind = "open" => h.step = "insert"
    BY DEF Desk, ClosedRow

LEMMA RowsInit == AttendanceInit => Rows
<1> SUFFICES ASSUME AttendanceInit PROVE Rows
    OBVIOUS
<1>1. NoRecord \in Row /\ Free \in Desk
    BY NoRecordRow DEF ClosedRow, Desk
<1>2. DOMAIN job = {}
    BY DEF AttendanceInit
<1>3. 0 \in Hours /\ hour = 0 /\ cleared = FALSE
    BY AttendanceConstants DEF AttendanceInit, Hours
<1>4. records \in [Records -> Row] /\ desks \in [Desks -> Desk]
    BY <1>1 DEF AttendanceInit
<1> QED BY <1>2, <1>3, <1>4 DEF Rows

LEMMA RowsStep == Rows /\ [AttendanceNext]_attendance => Rows'
<1> SUFFICES ASSUME Rows, [AttendanceNext]_attendance PROVE Rows'
    OBVIOUS
<1>1. ASSUME NEW d \in Desks, NEW h, Takes(d, h) PROVE Rows'
    BY <1>1 DEF Takes, Rows
<1>2. ASSUME NEW d \in Desks, NEW r, Writes(d, r) PROVE Rows'
    <2>1. desks[d].row \in Row /\ Free \in Desk
        BY <1>2, DeskRows DEF Writes, Rows, Desk
    <2>2. records' \in [Records -> Row]
        BY <1>2, <2>1 DEF Writes, Rows
    <2>3. desks' \in [Desks -> Desk]
        BY <1>2, <2>1 DEF Writes, Rows
    <2> QED BY <1>2, <2>2, <2>3 DEF Writes, Rows
<1>3. CASE AutoCloseStaleSessions
    <2> DEFINE stale == {r \in Records : Stale(records[r])}
    <2>1. job' = [r \in stale |-> Closed(records[r])]
        BY <1>3 DEF AutoCloseStaleSessions
    <2>2. \A r \in stale : Closed(records[r]) \in ClosedRow
        BY ClosedByJob DEF Stale, Rows
    <2>3. DOMAIN job' \subseteq Records /\ \A r \in DOMAIN job' : job'[r] \in ClosedRow
        BY <2>1, <2>2
    <2> QED BY <1>3, <2>3 DEF AutoCloseStaleSessions, Rows
<1>4. CASE SaveClosed
    <2>1. DOMAIN job' = {}
        BY <1>4 DEF SaveClosed
    <2>2. records' \in [Records -> Row]
        BY <1>4 DEF SaveClosed, Rows, ClosedRow
    <2> QED BY <1>4, <2>1, <2>2 DEF SaveClosed, Rows
<1>5. CASE UNCHANGED <<records, desks, job, cleared, overlaps>> /\ hour' \in Hours
    BY <1>5 DEF Rows
<1> QED BY <1>1, <1>2, <1>3, <1>4, <1>5, AttendanceSteps

-----------------------------------------------------------------------------
(* The causes of a second open session that SecondOpenNeedsCause allows.   *)
Excused == cleared \/ overlaps \cap {{"open"}, {"open", "edit"}} # {}

(* Sessions of e that are open, or that an edit in flight will write open. *)
MaybeOpen(e) ==
    OpenSessions(e) \cup
    {r \in Records : \E d \in Desks : /\ desks[d].kind = "edit" /\ desks[d].rec = r
                                      /\ IsOpen(desks[d].row) /\ desks[d].row.emp = e}

(* Without a cause entries were never in flight with other entries or with *)
(* edits, an employee has at most one session that is or may become open,  *)
(* and while an entry waits to be written nobody else's write can open one. *)
Single ==
    Excused \/
        /\ \A d, b \in Desks : d # b /\ desks[d].kind = "open" => desks[b].kind \notin {"open", "edit"}
        /\ \A e \in Staff : \A r, s \in MaybeOpen(e) : r = s
        /\ \A d \in Desks : desks[d].kind = "open" /\ IsOpen(desks[d].row) => OpenSessions(desks[d].row.emp) = {}

LEMMA SingleInit == AttendanceInit => Single
<1> SUFFICES ASSUME AttendanceInit PROVE Single
    OBVIOUS
<1>1. \A d \in Desks : desks[d].kind = "none"
    BY DEF AttendanceInit, Free
<1>2. \A e \in Staff : MaybeOpen(e) = {}
    BY <1>1 DEF AttendanceInit, MaybeOpen, OpenSessions, IsOpen
<1> QED BY <1>1, <1>2 DEF Single

LEMMA SingleStep == Rows /\ Single /\ [AttendanceNext]_attendance => Single'
<1> SUFFICES ASSUME Rows, Single, [AttendanceNext]_attendance PROVE Single'
    OBVIOUS
<1>0. Free.kind = "none"
    BY DEF Free
<1>1. ASSUME NEW d \in Desks, NEW h, Takes(d, h) PROVE Single'
    <2>1. desks'[d] = h /\ desks[d] = Free /\ \A b \in Desks \ {d} : desks'[b] = desks[b]
        BY <1>1 DEF Takes, Rows
    <2>2. SUFFICES ASSUME ~Excused' PROVE Single'
        BY DEF Single
    <2>3. ~Excused
        BY <1>1, <2>2 DEF Takes, Excused, Rows
    <2>4. ASSUME NEW b \in Desks \ {d}
          PROVE  /\ h.kind = "open" => desks[b].kind \notin {"open", "edit"}
                 /\ desks[b].kind = "open" => h.kind \notin {"open", "edit"}
        <3>1. CASE desks[b] = Free
            BY <1>0, <3>1
        <3>2. CASE desks[b] # Free
            <4>1. {h.kind, desks[b].kind} \in overlaps'
                BY <1>1, <3>2 DEF Takes, Busy
            <4>2. {h.kind, desks[b].kind} # {"open"} /\ {h.kind, desks[b].kind} # {"open", "edit"}
                BY <2>2, <4>1 DEF Excused
            <4> QED BY <4>2
        <3> QED BY <3>1, <3>2
    <2>5. \A b, c \in Desks : b # c /\ desks'[b].kind = "open" => desks'[c].kind \notin {"open", "edit"}
        <3> SUFFICES ASSUME NEW b \in Desks, NEW c \in Desks, b # c, desks'[b].kind = "open"
                     PROVE  desks'[c].kind \notin {"open", "edit"}
            OBVIOUS
        <3>1. CASE b = d
            BY <2>1, <2>4, <3>1
        <3>2. CASE c = d
            BY <2>1, <2>4, <3>2
        <3>3. CASE b # d /\ c # d
            BY <2>1, <2>3, <3>3 DEF Single
        <3> QED BY <3>1, <3>2, <3>3
    <2>6. \A e : OpenSessions(e)' = OpenSessions(e)
        BY <1>1 DEF Takes, OpenSessions
    <2>7. \A e : MaybeOpen(e)' \subseteq MaybeOpen(e)
        <3> SUFFICES ASSUME NEW e, NEW r \in MaybeOpen(e)' PROVE r \in MaybeOpen(e)
            OBVIOUS
        <3>1. CASE r \in OpenSessions(e)'
            BY <2>6, <3>1 DEF MaybeOpen
        <3>2. CASE r \notin OpenSessions(e)'
            <4>1. PICK b \in Desks : desks'[b].kind = "edit" /\ desks'[b].rec = r
                                     /\ IsOpen(desks'[b].row) /\ desks'[b].row.emp = e
                BY <3>2 DEF MaybeOpen, IsOpen
            <4>2. CASE b = d
                <5>1. h.kind = "edit" /\ h.rec = r /\ IsOpen(h.row) /\ h.row.emp = e
                    BY <2>1, <4>1, <4>2
                <5>2. ~cleared'
                    BY <2>2 DEF Excused
                <5>3. r \in OpenSessions(e)
                    BY <1>1, <5>1, <5>2 DEF Takes
                <5> QED BY <5>3 DEF MaybeOpen
            <4>3. CASE b # d
                <5>1. r \in Records
                    BY <3>2 DEF MaybeOpen, OpenSessions
                <5> QED BY <2>1, <4>1, <4>3, <5>1 DEF MaybeOpen
            <4> QED BY <4>2, <4>3
        <3> QED BY <3>1, <3>2
    <2>8. \A e \in Staff : \A r, s \in MaybeOpen(e)' : r = s
        BY <2>3, <2>7 DEF Single
    <2>9. \A b \in Desks : desks'[b].kind = "open" /\ IsOpen(desks'[b].row)
                            => OpenSessions(desks[b].row.emp)' = {}
        <3> SUFFICES ASSUME NEW b \in Desks, desks'[b].kind = "open", IsOpen(desks'[b].row)
                     PROVE  OpenSessions(desks[b].row.emp)' = {}
            OBVIOUS
        <3>1. CASE b = d
            <4>1. h.kind = "open" /\ IsOpen(h.row) /\ desks'[b] = h
                BY <2>1, <3>1
            <4>2. OpenSessions(h.row.emp) = {}
                BY <1>1, <4>1 DEF Takes
            <4> QED BY <1>1, <4>1, <4>2 DEF OpenSessions, Takes
        <3>2. CASE b # d
            <4>1. desks'[b] = desks[b]
                BY <2>1, <3>2
            <4>2. OpenSessions(desks[b].row.emp) = {}
                BY <2>3, <4>1 DEF Single
            <4> QED BY <1>1, <4>1, <4>2 DEF OpenSessions, Takes
        <3> QED BY <3>1, <3>2
    <2> QED BY <2>5, <2>8, <2>9 DEF Single
(* A step that opens no session and takes no request.                      *)
<1>2. ASSUME UNCHANGED <<cleared, overlaps>>,
             \A b \in Desks : desks'[b] = desks[b] \/ desks'[b] = Free,
             \A e : OpenSessions(e)' \subseteq OpenSessions(e)
      PROVE  Single'
    <2>1. Excused' <=> Excused
        BY <1>2 DEF Excused
    <2>2. SUFFICES ASSUME ~Excused PROVE Single'
        BY <2>1 DEF Single
    <2>3. \A b \in Desks : desks'[b].kind \in {"open", "edit"} => desks'[b] = desks[b]
        BY <1>0, <1>2
    <2>4. \A b, c \in Desks : b # c /\ desks'[b].kind = "open" => desks'[c].kind \notin {"open", "edit"}
        BY <2>2, <2>3 DEF Single
    <2>5. \A e : MaybeOpen(e)' \subseteq MaybeOpen(e)
        <3> SUFFICES ASSUME NEW e, NEW r \in MaybeOpen(e)' PROVE r \in MaybeOpen(e)
            OBVIOUS
        <3>1. CASE r \in OpenSessions(e)'
            BY <1>2, <3>1 DEF MaybeOpen
        <3>2. CASE r \notin OpenSessions(e)'
            BY <2>3, <3>2 DEF MaybeOpen
        <3> QED BY <3>1, <3>2
    <2>6. \A e \in Staff : \A r, s \in MaybeOpen(e)' : r = s
        BY <2>2, <2>5 DEF Single
    <2>7. ASSUME NEW b \in Desks, desks'[b].kind = "open", IsOpen(desks'[b].row)
          PROVE  OpenSessions(desks[b].row.emp)' = {}
        <3>1. desks'[b] = desks[b]
            BY <2>3, <2>7
        <3> DEFINE e == desks[b].row.emp
        <3>2. OpenSessions(e) = {}
            BY <2>2, <2>7, <3>1 DEF Single
        <3>3. {x \in Records : IsOpen(records'[x]) /\ records'[x].emp = e} \subseteq OpenSessions(e)
            <4> HIDE DEF e
            <4> QED BY <1>2 DEF OpenSessions
        <3> QED BY <3>1, <3>2, <3>3 DEF OpenSessions
    <2> QED BY <2>4, <2>6, <2>7 DEF Single
<1>3. ASSUME NEW d \in Desks, NEW r, Writes(d, r) PROVE Single'
    <2> DEFINE h == desks[d]
    <2>1. /\ \A x \in Records : records'[x] = IF x = r THEN h.row ELSE records[x]
          /\ desks'[d] = Free /\ \A b \in Desks \ {d} : desks'[b] = desks[b]
          /\ UNCHANGED <<cleared, overlaps>> /\ h \in Desk /\ h # Free
        BY <1>3 DEF Writes, Rows
    <2>2. \A b \in Desks : desks'[b] = desks[b] \/ desks'[b] = Free
        BY <2>1
    <2>3. CASE ~IsOpen(h.row)
        <3>1. \A e : OpenSessions(e)' \subseteq OpenSessions(e)
            BY <2>1, <2>3 DEF OpenSessions
        <3> QED BY <1>2, <2>1, <2>2, <3>1
    <2>4. CASE IsOpen(h.row)
        <3>1. h.kind \in {"open", "edit"} /\ h.row \in Row
            BY <2>1, <2>4, DeskRows
        <3>2. Excused' <=> Excused
            BY <2>1 DEF Excused
        <3>3. SUFFICES ASSUME ~Excused PROVE Single'
            BY <3>2 DEF Single
        <3>4. \A b \in Desks : desks'[b].kind \in {"open", "edit"} => b # d /\ desks'[b] = desks[b]
            BY <1>0, <2>1
        <3>5. \A b, c \in Desks : b # c /\ desks'[b].kind = "open" => desks'[c].kind \notin {"open", "edit"}
            BY <3>3, <3>4 DEF Single
        <3>6. CASE h.kind = "edit"
            <4>1. r = h.rec /\ r \in Records
                BY <1>3, <2>1, <3>6 DEF Writes, Desk
            <4>2. \A e : r \in OpenSessions(e)' => e = h.row.emp
                BY <2>1 DEF OpenSessions
            <4>3. r \in MaybeOpen(h.row.emp)
                BY <2>4, <3>6, <4>1 DEF MaybeOpen
            <4>4. \A e : OpenSessions(e)' \subseteq MaybeOpen(e)
                BY <2>1, <4>2, <4>3 DEF OpenSessions, MaybeOpen
            <4>5. \A e : MaybeOpen(e)' \subseteq MaybeOpen(e)
                <5> SUFFICES ASSUME NEW e, NEW x \in MaybeOpen(e)' PROVE x \in MaybeOpen(e)
                    OBVIOUS
                <5>1. CASE x \in OpenSessions(e)'
                    BY <4>4, <5>1
                <5>2. CASE x \notin OpenSessions(e)'
                    BY <3>4, <5>2 DEF MaybeOpen
                <5> QED BY <5>1, <5>2
            <4>6. \A e \in Staff : \A x, s \in MaybeOpen(e)' : x = s
                BY <3>3, <4>5 DEF Single
            <4>7. \A b \in Desks : desks'[b].kind # "open"
                BY <3>3, <3>4, <3>6 DEF Single
            <4> QED BY <3>5, <4>6, <4>7 DEF Single
        <3>7. CASE h.kind = "open"
            <4>1. \A b \in Desks : desks'[b].kind \notin {"open", "edit"}
                BY <3>3, <3>4, <3>7 DEF Single
            <4>2. OpenSessions(h.row.emp) = {}
                BY <2>4, <3>3, <3>7 DEF Single
            <4>3. \A e : MaybeOpen(e)' = OpenSessions(e)'
                BY <4>1 DEF MaybeOpen
            <4>4. ASSUME NEW e \in Staff, NEW x \in OpenSessions(e)', NEW s \in OpenSessions(e)'
                  PROVE  x = s
                <5>1. \A y \in OpenSessions(e)' : (y = r /\ e = h.row.emp) \/ (y # r /\ y \in OpenSessions(e))
                    BY <2>1 DEF OpenSessions
                <5>2. CASE e = h.row.emp
                    BY <4>2, <4>4, <5>1, <5>2
                <5>3. CASE e # h.row.emp
                    <6>1. x \in MaybeOpen(e) /\ s \in MaybeOpen(e)
                        BY <4>4, <5>1, <5>3 DEF MaybeOpen
                    <6> QED BY <3>3, <6>1 DEF Single
                <5> QED BY <5>2, <5>3
            <4>5. \A e \in Staff : \A x, s \in MaybeOpen(e)' : x = s
                BY <4>3, <4>4
            <4> QED BY <3>5, <4>1, <4>5 DEF Single
        <3> QED BY <3>1, <3>6, <3>7
    <2> QED BY <2>3, <2>4
<1>4. CASE AutoCloseStaleSessions
    <2>1. UNCHANGED <<records, desks, cleared, overlaps>>
        BY <1>4 DEF AutoCloseStaleSessions
    <2> QED BY <1>2, <2>1 DEF OpenSessions
<1>5. CASE SaveClosed
    <2>1. UNCHANGED <<desks, cleared, overlaps>>
          /\ \A x \in Records : records'[x] = IF x \in DOMAIN job THEN job[x] ELSE records[x]
        BY <1>5 DEF SaveClosed
    <2>2. \A x \in DOMAIN job : ~IsOpen(job[x])
        BY DEF Rows, ClosedRow
    <2>3. \A e : OpenSessions(e)' \subseteq OpenSessions(e)
        BY <2>1, <2>2 DEF OpenSessions
    <2> QED BY <1>2, <2>1, <2>3
<1>6. CASE UNCHANGED <<records, desks, job, cleared, overlaps>>
    BY <1>2, <1>6 DEF OpenSessions
<1> QED BY <1>1, <1>3, <1>4, <1>5, <1>6, AttendanceSteps

(* However many requests and jobs interleave: an employee has one open     *)
(* session at most, unless HR cleared a clock-out or an entry was in flight *)
(* together with another entry or an edit (clockIn, createManual, update). *)
THEOREM OneOpenSession == AttendanceSpec => []SecondOpenNeedsCause
<1>1. Single => SecondOpenNeedsCause
    <2> SUFFICES ASSUME Single, ~Excused, NEW e \in Staff PROVE Cardinality(OpenSessions(e)) <= 1
        BY DEF SecondOpenNeedsCause, Excused
    <2> DEFINE S == OpenSessions(e)
    <2>1. \A r, s \in S : r = s
        BY DEF Single, MaybeOpen
    <2> HIDE DEF S
    <2>2. CASE S = {}
        BY <2>2, FS_EmptySet DEF S
    <2>3. CASE S # {}
        <3>1. PICK r : S = {r}
            BY <2>1, <2>3
        <3>2. Cardinality({r}) = 1
            BY FS_Singleton
        <3> QED BY <3>1, <3>2 DEF S
    <2> QED BY <2>2, <2>3
<1> QED BY <1>1, RowsInit, RowsStep, SingleInit, SingleStep, PTL DEF AttendanceSpec

-----------------------------------------------------------------------------
(* The stored hours of a row, and its day.                                 *)
LEMMA StoredRows ==
    ASSUME Rows, NEW r \in Records, Stored(r)
    PROVE  /\ records[r].date = DateOf(records[r].in) /\ records[r].date \in Nat
           /\ IF IsOpen(records[r]) THEN records[r].worked = NoClockOut
              ELSE /\ records[r].worked = HoursBetween(records[r].in, records[r].out)
                   /\ records[r].worked \in Nat
<1> DEFINE row == records[r]
<1>1. row \in AttendanceRecord /\ row # NoRecord /\ row.date = DateOf(row.in) /\ row.worked = Worked(row.in, row.out)
    BY DEF Rows, Row, Stored
<1> HIDE DEF row
<1>2. row.in \in Hours /\ row.out \in Hours \cup {NoClockOut} \cup (0..(LastHour + MaxSession)) /\ row.date \in Nat
    BY <1>1 DEF AttendanceRecord
<1>3. row.in \in Nat /\ (row.out # NoClockOut => row.out \in Nat)
    <2>1. row.in \in Nat /\ (row.out \in Hours => row.out \in Nat)
        BY <1>2, HoursAreNumbers
    <2>2. row.out \in 0..(LastHour + MaxSession) => row.out \in Nat
        BY AttendanceConstants
    <2> QED BY <1>2, <2>1, <2>2
<1>4. HoursBetween(row.in, row.out) \in Nat \/ row.out = NoClockOut
    BY <1>3, HoursBetweenIs
<1>5. CASE row.out = NoClockOut
    BY <1>1, <1>2, <1>5 DEF IsOpen, Worked, row
<1>6. CASE row.out # NoClockOut
    BY <1>1, <1>2, <1>4, <1>6 DEF IsOpen, Worked, row
<1> QED BY <1>5, <1>6

(* The sums of the reports, from what the rows say.                        *)
LEMMA HoursAlwaysAddUp == Rows => HoursAddUp
<1> SUFFICES ASSUME Rows, NEW e \in Staff, NEW m \in Months
             PROVE  LET report == MonthlyReport(e, m)
                        days == {day \in DaysOf(m) : DailySummary(e, day).sessions > 0}
                        daily == [day \in days |-> DailySummary(e, day).worked]
                        begun == {r \in Records : Stored(r) /\ records[r].emp = e
                                                  /\ DateOf(records[r].in) \in DaysOf(m)}
                        span == [r \in begun |-> IF IsOpen(records[r]) THEN 0
                                                 ELSE HoursBetween(records[r].in, records[r].out)]
                    IN  /\ report.worked = SumOver(daily, days)
                        /\ report.worked = SumOver(span, begun)
                        /\ report.daysPresent = Cardinality(days)
    BY DEF HoursAddUp
<1> DEFINE rs == RecordsFor(e, DaysOf(m))
           Of(day) == RecordsFor(e, {day})
           days == {day \in DaysOf(m) : DailySummary(e, day).sessions > 0}
           daily == [day \in days |-> DailySummary(e, day).worked]
           begun == {r \in Records : Stored(r) /\ records[r].emp = e /\ DateOf(records[r].in) \in DaysOf(m)}
           span == [r \in begun |-> IF IsOpen(records[r]) THEN 0
                                    ELSE HoursBetween(records[r].in, records[r].out)]
           W == [r \in Records |-> IF records[r].worked = NoClockOut THEN 0 ELSE records[r].worked]
           date == [r \in Records |-> records[r].date]
           report == MonthlyReport(e, m)
(* The parts of the reports.                                               *)
<1>1. report.worked = TotalWorked(rs) /\ report.daysPresent = Cardinality({records[r].date : r \in rs})
    BY DEF MonthlyReport
<1>2. \A day : DailySummary(e, day).worked = TotalWorked(Of(day)) /\ DailySummary(e, day).sessions = Cardinality(Of(day))
    BY DEF DailySummary
<1>3. IsFiniteSet(Records)
    BY AttendanceConstants, FS_Interval DEF Records
<1>4. rs \subseteq Records /\ (\A day : Of(day) \subseteq Records) /\ \A r \in rs : Stored(r)
    BY DEF RecordsFor
<1>5. \A r \in Records : Stored(r) =>
        /\ W[r] \in Int /\ date[r] = DateOf(records[r].in)
        /\ W[r] = IF IsOpen(records[r]) THEN 0 ELSE HoursBetween(records[r].in, records[r].out)
    <2> SUFFICES ASSUME NEW r \in Records, Stored(r)
                 PROVE  /\ W[r] \in Int /\ date[r] = DateOf(records[r].in)
                        /\ W[r] = IF IsOpen(records[r]) THEN 0 ELSE HoursBetween(records[r].in, records[r].out)
        OBVIOUS
    <2>1. W[r] = (IF records[r].worked = NoClockOut THEN 0 ELSE records[r].worked) /\ date[r] = records[r].date
        OBVIOUS
    <2> HIDE DEF W, date
    <2> QED BY <2>1, StoredRows DEF NoClockOut
<1>6. ASSUME NEW x, x \subseteq Records, \A r \in x : Stored(r)
      PROVE  TotalWorked(x) = SumOver(W, x) /\ IsFiniteSet(x)
    <2> DEFINE v == [r \in x |-> IF records[r].worked = NoClockOut THEN 0 ELSE records[r].worked]
    <2>1. \A r \in x : W[r] \in Int /\ W[r] = v[r]
        <3>1. \A r \in x : W[r] \in Int
            BY <1>5, <1>6
        <3> QED BY <3>1, <1>6
    <2>2. IsFiniteSet(x)
        BY <1>3, <1>6, FS_Subset
    <2>3. TotalWorked(x) = SumOver(v, x)
        BY DEF TotalWorked
    <2> HIDE DEF v, W
    <2>4. SumOver(W, x) = SumOver(v, x)
        BY <2>1, <2>2, SumEqual
    <2> QED BY <2>2, <2>3, <2>4
<1>7. IsFiniteSet(days) /\ IsFiniteSet(rs)
    <2>1. m \in Int /\ DaysPerMonth \in Int
        BY AttendanceConstants DEF Months
    <2>2. m * DaysPerMonth \in Int /\ (m + 1) * DaysPerMonth - 1 \in Int
        BY <2>1
    <2>3. IsFiniteSet(DaysOf(m))
        BY <2>2, FS_Interval DEF DaysOf
    <2> QED BY <1>3, <1>4, <2>3, FS_Subset
(* The days with a session are the days of the sessions.                   *)
<1>8. \A day \in DaysOf(m) : DailySummary(e, day).sessions > 0 <=> Of(day) # {}
    <2> SUFFICES ASSUME NEW day \in DaysOf(m) PROVE DailySummary(e, day).sessions > 0 <=> Of(day) # {}
        OBVIOUS
    <2>1. IsFiniteSet(Of(day))
        BY <1>3, <1>4, FS_Subset
    <2>2. Cardinality(Of(day)) \in Nat /\ (Cardinality(Of(day)) = 0 <=> Of(day) = {})
        BY <2>1, FS_CardinalityType, FS_EmptySet
    <2> QED BY <1>2, <2>2
<1>9. \A r \in rs : date[r] = records[r].date /\ records[r].date \in DaysOf(m) /\ r \in Of(records[r].date)
    BY DEF RecordsFor
<1>10. \A day \in days : Of(day) = {r \in rs : date[r] = day}
    BY DEF RecordsFor
<1>11. \A r \in rs : date[r] \in days
    BY <1>8, <1>9
<1>12. days = {records[r].date : r \in rs}
    <2>1. \A day \in days : \E r \in rs : records[r].date = day
        <3> SUFFICES ASSUME NEW day \in days PROVE \E r \in rs : records[r].date = day
            OBVIOUS
        <3>1. day \in DaysOf(m) /\ Of(day) # {}
            BY <1>8
        <3>2. PICK r \in Of(day) : TRUE
            BY <3>1
        <3> QED BY <3>1, <3>2 DEF RecordsFor
    <2>2. \A r \in rs : records[r].date \in days
        BY <1>9, <1>11
    <2> HIDE DEF days
    <2> QED BY <2>1, <2>2
<1>13. report.daysPresent = Cardinality(days)
    BY <1>1, <1>12
(* The month is the sum of its days.                                       *)
<1>14. TotalWorked(rs) = SumOver(W, rs) /\ \A r \in rs : W[r] \in Int
    <2> HIDE DEF W
    <2> QED BY <1>4, <1>5, <1>6
<1>15. \A day \in days : daily[day] = SumOver(W, {r \in rs : date[r] = day}) /\ daily[day] \in Int
    <2> SUFFICES ASSUME NEW day \in days
                 PROVE  daily[day] = SumOver(W, {r \in rs : date[r] = day}) /\ daily[day] \in Int
        OBVIOUS
    <2>1. daily[day] = TotalWorked(Of(day))
        BY <1>2
    <2> DEFINE g == Of(day)
    <2>2. g = {r \in rs : date[r] = day} /\ g \subseteq Records /\ (\A r \in g : Stored(r))
        BY <1>4, <1>10
    <2> HIDE DEF g, W, date
    <2>3. TotalWorked(g) = SumOver(W, g) /\ IsFiniteSet(g)
        BY <1>6, <2>2
    <2>4. \A r \in g : W[r] \in Int
        BY <1>5, <2>2
    <2>5. SumOver(W, g) \in Int
        BY <2>3, <2>4, SumType
    <2> QED BY <2>1, <2>2, <2>3, <2>5 DEF g
<1>16. report.worked = SumOver(daily, days)
    <2> DEFINE Groups == [day \in days |-> SumOver(W, {r \in rs : date[r] = day})]
    <2>1. \A day \in days : daily[day] \in Int /\ daily[day] = Groups[day]
        BY <1>15
    <2> HIDE DEF W, date, rs, days, daily
    <2>2. SumOver(W, rs) = SumOver(Groups, days)
        BY <1>7, <1>11, <1>14, SumPartition
    <2> HIDE DEF Groups
    <2>3. SumOver(daily, days) = SumOver(Groups, days)
        BY <1>7, <2>1, SumEqual
    <2> QED BY <1>1, <1>14, <2>2, <2>3
(* The stored hours are the time between the stored clock times.           *)
<1>17. report.worked = SumOver(span, begun)
    <2>1. begun = rs
        BY <1>5 DEF RecordsFor
    <2>2. \A r \in begun : W[r] \in Int /\ W[r] = span[r]
        BY <1>4, <1>5, <2>1
    <2> HIDE DEF W, span, begun, rs
    <2>3. SumOver(W, begun) = SumOver(span, begun)
        BY <1>7, <2>1, <2>2, SumEqual
    <2> QED BY <1>1, <1>14, <2>1, <2>3
<1> QED BY <1>13, <1>16, <1>17

(* The totals of monthlyReport are those of its days and the time between  *)
(* the clock times of the sessions that began in the month, for any calendar, *)
(* number of employees and interleaving of whole-row writes.               *)
THEOREM ReportsAddUp == AttendanceSpec => []HoursAddUp
<1> QED BY RowsInit, RowsStep, HoursAlwaysAddUp, PTL DEF AttendanceSpec

-----------------------------------------------------------------------------
(* The assistant.                                                          *)
Steps == {"none", "conversation", "question", "order", "call", "refused", "notFound", "streaming",
          "answer", "record"}
Question ==
    [step : Steps, conv : Conversations \cup {"none"}, stream : BOOLEAN,
     order : SUBSET Providers, tried : SUBSET Providers, since : Nat]

AssistantTypeOK ==
    /\ configured \in SUBSET Providers /\ roles \in SUBSET DOMAIN RoleLimits
    /\ now \in Nat /\ now <= LastTick
    /\ cooldownUntil \in [Providers -> Int] /\ failedAt \in [Providers -> Int]
    /\ usage \in [UsageDays -> Nat] /\ paid \in Nat
    /\ questions \in [Questions -> Question]
    /\ \A q \in Questions : At(q, "call") => questions[q].order # {}

LEMMA NoQuestionType == NoQuestion \in Question /\ NoQuestion.step = "none"
    BY DEF NoQuestion, Question, Steps

LEMMA DayNumbers ==
    ASSUME NEW t \in Nat, t <= LastTick
    PROVE  Day(t) \in UsageDays
<1>1. TicksPerDay \in Nat \ {0} /\ LastTick \in Nat
    BY AssistantAssumption
<1> QED BY <1>1 DEF Day, UsageDays

LEMMA LaterDays ==
    ASSUME NEW t \in Nat
    PROVE  Day(t) \in Nat /\ Day(t + 1) \in Nat /\ Day(t) <= Day(t + 1)
<1>1. TicksPerDay \in Nat \ {0}
    BY AssistantAssumption
<1> QED BY <1>1 DEF Day

(* The provider whose turn it is is one of those still to be tried.        *)
LEMMA FirstIsOne ==
    ASSUME NEW ps \in SUBSET Providers, ps # {}
    PROVE  First(ps) \in ps
<1> DEFINE I == {i \in DOMAIN Chain : Chain[i] \in ps}
<1>1. DOMAIN Chain \subseteq Nat /\ \A i \in DOMAIN Chain : 1..(i - 1) \subseteq DOMAIN Chain
    <2>1. Chain \in Seq(Providers)
        BY AssistantAssumption
    <2>2. DOMAIN Chain = 1..Len(Chain) /\ Len(Chain) \in Nat
        BY <2>1
    <2> QED BY <2>2
<1>2. I # {} /\ I \subseteq Nat
    BY <1>1 DEF Providers
<1>3. PICK i \in I : \A j \in I : ~(<<j, i>> \in OpToRel(<, Nat))
    BY <1>2, NatLessThanWellFounded, WFMin
<1>4. \A j \in 1..(i - 1) : Chain[j] \notin ps
    <2> SUFFICES ASSUME NEW j \in 1..(i - 1), Chain[j] \in ps PROVE FALSE
        OBVIOUS
    <2>1. j \in I /\ i \in Nat /\ j \in Nat /\ j < i
        BY <1>1, <1>2
    <2> QED BY <2>1, <1>3 DEF OpToRel
<1> QED BY <1>3, <1>4 DEF First

-----------------------------------------------------------------------------
(* What the steps of a question do to it and to the shared state: it is    *)
(* asked, moves on (or ends), computes its chain, is answered, tries the   *)
(* next provider, or is counted.                                           *)
Becomes(q, new) == new \in Question /\ questions' = [questions EXCEPT ![q] = new]
Owing(question) == question.step \in {"streaming", "answer", "record"}
ChainKept == UNCHANGED <<cooldownUntil, failedAt>>

Asks(q, new) ==
    /\ questions[q] = NoQuestion /\ WithinDailyLimit
    /\ new.step \in {"conversation", "question"}
    /\ ChainKept /\ UNCHANGED <<usage, paid, lost>>
Moves(q, new) ==
    /\ questions[q] # NoQuestion
    /\ new = NoQuestion \/ new.step \in Steps \ {"none", "call", "refused"}
    /\ \/ lost' = lost /\ (Owing(questions[q]) <=> Owing(new))
       \/ lost' # {} /\ (Owing(new) => Owing(questions[q]))
    /\ ChainKept /\ UNCHANGED <<usage, paid>>
Starts(q, new) ==
    /\ At(q, "order")
    /\ new.step = (IF Order = {} THEN "refused" ELSE "call")
    /\ new.order = Order /\ new.since = now
    /\ ChainKept /\ UNCHANGED <<usage, paid, lost>>
Pays(q, new) ==
    /\ At(q, "call") /\ Owing(new)
    /\ cooldownUntil' = [cooldownUntil EXCEPT ![First(questions[q].order)] = Never]
    /\ paid' = paid + 1
    /\ UNCHANGED <<usage, failedAt, lost>>
Tries(q, new) ==
    LET p == First(questions[q].order)
        rest == questions[q].order \ {p}
    IN  /\ At(q, "call")
        /\ cooldownUntil' = [cooldownUntil EXCEPT ![p] = now + Cooldown]
        /\ failedAt' = [failedAt EXCEPT ![p] = now]
        /\ new.step = (IF rest = {} THEN "refused" ELSE "call")
        /\ new.order = rest /\ new.tried = questions[q].tried \cup {p} /\ new.since = questions[q].since
        /\ UNCHANGED <<usage, paid, lost>>
Counts(q, new) ==
    /\ At(q, "record") /\ new = NoQuestion
    /\ usage' = [usage EXCEPT ![Day(now)] = @ + 1]
    /\ ChainKept /\ UNCHANGED <<paid, lost>>

StepOf(q, new) ==
    \/ Asks(q, new) \/ Moves(q, new) \/ Starts(q, new) \/ Pays(q, new) \/ Tries(q, new) \/ Counts(q, new)

With(s, c, b) == [NoQuestion EXCEPT !.step = s, !.conv = c, !.stream = b]

(* The fields of a question that is rebuilt from NoQuestion.               *)
LEMMA Fresh ==
    ASSUME NEW s \in Steps, NEW c \in Conversations \cup {"none"}, NEW b \in BOOLEAN
    PROVE  With(s, c, b) \in Question /\ With(s, c, b).step = s
<1> DEFINE one == [NoQuestion EXCEPT !.step = s]
           two == [one EXCEPT !.conv = c]
           new == [two EXCEPT !.stream = b]
<1>1. With(s, c, b) = new
    BY DEF With
<1>2. one \in Question /\ one.step = s
    BY NoQuestionType DEF Question
<1> HIDE DEF one
<1>3. two \in Question /\ two.step = s
    BY <1>2 DEF Question
<1> HIDE DEF two
<1>4. new \in Question /\ new.step = s
    BY <1>3 DEF Question
<1> QED BY <1>1, <1>4

LEMMA Ends ==
    ASSUME AssistantTypeOK, NEW q \in Questions, End(q)
    PROVE  Becomes(q, NoQuestion)
    BY NoQuestionType DEF End, Becomes

LEMMA Goes ==
    ASSUME AssistantTypeOK, NEW q \in Questions, NEW s \in Steps, Goto(q, s)
    PROVE  \E new : Becomes(q, new) /\ new.step = s
<1> DEFINE new == [questions[q] EXCEPT !.step = s]
<1>1. questions[q] \in Question /\ questions' = [questions EXCEPT ![q] = new]
    BY DEF AssistantTypeOK, Goto
<1>2. new \in Question /\ new.step = s
    BY <1>1 DEF Question
<1> HIDE DEF new
<1> QED BY <1>1, <1>2 DEF Becomes

LEMMA AskIs ==
    ASSUME AssistantTypeOK, NEW q \in Questions, Ask(q)
    PROVE  \E new : Becomes(q, new) /\ Asks(q, new)
<1>1. PICK c \in Conversations \cup {"none"}, b \in BOOLEAN :
        questions' = [questions EXCEPT ![q] = [NoQuestion EXCEPT
            !.step = IF c = "none" THEN "conversation" ELSE "question", !.conv = c, !.stream = b]]
    BY DEF Ask
<1> DEFINE s == IF c = "none" THEN "conversation" ELSE "question"
<1>2. s \in Steps /\ s \in {"conversation", "question"}
    BY DEF Steps
<1> HIDE DEF s
<1>3. With(s, c, b) \in Question /\ With(s, c, b).step = s
    BY <1>2, Fresh
<1> DEFINE new == With(s, c, b)
<1>6. Becomes(q, new)
    BY <1>1, <1>3 DEF Becomes, s, With
<1>7. Asks(q, new)
    BY <1>2, <1>3 DEF Ask, Asks, ChainKept
<1> QED BY <1>6, <1>7

LEMMA SaveConversationIs ==
    ASSUME AssistantTypeOK, NEW q \in Questions, SaveConversation(q)
    PROVE  \E new : Becomes(q, new) /\ Moves(q, new)
<1> DEFINE c == CHOOSE x \in Conversations : conversations[x] = "none"
           mid == [questions[q] EXCEPT !.step = "question"]
           new == [mid EXCEPT !.conv = c]
<1>1. questions[q] \in Question /\ c \in Conversations
    BY DEF AssistantTypeOK, SaveConversation
<1>2. questions' = [questions EXCEPT ![q] = new]
    BY DEF AssistantTypeOK, SaveConversation
<1>3. mid \in Question /\ mid.step = "question"
    BY <1>1 DEF Question, Steps
<1> HIDE DEF c, mid
<1>4. new \in Question /\ new.step = "question"
    BY <1>1, <1>3 DEF Question
<1> HIDE DEF new
<1>5. questions[q] # NoQuestion /\ ~Owing(questions[q]) /\ ~Owing(new)
    BY <1>4, NoQuestionType DEF SaveConversation, At, Owing
<1> QED BY <1>2, <1>4, <1>5 DEF Becomes, Moves, SaveConversation, ChainKept, Steps

LEMMA SaveQuestionIs ==
    ASSUME AssistantTypeOK, NEW q \in Questions, SaveQuestion(q)
    PROVE  \E new : Becomes(q, new) /\ Moves(q, new)
<1>1. PICK new : Becomes(q, new) /\ (new = NoQuestion \/ new.step \in {"order", "notFound"})
    BY Ends, Goes DEF SaveQuestion, Steps
<1>2. questions[q] # NoQuestion /\ ~Owing(questions[q]) /\ ~Owing(new)
    BY <1>1, NoQuestionType DEF SaveQuestion, At, Owing
<1> QED BY <1>1, <1>2 DEF Moves, SaveQuestion, ChainKept, Steps

LEMMA StartOrderIs ==
    ASSUME AssistantTypeOK, NEW q \in Questions, StartOrder(q)
    PROVE  \E new : Becomes(q, new) /\ Starts(q, new)
<1> DEFINE s == IF Order = {} THEN "refused" ELSE "call"
           one == [questions[q] EXCEPT !.step = s]
           two == [one EXCEPT !.order = Order]
           new == [two EXCEPT !.since = now]
<1>1. questions[q] \in Question /\ Order \in SUBSET Providers /\ now \in Nat
    BY DEF AssistantTypeOK, Order, Healthy
<1>2. questions' = [questions EXCEPT ![q] = new]
    BY DEF AssistantTypeOK, StartOrder
<1>3. s \in Steps
    BY DEF Steps
<1> HIDE DEF s
<1>4. one \in Question /\ one.step = s
    BY <1>1, <1>3 DEF Question
<1> HIDE DEF one
<1>5. two \in Question /\ two.step = s /\ two.order = Order
    BY <1>1, <1>4 DEF Question
<1> HIDE DEF two
<1>6. new \in Question /\ new.step = s /\ new.order = Order /\ new.since = now
    BY <1>1, <1>5 DEF Question
<1> HIDE DEF new
<1> QED BY <1>2, <1>6 DEF Becomes, Starts, StartOrder, ChainKept, s

LEMMA AnswersIs ==
    ASSUME AssistantTypeOK, NEW q \in Questions, Answers(q)
    PROVE  \E new : Becomes(q, new) /\ Pays(q, new)
<1> DEFINE s == IF questions[q].stream THEN "streaming" ELSE "answer"
           c == questions[q].conv
           b == questions[q].stream
<1>1. s \in Steps /\ c \in Conversations \cup {"none"} /\ b \in BOOLEAN
    BY DEF AssistantTypeOK, Question, Steps
<1> HIDE DEF s, c, b
<1>2. With(s, c, b) \in Question /\ With(s, c, b).step = s
    BY <1>1, Fresh
<1> DEFINE new == With(s, c, b)
<1>3. questions' = [questions EXCEPT ![q] = new]
    BY <1>2 DEF Answers, s, c, b, With
<1>4. Owing(new)
    BY <1>2 DEF Owing, s
<1> QED BY <1>2, <1>3, <1>4 DEF Becomes, Pays, Answers

LEMMA FailsIs ==
    ASSUME AssistantTypeOK, NEW q \in Questions, Fails(q)
    PROVE  \E new : Becomes(q, new) /\ Tries(q, new)
<1> DEFINE p == First(questions[q].order)
           rest == questions[q].order \ {p}
           s == IF rest = {} THEN "refused" ELSE "call"
           t == questions[q].tried \cup {p}
           one == [questions[q] EXCEPT !.step = s]
           two == [one EXCEPT !.order = rest]
           new == [two EXCEPT !.tried = t]
<1>1. questions[q] \in Question
    BY DEF AssistantTypeOK
<1>2. questions[q].order \in SUBSET Providers /\ questions[q].order # {}
    BY <1>1 DEF AssistantTypeOK, Question, Fails
<1>3. rest \in SUBSET Providers /\ t \in SUBSET Providers
    BY <1>1, <1>2, FirstIsOne DEF Question
<1>4. questions' = [questions EXCEPT ![q] = new]
    BY DEF AssistantTypeOK, Fails
<1>5. s \in Steps
    BY DEF Steps
<1> HIDE DEF s
<1>6. one \in Question /\ one.step = s /\ one.since = questions[q].since
    BY <1>1, <1>5 DEF Question
<1> HIDE DEF one, rest
<1>7. two \in Question /\ two.step = s /\ two.order = rest /\ two.since = questions[q].since
    BY <1>3, <1>6 DEF Question
<1> HIDE DEF two, t
<1>8. new \in Question /\ new.step = s /\ new.order = rest /\ new.tried = t /\ new.since = questions[q].since
    BY <1>3, <1>7 DEF Question
<1> HIDE DEF new
<1> QED BY <1>4, <1>8 DEF Becomes, Tries, Fails, rest, s, t

LEMMA AnsweringIs ==
    ASSUME AssistantTypeOK, NEW q \in Questions, Answering(q)
    PROVE  \E new : Becomes(q, new) /\ StepOf(q, new)
<1>1. CASE Ask(q)
    BY <1>1, AskIs DEF StepOf
<1>2. CASE SaveConversation(q)
    BY <1>2, SaveConversationIs DEF StepOf
<1>3. CASE SaveQuestion(q)
    BY <1>3, SaveQuestionIs DEF StepOf
<1>4. CASE StartOrder(q)
    BY <1>4, StartOrderIs DEF StepOf
<1>5. CASE Answers(q)
    BY <1>5, AnswersIs DEF StepOf
<1>6. CASE Fails(q)
    BY <1>6, FailsIs DEF StepOf
<1>7. CASE Refuse(q)
    <2>1. Becomes(q, NoQuestion)
        BY <1>7, Ends DEF Refuse
    <2>2. Moves(q, NoQuestion)
        BY <1>7, NoQuestionType DEF Refuse, Moves, At, Owing, ChainKept
    <2> QED BY <2>1, <2>2 DEF StepOf
<1>8. CASE StreamEnds(q)
    <2> DEFINE mid == [questions[q] EXCEPT !.step = "answer"]
               new == [mid EXCEPT !.stream = FALSE]
    <2>1. questions[q] \in Question /\ questions' = [questions EXCEPT ![q] = new]
        BY <1>8 DEF AssistantTypeOK, StreamEnds
    <2>2. mid \in Question /\ mid.step = "answer"
        BY <2>1 DEF Question, Steps
    <2> HIDE DEF mid
    <2>3. new \in Question /\ new.step = "answer"
        BY <2>2 DEF Question
    <2> HIDE DEF new
    <2>4. questions[q] # NoQuestion /\ Owing(questions[q]) /\ Owing(new)
        BY <1>8, <2>3, NoQuestionType DEF StreamEnds, At, Owing
    <2> QED BY <1>8, <2>1, <2>3, <2>4 DEF StreamEnds, Becomes, StepOf, Moves, ChainKept, Steps
<1>9. CASE StreamBreaks(q)
    <2>1. Becomes(q, NoQuestion)
        BY <1>9, Ends DEF StreamBreaks
    <2>2. Moves(q, NoQuestion)
        BY <1>9, NoQuestionType DEF StreamBreaks, Moves, At, Owing, ChainKept
    <2> QED BY <2>1, <2>2 DEF StepOf
<1>10. CASE Abandon(q)
    <2>1. CASE At(q, "streaming") /\ Goto(q, "record")
        <3>1. PICK new : Becomes(q, new) /\ new.step = "record"
            BY <2>1, Goes DEF Steps
        <3>2. questions[q] # NoQuestion /\ Owing(questions[q]) /\ Owing(new)
            BY <2>1, <3>1, NoQuestionType DEF At, Owing
        <3> QED BY <1>10, <3>1, <3>2 DEF Abandon, StepOf, Moves, ChainKept, Steps
    <2>2. CASE (At(q, "order") \/ At(q, "notFound")) /\ End(q)
        <3>1. Becomes(q, NoQuestion)
            BY <2>2, Ends
        <3>2. Moves(q, NoQuestion)
            BY <1>10, <2>2, NoQuestionType DEF Abandon, Moves, At, Owing, ChainKept
        <3> QED BY <3>1, <3>2 DEF StepOf
    <2> QED BY <1>10, <2>1, <2>2 DEF Abandon
<1>11. CASE SaveAnswer(q)
    <2>1. CASE ~Kept(questions[q].conv)
        <3>1. Becomes(q, NoQuestion)
            BY <1>11, <2>1, Ends DEF SaveAnswer
        <3>2. lost' = IF At(q, "answer") THEN lost \cup {"unsaved"} ELSE lost
            BY <1>11, <2>1 DEF SaveAnswer
        <3>3. Moves(q, NoQuestion)
            BY <1>11, <3>2, NoQuestionType DEF SaveAnswer, Moves, At, Owing, ChainKept
        <3> QED BY <3>1, <3>3 DEF StepOf
    <2>2. CASE Kept(questions[q].conv) /\ At(q, "answer")
        <3>1. PICK new : Becomes(q, new) /\ new.step = "record"
            BY <1>11, <2>2, Goes DEF SaveAnswer, Steps
        <3>2. questions[q] # NoQuestion /\ Owing(questions[q]) /\ Owing(new)
            BY <2>2, <3>1, NoQuestionType DEF At, Owing
        <3> QED BY <1>11, <2>2, <3>1, <3>2 DEF SaveAnswer, StepOf, Moves, ChainKept, Steps
    <2>3. CASE Kept(questions[q].conv) /\ ~At(q, "answer")
        <3>1. Becomes(q, NoQuestion)
            BY <1>11, <2>3, Ends DEF SaveAnswer
        <3>2. Moves(q, NoQuestion)
            BY <1>11, <2>3, NoQuestionType DEF SaveAnswer, Moves, At, Owing, ChainKept
        <3> QED BY <3>1, <3>2 DEF StepOf
    <2> QED BY <2>1, <2>2, <2>3
<1>12. CASE Record(q)
    <2>1. Becomes(q, NoQuestion)
        BY <1>12, Ends DEF Record
    <2>2. Moves(q, NoQuestion) \/ Counts(q, NoQuestion)
        BY <1>12, NoQuestionType DEF Record, Moves, Counts, At, Owing, ChainKept
    <2> QED BY <2>1, <2>2 DEF StepOf
<1>13. CASE ServerStops(q)
    <2>1. Becomes(q, NoQuestion)
        BY <1>13, Ends DEF ServerStops
    <2>2. Moves(q, NoQuestion)
        BY <1>13, NoQuestionType DEF ServerStops, Moves, Owing, ChainKept, InFlight
    <2> QED BY <2>1, <2>2 DEF StepOf
<1> QED
    BY <1>1, <1>2, <1>3, <1>4, <1>5, <1>6, <1>7, <1>8, <1>9, <1>10, <1>11, <1>12, <1>13 DEF Answering

(* Every step is one of these, or leaves questions and providers alone.    *)
Aside == UNCHANGED <<configured, roles, cooldownUntil, usage, questions, paid, failedAt, lost>>

LEMMA AssistantSteps ==
    ASSUME AssistantTypeOK, [AssistantNext]_assistant
    PROVE  \/ \E q \in Questions : \E new :
                Becomes(q, new) /\ StepOf(q, new) /\ UNCHANGED <<configured, roles, now>>
           \/ Aside /\ now' = now
           \/ Aside /\ now < LastTick /\ now' = now + 1
<1>1. CASE \E q \in Questions : Answering(q)
    <2>1. PICK q \in Questions : Answering(q)
        BY <1>1
    <2>2. UNCHANGED <<configured, roles, now>>
        BY <2>1 DEF Answering, Ask, SaveConversation, SaveQuestion, StartOrder, Answers, Fails, Refuse,
            StreamEnds, StreamBreaks, Abandon, SaveAnswer, Record, ServerStops
    <2> QED BY <2>1, <2>2, AnsweringIs
<1>2. CASE \E c \in Conversations : DeleteConversation(c) \/ ConversationAges(c)
    BY <1>2 DEF DeleteConversation, ConversationAges, Aside
<1>3. CASE PurgeConversations
    BY <1>3 DEF PurgeConversations, Aside
<1>4. CASE TimePasses
    BY <1>4 DEF TimePasses, Aside
<1>5. CASE UNCHANGED assistant
    BY <1>5 DEF assistant, Aside
<1> QED BY <1>1, <1>2, <1>3, <1>4, <1>5 DEF AssistantNext

LEMMA AssistantTypeInit == AssistantInit => AssistantTypeOK
<1> SUFFICES ASSUME AssistantInit PROVE AssistantTypeOK
    OBVIOUS
<1>1. Cooldown \in Nat /\ LastTick \in Nat
    BY AssistantAssumption
<1>2. configured \in SUBSET Providers /\ roles \in SUBSET DOMAIN RoleLimits
    BY AssistantAssumption DEF AssistantInit
<1>3. cooldownUntil \in [Providers -> Int] /\ failedAt \in [Providers -> Int]
    BY <1>1 DEF AssistantInit, Never
<1>4. questions \in [Questions -> Question] /\ \A q \in Questions : ~At(q, "call")
    BY NoQuestionType DEF AssistantInit, At
<1> QED BY <1>1, <1>2, <1>3, <1>4 DEF AssistantInit, AssistantTypeOK

LEMMA AssistantTypeStep == AssistantTypeOK /\ [AssistantNext]_assistant => AssistantTypeOK'
<1> SUFFICES ASSUME AssistantTypeOK, [AssistantNext]_assistant PROVE AssistantTypeOK'
    OBVIOUS
<1>0. Cooldown \in Nat /\ Never \in Int
    BY AssistantAssumption DEF Never
<1>1. ASSUME NEW q \in Questions, NEW new, Becomes(q, new), StepOf(q, new), UNCHANGED <<configured, roles, now>>
      PROVE  AssistantTypeOK'
    <2>1. questions' \in [Questions -> Question] /\ questions'[q] = new
          /\ \A x \in Questions \ {q} : questions'[x] = questions[x]
        BY <1>1 DEF Becomes, AssistantTypeOK
    <2>2. new.step = "call" => new.order # {}
        BY <1>1, NoQuestionType DEF StepOf, Asks, Moves, Starts, Pays, Tries, Counts, Owing
    <2>3. \A x \in Questions : At(x, "call")' => questions'[x].order # {}
        BY <2>1, <2>2 DEF At, AssistantTypeOK
    <2>4. At(q, "call") => First(questions[q].order) \in Providers
        BY FirstIsOne DEF AssistantTypeOK, Question
    <2>5. cooldownUntil' \in [Providers -> Int] /\ failedAt' \in [Providers -> Int]
        BY <1>0, <1>1, <2>4 DEF StepOf, Asks, Moves, Starts, Pays, Tries, Counts, ChainKept, AssistantTypeOK
    <2>6. usage' \in [UsageDays -> Nat] /\ paid' \in Nat
        <3>1. Day(now) \in UsageDays
            BY DayNumbers DEF AssistantTypeOK
        <3> QED BY <3>1, <1>1 DEF StepOf, Asks, Moves, Starts, Pays, Tries, Counts, AssistantTypeOK
    <2> QED BY <1>1, <2>1, <2>3, <2>5, <2>6 DEF AssistantTypeOK
<1>2. ASSUME Aside, now' \in Nat, now' <= LastTick
      PROVE  AssistantTypeOK'
    BY <1>2 DEF Aside, AssistantTypeOK, At
<1>3. now \in Nat /\ LastTick \in Nat /\ now <= LastTick
    BY AssistantAssumption DEF AssistantTypeOK
<1> QED BY <1>1, <1>2, <1>3, AssistantSteps

(* The assistant's state is well typed; in particular a question that is at *)
(* a call always has a provider left to try (FallbackChatModel.complete).  *)
THEOREM AssistantTyped == AssistantSpec => []AssistantTypeOK
<1> QED BY AssistantTypeInit, AssistantTypeStep, PTL DEF AssistantSpec

-----------------------------------------------------------------------------
(* A provider that left a question's chain, or was not in it, failed within *)
(* the cooldown of the moment the chain was computed; later failures only  *)
(* make that truer, recoveries of providers are seen by later chains.      *)
Walking ==
    /\ \A p \in Providers : failedAt[p] <= now /\ cooldownUntil[p] \in {Never, failedAt[p] + Cooldown}
    /\ \A q \in Questions : At(q, "call") \/ At(q, "refused") =>
        /\ questions[q].since <= now
        /\ \A p \in configured : p \in questions[q].order \/ failedAt[p] + Cooldown > questions[q].since
        /\ At(q, "refused") => questions[q].order = {} /\ (configured # {} => questions[q].tried # {})

LEMMA WalkingInit == AssistantInit => Walking
<1> SUFFICES ASSUME AssistantInit PROVE Walking
    OBVIOUS
<1>1. Cooldown \in Nat
    BY AssistantAssumption
<1> QED BY <1>1, NoQuestionType DEF AssistantInit, Walking, At, Never

LEMMA WalkingStep == AssistantTypeOK /\ Walking /\ [AssistantNext]_assistant => Walking'
<1> SUFFICES ASSUME AssistantTypeOK, Walking, [AssistantNext]_assistant PROVE Walking'
    OBVIOUS
<1>0. Cooldown \in Nat \ {0} /\ Never = -Cooldown /\ now \in Nat /\ configured \subseteq Providers
    BY AssistantAssumption DEF AssistantTypeOK, Never
<1>00. \A p \in Providers : failedAt[p] \in Int /\ cooldownUntil[p] \in Int
    BY DEF AssistantTypeOK
<1>1. ASSUME NEW q \in Questions, NEW new, Becomes(q, new), StepOf(q, new), UNCHANGED <<configured, roles, now>>
      PROVE  Walking'
    <2>1. questions'[q] = new /\ \A x \in Questions \ {q} : questions'[x] = questions[x]
        BY <1>1 DEF Becomes, AssistantTypeOK
    <2>2. \A x \in Questions : questions[x].since \in Nat
        BY DEF AssistantTypeOK, Question
    <2>3. ASSUME \A p \in Providers :
                    /\ failedAt'[p] \in Int
                    /\ failedAt[p] <= failedAt'[p] /\ failedAt'[p] <= now
                    /\ cooldownUntil'[p] \in {Never, failedAt'[p] + Cooldown},
                 new.step \in {"call", "refused"} =>
                    /\ new.since \in Nat /\ new.since <= now
                    /\ \A p \in configured : p \in new.order \/ failedAt'[p] + Cooldown > new.since
                    /\ new.step = "refused" => new.order = {} /\ (configured # {} => new.tried # {})
          PROVE  Walking'
        <3>1. \A p \in Providers : failedAt'[p] <= now' /\ cooldownUntil'[p] \in {Never, failedAt'[p] + Cooldown}
            BY <1>1, <2>3
        <3>2. ASSUME NEW x \in Questions, At(x, "call")' \/ At(x, "refused")'
              PROVE  /\ questions'[x].since <= now'
                     /\ \A p \in configured' : p \in questions'[x].order
                                               \/ failedAt'[p] + Cooldown > questions'[x].since
                     /\ At(x, "refused")' => questions'[x].order = {}
                                             /\ (configured' # {} => questions'[x].tried # {})
            <4>1. CASE x = q
                BY <1>1, <2>1, <2>3, <3>2, <4>1 DEF At
            <4>2. CASE x # q
                <5>1. questions'[x] = questions[x] /\ (At(x, "call") \/ At(x, "refused"))
                    BY <2>1, <3>2, <4>2 DEF At
                <5>2. questions[x].since <= now /\ (At(x, "refused")' => At(x, "refused"))
                    BY <5>1 DEF Walking, At
                <5>3. ASSUME NEW p \in configured, p \notin questions[x].order
                      PROVE  failedAt'[p] + Cooldown > questions[x].since
                    <6>1. failedAt[p] + Cooldown > questions[x].since
                        BY <5>1, <5>3 DEF Walking
                    <6>2. failedAt[p] \in Int /\ failedAt'[p] \in Int /\ failedAt[p] <= failedAt'[p]
                        BY <1>0, <1>00, <2>3
                    <6> QED BY <1>0, <2>2, <6>1, <6>2
                <5> QED BY <1>1, <5>1, <5>2, <5>3 DEF Walking
            <4> QED BY <4>1, <4>2
        <3> QED BY <3>1, <3>2 DEF Walking
    <2>4. CASE Asks(q, new) \/ Moves(q, new) \/ Counts(q, new)
        <3>1. new.step \notin {"call", "refused"} /\ UNCHANGED <<cooldownUntil, failedAt>>
            BY <2>4, NoQuestionType DEF Asks, Moves, Counts, ChainKept
        <3> QED BY <1>00, <2>3, <3>1 DEF Walking
    <2>5. CASE Starts(q, new)
        <3>1. UNCHANGED <<cooldownUntil, failedAt>> /\ new.since = now /\ new.order = Order
            BY <2>5 DEF Starts, ChainKept
        <3>2. ASSUME NEW p \in configured, p \notin Order
              PROVE  failedAt[p] + Cooldown > now
            <4>1. cooldownUntil[p] > now
                BY <3>2 DEF Order, Healthy, OnCooldown
            <4>2. cooldownUntil[p] \in {Never, failedAt[p] + Cooldown}
                BY <1>0 DEF Walking
            <4> QED BY <1>0, <4>1, <4>2
        <3>3. new.step = "refused" => new.order = {} /\ configured = {}
            BY <2>5 DEF Starts, Order
        <3> QED BY <1>0, <1>00, <2>3, <3>1, <3>2, <3>3 DEF Walking
    <2>6. CASE Pays(q, new)
        <3>1. new.step \notin {"call", "refused"} /\ UNCHANGED failedAt
            BY <2>6 DEF Pays, Owing
        <3>2. \A p \in Providers : cooldownUntil'[p] \in {Never, cooldownUntil[p]}
            BY <2>6 DEF Pays, AssistantTypeOK
        <3> QED BY <1>00, <2>3, <3>1, <3>2 DEF Walking
    <2>7. CASE Tries(q, new)
        <3> DEFINE o == First(questions[q].order)
        <3>1. At(q, "call") /\ questions[q].order \in SUBSET Providers /\ questions[q].order # {}
            BY <2>7 DEF Tries, AssistantTypeOK, Question
        <3>2. o \in Providers
            BY <3>1, FirstIsOne
        <3> HIDE DEF o
        <3>3. /\ cooldownUntil' = [cooldownUntil EXCEPT ![o] = now + Cooldown]
              /\ failedAt' = [failedAt EXCEPT ![o] = now]
              /\ new.order = questions[q].order \ {o} /\ new.tried = questions[q].tried \cup {o}
              /\ new.since = questions[q].since
              /\ new.step = "refused" => new.order = {}
            BY <2>7 DEF Tries, o
        <3>4. \A p \in Providers :
                    /\ failedAt'[p] = IF p = o THEN now ELSE failedAt[p]
                    /\ cooldownUntil'[p] = IF p = o THEN now + Cooldown ELSE cooldownUntil[p]
            BY <3>2, <3>3 DEF AssistantTypeOK
        <3>5. \A p \in Providers : failedAt[p] <= now /\ cooldownUntil[p] \in {Never, failedAt[p] + Cooldown}
            BY DEF Walking
        <3>6. \A p \in Providers :
                    /\ failedAt'[p] \in Int
                    /\ failedAt[p] <= failedAt'[p] /\ failedAt'[p] <= now
                    /\ cooldownUntil'[p] \in {Never, failedAt'[p] + Cooldown}
            BY <1>0, <1>00, <3>4, <3>5
        <3>7. questions[q].since <= now /\ questions[q].since \in Nat
              /\ \A p \in configured : p \in questions[q].order \/ failedAt[p] + Cooldown > questions[q].since
            BY <2>2, <3>1 DEF Walking
        <3>8. ASSUME NEW p \in configured, p \notin new.order
              PROVE  failedAt'[p] + Cooldown > new.since
            <4>1. CASE p = o
                BY <1>0, <3>3, <3>4, <3>7, <4>1
            <4>2. CASE p # o
                BY <1>0, <3>3, <3>4, <3>7, <3>8, <4>2
            <4> QED BY <4>1, <4>2
        <3>9. new.tried # {}
            BY <3>3
        <3> QED BY <2>3, <3>3, <3>6, <3>7, <3>8, <3>9
    <2> QED BY <1>1, <2>4, <2>5, <2>6, <2>7 DEF StepOf
<1>2. ASSUME Aside, now' = now \/ now' = now + 1
      PROVE  Walking'
    <2>1. \A q \in Questions : questions[q].since \in Nat
        BY DEF AssistantTypeOK, Question
    <2>2. now <= now'
        BY <1>0, <1>2
    <2>3. \A p \in Providers : failedAt[p] <= now'
        BY <1>0, <1>00, <1>2 DEF Walking
    <2>4. \A q \in Questions : At(q, "call") \/ At(q, "refused") => questions[q].since <= now'
        BY <1>0, <1>2, <2>1 DEF Walking
    <2> QED BY <1>2, <2>3, <2>4 DEF Walking, Aside, At
<1> QED BY <1>1, <1>2, AssistantSteps

(* For any chain, cooldown and number of questions: whoever is told that the *)
(* assistant is unavailable had a provider tried for this very question and *)
(* every other one had failed within the cooldown (FallbackChatModel).     *)
THEOREM RefusalsAreHonest == AssistantSpec => []RefusalMeansAllDown
<1>1. Walking => RefusalMeansAllDown
    BY DEF Walking, RefusalMeansAllDown
<1> QED BY <1>1, AssistantTypeInit, AssistantTypeStep, WalkingInit, WalkingStep, PTL DEF AssistantSpec

-----------------------------------------------------------------------------
(* limitFor: the most generous override is one of them.                    *)
LEMMA LimitIsNat ==
    ASSUME AssistantTypeOK
    PROVE  LimitFor \in Nat
<1> DEFINE overrides == {RoleLimits[r] : r \in roles}
<1>1. IsFiniteSet(roles) /\ roles \subseteq DOMAIN RoleLimits
    BY AssistantAssumption, FS_Subset DEF AssistantTypeOK
<1>2. IsFiniteSet(overrides)
    <2> DEFINE f == [r \in roles |-> RoleLimits[r]]
    <2>1. f \in Surjection(roles, overrides)
        BY DEF Surjection
    <2> HIDE DEF f
    <2> QED BY <1>1, <2>1, FS_Surjection
<1>3. overrides \subseteq Nat /\ DailyLimit \in Nat
    BY <1>1, AssistantAssumption
<1>4. overrides \subseteq Int
    BY <1>3
<1>5. overrides # {} => Max(overrides) \in overrides
    <2> HIDE DEF overrides
    <2> QED BY <1>2, <1>4, MaxIsOne
<1>6. LimitFor = IF overrides = {} THEN DailyLimit ELSE IF 0 \in overrides THEN 0 ELSE Max(overrides)
    BY DEF LimitFor
<1> HIDE DEF overrides
<1> QED BY <1>3, <1>5, <1>6

(* Sets of questions are finite.                                           *)
LEMMA FlightIsFinite ==
    ASSUME NEW S \in SUBSET Questions
    PROVE  IsFiniteSet(S) /\ Cardinality(S) \in Nat /\ Cardinality(S) <= Cardinality(Questions)
           /\ Cardinality(Questions) \in Nat
    BY AssistantAssumption, FS_Subset, FS_CardinalityType

Flight == Cardinality(InFlight)
Extra == LimitFor + Cardinality(Questions) - 1

(* From today on what was counted and what may still be counted stay within *)
(* the cap and the questions that passed the check with the last one; the  *)
(* days to come are still empty.                                           *)
Capped ==
    LimitFor # 0 =>
        \A d \in UsageDays :
            /\ usage[d] <= Extra
            /\ d >= Day(now) => usage[d] + Flight <= Extra
            /\ d > Day(now) => usage[d] = 0

LEMMA CappedInit == AssistantInit => Capped
<1> SUFFICES ASSUME AssistantInit, LimitFor # 0, NEW d \in UsageDays
             PROVE  /\ usage[d] <= Extra
                    /\ d >= Day(now) => usage[d] + Flight <= Extra
                    /\ d > Day(now) => usage[d] = 0
    BY DEF Capped
<1>1. LimitFor \in Nat
    BY AssistantTypeInit, LimitIsNat
<1>2. usage[d] = 0
    BY DEF AssistantInit
<1>3. Flight \in Nat /\ Flight <= Cardinality(Questions) /\ Cardinality(Questions) \in Nat
    BY FlightIsFinite DEF Flight, InFlight
<1> QED BY <1>1, <1>2, <1>3 DEF Extra

LEMMA CappedStep == AssistantTypeOK /\ Capped /\ [AssistantNext]_assistant => Capped'
<1> SUFFICES ASSUME AssistantTypeOK, Capped, [AssistantNext]_assistant, LimitFor' # 0, NEW d \in UsageDays
             PROVE  /\ usage'[d] <= Extra'
                    /\ d >= Day(now') => usage'[d] + Flight' <= Extra'
                    /\ d > Day(now') => usage'[d] = 0
    BY DEF Capped, Day
<1>1. roles' = roles
    BY AssistantSteps DEF Aside
<1>2. LimitFor' = LimitFor /\ Extra' = Extra
    BY <1>1 DEF LimitFor, Extra
<1>3. LimitFor \in Nat \ {0}
    BY <1>2, LimitIsNat
<1>4. Flight \in Nat /\ Flight <= Cardinality(Questions) /\ Cardinality(Questions) \in Nat
    BY FlightIsFinite DEF Flight, InFlight
<1>5. Flight' \in Nat /\ Flight' <= Cardinality(Questions)
    BY FlightIsFinite DEF Flight, InFlight
<1>6. /\ usage[d] <= Extra
      /\ d >= Day(now) => usage[d] + Flight <= Extra
      /\ d > Day(now) => usage[d] = 0
    BY <1>3 DEF Capped
<1>7. usage[d] \in Nat /\ Extra \in Nat /\ d \in Nat /\ now \in Nat /\ Day(now) \in Nat /\ Day(now) \in UsageDays
    <2>1. now \in Nat /\ now <= LastTick /\ LastTick \in Nat /\ TicksPerDay \in Nat \ {0}
        BY AssistantAssumption DEF AssistantTypeOK
    <2>2. Day(now) \in Nat /\ Day(now) \in UsageDays
        BY <2>1, LaterDays, DayNumbers
    <2>3. d \in Nat
        BY <2>1 DEF UsageDays
    <2> QED BY <1>3, <1>4, <2>1, <2>2, <2>3 DEF AssistantTypeOK, Extra
<1>8. ASSUME NEW q \in Questions, NEW new, Becomes(q, new), StepOf(q, new), UNCHANGED <<configured, roles, now>>
      PROVE  /\ usage'[d] <= Extra'
             /\ d >= Day(now') => usage'[d] + Flight' <= Extra'
             /\ d > Day(now') => usage'[d] = 0
    <2>1. questions'[q] = new /\ \A x \in Questions \ {q} : questions'[x] = questions[x]
        BY <1>8 DEF Becomes, AssistantTypeOK
    <2>2. IsFiniteSet(InFlight)
        BY FlightIsFinite DEF InFlight
    <2>3. CASE Asks(q, new)
        <3>1. InFlight' = InFlight \cup {q} /\ q \notin InFlight /\ UNCHANGED usage
            BY <2>1, <2>3, NoQuestionType DEF Asks, InFlight
        <3>2. Flight' = Flight + 1
            BY <2>2, <3>1, FS_AddElement DEF Flight
        <3>3. usage[Day(now)] < LimitFor
            BY <1>3, <2>3 DEF Asks, WithinDailyLimit, Used
        <3>4. d = Day(now) \/ d < Day(now) \/ d > Day(now)
            BY <1>7
        <3>5. CASE d = Day(now)
            BY <1>2, <1>3, <1>4, <1>5, <1>6, <1>7, <1>8, <3>1, <3>3, <3>5 DEF Extra
        <3>6. CASE d > Day(now)
            BY <1>2, <1>3, <1>4, <1>5, <1>6, <1>7, <1>8, <3>1, <3>6 DEF Extra
        <3>7. CASE d < Day(now)
            BY <1>2, <1>6, <1>7, <1>8, <3>1, <3>7
        <3> QED BY <3>4, <3>5, <3>6, <3>7
    <2>4. CASE Moves(q, new) \/ Starts(q, new) \/ Pays(q, new) \/ Tries(q, new)
        <3>1. questions[q] # NoQuestion /\ UNCHANGED usage
            BY <2>4, NoQuestionType DEF Moves, Starts, Pays, Tries, At
        <3>2. InFlight' \subseteq InFlight
            BY <2>1, <3>1 DEF InFlight
        <3>3. Flight' <= Flight
            BY <2>2, <3>2, FS_Subset DEF Flight
        <3> QED BY <1>2, <1>4, <1>5, <1>6, <1>7, <1>8, <3>1, <3>3
    <2>5. CASE Counts(q, new)
        <3>1. q \in InFlight /\ InFlight' = InFlight \ {q}
            BY <2>1, <2>5, NoQuestionType DEF Counts, At, InFlight
        <3>2. Flight' = Flight - 1
            BY <2>2, <3>1, FS_RemoveElement DEF Flight
        <3>3. usage'[d] = IF d = Day(now) THEN usage[d] + 1 ELSE usage[d]
            BY <2>5 DEF Counts, AssistantTypeOK
        <3> QED BY <1>2, <1>4, <1>5, <1>6, <1>7, <1>8, <3>2, <3>3
    <2> QED BY <1>8, <2>3, <2>4, <2>5 DEF StepOf
<1>9. ASSUME Aside, now' = now \/ now' = now + 1
      PROVE  /\ usage'[d] <= Extra'
             /\ d >= Day(now') => usage'[d] + Flight' <= Extra'
             /\ d > Day(now') => usage'[d] = 0
    <2>1. usage' = usage /\ Flight' = Flight
        BY <1>9 DEF Aside, Flight, InFlight
    <2>2. Day(now') \in Nat /\ Day(now) <= Day(now')
        BY <1>7, <1>9, LaterDays
    <2> QED BY <1>2, <1>4, <1>6, <1>7, <2>1, <2>2
<1> QED BY <1>8, <1>9, AssistantSteps

(* For every cap, clock and number of questions in flight, a day's cap is  *)
(* exceeded by no more than the questions beside the last one, though the  *)
(* check (assertWithinDailyLimit) and the count (record) are far apart.    *)
THEOREM CapHoldsWithinFlight == AssistantSpec => []CapWithinFlight
<1>1. Capped => CapWithinFlight
    BY DEF Capped, CapWithinFlight, Extra
<1> QED BY <1>1, AssistantTypeInit, AssistantTypeStep, CappedInit, CappedStep, PTL DEF AssistantSpec

-----------------------------------------------------------------------------
(* Calls that were paid for and not yet counted.                           *)
Owed == {q \in Questions : Owing(questions[q])}
Recorded == SumOver(usage, UsageDays)

(* What was recorded and what is owed never exceed what was paid, and are  *)
(* equal to it until a paid call is lost.                                  *)
Counted ==
    /\ Recorded + Cardinality(Owed) <= paid
    /\ lost = {} => Recorded + Cardinality(Owed) = paid

LEMMA DaysAreFinite == IsFiniteSet(UsageDays) /\ UsageDays \subseteq Int
<1>1. LastTick \in Nat /\ TicksPerDay \in Nat \ {0}
    BY AssistantAssumption
<1>2. LastTick \div TicksPerDay \in Int
    BY <1>1
<1> QED BY <1>2, FS_Interval DEF UsageDays

LEMMA RecordedType ==
    ASSUME AssistantTypeOK
    PROVE  Recorded \in Nat
<1>1. \A d \in UsageDays : usage[d] \in Nat
    BY DEF AssistantTypeOK
<1> QED BY <1>1, DaysAreFinite, SumNat DEF Recorded

LEMMA CountedInit == AssistantInit => Counted
<1> SUFFICES ASSUME AssistantInit PROVE Counted
    OBVIOUS
<1>1. \A d \in UsageDays : usage[d] = 0
    BY DEF AssistantInit
<1>2. Recorded = 0
    BY <1>1, DaysAreFinite, SumZero DEF Recorded
<1>3. Owed = {}
    BY NoQuestionType DEF AssistantInit, Owed, Owing
<1>4. Cardinality(Owed) = 0
    BY <1>3, FS_EmptySet
<1>5. paid = 0
    BY DEF AssistantInit
<1> QED BY <1>2, <1>4, <1>5 DEF Counted

LEMMA CountedStep == AssistantTypeOK /\ Counted /\ [AssistantNext]_assistant => Counted'
<1> SUFFICES ASSUME AssistantTypeOK, Counted, [AssistantNext]_assistant PROVE Counted'
    OBVIOUS
<1>1. Recorded \in Nat /\ paid \in Nat
    BY RecordedType DEF AssistantTypeOK
<1>2. IsFiniteSet(Owed) /\ Cardinality(Owed) \in Nat /\ Cardinality(Owed') \in Nat
    BY FlightIsFinite DEF Owed
<1>3. ASSUME NEW q \in Questions, NEW new, Becomes(q, new), StepOf(q, new)
      PROVE  Counted'
    <2>1. questions'[q] = new /\ \A x \in Questions \ {q} : questions'[x] = questions[x]
        BY <1>3 DEF Becomes, AssistantTypeOK
    <2>2. ~Owing(NoQuestion)
        BY NoQuestionType DEF Owing
    <2>3. CASE UNCHANGED <<usage, paid, lost>> /\ (Owing(questions[q]) <=> Owing(new))
        <3>1. Owed' = Owed /\ Recorded' = Recorded
            BY <2>1, <2>3 DEF Owed, Owing, Recorded
        <3> QED BY <2>3, <3>1 DEF Counted
    <2>4. CASE Asks(q, new)
        <3>1. ~Owing(new)
            BY <2>4 DEF Asks, Owing
        <3> QED BY <2>2, <2>3, <2>4, <3>1 DEF Asks
    <2>5. CASE Moves(q, new)
        <3>1. CASE lost' # {} /\ (Owing(new) => Owing(questions[q]))
            <4>1. Owed' \subseteq Owed /\ Recorded' = Recorded /\ paid' = paid
                BY <2>1, <2>5, <3>1 DEF Moves, Owed, Owing, Recorded
            <4>2. Cardinality(Owed') <= Cardinality(Owed)
                BY <1>2, <4>1, FS_Subset
            <4>3. Recorded + Cardinality(Owed) <= paid
                BY DEF Counted
            <4> QED BY <1>1, <1>2, <3>1, <4>1, <4>2, <4>3 DEF Counted
        <3> QED BY <2>3, <2>5, <3>1 DEF Moves
    <2>6. CASE Starts(q, new)
        <3>1. ~Owing(new) /\ ~Owing(questions[q])
            BY <2>6 DEF Starts, Owing, At
        <3> QED BY <2>3, <2>6, <3>1 DEF Starts
    <2>7. CASE Tries(q, new)
        <3>1. ~Owing(new) /\ ~Owing(questions[q])
            BY <2>7 DEF Tries, Owing, At
        <3> QED BY <2>3, <2>7, <3>1 DEF Tries
    <2>8. CASE Pays(q, new)
        <3>1. Owed' = Owed \cup {q} /\ q \notin Owed
            BY <2>1, <2>8 DEF Pays, Owed, Owing, At
        <3>2. Cardinality(Owed') = Cardinality(Owed) + 1
            BY <1>2, <3>1, FS_AddElement
        <3>3. Recorded' = Recorded /\ paid' = paid + 1 /\ lost' = lost
            BY <2>8 DEF Pays, Recorded
        <3> QED BY <1>1, <1>2, <3>2, <3>3 DEF Counted
    <2>9. CASE Counts(q, new)
        <3>1. Owed' = Owed \ {q} /\ q \in Owed
            BY <2>1, <2>2, <2>9 DEF Counts, Owed, Owing, At
        <3>2. Cardinality(Owed') = Cardinality(Owed) - 1
            BY <1>2, <3>1, FS_RemoveElement
        <3>3. paid' = paid /\ lost' = lost /\ usage' = [usage EXCEPT ![Day(now)] = @ + 1]
            BY <2>9 DEF Counts
        <3> DEFINE today == Day(now)
        <3>4. today \in UsageDays
            BY DayNumbers DEF AssistantTypeOK
        <3> HIDE DEF today
        <3>5. \A d \in UsageDays : usage[d] \in Int /\ usage'[d] \in Int
            BY <3>3, <3>4 DEF AssistantTypeOK, today
        <3>6. usage'[today] = usage[today] + 1 /\ \A d \in UsageDays \ {today} : usage[d] = usage'[d]
            BY <3>3, <3>4 DEF AssistantTypeOK, today
        <3> DEFINE u == usage
                   v == usage'
        <3> HIDE DEF u, v
        <3>7. SumOver(v, UsageDays) = SumOver(u, UsageDays) - u[today] + v[today]
            <4>1. \A d \in UsageDays : u[d] \in Int /\ v[d] \in Int
                BY <3>5 DEF u, v
            <4>2. \A d \in UsageDays \ {today} : u[d] = v[d]
                BY <3>6 DEF u, v
            <4> QED BY <3>4, <4>1, <4>2, DaysAreFinite, SumUpdate, ZenonT(30)
        <3>8. Recorded' = SumOver(usage', UsageDays)
            BY DEF Recorded, UsageDays
        <3>9. Recorded' = Recorded - usage[today] + (usage[today] + 1) /\ usage[today] \in Int
            BY <3>4, <3>5, <3>6, <3>7, <3>8 DEF Recorded, u, v
        <3> QED BY <1>1, <1>2, <3>2, <3>3, <3>9 DEF Counted
    <2> QED BY <1>3, <2>4, <2>5, <2>6, <2>7, <2>8, <2>9 DEF StepOf
<1>4. CASE Aside
    BY <1>4 DEF Aside, Counted, Owed, Owing, Recorded
<1> QED BY <1>3, <1>4, AssistantSteps

(* For every number of questions and days, no paid call is recorded twice, *)
(* and while none is lost to a fault all are recorded once everything has  *)
(* ended (saveAnswer, abandon, record).                                    *)
THEOREM PaidCallsAreCounted == AssistantSpec => []PaidIsCounted
<1>1. AssistantTypeOK /\ Counted => PaidIsCounted
    <2> SUFFICES ASSUME AssistantTypeOK, Counted PROVE PaidIsCounted
        OBVIOUS
    <2>1. Recorded \in Nat /\ paid \in Nat /\ Cardinality(Owed) \in Nat
        BY RecordedType, FlightIsFinite DEF AssistantTypeOK, Owed
    <2>2. Recorded <= paid
        BY <2>1 DEF Counted
    <2>3. ASSUME InFlight = {}, lost = {} PROVE Recorded = paid
        <3>1. Owed = {}
            BY <2>3, NoQuestionType DEF InFlight, Owed, Owing
        <3>2. Cardinality(Owed) = 0
            BY <3>1, FS_EmptySet
        <3> QED BY <2>1, <2>3, <3>2 DEF Counted
    <2> QED BY <2>2, <2>3 DEF PaidIsCounted, Recorded
<1> QED BY <1>1, AssistantTypeInit, AssistantTypeStep, CountedInit, CountedStep, PTL DEF AssistantSpec
=============================================================================
