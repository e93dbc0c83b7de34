------------------------------ MODULE Attendance ------------------------------
(***************************************************************************)
(* Attendance and shifts of one employee: AttendancesService with          *)
(* AttendanceClockInService, ShiftsService, what the approval of a shift   *)
(* or attendance request does (RequestEffectsService), and the scheduler   *)
(* that records absences (AttendanceAbsentScheduler).                      *)
(*                                                                         *)
(* As in LeaveBalance, a handler that reads, decides and writes later is a *)
(* record of what it has read; Reads is what handlers could load now and   *)
(* Write(r) is what they do with it, at once or after others have written. *)
(***************************************************************************)
EXTENDS Integers, FiniteSets

CONSTANTS
    LastTick,       \* time is 1 .. LastTick
    DayLength,      \* ticks of a day
    LateGrace,      \* late_grace_minutes
    ClockInBefore,  \* clockin_before_shift_minutes
    Policy,         \* allow_unscheduled: "always", "if_no_shift" or "never"
    AbsentGrace,    \* ABSENT_GRACE_MS
    Lookback,       \* LOOKBACK_MS
    ShiftIds, RecordIds, BreakIds, \* bounds on the rows that exist at a time
    ShiftTimes,     \* pairs of start and end that shifts are given
    Kinds,          \* SUBSET AllKinds, the shift types of the company
    GivenTimes,     \* clock-in times that administrators and requests enter
    GivenStatus,    \* statuses that administrators enter
    MaxInFlight,    \* bound on the calls between their read and their write
    Slow            \* bound on what such a call is about to do

Ticks == 1 .. LastTick
DayOf(t) == 1 + (t - 1) \div DayLength
AllKinds == {"plain", "deemed", "exempt", "deemed exempt"}  \* by the flags of their types
isDeemedWork(kind) == kind \in {"deemed", "deemed exempt"}
noClockInRequired(kind) == kind \in {"exempt", "deemed exempt"}
NoShift == 0
Statuses == {"normal", "late", "oncall", "early_leave", "deemed_work", "absent"}
Keep == "keep"                             \* a field that an update leaves alone

ASSUME AttendanceConstants ==
    /\ LastTick \in Nat \ {0} /\ DayLength \in Nat \ {0}
    /\ LateGrace \in Nat /\ ClockInBefore \in Nat /\ AbsentGrace \in Nat /\ Lookback \in Nat
    /\ Policy \in {"always", "if_no_shift", "never"}
    /\ ShiftTimes \subseteq {t \in Nat \X Nat : t[1] > 0 /\ t[1] < t[2]} /\ ShiftTimes # {}
    /\ Kinds \subseteq AllKinds /\ GivenStatus \subseteq Statuses
    /\ GivenTimes \subseteq Nat \ {0}
    /\ NoShift \notin ShiftIds /\ IsFiniteSet(RecordIds) /\ MaxInFlight \in Nat

Shift == [exists : BOOLEAN, times : ShiftTimes, kind : AllKinds, confirmed : BOOLEAN]
\* An attendance.  Its clock-in counts through its day once its status is decided;
\* own: by the employee's clockIn; breaks: its breaks without an end.
Record == [exists : BOOLEAN, shift : ShiftIds \cup {NoShift}, day : Nat, open : BOOLEAN,
           status : Statuses, confirmed : BOOLEAN, own : BOOLEAN, breaks : SUBSET BreakIds]
NoRecord == [exists |-> FALSE, shift |-> NoShift, day |-> 0, open |-> FALSE, status |-> "normal",
             confirmed |-> FALSE, own |-> FALSE, breaks |-> {}]

VARIABLES
    shift,     \* [ShiftIds -> Shift], the rows of Shift
    record,    \* [RecordIds -> Record], the rows of Attendance
    now,
    inFlight,  \* calls between their read and their write
    late       \* what came too late for their checks, see Bars; only for the properties

avars == <<shift, record, now, inFlight, late>>

Shifts == {s \in ShiftIds : shift[s].exists}
Records == {a \in RecordIds : record[a].exists}
Open == {a \in Records : record[a].open}
OnDay(d) == {a \in Records : record[a].day = d}
Linked(s) == \E a \in Records : record[a].shift = s
StartOf(s) == shift[s].times[1]
EndOf(s) == shift[s].times[2]

-----------------------------------------------------------------------------
(* AttendanceClockInService.                                               *)

\* The first shift that starts on the day of t.
findShiftForClockIn(t) ==
    LET today == {s \in Shifts : DayOf(StartOf(s)) = DayOf(t)}
        first == {s \in today : \A u \in today : StartOf(s) <= StartOf(u)}
    IN  IF first = {} THEN {NoShift} ELSE first

determineStatus(t, s) ==
    CASE s = NoShift                        -> "oncall"
      [] s # NoShift /\ isDeemedWork(shift[s].kind) -> "deemed_work"
      [] s # NoShift /\ ~isDeemedWork(shift[s].kind) ->
            IF t > StartOf(s) + LateGrace THEN "late"
            ELSE IF t < StartOf(s) - ClockInBefore THEN "oncall" ELSE "normal"

assertUnscheduledAllowed(s) ==
    /\ Policy # "never"
    /\ Policy = "if_no_shift" => s = NoShift

\* Leaving before the end of the linked shift, unless the employee came late.
resolveClockOutStatus(a) ==
    LET s == record[a].shift
    IN  IF s # NoShift /\ now < EndOf(s) /\ record[a].status # "late" THEN "early_leave" ELSE Keep

-----------------------------------------------------------------------------
(* What the handlers read and check.                                       *)

Insertion(s, day, open, status, own) ==
    [op |-> "insert", shift |-> s, day |-> day, open |-> open, status |-> status, own |-> own]
Update(a, day, closes, status) ==
    [op |-> "update", rec |-> a, day |-> day, closes |-> closes, status |-> status]
KeepDay == 0
GivenDays == {DayOf(t) : t \in GivenTimes}

\* MUTANT of AlreadyIn: only today's records are looked at.
AlreadyInToday == Open \cap OnDay(DayOf(now)) # {}

AlreadyIn == Open # {}

clockIn ==
    {Insertion(s, DayOf(now), TRUE, determineStatus(now, s), TRUE) :
        s \in {x \in findShiftForClockIn(now) :
                 /\ ~AlreadyIn
                 /\ determineStatus(now, x) = "oncall" => assertUnscheduledAllowed(x)}}

\* The shift is linked unless another record has it, and judged by in any case.
ManualRecords(s, t) ==
    {Insertion(IF Linked(s) THEN NoShift ELSE s, DayOf(t), open, status, FALSE) :
        open \in BOOLEAN, status \in {determineStatus(t, s)} \cup GivenStatus}

createManual ==
    UNION {ManualRecords(c[1], c[2]) : c \in {x \in (ShiftIds \cup {NoShift}) \X GivenTimes :
                                               x[1] \in findShiftForClockIn(x[2])}}

\* MUTANT of assertNotConfirmed: confirmation is not looked at.
assertExists(a) == a \in Records

assertNotConfirmed(a) == ~record[a].confirmed

clockOut == {Update(a, KeepDay, TRUE, resolveClockOutStatus(a)) : a \in {x \in Open : assertNotConfirmed(x)}}

breakStart ==
    {[op |-> "breakStart", rec |-> c[1], break |-> c[2]] :
        c \in {x \in Open \X BreakIds : assertNotConfirmed(x[1]) /\ x[2] \notin record[x[1]].breaks}}

breakEnd ==
    {[op |-> "breakEnd", rec |-> c[1], break |-> c[2]] :
        c \in {x \in Open \X BreakIds : assertNotConfirmed(x[1]) /\ x[2] \in record[x[1]].breaks}}

Editable == {a \in Records : assertNotConfirmed(a)}

update ==
    {Update(a, day, closes, status) : a \in Editable, day \in GivenDays \cup {KeepDay}, closes \in BOOLEAN,
                                      status \in GivenStatus \cup {Keep}}

updateBreaks == {[op |-> "breaks", rec |-> a, breaks |-> bs] : a \in Editable, bs \in SUBSET BreakIds}

\* remove and, on approval, applyAttendanceDelete.
remove == {[op |-> "delete", rec |-> a] : a \in Editable}

\* On approval: the given record or the first of the day; or a new one, also when
\* the given record is gone.
applyAttendanceUpsert ==
    {Update(a, day, closes, Keep) : a \in Editable, day \in GivenDays \cup {KeepDay},
                                    closes \in BOOLEAN}
    \cup {Insertion(NoShift, d, open, "normal", FALSE) : d \in GivenDays, open \in BOOLEAN}

\* markAbsences: the shifts that are over and have no record.
Ended(s) == EndOf(s) + AbsentGrace <= now /\ now <= EndOf(s) + Lookback
Candidates == {s \in Shifts : Ended(s) /\ ~Linked(s) /\ ~noClockInRequired(shift[s].kind)}
markAbsences == {[op |-> "listed", shift |-> s, day |-> DayOf(StartOf(s))] : s \in Candidates}

HasNoRecord(d) == OnDay(d) = {}

\* markAbsentForShift, up to the check of the day's records.
Absence(r) == Insertion(r.shift, r.day, TRUE, "absent", FALSE)
markAbsentForShift == {Absence(r) : r \in {x \in markAbsences : HasNoRecord(x.day)}}

\* ShiftsService: guardConfirmed.  Approved requests change confirmed shifts too.
Loose == {s \in Shifts : ~shift[s].confirmed}

updateShift == {[op |-> "moveShift", shift |-> s, times |-> ts, kind |-> k] :
                   s \in Loose, ts \in ShiftTimes, k \in Kinds}
applyShiftModify == {[op |-> "moveShift", shift |-> s, times |-> ts, kind |-> Keep] :
                        s \in Shifts, ts \in ShiftTimes}
removeShift == {[op |-> "deleteShift", shift |-> s] : s \in Loose}
applyShiftDelete == {[op |-> "deleteShift", shift |-> s] : s \in Shifts}
confirmShift == {[op |-> "confirmShift", shift |-> s, confirmed |-> ~shift[s].confirmed] : s \in Shifts}

Reads ==
    UNION {clockIn, createManual, clockOut, breakStart, breakEnd, update, updateBreaks, remove,
           applyAttendanceUpsert, markAbsentForShift, updateShift, applyShiftModify, removeShift,
           applyShiftDelete, confirmShift}

-----------------------------------------------------------------------------
(* What they write.  A row that is gone, or a shift that has another record *)
(* by now, makes the write fail.                                            *)

Insert(r) ==
    /\ r.op = "insert"
    /\ r.shift # NoShift => r.shift \in Shifts /\ ~Linked(r.shift)
    /\ \E a \in RecordIds \ Records :
          record' = [record EXCEPT ![a] =
              [exists |-> TRUE, shift |-> r.shift, day |-> r.day, open |-> r.open,
               status |-> r.status, confirmed |-> FALSE, own |-> r.own, breaks |-> {}]]
    /\ UNCHANGED shift

\* MUTANT of Updated: a status that is not given is written too.
OverwriteStatus(a, r) ==
    [a EXCEPT !.day = IF r.day = KeepDay THEN @ ELSE r.day,
              !.open = @ /\ ~r.closes,
              !.status = r.status]

Updated(a, r) ==
    [a EXCEPT !.day = IF r.day = KeepDay THEN @ ELSE r.day,
              !.open = @ /\ ~r.closes,
              !.status = IF r.status = Keep THEN @ ELSE r.status]

WriteUpdate(r) ==
    /\ r.op = "update" /\ r.rec \in Records
    /\ record' = [record EXCEPT ![r.rec] = Updated(@, r)]
    /\ UNCHANGED shift

WriteBreaks(r) ==
    /\ r.op \in {"breakStart", "breakEnd", "breaks"} /\ r.rec \in Records
    /\ record' = [record EXCEPT ![r.rec].breaks =
          CASE r.op = "breakStart" -> @ \cup {r.break}
            [] r.op = "breakEnd"   -> @ \ {r.break}
            [] r.op = "breaks"     -> r.breaks]
    /\ UNCHANGED shift

Delete(r) ==
    /\ r.op = "delete" /\ r.rec \in Records
    /\ record' = [record EXCEPT ![r.rec] = NoRecord]
    /\ UNCHANGED shift

Rescheduled(s, r) ==
    IF r.op = "confirmShift" THEN [s EXCEPT !.confirmed = r.confirmed]
    ELSE [s EXCEPT !.times = r.times, !.kind = IF r.kind = Keep THEN @ ELSE r.kind]

WriteShift(r) ==
    /\ r.op \in {"moveShift", "confirmShift"} /\ r.shift \in Shifts
    /\ shift' = [shift EXCEPT ![r.shift] = Rescheduled(@, r)]
    /\ UNCHANGED record

\* Its record loses the link (the foreign key is optional).
DeleteShift(r) ==
    /\ r.op = "deleteShift" /\ r.shift \in Shifts
    /\ shift' = [shift EXCEPT ![r.shift].exists = FALSE]
    /\ record' = [a \in RecordIds |-> IF record[a].shift = r.shift
                                      THEN [record[a] EXCEPT !.shift = NoShift] ELSE record[a]]

Write(r) == /\ \/ Insert(r) \/ WriteUpdate(r) \/ WriteBreaks(r) \/ Delete(r)
               \/ WriteShift(r) \/ DeleteShift(r)
            /\ UNCHANGED now

Fail(r) ==
    /\ \/ r.op = "insert" /\ r.shift # NoShift /\ (r.shift \notin Shifts \/ Linked(r.shift))
       \/ r.op \in {"update", "breakStart", "breakEnd", "breaks", "delete"} /\ r.rec \notin Records
       \/ r.op \in {"moveShift", "confirmShift", "deleteShift"} /\ r.shift \notin Shifts
       \/ r.op = "listed" /\ ~HasNoRecord(r.day)
    /\ UNCHANGED <<shift, record, now>>

-----------------------------------------------------------------------------
(* Handlers of a single write.                                             *)

\* create and bulkCreate make drafts, an approved request a confirmed shift.
CreateShift(s, ts, k, confirmed) ==
    /\ s \notin Shifts
    /\ shift' = [shift EXCEPT ![s] = [exists |-> TRUE, times |-> ts, kind |-> k, confirmed |-> confirmed]]
    /\ UNCHANGED <<record, now, inFlight>>

\* confirmPeriod and unconfirm: one updateMany each.
SetConfirmed(as, confirmed) ==
    /\ \A a \in as : record[a].confirmed # confirmed
    /\ record' = [a \in RecordIds |-> IF a \in as THEN [record[a] EXCEPT !.confirmed = confirmed]
                                      ELSE record[a]]
    /\ UNCHANGED <<shift, now, inFlight>>

Tick ==
    /\ now < LastTick
    /\ now' = now + 1
    /\ UNCHANGED <<shift, record, inFlight>>

-----------------------------------------------------------------------------
AInit ==
    /\ shift = [s \in ShiftIds |-> [exists |-> FALSE, times |-> CHOOSE ts \in ShiftTimes : TRUE,
                                    kind |-> "plain", confirmed |-> FALSE]]
    /\ record = [a \in RecordIds |-> NoRecord]
    /\ now = 1
    /\ inFlight = {}
    /\ late = {}

Begin(r) ==
    /\ r.op \in Slow
    /\ Cardinality(inFlight) < MaxInFlight
    /\ inFlight' = inFlight \cup {r}
    /\ UNCHANGED <<shift, record, now>>

\* MUTANT of Check: the day was checked when the list was made.
CheckOfTheList(r) ==
    /\ r.op = "listed"
    /\ inFlight' = (inFlight \ {r}) \cup {Absence(r)}
    /\ UNCHANGED <<shift, record, now>>

\* The scheduler works through its list: it checks the day as of now.
Check(r) ==
    /\ r.op = "listed" /\ HasNoRecord(r.day)
    /\ inFlight' = (inFlight \ {r}) \cup {Absence(r)}
    /\ UNCHANGED <<shift, record, now>>

Finish(r) == (Write(r) \/ Fail(r)) /\ inFlight' = inFlight \ {r}

AtOnce(r) == Write(r) /\ UNCHANGED inFlight

Step ==
    \/ \E r \in Reads : AtOnce(r) \/ Begin(r)
    \/ \E r \in markAbsences : Begin(r)
    \/ \E r \in inFlight : Check(r) \/ Finish(r)
    \/ \E s \in ShiftIds, ts \in ShiftTimes, k \in Kinds, confirmed \in BOOLEAN : CreateShift(s, ts, k, confirmed)
    \/ \E as \in SUBSET Records, confirmed \in BOOLEAN : SetConfirmed(as, confirmed)
    \/ Tick

\* The records that forbid what r does: who is at work does not clock in, a day
\* with a record is no absence, a confirmed record is not changed.
Bars(r) ==
    {a \in Records : \/ r.op = "insert" /\ r.own /\ record[a].open
                     \/ r.op = "insert" /\ r.status = "absent" /\ record[a].day = r.day
                     \/ r.op \in {"update", "breakStart", "breakEnd", "breaks", "delete"}
                        /\ r.rec = a /\ record[a].confirmed}

\* late has the pairs of a call in flight and a record that began to forbid what
\* the call does after it had read, and still does.
ANext ==
    /\ Step
    /\ late' = {c \in (inFlight \cap inFlight') \X RecordIds :
                  c[2] \in Bars(c[1])' /\ (c[2] \notin Bars(c[1]) \/ c \in late)}

ASpec == AInit /\ [][ANext]_avars

-----------------------------------------------------------------------------
(* Properties.                                                             *)

AttendanceTypeOK ==
    /\ shift \in [ShiftIds -> Shift]
    /\ record \in [RecordIds -> Record]
    /\ now \in Ticks

\* A call of the kind ended in this step, and the records as all forbade it, but
\* each of them only since it had read.
Overtaken(op, as) == \E r \in inFlight \ inFlight' : r.op = op /\ \A a \in as : <<r, a>> \in late

Own == {a \in Open : record[a].own}

\* Whatever administrators, approvals and the scheduler do meanwhile, the employee
\* gets a second open clock-in of their own only if the first was entered between
\* the check and the insertion of the second (AttendanceClockInService.clockIn).
OwnClockInsAlternate ==
    [][Cardinality(Own') <= Cardinality(Own) \/ Own = {} \/ Overtaken("insert", Own)]_avars

Content(a) == [record[a] EXCEPT !.confirmed = TRUE, !.shift = NoShift]

\* A confirmed record changes in nothing but its shift until it is unconfirmed,
\* except by a call of which that very record was confirmed between its check and
\* its write (assertNotConfirmed).
ConfirmedRecordsStand ==
    [][\A a \in Records : record[a].confirmed =>
          \/ Content(a)' = Content(a)
          \/ \E op \in {"update", "breakStart", "breakEnd", "breaks", "delete"} : Overtaken(op, {a})]_avars

\* However much happens while the scheduler works through its list, it enters an
\* absence only for a day without a record, or whose records all appeared after it
\* had looked at that day (markAbsentForShift): what was entered since the list was
\* made prevents the absence.
AbsencesStandAlone ==
    [][\A a \in RecordIds \ Records :
          (a \in Records' /\ record'[a].status = "absent" /\ record'[a].shift # NoShift) =>
              \/ OnDay(record'[a].day) = {}
              \/ Overtaken("insert", OnDay(record'[a].day))]_avars

\* "There is a record of you being at work": who has an open record has clocked in,
\* or was entered as present.
OpenMeansAtWork == \A a \in Open : record[a].status # "absent"
=============================================================================
