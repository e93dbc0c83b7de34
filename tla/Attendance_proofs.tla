-------------------------- MODULE Attendance_proofs --------------------------
(***************************************************************************)
(* Proofs, for any number of shifts, records and calls in flight, that the *)
(* checks of the handlers protect open clock-ins, confirmed records and    *)
(* days with a record, but for what comes between a check and its write.   *)
(* The invariant behind them is that whatever forbids a call in flight     *)
(* began to forbid it after the call had read (ChecksHeld).                *)
(***************************************************************************)
EXTENDS Attendance, FiniteSetTheorems, TLAPS

-----------------------------------------------------------------------------
(* Calls in flight.                                                        *)

InsertCall == [op : {"insert"}, shift : ShiftIds \cup {NoShift}, day : Nat, open : BOOLEAN,
               status : Statuses, own : BOOLEAN]
UpdateCall == [op : {"update"}, rec : RecordIds, day : Nat, closes : BOOLEAN,
               status : Statuses \cup {Keep}]
BreakCall == [op : {"breakStart", "breakEnd"}, rec : RecordIds, break : BreakIds]
BreaksCall == [op : {"breaks"}, rec : RecordIds, breaks : SUBSET BreakIds]
DeleteCall == [op : {"delete"}, rec : RecordIds]
RecordCall == UNION {UpdateCall, BreakCall, BreaksCall, DeleteCall}
ListedCall == [op : {"listed"}, shift : ShiftIds, day : Nat]
MoveCall == [op : {"moveShift"}, shift : ShiftIds, times : ShiftTimes, kind : AllKinds \cup {Keep}]
RemoveCall == [op : {"deleteShift"}, shift : ShiftIds]
ConfirmCall == [op : {"confirmShift"}, shift : ShiftIds, confirmed : BOOLEAN]
ShiftCall == UNION {MoveCall, RemoveCall, ConfirmCall}

\* Insertions that administrators may have decided on without a check of the day.
Unchecked(r) == r.op = "insert" /\ ~r.own /\ "absent" \in GivenStatus

ChecksHeld == \A r \in inFlight : Unchecked(r) \/ \A a \in Bars(r) : <<r, a>> \in late

AInv ==
    /\ AttendanceTypeOK
    /\ inFlight \subseteq UNION {InsertCall, RecordCall, ListedCall, ShiftCall}
    /\ ChecksHeld

RecordOps == {"update", "breakStart", "breakEnd", "breaks", "delete"}

LEMMA DayIsNatural == ASSUME NEW t \in Nat, t > 0 PROVE DayOf(t) \in Nat
  BY AttendanceConstants DEF DayOf

LEMMA InsertionTyped ==
    ASSUME NEW s \in ShiftIds \cup {NoShift}, NEW d \in Nat, NEW open \in BOOLEAN,
           NEW status \in Statuses, NEW own \in BOOLEAN
    PROVE  /\ Insertion(s, d, open, status, own) \in InsertCall
           /\ Insertion(s, d, open, status, own).status = status
           /\ Insertion(s, d, open, status, own).own = own
  BY DEF Insertion, InsertCall

\* The insertions that handlers can decide on.
LEMMA InsertionsTyped ==
    ASSUME AttendanceTypeOK
    PROVE  /\ clockIn \subseteq InsertCall
           /\ createManual \subseteq InsertCall
           /\ markAbsences \subseteq ListedCall
           /\ markAbsentForShift \subseteq InsertCall
  <1>1. \A t : findShiftForClockIn(t) \subseteq ShiftIds \cup {NoShift}
    BY DEF findShiftForClockIn, Shifts
  <1>2. \A t, s : determineStatus(t, s) \in Statuses
    <2> SUFFICES ASSUME NEW t, NEW s PROVE determineStatus(t, s) \in Statuses
      OBVIOUS
    <2>1. CASE s = NoShift
      BY <2>1 DEF determineStatus, Statuses
    <2>2. CASE s # NoShift /\ isDeemedWork(shift[s].kind)
      BY <2>2 DEF determineStatus, Statuses
    <2>3. CASE s # NoShift /\ ~isDeemedWork(shift[s].kind)
      BY <2>3 DEF determineStatus, Statuses
    <2> QED
      BY <2>1, <2>2, <2>3
  <1>3. clockIn \subseteq InsertCall
    <2>1. DayOf(now) \in Nat
      BY DayIsNatural DEF AttendanceTypeOK, Ticks
    <2> SUFFICES ASSUME NEW r \in clockIn PROVE r \in InsertCall
      OBVIOUS
    <2>2. PICK s \in findShiftForClockIn(now) :
             r = Insertion(s, DayOf(now), TRUE, determineStatus(now, s), TRUE)
      BY DEF clockIn
    <2> QED
      BY <1>1, <1>2, <2>1, <2>2 DEF Insertion, InsertCall
  <1>4. createManual \subseteq InsertCall
    <2> SUFFICES ASSUME NEW r \in createManual PROVE r \in InsertCall
      OBVIOUS
    <2>1. PICK s \in ShiftIds \cup {NoShift}, t \in GivenTimes : r \in ManualRecords(s, t)
      BY DEF createManual
    <2>2. PICK open \in BOOLEAN, status \in {determineStatus(t, s)} \cup GivenStatus :
             r = Insertion(IF Linked(s) THEN NoShift ELSE s, DayOf(t), open, status, FALSE)
      BY <2>1 DEF ManualRecords, Insertion
    <2>3. DayOf(t) \in Nat /\ status \in Statuses
      BY <1>2, AttendanceConstants, DayIsNatural
    <2>4. (IF Linked(s) THEN NoShift ELSE s) \in ShiftIds \cup {NoShift}
      OBVIOUS
    <2> QED
      BY <2>2, <2>3, <2>4, InsertionTyped
  <1>5. markAbsences \subseteq ListedCall
    <2> SUFFICES ASSUME NEW s \in Candidates PROVE DayOf(StartOf(s)) \in Nat /\ s \in ShiftIds
      BY DEF markAbsences, ListedCall
    <2>1. s \in ShiftIds /\ shift[s].times \in ShiftTimes
      BY DEF Candidates, Shifts, AttendanceTypeOK, Shift
    <2>2. StartOf(s) \in Nat /\ StartOf(s) > 0
      BY <2>1, AttendanceConstants DEF StartOf
    <2> QED
      BY <2>1, <2>2, DayIsNatural
  <1>6. markAbsentForShift \subseteq InsertCall
    <2> SUFFICES ASSUME NEW r \in markAbsentForShift PROVE r \in InsertCall
      OBVIOUS
    <2>1. PICK l \in markAbsences : r = Absence(l)
      BY Zenon DEF markAbsentForShift
    <2>2. l.shift \in ShiftIds \cup {NoShift} /\ l.day \in Nat /\ "absent" \in Statuses
      BY <1>5 DEF ListedCall, Statuses
    <2> QED
      BY <2>1, <2>2, InsertionTyped DEF Absence
  <1> QED
    BY <1>3, <1>4, <1>5, <1>6

\* applyAttendanceUpsert edits a record or inserts one.
LEMMA UpsertsTyped ==
    /\ applyAttendanceUpsert \subseteq InsertCall \cup UpdateCall
    /\ \A r \in applyAttendanceUpsert :
          \/ r \in UpdateCall /\ r.rec \in Editable
          \/ r \in InsertCall /\ r.own = FALSE /\ r.status = "normal"
  <1>1. GivenDays \subseteq Nat
    BY AttendanceConstants, DayIsNatural DEF GivenDays
  <1> SUFFICES ASSUME NEW r \in applyAttendanceUpsert
               PROVE  \/ r \in UpdateCall /\ r.rec \in Editable
                      \/ r \in InsertCall /\ r.own = FALSE /\ r.status = "normal"
    OBVIOUS
  <1>2. CASE \E a \in Editable, day \in GivenDays \cup {KeepDay}, closes \in BOOLEAN :
               r = Update(a, day, closes, Keep)
    BY <1>1, <1>2 DEF Editable, Records, Update, UpdateCall, KeepDay
  <1>3. CASE \E d \in GivenDays, open \in BOOLEAN :
               r = Insertion(NoShift, d, open, "normal", FALSE)
    <2>1. PICK d \in GivenDays, open \in BOOLEAN :
             r = Insertion(NoShift, d, open, "normal", FALSE)
      BY <1>3
    <2>2. d \in Nat /\ "normal" \in Statuses
      BY <1>1 DEF Statuses
    <2> QED
      BY <2>1, <2>2 DEF Insertion, InsertCall
  <1> QED
    <2>1. \/ \E a \in Editable, day \in GivenDays \cup {KeepDay}, closes \in BOOLEAN : r = Update(a, day, closes, Keep)
          \/ \E d \in GivenDays, open \in BOOLEAN : r = Insertion(NoShift, d, open, "normal", FALSE)
      BY DEF applyAttendanceUpsert, Insertion, Update
    <2> QED
      BY <1>2, <1>3, <2>1

\* What handlers do to a record, they decide on one that is not confirmed.
LEMMA RecordCallsTyped ==
    \A r \in UNION {clockOut, breakStart, breakEnd, update, updateBreaks, remove} :
        r \in RecordCall /\ r.rec \in Editable
  <1>1. \A a \in Open : assertNotConfirmed(a) => a \in Editable
    BY DEF Open, Editable
  <1>2. \A a \in Editable : a \in RecordIds
    BY DEF Editable, Records
  <1>3. GivenDays \subseteq Nat
    BY AttendanceConstants, DayIsNatural DEF GivenDays
  <1>4. ASSUME NEW r \in clockOut PROVE r \in UpdateCall /\ r.rec \in Editable
    <2>1. PICK a \in Open : assertNotConfirmed(a) /\ r = Update(a, KeepDay, TRUE, resolveClockOutStatus(a))
      BY <1>4 DEF clockOut
    <2>2. resolveClockOutStatus(a) \in Statuses \cup {Keep}
      BY DEF resolveClockOutStatus, Statuses
    <2> QED
      BY <1>1, <1>2, <2>1, <2>2 DEF Update, UpdateCall, KeepDay
  <1>5. ASSUME NEW r \in breakStart \cup breakEnd PROVE r \in BreakCall /\ r.rec \in Editable
    <2>1. PICK a \in Open, b \in BreakIds, o \in {"breakStart", "breakEnd"} :
             assertNotConfirmed(a) /\ r = [op |-> o, rec |-> a, break |-> b]
      BY <1>5 DEF breakStart, breakEnd
    <2> QED
      BY <1>1, <1>2, <2>1 DEF BreakCall
  <1>6. ASSUME NEW r \in update PROVE r \in UpdateCall /\ r.rec \in Editable
    <2>1. PICK a \in Editable, day \in GivenDays \cup {KeepDay},
               closes \in BOOLEAN, status \in GivenStatus \cup {Keep} : r = Update(a, day, closes, status)
      BY <1>6 DEF update
    <2> QED
      BY <1>2, <1>3, <2>1, AttendanceConstants DEF Update, UpdateCall, KeepDay
  <1>7. \A r \in updateBreaks : r \in BreaksCall /\ r.rec \in Editable
    BY <1>2 DEF updateBreaks, BreaksCall
  <1>8. \A r \in remove : r \in DeleteCall /\ r.rec \in Editable
    BY <1>2 DEF remove, DeleteCall
  <1> QED
    BY <1>4, <1>5, <1>6, <1>7, <1>8 DEF RecordCall

LEMMA ShiftCallsTyped ==
    UNION {updateShift, applyShiftModify, removeShift, applyShiftDelete, confirmShift} \subseteq ShiftCall
  <1>1. \A s \in Shifts : s \in ShiftIds
    BY DEF Shifts
  <1>2. \A s \in Loose : s \in ShiftIds
    BY DEF Loose, Shifts
  <1>3. updateShift \cup applyShiftModify \subseteq MoveCall
    BY <1>1, <1>2, AttendanceConstants DEF updateShift, applyShiftModify, MoveCall
  <1>4. removeShift \cup applyShiftDelete \subseteq RemoveCall
    BY <1>1, <1>2 DEF removeShift, applyShiftDelete, RemoveCall
  <1>5. confirmShift \subseteq ConfirmCall
    <2> SUFFICES ASSUME NEW s \in Shifts
                 PROVE  [op |-> "confirmShift", shift |-> s, confirmed |-> ~shift[s].confirmed] \in ConfirmCall
      BY DEF confirmShift
    <2>1. (~shift[s].confirmed) \in BOOLEAN
      OBVIOUS
    <2> QED
      BY <1>1, <2>1 DEF ConfirmCall
  <1> QED
    BY <1>3, <1>4, <1>5 DEF ShiftCall

LEMMA StatusIsNotAbsent == \A t, s : determineStatus(t, s) \in Statuses \ {"absent"}
  <1> SUFFICES ASSUME NEW t, NEW s PROVE determineStatus(t, s) \in Statuses \ {"absent"}
    OBVIOUS
  <1>1. CASE s = NoShift
    BY <1>1 DEF determineStatus, Statuses
  <1>2. CASE s # NoShift /\ isDeemedWork(shift[s].kind)
    BY <1>2 DEF determineStatus, Statuses
  <1>3. CASE s # NoShift /\ ~isDeemedWork(shift[s].kind)
    BY <1>3 DEF determineStatus, Statuses
  <1> QED
    BY <1>1, <1>2, <1>3

\* What a handler that writes at once has just read.
LEMMA ReadsAreChecked ==
    ASSUME AttendanceTypeOK, NEW r \in Reads
    PROVE  \/ /\ r \in InsertCall
              /\ r.own => ~AlreadyIn /\ r.status # "absent"
              /\ (r.status = "absent" /\ "absent" \notin GivenStatus) => HasNoRecord(r.day)
           \/ r \in RecordCall /\ r.rec \in Editable
           \/ r \in ShiftCall
  <1>1. CASE r \in clockIn
    <2>1. PICK s \in findShiftForClockIn(now) :
             r = Insertion(s, DayOf(now), TRUE, determineStatus(now, s), TRUE)
      BY <1>1 DEF clockIn, Insertion
    <2>2. ~AlreadyIn /\ r.status # "absent"
      BY <1>1, <2>1, StatusIsNotAbsent DEF clockIn, Insertion
    <2> QED
      BY <1>1, <2>2, InsertionsTyped
  <1>2. CASE r \in createManual
    <2>1. PICK s, t : r \in ManualRecords(s, t)
      BY <1>2 DEF createManual
    <2>2. r.own = FALSE /\ r.status \in {determineStatus(t, s)} \cup GivenStatus
      BY <2>1 DEF ManualRecords, Insertion
    <2>3. r.status = "absent" => "absent" \in GivenStatus
      BY <2>2, StatusIsNotAbsent
    <2> QED
      BY <1>2, <2>2, <2>3, InsertionsTyped
  <1>3. CASE r \in markAbsentForShift
    <2>1. PICK l \in markAbsences : HasNoRecord(l.day) /\ r = Absence(l)
      BY <1>3, Zenon DEF markAbsentForShift
    <2>2. r.own = FALSE /\ r.day = l.day
      BY <2>1 DEF Absence, Insertion
    <2> QED
      BY <1>3, <2>1, <2>2, InsertionsTyped
  <1> QED
    BY <1>1, <1>2, <1>3, UpsertsTyped, RecordCallsTyped, ShiftCallsTyped DEF Reads, RecordCall

-----------------------------------------------------------------------------
(* Steps.                                                                  *)

AllCalls == UNION {InsertCall, RecordCall, ListedCall, ShiftCall}

\* A step writes what a call has just read, or has read before, or is one of the
\* handlers of a single write, or leaves shifts and records alone.
LEMMA StepKinds ==
    ASSUME AInv, [ANext]_avars
    PROVE  \/ \E r \in Reads : Write(r) /\ inFlight' = inFlight
           \/ \E r \in inFlight : Write(r) /\ inFlight' = inFlight \ {r}
           \/ \E s \in ShiftIds, ts \in ShiftTimes, k \in Kinds, confirmed \in BOOLEAN : CreateShift(s, ts, k, confirmed)
           \/ \E as \in SUBSET Records, confirmed \in BOOLEAN : SetConfirmed(as, confirmed)
           \/ UNCHANGED <<shift, record>>
  BY Zenon DEF ANext, Step, AtOnce, Begin, Check, Finish, Fail, Tick, avars

\* Only insertions add a record, one in a place that was free.
LEMMA InsertFacts ==
    ASSUME AttendanceTypeOK, NEW r \in InsertCall, Insert(r)
    PROVE  \E a \in RecordIds \ Records :
              /\ Records' = Records \cup {a}
              /\ \A b \in Records : record'[b] = record[b]
              /\ record'[a].own = r.own
              /\ record'[a].day = r.day
              /\ record'[a].status = r.status
  <1>1. PICK a \in RecordIds \ Records :
           record' = [record EXCEPT ![a] =
              [exists |-> TRUE, shift |-> r.shift, day |-> r.day, open |-> r.open,
               status |-> r.status, confirmed |-> FALSE, own |-> r.own, breaks |-> {}]]
    BY DEF Insert
  <1>2. record \in [RecordIds -> Record]
    BY DEF AttendanceTypeOK
  <1>3. record'[a] = [exists |-> TRUE, shift |-> r.shift, day |-> r.day, open |-> r.open,
                      status |-> r.status, confirmed |-> FALSE, own |-> r.own, breaks |-> {}]
    BY <1>1, <1>2
  <1>4. \A b \in RecordIds : b # a => record'[b] = record[b]
    BY <1>1, <1>2
  <1>5. Records' = Records \cup {a}
    BY <1>3, <1>4 DEF Records
  <1> QED
    BY <1>3, <1>4, <1>5 DEF Records

\* Writes of the other calls on records change the row they name, and open none.
LEMMA RecordWriteFacts ==
    ASSUME AttendanceTypeOK, NEW r \in RecordCall, Write(r)
    PROVE  /\ r.op \in RecordOps
           /\ record' \in [RecordIds -> Record]
           /\ UNCHANGED <<shift, now>>
           /\ \A a \in RecordIds : a # r.rec => record'[a] = record[a]
           /\ Records' \subseteq Records
           /\ Own' \subseteq Own
  <1>1. record \in [RecordIds -> Record]
    BY DEF AttendanceTypeOK
  <1>2. r.op \in RecordOps /\ r.rec \in RecordIds
    BY DEF RecordCall, UpdateCall, BreakCall, BreaksCall, DeleteCall, RecordOps
  <1>3. UNCHANGED <<shift, now>>
    BY <1>2 DEF Write, Insert, WriteUpdate, WriteBreaks, Delete, WriteShift, DeleteShift, RecordOps
  <1>4. PICK new : /\ record' = [record EXCEPT ![r.rec] = new]
                   /\ new \in Record
                   /\ r.rec \in Records
                   /\ new.exists /\ new.open => record[r.rec].open
                   /\ new.own => record[r.rec].own
    <2>1. CASE WriteUpdate(r)
      <3>1. r \in UpdateCall
        BY <1>2, <2>1 DEF WriteUpdate, RecordCall, BreakCall, BreaksCall, DeleteCall
      <3> DEFINE old == record[r.rec]
                 day == IF r.day = KeepDay THEN old.day ELSE r.day
                 open == old.open /\ ~r.closes
                 status == IF r.status = Keep THEN old.status ELSE r.status
                 upd == [old EXCEPT !.day = day, !.open = open, !.status = status]
      <3>2. record' = [record EXCEPT ![r.rec] = upd] /\ r.rec \in Records
        BY <2>1 DEF WriteUpdate, Updated
      <3>3. old \in Record
        BY <1>1, <1>2
      <3>4. day \in Nat /\ open \in BOOLEAN /\ status \in Statuses /\ (open => old.open)
        BY <3>1, <3>3 DEF Record, UpdateCall
      <3>5. upd \in Record /\ upd.open = open /\ upd.own = old.own
        <4> HIDE DEF day, open, status
        <4> QED
          BY <3>3, <3>4 DEF Record
      <3> HIDE DEF upd, open
      <3> QED
        BY <3>2, <3>4, <3>5
    <2>2. CASE WriteBreaks(r)
      <3> DEFINE old == record[r.rec]
      <3>1. old \in Record
        BY <1>1, <1>2
      <3> DEFINE bs == CASE r.op = "breakStart" -> old.breaks \cup {r.break}
                         [] r.op = "breakEnd"   -> old.breaks \ {r.break}
                         [] r.op = "breaks"     -> r.breaks
      <3>2. record' = [record EXCEPT ![r.rec] = [old EXCEPT !.breaks = bs]]
        BY <1>1, <1>2, <2>2, <3>1 DEF WriteBreaks
      <3>3. r \in BreakCall \cup BreaksCall
        BY <2>2 DEF WriteBreaks, RecordCall, UpdateCall, DeleteCall
      <3>4. bs \in SUBSET BreakIds
        BY <2>2, <3>1, <3>3 DEF WriteBreaks, BreakCall, BreaksCall, Record
      <3> HIDE DEF bs
      <3>5. [old EXCEPT !.breaks = bs] \in Record
        BY <3>1, <3>4 DEF Record
      <3>6. [old EXCEPT !.breaks = bs].open = old.open /\ [old EXCEPT !.breaks = bs].own = old.own
        BY <3>1 DEF Record
      <3> QED
        BY <2>2, <3>2, <3>5, <3>6 DEF WriteBreaks
    <2>3. CASE Delete(r)
      <3>1. NoRecord \in Record /\ ~NoRecord.open /\ ~NoRecord.own
        BY DEF NoRecord, Record, Statuses
      <3> QED
        BY <2>3, <3>1 DEF Delete
    <2>4. WriteUpdate(r) \/ WriteBreaks(r) \/ Delete(r)
      BY <1>2 DEF Write, Insert, WriteShift, DeleteShift, RecordOps
    <2> QED
      BY <2>1, <2>2, <2>3, <2>4
  <1>5. \A a \in RecordIds : a # r.rec => record'[a] = record[a]
    BY <1>1, <1>4
  <1>6. record'[r.rec] = new
    BY <1>1, <1>2, <1>4
  <1>7. record' \in [RecordIds -> Record]
    BY <1>1, <1>2, <1>4
  <1>8. Records' \subseteq Records
    BY <1>4, <1>5 DEF Records
  <1>9. Own' \subseteq Own
    BY <1>4, <1>5, <1>6, <1>8 DEF Own, Open, Records
  <1> QED
    BY <1>2, <1>3, <1>5, <1>7, <1>8, <1>9

\* Writes on shifts change at most the shifts of records.
LEMMA ShiftWriteFacts ==
    ASSUME AttendanceTypeOK, NEW r \in ShiftCall, Write(r)
    PROVE  /\ r.op \notin RecordOps \cup {"insert"}
           /\ shift' \in [ShiftIds -> Shift]
           /\ UNCHANGED now
           /\ record' = record \/ record' = [a \in RecordIds |->
                 IF record[a].shift = r.shift THEN [record[a] EXCEPT !.shift = NoShift] ELSE record[a]]
  <1>1. shift \in [ShiftIds -> Shift]
    BY DEF AttendanceTypeOK
  <1>2. r.op \notin RecordOps \cup {"insert"} /\ r.shift \in ShiftIds
    BY DEF ShiftCall, MoveCall, RemoveCall, ConfirmCall, RecordOps
  <1>3. CASE WriteShift(r)
    <2>1. r \in MoveCall \cup ConfirmCall
      BY <1>3 DEF WriteShift, ShiftCall, RemoveCall
    <2>2. Rescheduled(shift[r.shift], r) \in Shift
      <3>1. shift[r.shift] \in Shift
        BY <1>1, <1>2
      <3>2. CASE r \in ConfirmCall
        BY <3>1, <3>2 DEF Rescheduled, Shift, ConfirmCall
      <3>3. CASE r \in MoveCall
        <4> DEFINE kind == IF r.kind = Keep THEN shift[r.shift].kind ELSE r.kind
        <4>1. kind \in AllKinds /\ r.times \in ShiftTimes
          BY <3>1, <3>3 DEF Shift, MoveCall
        <4>2. Rescheduled(shift[r.shift], r) = [shift[r.shift] EXCEPT !.times = r.times, !.kind = kind]
          BY <3>3 DEF Rescheduled, MoveCall
        <4> HIDE DEF kind
        <4> QED
          BY <3>1, <4>1, <4>2 DEF Shift
      <3> QED
        BY <2>1, <3>2, <3>3
    <2> QED
      BY <1>1, <1>2, <1>3, <2>2 DEF WriteShift, Write
  <1>4. CASE DeleteShift(r)
    <2>1. [shift[r.shift] EXCEPT !.exists = FALSE] \in Shift
      BY <1>1, <1>2 DEF Shift
    <2> QED
      BY <1>1, <1>2, <1>4, <2>1 DEF DeleteShift, Write
  <1> QED
    BY <1>2, <1>3, <1>4 DEF Write, Insert, WriteUpdate, WriteBreaks, Delete, RecordOps

\* A record without its shift is the same record otherwise.
LEMMA Unlinked ==
    ASSUME NEW old \in Record
    PROVE  /\ [old EXCEPT !.shift = NoShift] \in Record
           /\ \A f \in {"exists", "day", "open", "status", "confirmed", "own", "breaks"} :
                 [old EXCEPT !.shift = NoShift][f] = old[f]
  BY DEF Record

-----------------------------------------------------------------------------
(* Types.                                                                  *)

LEMMA ReadsTyped == AttendanceTypeOK => Reads \cup markAbsences \subseteq AllCalls
  BY ReadsAreChecked, InsertionsTyped DEF AllCalls

LEMMA WriteTyped ==
    ASSUME AttendanceTypeOK, NEW r \in AllCalls, Write(r)
    PROVE  AttendanceTypeOK'
  <1>1. /\ shift \in [ShiftIds -> Shift] /\ record \in [RecordIds -> Record] /\ now \in Ticks
    BY DEF AttendanceTypeOK
  <1>2. CASE r \in InsertCall
    <2>1. Insert(r) /\ UNCHANGED <<shift, now>>
      BY <1>2 DEF Write, InsertCall, Insert, WriteUpdate, WriteBreaks, Delete, WriteShift, DeleteShift
    <2>2. PICK a \in RecordIds \ Records :
             record' = [record EXCEPT ![a] =
                [exists |-> TRUE, shift |-> r.shift, day |-> r.day, open |-> r.open,
                 status |-> r.status, confirmed |-> FALSE, own |-> r.own, breaks |-> {}]]
      BY <2>1 DEF Insert
    <2>3. [exists |-> TRUE, shift |-> r.shift, day |-> r.day, open |-> r.open,
           status |-> r.status, confirmed |-> FALSE, own |-> r.own, breaks |-> {}] \in Record
      BY <1>2 DEF InsertCall, Record
    <2> QED
      BY <1>1, <2>1, <2>2, <2>3 DEF AttendanceTypeOK
  <1>3. CASE r \in RecordCall
    BY <1>1, <1>3, RecordWriteFacts DEF AttendanceTypeOK
  <1>4. CASE r \in ShiftCall
    <2>1. record' \in [RecordIds -> Record]
      BY <1>1, <1>4, ShiftWriteFacts, Unlinked
    <2> QED
      BY <1>1, <1>4, <2>1, ShiftWriteFacts DEF AttendanceTypeOK
  <1>5. CASE r \in ListedCall
    BY <1>5 DEF ListedCall, Write, Insert, WriteUpdate, WriteBreaks, Delete, WriteShift, DeleteShift
  <1> QED
    BY <1>2, <1>3, <1>4, <1>5 DEF AllCalls

LEMMA ConfirmationFacts ==
    ASSUME AttendanceTypeOK, NEW as \in SUBSET Records, NEW confirmed \in BOOLEAN, SetConfirmed(as, confirmed)
    PROVE  /\ record' \in [RecordIds -> Record]
           /\ \A a \in RecordIds : record'[a] = record[a] \/ record'[a] = [record[a] EXCEPT !.confirmed = confirmed]
           /\ UNCHANGED <<shift, now>>
  <1>1. record \in [RecordIds -> Record]
    BY DEF AttendanceTypeOK
  <1>2. \A a \in RecordIds : [record[a] EXCEPT !.confirmed = confirmed] \in Record
    BY <1>1 DEF Record
  <1> QED
    BY <1>1, <1>2 DEF SetConfirmed

\* Whatever a call has just read does not forbid it.
LEMMA NothingBars ==
    ASSUME AttendanceTypeOK, NEW r \in Reads
    PROVE  Unchecked(r) \/ Bars(r) = {}
  <1>1. CASE r \in InsertCall /\ r.own
    BY <1>1, ReadsAreChecked DEF InsertCall, RecordCall, UpdateCall, BreakCall, BreaksCall, DeleteCall,
                                 ShiftCall, MoveCall, RemoveCall, ConfirmCall, AlreadyIn, Open, Bars
  <1>2. CASE r \in InsertCall /\ ~r.own
    <2>1. r.op = "insert"
      BY <1>2 DEF InsertCall
    <2>2. r.status = "absent" /\ "absent" \notin GivenStatus => HasNoRecord(r.day)
      BY <2>1, ReadsAreChecked DEF RecordCall, UpdateCall, BreakCall, BreaksCall, DeleteCall,
                                   ShiftCall, MoveCall, RemoveCall, ConfirmCall
    <2> QED
      BY <1>2, <2>1, <2>2 DEF Unchecked, Bars, HasNoRecord, OnDay
  <1>3. CASE r \in RecordCall /\ r.rec \in Editable
    <2>1. r.op # "insert"
      BY <1>3 DEF RecordCall, UpdateCall, BreakCall, BreaksCall, DeleteCall
    <2> QED
      BY <1>3, <2>1 DEF Bars, Editable, assertNotConfirmed
  <1>4. CASE r \in ShiftCall
    BY <1>4 DEF ShiftCall, MoveCall, RemoveCall, ConfirmCall, Bars
  <1> QED
    BY <1>1, <1>2, <1>3, <1>4, ReadsAreChecked

\* A call that comes into flight has just been checked; what begins to forbid the
\* others is late.
LEMMA ChecksHeldStep ==
    ASSUME AInv, [ANext]_avars
    PROVE  ChecksHeld'
  <1>1. CASE UNCHANGED avars
    BY <1>1 DEF AInv, ChecksHeld, Unchecked, Bars, Records, avars
  <1>2. CASE ANext
    <2>1. ASSUME NEW r \in inFlight \cap inFlight'
          PROVE  Unchecked(r) \/ \A a \in Bars(r)' : <<r, a>> \in late'
      <3>1. Unchecked(r) \/ \A a \in Bars(r) : <<r, a>> \in late
        BY <2>1 DEF AInv, ChecksHeld
      <3>2. \A a \in Bars(r)' : a \in RecordIds
        BY DEF Bars, Records
      <3>3. \A a \in Bars(r)' : a \notin Bars(r) \/ <<r, a>> \in late => <<r, a>> \in late'
        BY <1>2, <2>1, <3>2, Zenon DEF ANext
      <3> QED
        BY <3>1, <3>3
    <2>2. ASSUME NEW r \in inFlight' \ inFlight
          PROVE  Unchecked(r) \/ Bars(r)' = {}
      <3>1. \/ \E q \in Reads \cup markAbsences : Begin(q)
            \/ \E q \in inFlight : Check(q)
        BY <1>2, <2>2, Zenon DEF ANext, Step, AtOnce, Finish, CreateShift, SetConfirmed, Tick
      <3>2. Bars(r)' = Bars(r)
        BY <3>1 DEF Begin, Check, Bars, Records
      <3>3. CASE \E q \in inFlight : Check(q)
        <4>1. PICK q \in inFlight : HasNoRecord(q.day) /\ r = Absence(q)
          BY <2>2, <3>3 DEF Check
        <4> QED
          BY <3>2, <4>1 DEF Absence, Insertion, Bars, HasNoRecord, OnDay
      <3>4. CASE \E q \in Reads \cup markAbsences : Begin(q)
        <4>1. r \in Reads \cup markAbsences
          BY <2>2, <3>4 DEF Begin
        <4>2. CASE r \in Reads
          BY <3>2, <4>2, NothingBars DEF AInv
        <4>3. CASE r \in markAbsences
          BY <3>2, <4>3 DEF markAbsences, Bars
        <4> QED
          BY <4>1, <4>2, <4>3
      <3> QED
        BY <3>1, <3>3, <3>4
    <2>3. ASSUME NEW r \in inFlight'
          PROVE  Unchecked(r) \/ \A a \in Bars(r)' : <<r, a>> \in late'
      BY <2>1, <2>2
    <2> QED
      BY <2>3 DEF ChecksHeld, Unchecked
  <1> QED
    BY <1>1, <1>2

LEMMA InvariantInit == AInit => AInv
  <1> SUFFICES ASSUME AInit PROVE AInv
    OBVIOUS
  <1>1. NoRecord \in Record
    BY DEF NoRecord, Record, Statuses
  <1>2. (CHOOSE ts \in ShiftTimes : TRUE) \in ShiftTimes
    BY AttendanceConstants
  <1>3. [exists |-> FALSE, times |-> CHOOSE ts \in ShiftTimes : TRUE, kind |-> "plain", confirmed |-> FALSE] \in Shift
    BY <1>2 DEF Shift, AllKinds
  <1>4. 1 \in Ticks
    BY AttendanceConstants DEF Ticks
  <1> QED
    BY <1>1, <1>3, <1>4 DEF AInit, AInv, AttendanceTypeOK, ChecksHeld

LEMMA InvariantStep == AInv /\ [ANext]_avars => AInv'
  <1> SUFFICES ASSUME AInv, [ANext]_avars PROVE AInv'
    OBVIOUS
  <1>1. AttendanceTypeOK /\ inFlight \subseteq AllCalls
    BY DEF AInv, AllCalls
  <1>2. Reads \cup markAbsences \subseteq AllCalls
    BY <1>1, ReadsTyped
  <1>3. inFlight' \subseteq AllCalls
    <2>1. CASE \E r \in Reads \cup markAbsences : inFlight' = inFlight \cup {r}
      BY <1>1, <1>2, <2>1
    <2>2. CASE \E r \in inFlight : Check(r)
      <3>1. PICK r \in inFlight : r.op = "listed" /\ inFlight' = (inFlight \ {r}) \cup {Absence(r)}
        BY <2>2 DEF Check
      <3>2. r \in ListedCall
        BY <1>1, <3>1 DEF AllCalls, InsertCall, RecordCall, UpdateCall, BreakCall, BreaksCall, DeleteCall,
                          ShiftCall, MoveCall, RemoveCall, ConfirmCall
      <3>3. r.shift \in ShiftIds \cup {NoShift} /\ r.day \in Nat /\ "absent" \in Statuses
        BY <3>2 DEF ListedCall, Statuses
      <3>4. Absence(r) \in InsertCall
        BY <3>3, InsertionTyped DEF Absence
      <3> QED
        BY <1>1, <3>1, <3>4 DEF AllCalls
    <2>3. CASE inFlight' \subseteq inFlight
      BY <1>1, <2>3
    <2> QED
      BY <2>1, <2>2, <2>3, Zenon DEF ANext, Step, AtOnce, Begin, Finish, CreateShift, SetConfirmed, Tick, avars
  <1>4. AttendanceTypeOK'
    <2>1. CASE \E r \in Reads \cup inFlight : Write(r)
      BY <1>1, <1>2, <2>1, WriteTyped
    <2>2. CASE \E s \in ShiftIds, ts \in ShiftTimes, k \in Kinds, confirmed \in BOOLEAN : CreateShift(s, ts, k, confirmed)
      <3>1. PICK s \in ShiftIds, ts \in ShiftTimes, k \in Kinds, confirmed \in BOOLEAN : CreateShift(s, ts, k, confirmed)
        BY <2>2
      <3>2. [exists |-> TRUE, times |-> ts, kind |-> k, confirmed |-> confirmed] \in Shift
        BY AttendanceConstants DEF Shift
      <3> QED
        BY <1>1, <3>1, <3>2 DEF CreateShift, AttendanceTypeOK
    <2>3. CASE \E as \in SUBSET Records, confirmed \in BOOLEAN : SetConfirmed(as, confirmed)
      BY <1>1, <2>3, ConfirmationFacts DEF AttendanceTypeOK
    <2>4. CASE UNCHANGED <<shift, record>>
      <3>1. now' = now \/ Tick
        BY <2>4, Zenon DEF ANext, Step, AtOnce, Write, Begin, Check, Finish, Fail, CreateShift, SetConfirmed, avars
      <3>2. now' \in Ticks
        BY <1>1, <3>1, AttendanceConstants DEF Tick, Ticks, AttendanceTypeOK
      <3> QED
        BY <1>1, <2>4, <3>2 DEF AttendanceTypeOK
    <2> QED
      BY <2>1, <2>2, <2>3, <2>4, StepKinds
  <1> QED
    BY <1>3, <1>4, ChecksHeldStep DEF AInv, AllCalls

LEMMA Invariance == ASpec => []AInv
  BY InvariantInit, InvariantStep, PTL DEF ASpec

\* Every reachable shift and record is well typed.
THEOREM AttendanceTypeCorrectness == ASpec => []AttendanceTypeOK
  BY Invariance, PTL DEF AInv

-----------------------------------------------------------------------------
(* Action properties.                                                      *)

LEMMA WriteKinds ==
    ASSUME NEW r \in AllCalls, Write(r)
    PROVE  \/ r \in InsertCall /\ Insert(r)
           \/ r \in RecordCall
           \/ r \in ShiftCall
  BY DEF AllCalls, InsertCall, ListedCall, Write, Insert, WriteUpdate, WriteBreaks, Delete, WriteShift, DeleteShift

\* A write on shifts and a confirmation change no record but in its link or its
\* confirmation.
LEMMA SameRecords ==
    ASSUME AttendanceTypeOK, record' \in [RecordIds -> Record],
           \A a \in RecordIds : /\ record'[a].exists = record[a].exists
                                /\ record'[a].open = record[a].open
                                /\ record'[a].own = record[a].own
    PROVE  Records' = Records /\ Own' = Own
  BY DEF Records, Open, Own

LEMMA LinksAndConfirmations ==
    ASSUME AttendanceTypeOK,
           \/ \E r \in ShiftCall : Write(r)
           \/ \E as \in SUBSET Records, confirmed \in BOOLEAN : SetConfirmed(as, confirmed)
           \/ \E s \in ShiftIds, ts \in ShiftTimes, k \in Kinds, confirmed \in BOOLEAN : CreateShift(s, ts, k, confirmed)
           \/ UNCHANGED <<shift, record>>
    PROVE  /\ Records' = Records /\ Own' = Own
           /\ \A a \in RecordIds : Content(a)' = Content(a)
  <1>1. record \in [RecordIds -> Record]
    BY DEF AttendanceTypeOK
  <1>2. /\ record' \in [RecordIds -> Record]
        /\ \A a \in RecordIds : \/ record'[a] = record[a]
                                \/ record'[a] = [record[a] EXCEPT !.shift = NoShift]
                                \/ record'[a] = [record[a] EXCEPT !.confirmed = TRUE]
                                \/ record'[a] = [record[a] EXCEPT !.confirmed = FALSE]
    <2>1. CASE \E r \in ShiftCall : Write(r)
      BY <1>1, <2>1, ShiftWriteFacts, Unlinked
    <2>2. CASE \E as \in SUBSET Records, confirmed \in BOOLEAN : SetConfirmed(as, confirmed)
      BY <2>2, ConfirmationFacts
    <2>3. CASE UNCHANGED record
      BY <1>1, <2>3
    <2> QED
      BY <2>1, <2>2, <2>3 DEF CreateShift
  <1>3. \A old \in Record : \A new :
           \/ new = old
           \/ new = [old EXCEPT !.shift = NoShift]
           \/ new = [old EXCEPT !.confirmed = TRUE]
           \/ new = [old EXCEPT !.confirmed = FALSE]
           => /\ new.exists = old.exists /\ new.open = old.open /\ new.own = old.own
              /\ [new EXCEPT !.confirmed = TRUE, !.shift = NoShift] = [old EXCEPT !.confirmed = TRUE, !.shift = NoShift]
    BY DEF Record
  <1>4. \A a \in RecordIds : /\ record'[a].exists = record[a].exists
                             /\ record'[a].open = record[a].open
                             /\ record'[a].own = record[a].own
                             /\ Content(a)' = Content(a)
    BY <1>1, <1>2, <1>3 DEF Content
  <1> QED
    BY <1>2, <1>4, SameRecords

\* A write adds an own open record only if it is an own clock-in.
LEMMA OwnGrowsByClockIn ==
    ASSUME AttendanceTypeOK, NEW r \in AllCalls, Write(r)
    PROVE  Own' \subseteq Own \/ (r \in InsertCall /\ r.own)
  <1>1. CASE r \in InsertCall /\ Insert(r) /\ ~r.own
    <2>1. PICK a \in RecordIds \ Records :
             /\ Records' = Records \cup {a}
             /\ \A b \in Records : record'[b] = record[b]
             /\ record'[a].own = r.own
      BY <1>1, InsertFacts
    <2> QED
      BY <1>1, <2>1 DEF Own, Open
  <1> QED
    BY <1>1, WriteKinds, RecordWriteFacts, LinksAndConfirmations

\* The employee's own clock-ins alternate with their clock-outs (clockIn), whatever
\* others do, unless a clock-in comes between the check and the insertion of another.
THEOREM ClockInCorrectness == ASpec => OwnClockInsAlternate
  <1>1. ASSUME AInv, [ANext]_avars
        PROVE  Own' \subseteq Own \/ Own = {} \/ Overtaken("insert", Own)
    <2>1. AttendanceTypeOK /\ inFlight \subseteq AllCalls /\ Reads \subseteq AllCalls
      BY <1>1, ReadsTyped DEF AInv, AllCalls
    <2>2. CASE \E r \in Reads : Write(r)
      <3>1. PICK r \in Reads : Write(r)
        BY <2>2
      <3>2. CASE r \in InsertCall /\ r.own
        <4>1. ~AlreadyIn
          BY <2>1, <3>2, ReadsAreChecked DEF InsertCall, RecordCall, UpdateCall, BreakCall, BreaksCall, DeleteCall,
                                             ShiftCall, MoveCall, RemoveCall, ConfirmCall
        <4> QED
          BY <4>1 DEF AlreadyIn, Own
      <3> QED
        BY <2>1, <3>1, <3>2, OwnGrowsByClockIn
    <2>3. CASE \E r \in inFlight : Write(r) /\ inFlight' = inFlight \ {r}
      <3>1. PICK r \in inFlight : Write(r) /\ inFlight' = inFlight \ {r}
        BY <2>3
      <3>2. CASE r \in InsertCall /\ r.own
        <4>1. r.op = "insert" /\ r \in inFlight \ inFlight'
          BY <3>1, <3>2 DEF InsertCall
        <4>2. \A a \in Own : a \in Bars(r)
          BY <3>2, <4>1 DEF Own, Open, Bars
        <4>3. \A a \in Own : <<r, a>> \in late
          BY <1>1, <3>2, <4>2 DEF AInv, ChecksHeld, Unchecked
        <4> QED
          BY <4>1, <4>3 DEF Overtaken
      <3> QED
        BY <2>1, <3>1, <3>2, OwnGrowsByClockIn
    <2> QED
      BY <1>1, <2>1, <2>2, <2>3, StepKinds, LinksAndConfirmations
  <1>2. ASSUME AInv, [ANext]_avars
        PROVE  [Cardinality(Own') <= Cardinality(Own) \/ Own = {} \/ Overtaken("insert", Own)]_avars
    <2>1. IsFiniteSet(Own)
      BY AttendanceConstants, FS_Subset DEF Own, Open, Records
    <2> QED
      BY <1>1, <1>2, <2>1, FS_Subset
  <1> QED
    BY <1>2, Invariance, PTL DEF ASpec, OwnClockInsAlternate

\* A confirmed record stands (assertNotConfirmed) until it is unconfirmed, but for
\* the calls that had read it when it was confirmed.
THEOREM ConfirmationCorrectness == ASpec => ConfirmedRecordsStand
  <1>1. ASSUME AInv, [ANext]_avars, NEW a \in Records, record[a].confirmed
        PROVE  \/ Content(a)' = Content(a)
               \/ \E op \in RecordOps : Overtaken(op, {a})
    <2>1. AttendanceTypeOK /\ inFlight \subseteq AllCalls /\ Reads \subseteq AllCalls /\ a \in RecordIds
      BY <1>1, ReadsTyped DEF AInv, AllCalls, Records
    <2>2. ASSUME NEW r \in AllCalls, Write(r)
          PROVE  \/ Content(a)' = Content(a)
                 \/ r \in RecordCall /\ r.rec = a
      <3>1. CASE r \in InsertCall /\ Insert(r)
        <4>1. record'[a] = record[a]
          BY <1>1, <2>1, <3>1, InsertFacts
        <4> QED
          BY <4>1 DEF Content
      <3>2. CASE r \in RecordCall /\ r.rec # a
        <4>1. record'[a] = record[a]
          BY <2>1, <2>2, <3>2, RecordWriteFacts
        <4> QED
          BY <4>1 DEF Content
      <3>3. CASE r \in ShiftCall
        BY <2>1, <2>2, <3>3, LinksAndConfirmations
      <3> QED
        BY <2>2, <3>1, <3>2, <3>3, WriteKinds
    <2>3. CASE \E r \in Reads : Write(r)
      <3>1. PICK r \in Reads : Write(r)
        BY <2>3
      <3>2. CASE r \in RecordCall
        <4>1. r.rec \in Editable
          BY <2>1, <3>2, ReadsAreChecked DEF InsertCall, RecordCall, UpdateCall, BreakCall, BreaksCall, DeleteCall,
                                             ShiftCall, MoveCall, RemoveCall, ConfirmCall
        <4>2. r.rec # a
          BY <1>1, <4>1 DEF Editable, assertNotConfirmed
        <4> QED
          BY <2>1, <2>2, <3>1, <4>2
      <3> QED
        BY <2>1, <2>2, <3>1, <3>2
    <2>4. CASE \E r \in inFlight : Write(r) /\ inFlight' = inFlight \ {r}
      <3>1. PICK r \in inFlight : Write(r) /\ inFlight' = inFlight \ {r}
        BY <2>4
      <3>2. CASE r \in RecordCall /\ r.rec = a
        <4>1. r.op \in RecordOps /\ r.op # "insert" /\ r \in inFlight \ inFlight'
          BY <2>1, <3>1, <3>2, RecordWriteFacts DEF RecordOps
        <4>2. a \in Bars(r)
          BY <1>1, <3>2, <4>1 DEF Bars, RecordOps
        <4>3. <<r, a>> \in late
          BY <1>1, <4>1, <4>2 DEF AInv, ChecksHeld, Unchecked
        <4> QED
          BY <4>1, <4>3 DEF Overtaken
      <3> QED
        BY <2>1, <2>2, <3>1, <3>2
    <2> QED
      BY <1>1, <2>1, <2>3, <2>4, StepKinds, LinksAndConfirmations
  <1>2. ASSUME AInv, [ANext]_avars
        PROVE  [\A a \in Records : record[a].confirmed =>
                   \/ Content(a)' = Content(a)
                   \/ \E op \in {"update", "breakStart", "breakEnd", "breaks", "delete"} : Overtaken(op, {a})]_avars
    BY <1>1, <1>2 DEF RecordOps
  <1> QED
    BY <1>2, Invariance, PTL DEF ASpec, ConfirmedRecordsStand

\* The scheduler (markAbsentForShift) enters an absence for a day without a record,
\* or whose records all appeared after it had looked at the day, however long ago
\* it made its list, where nobody enters absences by hand.
THEOREM AbsenceCorrectness ==
    ASSUME "absent" \notin GivenStatus PROVE ASpec => AbsencesStandAlone
  <1>1. ASSUME AInv, [ANext]_avars, NEW a \in RecordIds \ Records, a \in Records',
               record'[a].status = "absent"
        PROVE  OnDay(record'[a].day) = {} \/ Overtaken("insert", OnDay(record'[a].day))
    <2>1. AttendanceTypeOK /\ inFlight \subseteq AllCalls /\ Reads \subseteq AllCalls
      BY <1>1, ReadsTyped DEF AInv, AllCalls
    <2>2. ASSUME NEW r \in AllCalls, Write(r)
          PROVE  r \in InsertCall /\ r.status = "absent" /\ record'[a].day = r.day
      <3>1. r \in InsertCall /\ Insert(r)
        BY <1>1, <2>1, <2>2, WriteKinds, RecordWriteFacts, LinksAndConfirmations
      <3>2. PICK b \in RecordIds \ Records :
               /\ Records' = Records \cup {b}
               /\ record'[b].status = r.status /\ record'[b].day = r.day
        BY <2>1, <3>1, InsertFacts
      <3> QED
        BY <1>1, <3>1, <3>2
    <2>3. CASE \E r \in Reads : Write(r)
      <3>1. PICK r \in Reads : Write(r)
        BY <2>3
      <3>2. r \in InsertCall /\ r.status = "absent" /\ record'[a].day = r.day
        BY <2>1, <2>2, <3>1
      <3>3. HasNoRecord(r.day)
        BY <2>1, <3>2, ReadsAreChecked DEF InsertCall, RecordCall, UpdateCall, BreakCall, BreaksCall, DeleteCall,
                                           ShiftCall, MoveCall, RemoveCall, ConfirmCall
      <3> QED
        BY <3>2, <3>3 DEF HasNoRecord
    <2>4. CASE \E r \in inFlight : Write(r) /\ inFlight' = inFlight \ {r}
      <3>1. PICK r \in inFlight : Write(r) /\ inFlight' = inFlight \ {r}
        BY <2>4
      <3>2. r \in InsertCall /\ r.op = "insert" /\ r.status = "absent" /\ record'[a].day = r.day
        BY <2>1, <2>2, <3>1 DEF InsertCall
      <3>3. \A b \in OnDay(record'[a].day) : b \in Bars(r)
        BY <3>2 DEF OnDay, Bars
      <3>4. \A b \in OnDay(record'[a].day) : <<r, b>> \in late
        BY <1>1, <3>1, <3>3 DEF AInv, ChecksHeld, Unchecked
      <3> QED
        BY <3>1, <3>2, <3>4 DEF Overtaken
    <2> QED
      BY <1>1, <2>1, <2>3, <2>4, StepKinds, LinksAndConfirmations
  <1>2. ASSUME AInv, [ANext]_avars
        PROVE  [\A a \in RecordIds \ Records :
                   (a \in Records' /\ record'[a].status = "absent" /\ record'[a].shift # NoShift) =>
                       \/ OnDay(record'[a].day) = {}
                       \/ Overtaken("insert", OnDay(record'[a].day))]_avars
    BY <1>1, <1>2
  <1> QED
    BY <1>2, Invariance, PTL DEF ASpec, AbsencesStandAlone
=============================================================================
