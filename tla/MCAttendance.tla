----------------------------- MODULE MCAttendance -----------------------------
(* Instances of Attendance for TLC. *)
EXTENDS Attendance, TLC

CONSTANTS a1, a2

\* A shift of the first day, from the second tick to the third.
MCShiftTimes == {<<2, 3>>}

RecordSymmetry == Permutations(RecordIds)
=============================================================================
