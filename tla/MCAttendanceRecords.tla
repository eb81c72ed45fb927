------------------------ MODULE MCAttendanceRecords ------------------------
(* Small instances of AttendanceRecords: one call, students and devices that
   differ only by name. *)
EXTENDS AttendanceRecords, TLC

Interchangeable ==
    Permutations(RecordIds) \union Permutations(Requests) \union Permutations(Members)
        \union Permutations(Reviewers)

=============================================================================
