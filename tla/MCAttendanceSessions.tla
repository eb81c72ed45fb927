------------------------ MODULE MCAttendanceSessions ------------------------
(* Small instances of AttendanceSessions: one class, ids that differ
   only by name. *)
EXTENDS AttendanceSessions, TLC

CONSTANTS s1, s2, c1, r1, r2, t1

OneClass == {c1}
TwoSessions == {s1, s2}
AllInOneClass == [s \in Sessions |-> c1]

Interchangeable == Permutations(Sessions) \union Permutations(Requests)

=============================================================================
