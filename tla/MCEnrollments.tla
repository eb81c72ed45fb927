--------------------------- MODULE MCEnrollments ---------------------------
(* Small instances of Enrollments: one class, and one student besides the
   administrators, who may be given a second membership. *)
EXTENDS Enrollments, TLC

CONSTANTS e1, e2, a1, a2, s1, t1, c1, boss, deputy, student, r1, r2

OneClass == [e \in EnrollmentIds |-> c1]
OneStudent == [e \in EnrollmentIds |-> s1]
Persons == [m \in MemberIds |->
              CASE m = a1 -> boss [] m = a2 -> deputy [] OTHER -> student]

Interchangeable == Permutations(EnrollmentIds) \union Permutations(Requests)

=============================================================================
