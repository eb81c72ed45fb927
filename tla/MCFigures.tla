------------------------------ MODULE MCFigures ------------------------------
(* A small instance of Figures: two students and their professor, who may be
   removed and added again, in any role: bob is that second membership. *)
EXTENDS Figures, TLC

CONSTANTS ana, bia, bob, prof, algebra, botany, s1, s2

Persons == [m \in Members |-> IF m = bob THEN prof ELSE m]
Roles0 == [m \in Members |->
             CASE m = prof -> "professor" [] m = bob -> "absent" [] OTHER -> "aluno"]
Classes0 == [c \in {algebra, botany} |-> IF c = algebra THEN "active" ELSE "absent"]
Students0 == {ana, bia}
Enrolled0 == Students0 \X {algebra}
TaughtByProf == [c \in {algebra, botany} |-> prof]
(* One lesson missed from here puts a student at the limit, 36 of 48, and two
   put him below it. *)
HeldSoFar == [c \in {algebra, botany} |-> IF c = algebra THEN 47 ELSE 0]
AttendedSoFar == [m \in Members |-> [c \in {algebra, botany} |->
                    IF m \in Students0 /\ c = algebra THEN 36 ELSE 0]]
Calls == Permutations({s1, s2})
Interchangeable == Permutations({ana, bia}) \union Calls
==============================================================================
