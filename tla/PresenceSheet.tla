--------------------------- MODULE PresenceSheet ---------------------------
(***************************************************************************)
(* What the attendance module promises about the sheet of a roll call: one *)
(* mark per student, put there once, never taken away; a regular mark is   *)
(* final, and only a flagged one is ever decided by a reviewer.  A decided *)
(* mark may be decided again: the code refuses regular ones only.          *)
(***************************************************************************)

CONSTANTS Calls, Members

VARIABLE sheet      \* sheet[c][m]: the mark of student m in call c

Decisions == {"approved", "rejected"}
Reviewable == {"irregular"} \union Decisions
Marks == {"absent", "regular"} \union Reviewable

SheetInit == sheet = [c \in Calls |-> [m \in Members |-> "absent"]]

Mark(c, m) ==
    /\ sheet[c][m] = "absent"
    /\ \E mark \in {"regular", "irregular"} : sheet' = [sheet EXCEPT ![c][m] = mark]

Decide(c, m) ==
    /\ sheet[c][m] \in Reviewable
    /\ \E mark \in Decisions : sheet' = [sheet EXCEPT ![c][m] = mark]

SheetNext == \E c \in Calls, m \in Members : Mark(c, m) \/ Decide(c, m)

SheetSpec == SheetInit /\ [][SheetNext]_sheet

=============================================================================
