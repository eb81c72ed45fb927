-------------------------------- MODULE Orm --------------------------------
(***************************************************************************)
(* What Repository.save does with a domain entity: to_model copies every   *)
(* column of the entity, session.merge compares that copy with the row it  *)
(* re-reads, and flush emits an UPDATE of the columns that differ, WHERE   *)
(* id = :id and nothing else.  There is no version column and no status    *)
(* guard, so a column the use case never touched is written back too when  *)
(* a concurrent transaction changed it between the two reads.              *)
(*                                                                         *)
(* A row and an entity are records over the same columns.                  *)
(***************************************************************************)

(* The columns merge marks as changed: entity against the re-read row. *)
Dirty(entity, row) == {c \in DOMAIN row : entity[c] # row[c]}

(* The row after UPDATE ... SET cols: the other columns keep whatever the   *)
(* latest committed version holds (READ COMMITTED re-reads it under lock).  *)
Overwrite(row, entity, cols) ==
    [c \in DOMAIN row |-> IF c \in cols THEN entity[c] ELSE row[c]]

=============================================================================
