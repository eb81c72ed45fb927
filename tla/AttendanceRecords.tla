------------------------- MODULE AttendanceRecords -------------------------
(***************************************************************************)
(* Presence records: students confirm, professors review.                  *)
(*                                                                         *)
(* Each request is one READ COMMITTED transaction.  A confirmation reads   *)
(* everything it decides on in one query (find_confirmation_context),      *)
(* compares the deadline with the time it is then, and inserts; the only   *)
(* thing the database enforces is UNIQUE (session_id, tenant_member_id).   *)
(* A review reads the record, decides, and saves it through merge (Orm).   *)
(* The calls themselves are the environment, and move as RollCall lets     *)
(* them: AttendanceSessions implements it.                                 *)
(*                                                                         *)
(* A request that is refused on what its first query returned (membership, *)
(* enrollment, day code, room, permission, missing record) changes nothing *)
(* and is one that never starts here.                                      *)
(***************************************************************************)
EXTENDS RollCall, Orm

CONSTANTS Members,      \* tenant members who attend
          Devices,      \* device_id values
          Reviewers,    \* professors and admins
          RecordIds,    \* the ids uuid4() hands out
          Requests,     \* requests the API serves at the same time
          None,         \* SQL NULL, and the owner of a row that is not locked
          NearWindow,   \* the 30 seconds of confirmed_near_expiry, in ticks
          MaxNow        \* bound: the last tick

ASSUME NoneAssumption ==
    None \notin Calls \union Members \union Devices \union Reviewers
                \union RecordIds \union Requests
ASSUME WindowAssumption == NearWindow \in Nat /\ MaxNow \in Nat

VARIABLES records,      \* attendance_records, committed
          lock,         \* lock[i]: the request whose UPDATE holds record i
          req           \* req[r]: where request r is, and what it holds

recordVars == <<records, lock, req>>
vars == <<phase, deadline, now, records, lock, req>>

-----------------------------------------------------------------------------
(* Types and null records *)

Decisions == {"approved", "rejected"}

(* client: low_gps_accuracy, non_mobile_client and outside_radius, which
   depend only on what the client sent. *)
Flags == {"client", "confirmed_near_expiry", "shared_device"}

(* A note is known by who wrote it and for which decision. *)
NoteTexts == Reviewers \X Decisions

Record == [call : Calls \union {None},
           member : Members \union {None},
           device : Devices \union {None},
           at : Nat,
           flags : SUBSET Flags,
           status : {"absent", "regular", "irregular"} \union Decisions,
           reviewer : Reviewers \union {None},
           note : NoteTexts \union {None}]

Columns == {"call", "member", "device", "at", "flags", "status", "reviewer", "note"}

AbsentRecord == [call |-> None, member |-> None, device |-> None, at |-> 0,
                 flags |-> {}, status |-> "absent", reviewer |-> None, note |-> None]

Request == [step : {"idle", "looked", "checked", "found", "merged", "written"},
            rid : RecordIds \union {None},
            entity : Record,
            cols : SUBSET Columns]

IdleRequest == [step |-> "idle", rid |-> None, entity |-> AbsentRecord, cols |-> {}]

TypeOK ==
    /\ phase \in [Calls -> Phases]
    /\ deadline \in [Calls -> Deadlines \union {0}]
    /\ now \in 0..MaxNow
    /\ records \in [RecordIds -> Record]
    /\ lock \in [RecordIds -> Requests \union {None}]
    /\ req \in [Requests -> Request]

Init ==
    /\ RollCallInit
    /\ records = [i \in RecordIds |-> AbsentRecord]
    /\ lock = [i \in RecordIds |-> None]
    /\ req = [r \in Requests |-> IdleRequest]

-----------------------------------------------------------------------------
(* Confirming a presence *)

Exists(i) == records[i].status # "absent"
For(row, c, m) == row.call = c /\ row.member = m

(* existing_record_sub and shared_device_sub of the context query. *)
AlreadyConfirmed(c, m) == \E i \in RecordIds : For(records[i], c, m)

(* Faulty variant: the members are compared the wrong way round. *)
SharedDeviceOfSame(c, m, d) ==
    /\ d # None
    /\ \E i \in RecordIds :
         records[i].call = c /\ records[i].device = d /\ records[i].member = m

SharedDevice(c, m, d) ==
    /\ d # None
    /\ \E i \in RecordIds :
         records[i].call = c /\ records[i].device = d /\ records[i].member # m

FreshId(i) == ~Exists(i) /\ \A r \in Requests : req[r].rid # i

(* The context query and the refusals that depend on nothing else. *)
ConfirmLookup(r, i, c, m, d, suspect) ==
    /\ req[r].step = "idle"
    /\ FreshId(i)
    /\ phase[c] = "open"
    /\ ~AlreadyConfirmed(c, m)
    /\ req' = [req EXCEPT ![r] =
         [step |-> "looked",
          rid |-> i,
          entity |-> [call |-> c, member |-> m, device |-> d, at |-> 0,
                      flags |-> suspect \union (IF SharedDevice(c, m, d)
                                                THEN {"shared_device"} ELSE {}),
                      status |-> "absent", reviewer |-> None, note |-> None],
          cols |-> {}]]
    /\ UNCHANGED <<phase, deadline, now, records, lock>>

(* The deadline never moves, so comparing it with the time of the check is
   comparing the one the query returned. *)
Late(c) == now >= deadline[c]

ConfirmLate(r) ==
    /\ req[r].step = "looked"
    /\ Late(req[r].entity.call)
    /\ req' = [req EXCEPT ![r] = IdleRequest]
    /\ UNCHANGED <<phase, deadline, now, records, lock>>

NearExpiryOrAt(c) == deadline[c] - now <= NearWindow      \* Faulty variant.
NearExpiry(c) == deadline[c] - now < NearWindow

(* Faulty variant: a status the enum does not have. *)
StatusForFlagged(flags) == IF flags = {} THEN "regular" ELSE "flagged"

StatusFor(flags) == IF flags = {} THEN "regular" ELSE "irregular"

(* The record to insert, with every column set.  The check of the deadline and
   the default of confirmed_at read the clock one after the other without an
   await between them: both are one instant here. *)
Confirmed(row, flags) ==
    [row EXCEPT !.flags = flags, !.at = now, !.status = StatusFor(flags)]

ConfirmCheck(r) ==
    /\ req[r].step = "looked"
    /\ ~Late(req[r].entity.call)
    /\ LET near == IF NearExpiry(req[r].entity.call)
                   THEN {"confirmed_near_expiry"} ELSE {}
           new == Confirmed(req[r].entity, req[r].entity.flags \union near)
       IN req' = [req EXCEPT ![r] =
                    [step |-> "checked", rid |-> req[r].rid,
                     entity |-> new, cols |-> Columns]]
    /\ UNCHANGED <<phase, deadline, now, records, lock>>

(* The unique index: a committed row with the same key is an IntegrityError,
   one that another transaction has inserted and not committed is waited for. *)
KeyNeverTaken(r) == FALSE               \* Faulty variant: no such index.
KeyTaken(r) == AlreadyConfirmed(req[r].entity.call, req[r].entity.member)
KeyPending(r) ==
    \E q \in Requests \ {r} :
        /\ req[q].step = "written"
        /\ For(req[q].entity, req[r].entity.call, req[r].entity.member)
        /\ ~Exists(req[q].rid)

ConfirmInsert(r) ==
    /\ req[r].step = "checked"
    /\ ~KeyTaken(r) /\ ~KeyPending(r)
    /\ req' = [req EXCEPT ![r].step = "written"]
    /\ UNCHANGED <<phase, deadline, now, records, lock>>

ConfirmDuplicate(r) ==
    /\ req[r].step = "checked"
    /\ KeyTaken(r)
    /\ req' = [req EXCEPT ![r] = IdleRequest]
    /\ UNCHANGED <<phase, deadline, now, records, lock>>

-----------------------------------------------------------------------------
(* Reviewing a record *)

ReviewFind(r, i) ==
    /\ req[r].step = "idle"
    /\ Exists(i)
    /\ req' = [req EXCEPT ![r] =
         [step |-> "found", rid |-> i, entity |-> records[i], cols |-> {}]]
    /\ UNCHANGED <<phase, deadline, now, records, lock>>

AlwaysReviewable(row) == FALSE          \* Faulty variant.
NotReviewable(row) == row.status = "regular"

ReviewRefused(r) ==
    /\ req[r].step = "found"
    /\ NotReviewable(req[r].entity)
    /\ req' = [req EXCEPT ![r] = IdleRequest]
    /\ UNCHANGED <<phase, deadline, now, records, lock>>

(* Faulty variants: the decision settles the flags; a note that was not sent
   leaves the old one. *)
ReviewedUnflagged(row, decision, reviewer, note) ==
    [row EXCEPT !.status = decision, !.reviewer = reviewer, !.note = note, !.flags = {}]
ReviewedKeepingNote(row, decision, reviewer, note) ==
    [row EXCEPT !.status = decision, !.reviewer = reviewer,
                !.note = IF note = None THEN @ ELSE note]

(* approve and reject: the note is set whether one was sent or not. *)
Reviewed(row, decision, reviewer, note) ==
    [row EXCEPT !.status = decision, !.reviewer = reviewer, !.note = note]

(* save: merge with the row as committed now. *)
ReviewMerge(r, decision, reviewer, note) ==
    /\ req[r].step = "found"
    /\ ~NotReviewable(req[r].entity)
    /\ LET new == Reviewed(req[r].entity, decision, reviewer, note)
       IN req' = [req EXCEPT ![r] =
                    [step |-> "merged", rid |-> req[r].rid,
                     entity |-> new, cols |-> Dirty(new, records[req[r].rid])]]
    /\ UNCHANGED <<phase, deadline, now, records, lock>>

(* flush: the UPDATE waits while another transaction holds the row. *)
ReviewUpdate(r) ==
    /\ req[r].step = "merged"
    /\ lock[req[r].rid] = None
    /\ lock' = [lock EXCEPT ![req[r].rid] = r]
    /\ req' = [req EXCEPT ![r].step = "written"]
    /\ UNCHANGED <<phase, deadline, now, records>>

-----------------------------------------------------------------------------
(* The end of a request *)

NoRelease(r) == lock                    \* Faulty variant.
Release(r) == [i \in RecordIds |-> IF lock[i] = r THEN None ELSE lock[i]]

Commit(r) ==
    /\ req[r].step = "written"
    /\ records' = [records EXCEPT ![req[r].rid] = Overwrite(@, req[r].entity, req[r].cols)]
    /\ lock' = Release(r)
    /\ req' = [req EXCEPT ![r] = IdleRequest]
    /\ UNCHANGED <<phase, deadline, now>>

(* An exception, a lost connection or a killed process: rollback. *)
Abort(r) ==
    /\ req[r].step # "idle"
    /\ lock' = Release(r)
    /\ req' = [req EXCEPT ![r] = IdleRequest]
    /\ UNCHANGED <<phase, deadline, now, records>>

-----------------------------------------------------------------------------
(* The calls and the clock: the environment *)

CallStarts(c) == Start(c) /\ deadline'[c] > now /\ UNCHANGED recordVars
CallEnds(c) == EndByHand(c) /\ UNCHANGED recordVars
CallsExpire(S) == Expire(S) /\ UNCHANGED recordVars
TimePasses == now < MaxNow /\ Tick /\ UNCHANGED recordVars

-----------------------------------------------------------------------------

Step(r) ==
    \/ ConfirmLate(r) \/ ConfirmCheck(r) \/ ConfirmInsert(r) \/ ConfirmDuplicate(r)
    \/ ReviewRefused(r) \/ ReviewUpdate(r) \/ Commit(r)
    \/ \E decision \in Decisions, reviewer \in Reviewers :
         \E note \in {None, <<reviewer, decision>>} :
           ReviewMerge(r, decision, reviewer, note)

RequestNext(r) ==
    \/ \E i \in RecordIds, c \in Calls, m \in Members, d \in Devices \union {None} :
         \E suspect \in SUBSET {"client"} : ConfirmLookup(r, i, c, m, d, suspect)
    \/ \E i \in RecordIds : ReviewFind(r, i)
    \/ Step(r)
    \/ Abort(r)

CallsNext ==
    \/ \E c \in Calls : CallStarts(c) \/ CallEnds(c)
    \/ \E S \in SUBSET Calls : CallsExpire(S)
    \/ TimePasses

Next == CallsNext \/ \E r \in Requests : RequestNext(r)

Spec == Init /\ [][Next]_vars

(* A request that was started runs to its end; PostgreSQL serves the waiters
   of a row or a key in order.  Nothing makes a client send a request. *)
Fairness ==
    \A r \in Requests :
        WF_vars(Step(r)) /\ SF_vars(ReviewUpdate(r)) /\ SF_vars(ConfirmInsert(r))

FairSpec == Spec /\ Fairness

-----------------------------------------------------------------------------
(* Properties *)

(* A student has one record per call, however many confirmations of theirs
   passed the already_confirmed check at the same time. *)
OneRecordPerMember ==
    \A i, j \in RecordIds :
        /\ Exists(i) /\ Exists(j)
        /\ records[i].call = records[j].call /\ records[i].member = records[j].member
        => i = j

(* A flagged record never reads as regular and an unflagged one is never
   put to review: the two sides of the audit stay apart whatever reviews
   are decided on rows read earlier. *)
RegularIffUnflagged ==
    \A i \in RecordIds :
        Exists(i) => (records[i].status = "regular" <=> records[i].flags = {})

(* A record that was committed stays, with the evidence it was created with:
   save() writes whole entities back, yet no review changes who confirmed,
   when, from which device, or the flags raised. *)
EvidenceStands ==
    [][\A i \in RecordIds : Exists(i) =>
         \A c \in Columns \ {"status", "reviewer", "note"} :
           records'[i][c] = records[i][c]]_vars

(* A record is one whose deadline check came in time, and one checked in the
   last seconds, and no other, carries the flag, however late its transaction
   committed. *)
ConfirmedInTime ==
    \A i \in RecordIds : Exists(i) =>
        /\ records[i].at < deadline[records[i].call]
        /\ deadline[records[i].call] - records[i].at < NearWindow
           <=> "confirmed_near_expiry" \in records[i].flags

(* Of two students who used one device in a call, one at least is flagged.
   Holds when confirmations come one at a time. *)
SharedDeviceIsFlagged ==
    \A i, j \in RecordIds :
        /\ Exists(i) /\ Exists(j) /\ i # j
        /\ records[i].call = records[j].call
        /\ records[i].device = records[j].device /\ records[i].device # None
        => "shared_device" \in records[i].flags \union records[j].flags

(* The note beside a decision was written by the reviewer it names, for the
   decision it shows.  Holds when reviews come one at a time. *)
NoteMatchesDecision ==
    \A i \in RecordIds :
        records[i].note # None => records[i].note = <<records[i].reviewer, records[i].status>>

(* Every request is answered: nobody waits for a row or a key for ever. *)
Answered == \A r \in Requests : req[r].step # "idle" ~> req[r].step = "idle"

(* The committed records behave as the abstract sheet does. *)
MarkOf(c, m) ==
    IF AlreadyConfirmed(c, m)
    THEN records[CHOOSE i \in RecordIds : For(records[i], c, m)].status
    ELSE "absent"

PS == INSTANCE PresenceSheet WITH
        sheet <- [c \in Calls |-> [m \in Members |-> MarkOf(c, m)]]

PresenceSheetRefined == PS!SheetSpec

=============================================================================
