----------------------- MODULE AttendanceRecordsProofs -----------------------
(***************************************************************************)
(* Proofs about AttendanceRecords for any number of calls, students,       *)
(* devices, reviewers and concurrent requests.                             *)
(*                                                                         *)
(* A committed record is only as good as the transaction that wrote it, so *)
(* the inductive invariant, IInv, says of every request in flight what its *)
(* entity will be worth when it commits: a confirmation holds a record     *)
(* that is sound and, once inserted, alone on its key; a review holds the  *)
(* evidence of the row it will update.                                     *)
(***************************************************************************)
EXTENDS AttendanceRecords, TLAPS

Evidence == Columns \ {"status", "reviewer", "note"}

(* What is true of a record from its insertion on. *)
Sound(row) ==
    /\ row.call \in Calls /\ row.member \in Members
    /\ phase[row.call] # "absent"
    /\ row.at < deadline[row.call]
    /\ deadline[row.call] - row.at < NearWindow <=> "confirmed_near_expiry" \in row.flags
    /\ row.status # "absent"
    /\ row.status = "regular" <=> row.flags = {}

(* A confirmation: its id is not committed. *)
ConfirmOK(q) ==
    /\ q.step \in {"looked", "checked", "written"}
    /\ q.entity.call \in Calls /\ q.entity.member \in Members
    /\ phase[q.entity.call] # "absent"
    /\ q.step = "looked" => "confirmed_near_expiry" \notin q.entity.flags
    /\ q.step # "looked" =>
         /\ Sound(q.entity) /\ q.cols = Columns
         /\ q.entity.status \in {"regular", "irregular"}
    /\ q.step = "written" => ~AlreadyConfirmed(q.entity.call, q.entity.member)

(* A review: its record is committed. *)
ReviewOK(q) ==
    /\ q.step \in {"found", "merged", "written"}
    /\ \A c \in Evidence : q.entity[c] = records[q.rid][c]
    /\ q.entity.status # "absent"
    /\ q.entity.status = "regular" <=> q.entity.flags = {}
    /\ q.step # "found" => q.entity.status \in Decisions

RequestOK(q) ==
    \/ q = IdleRequest
    \/ q.rid \in RecordIds /\ ~Exists(q.rid) /\ ConfirmOK(q)
    \/ q.rid \in RecordIds /\ Exists(q.rid) /\ ReviewOK(q)

(* Two confirmations share no id, and once inserted no key. *)
Apart(p, q) ==
    /\ p.step # "idle" /\ p.rid = q.rid => Exists(p.rid)
    /\ /\ p.step = "written" /\ ~Exists(p.rid)
       /\ q.step = "written" /\ ~Exists(q.rid)
       => ~For(p.entity, q.entity.call, q.entity.member)

RecordOK(i) == IF Exists(i) THEN Sound(records[i]) ELSE records[i] = AbsentRecord

IInv ==
    /\ TypeOK
    /\ \A i \in RecordIds : RecordOK(i)
    /\ OneRecordPerMember
    /\ \A r \in Requests : RequestOK(req[r])
    /\ \A r, s \in Requests : r # s => Apart(req[r], req[s])

-----------------------------------------------------------------------------
(* Lemmas on the rows themselves *)

(* What a commit leaves in a row: the columns it names, and no others. *)
LEMMA OverwriteIsRecord ==
    ASSUME NEW row \in Record, NEW entity \in Record, NEW cols
    PROVE  /\ Overwrite(row, entity, cols) \in Record
           /\ \A c \in Columns :
                Overwrite(row, entity, cols)[c] = IF c \in cols THEN entity[c] ELSE row[c]
<1> DEFINE new == Overwrite(row, entity, cols)
<1>1. DOMAIN row = Columns
  BY DEF Record, Columns
<1>2. new = [c \in Columns |-> IF c \in cols THEN entity[c] ELSE row[c]]
  BY <1>1 DEF Overwrite
<1>3. /\ new.call \in Calls \union {None} /\ new.member \in Members \union {None}
      /\ new.device \in Devices \union {None} /\ new.at \in Nat
  BY <1>2 DEF Record, Columns
<1>4. /\ new.flags \in SUBSET Flags
      /\ new.status \in {"absent", "regular", "irregular"} \union Decisions
  BY <1>2 DEF Record, Columns
<1>5. /\ new.reviewer \in Reviewers \union {None}
      /\ new.note \in NoteTexts \union {None}
  BY <1>2 DEF Record, Columns
<1>6. new = [call |-> new.call, member |-> new.member, device |-> new.device,
             at |-> new.at, flags |-> new.flags, status |-> new.status,
             reviewer |-> new.reviewer, note |-> new.note]
  BY <1>2 DEF Columns
<1> QED
  BY <1>2, <1>3, <1>4, <1>5, <1>6 DEF Record

LEMMA WholeOverwrite ==
    ASSUME NEW row \in Record, NEW entity \in Record
    PROVE  Overwrite(row, entity, Columns) = entity
<1>1. DOMAIN row = Columns /\ DOMAIN entity = Columns
  BY DEF Record, Columns
<1>2. entity = [c \in Columns |-> entity[c]]
  BY <1>1 DEF Record
<1> QED
  BY <1>1, <1>2 DEF Overwrite

LEMMA NullsAreTyped == AbsentRecord \in Record /\ IdleRequest \in Request
BY DEF AbsentRecord, IdleRequest, Record, Request, Columns

LEMMA TimesAreNatural ==
    ASSUME IInv, NEW c \in Calls
    PROVE  deadline[c] \in Nat /\ now \in Nat
<1>1. deadline \in [Calls -> Deadlines \union {0}] /\ now \in 0..MaxNow
  BY DEF IInv, TypeOK
<1>2. deadline[c] \in Deadlines \union {0}
  BY <1>1
<1>3. deadline[c] \in Nat
  <2>1. CASE deadline[c] \in Deadlines
    BY <2>1, DeadlinesAssumption, Zenon DEF DeadlinesAssumption
  <2>2. CASE deadline[c] = 0
    BY <2>2
  <2> QED
    BY <1>2, <2>1, <2>2
<1>4. now \in Nat
  BY <1>1, WindowAssumption
<1> QED
  BY <1>3, <1>4

(* Nothing matches a row that is not there. *)
LEMMA AlreadyConfirmedExists ==
    ASSUME IInv, NEW c \in Calls, NEW m \in Members, NEW i \in RecordIds,
           For(records[i], c, m)
    PROVE  Exists(i)
BY NoneAssumption DEF IInv, RecordOK, AbsentRecord, For

-----------------------------------------------------------------------------
(* Lemmas on steps *)

LEMMA InitEstablishes == ASSUME Init PROVE IInv
<1>1. TypeOK
  BY NullsAreTyped, WindowAssumption DEF Init, RollCallInit, TypeOK, Phases
<1>2. \A i \in RecordIds : ~Exists(i) /\ RecordOK(i)
  BY DEF Init, RecordOK, Exists, AbsentRecord
<1>3. \A r \in Requests : req[r] = IdleRequest
  BY DEF Init
<1>4. \A r, s \in Requests : Apart(req[r], req[s])
  BY <1>3 DEF Apart, IdleRequest
<1> QED
  BY <1>1, <1>2, <1>3, <1>4 DEF IInv, OneRecordPerMember, RequestOK

(* The environment starts calls and never moves a deadline that was set. *)
CallsMoved ==
    /\ UNCHANGED recordVars
    /\ phase' \in [Calls -> Phases] /\ now' \in 0..MaxNow
    /\ deadline' \in [Calls -> Deadlines \union {0}]
    /\ \A c \in Calls : phase[c] # "absent" =>
         phase'[c] # "absent" /\ deadline'[c] = deadline[c]

LEMMA CallsOnlyStart ==
    ASSUME IInv, CallsNext
    PROVE  CallsMoved
<1> USE DEF CallsMoved, IInv, TypeOK
<1>1. ASSUME NEW c \in Calls, CallStarts(c) PROVE CallsMoved
  BY <1>1 DEF CallStarts, Start, Phases
<1>2. ASSUME NEW c \in Calls, CallEnds(c) PROVE CallsMoved
  BY <1>2 DEF CallEnds, EndByHand, Phases, Ended
<1>3. ASSUME NEW S \in SUBSET Calls, CallsExpire(S) PROVE CallsMoved
  BY <1>3 DEF CallsExpire, Expire, Phases, Ended
<1>4. ASSUME TimePasses PROVE CallsMoved
  BY <1>4, WindowAssumption DEF TimePasses, Tick
<1> QED
  BY <1>1, <1>2, <1>3, <1>4 DEF CallsNext

(* One request moves and the committed records stay. *)
LEMMA OneRequestMoves ==
    ASSUME IInv, NEW r \in Requests, NEW q \in Request,
           req' = [req EXCEPT ![r] = q],
           UNCHANGED <<phase, deadline, now, records>>,
           lock' \in [RecordIds -> Requests \union {None}],
           RequestOK(q),
           \A s \in Requests \ {r} : Apart(q, req[s]) /\ Apart(req[s], q)
    PROVE  IInv'
<1>1. \A s \in Requests : req'[s] = IF s = r THEN q ELSE req[s]
  BY DEF IInv, TypeOK
<1>2. TypeOK'
  BY DEF IInv, TypeOK
<1>3. (\A i \in RecordIds : RecordOK(i))' /\ OneRecordPerMember'
  BY DEF IInv, RecordOK, Exists, Sound, OneRecordPerMember
<1>4. ASSUME NEW s \in Requests PROVE RequestOK(req[s])'
  <2>1. RequestOK(req'[s])
    BY <1>1 DEF IInv
  <2> QED
    BY <2>1 DEF RequestOK, ConfirmOK, ReviewOK, Exists, Sound, AlreadyConfirmed, For
<1>5. ASSUME NEW s \in Requests, NEW u \in Requests, s # u
      PROVE  Apart(req[s], req[u])'
  <2>1. Apart(req'[s], req'[u])
    BY <1>1, <1>5 DEF IInv
  <2> QED
    BY <2>1 DEF Apart, Exists, For
<1> QED
  BY <1>2, <1>3, <1>4, <1>5 DEF IInv

(* A request that ends without a commit. *)
LEMMA ForgettingIsHarmless ==
    ASSUME IInv, NEW r \in Requests, req' = [req EXCEPT ![r] = IdleRequest],
           UNCHANGED <<phase, deadline, now, records>>,
           lock' = lock \/ lock' = Release(r)
    PROVE  IInv'
<1>1. lock' \in [RecordIds -> Requests \union {None}]
  BY DEF IInv, TypeOK, Release
<1>2. IdleRequest.rid \notin RecordIds /\ IdleRequest.step = "idle"
  BY NoneAssumption DEF IdleRequest
<1>3. \A s \in Requests : req[s].rid = IdleRequest.rid => req[s].step = "idle"
  BY <1>2 DEF IInv, RequestOK
<1>4. \A s \in Requests : Apart(IdleRequest, req[s]) /\ Apart(req[s], IdleRequest)
  BY <1>2, <1>3 DEF Apart
<1> QED
  BY <1>1, <1>4, NullsAreTyped, OneRequestMoves DEF RequestOK

LEMMA CallsPreserve == ASSUME IInv, CallsNext PROVE IInv'
<1>1. CallsMoved
  BY CallsOnlyStart
<1>2. TypeOK'
  BY <1>1 DEF IInv, TypeOK, CallsMoved, recordVars
<1>3. \A c \in Calls : phase[c] # "absent" =>
        phase'[c] # "absent" /\ deadline'[c] = deadline[c]
  BY <1>1 DEF CallsMoved
<1>4. records' = records /\ req' = req
  BY <1>1 DEF CallsMoved, recordVars
<1>5. ASSUME NEW i \in RecordIds PROVE RecordOK(i)'
  <2>1. RecordOK(i)
    BY DEF IInv
  <2> QED
    BY <2>1, <1>3, <1>4 DEF RecordOK, Exists, Sound
<1>6. ASSUME NEW r \in Requests PROVE RequestOK(req[r])'
  <2>1. RequestOK(req[r])
    BY DEF IInv
  <2> QED
    BY <2>1, <1>3, <1>4 DEF RequestOK, ConfirmOK, ReviewOK, Exists, Sound, AlreadyConfirmed, For
<1>7. ASSUME NEW r \in Requests, NEW s \in Requests, r # s
      PROVE  Apart(req[r], req[s])'
  <2>1. Apart(req[r], req[s])
    BY <1>7 DEF IInv
  <2> QED
    BY <2>1, <1>4 DEF Apart, Exists, For
<1>8. OneRecordPerMember'
  BY <1>4 DEF IInv, OneRecordPerMember, Exists
<1> QED
  BY <1>2, <1>5, <1>6, <1>7, <1>8 DEF IInv

LEMMA LookupPreserves ==
    ASSUME IInv, NEW r \in Requests, NEW i \in RecordIds, NEW c \in Calls,
           NEW m \in Members, NEW d \in Devices \union {None},
           NEW suspect \in SUBSET {"client"}, ConfirmLookup(r, i, c, m, d, suspect)
    PROVE  IInv'
<1> DEFINE flags == suspect \union (IF SharedDevice(c, m, d) THEN {"shared_device"} ELSE {})
           row == [call |-> c, member |-> m, device |-> d, at |-> 0, flags |-> flags,
                   status |-> "absent", reviewer |-> None, note |-> None]
           q == [step |-> "looked", rid |-> i, entity |-> row, cols |-> {}]
<1>1. req' = [req EXCEPT ![r] = q] /\ UNCHANGED <<phase, deadline, now, records, lock>>
  BY DEF ConfirmLookup
<1>2. flags \in SUBSET Flags
  BY DEF Flags
<1>3. row \in Record
  BY <1>2 DEF Record
<1>4. q \in Request /\ q.rid = i /\ q.step = "looked" /\ q.entity = row
  BY <1>3 DEF Request
<1>5. row.call = c /\ row.member = m /\ "confirmed_near_expiry" \notin row.flags
  OBVIOUS
<1>6. ~Exists(i) /\ (\A s \in Requests : req[s].rid # i) /\ phase[c] # "absent"
  BY DEF ConfirmLookup, FreshId
<1> HIDE DEF q, row, flags
<1>7. RequestOK(q)
  BY <1>4, <1>5, <1>6 DEF RequestOK, ConfirmOK
<1>8. \A s \in Requests : Apart(q, req[s]) /\ Apart(req[s], q)
  BY <1>4, <1>6 DEF Apart
<1> QED
  BY <1>1, <1>4, <1>7, <1>8, OneRequestMoves DEF IInv, TypeOK

(* What the check writes into the entity makes it sound. *)
LEMMA CheckPreserves ==
    ASSUME IInv, NEW r \in Requests, ConfirmCheck(r) PROVE IInv'
<1> DEFINE row == req[r].entity
           near == IF NearExpiry(row.call) THEN {"confirmed_near_expiry"} ELSE {}
           new == Confirmed(row, row.flags \union near)
           q == [step |-> "checked", rid |-> req[r].rid, entity |-> new, cols |-> Columns]
<1>1. req' = [req EXCEPT ![r] = q] /\ UNCHANGED <<phase, deadline, now, records, lock>>
  BY DEF ConfirmCheck
<1>2. req[r].step = "looked" /\ ~Late(row.call) /\ row \in Record
  BY DEF ConfirmCheck, IInv, TypeOK, Request
<1>3. req[r].rid \in RecordIds /\ ~Exists(req[r].rid) /\ ConfirmOK(req[r])
  BY <1>2 DEF IInv, RequestOK, ReviewOK, IdleRequest
<1>4. /\ new \in Record /\ new.call = row.call /\ new.member = row.member
      /\ new.at = now /\ new.flags = row.flags \union near
      /\ new.status = StatusFor(row.flags \union near)
  <2>1. row.flags \union near \in SUBSET Flags
    BY <1>2 DEF Record, Flags
  <2>2. StatusFor(row.flags \union near) \in {"regular", "irregular"} /\ now \in Nat
    BY WindowAssumption DEF StatusFor, IInv, TypeOK
  <2> HIDE DEF near, row
  <2> QED
    BY <1>2, <2>1, <2>2 DEF Confirmed, Record
<1>5. row.call \in Calls /\ row.member \in Members /\ phase[row.call] # "absent"
  BY <1>3 DEF ConfirmOK
<1>6. now < deadline[row.call]
  <2>1. deadline[row.call] \in Nat /\ now \in Nat
    BY <1>5, TimesAreNatural
  <2>2. ~(now >= deadline[row.call])
    BY <1>2 DEF Late
  <2> QED
    BY <2>1, <2>2
<1>7. Sound(new)
  <2>1. deadline[new.call] - new.at < NearWindow <=> "confirmed_near_expiry" \in new.flags
    <3>1. "confirmed_near_expiry" \in near <=> deadline[row.call] - now < NearWindow
      BY DEF NearExpiry
    <3>2. "confirmed_near_expiry" \notin row.flags
      BY <1>2, <1>3 DEF ConfirmOK
    <3> HIDE DEF new, near, row
    <3> QED
      BY <1>4, <3>1, <3>2
  <2> HIDE DEF new, near, row
  <2> QED
    BY <1>4, <1>5, <1>6, <2>1 DEF Sound, StatusFor
<1>8. q \in Request /\ q.step = "checked" /\ q.rid = req[r].rid /\ q.entity = new
      /\ q.cols = Columns
  BY <1>3, <1>4 DEF Request
<1>9. new.status \in {"regular", "irregular"}
  <2> HIDE DEF new, near, row
  <2> QED
    BY <1>4 DEF StatusFor
<1> HIDE DEF q, new
<1>10. RequestOK(q)
  BY <1>3, <1>4, <1>5, <1>7, <1>8, <1>9 DEF RequestOK, ConfirmOK
<1>11. \A s \in Requests \ {r} : Apart(q, req[s]) /\ Apart(req[s], q)
  BY <1>2, <1>8 DEF IInv, Apart
<1> QED
  BY <1>1, <1>8, <1>10, <1>11, OneRequestMoves DEF IInv, TypeOK

(* A request whose step is all that changes. *)
LEMMA StepOnly ==
    ASSUME IInv, NEW r \in Requests, req' = [req EXCEPT ![r].step = "written"]
    PROVE  \E q \in Request :
             /\ req' = [req EXCEPT ![r] = q]
             /\ q.step = "written" /\ q.rid = req[r].rid
             /\ q.entity = req[r].entity /\ q.cols = req[r].cols
<1> DEFINE q == [step |-> "written", rid |-> req[r].rid,
                 entity |-> req[r].entity, cols |-> req[r].cols]
<1>1. req[r] \in Request
  BY DEF IInv, TypeOK
<1>2. [req[r] EXCEPT !.step = "written"] = q
  BY <1>1 DEF Request
<1>3. q \in Request
  BY <1>1 DEF Request
<1> QED
  BY <1>2, <1>3

LEMMA InsertPreserves ==
    ASSUME IInv, NEW r \in Requests, ConfirmInsert(r) PROVE IInv'
<1>1. req[r].step = "checked" /\ ~KeyTaken(r) /\ ~KeyPending(r)
  BY DEF ConfirmInsert
<1>2. req[r].rid \in RecordIds /\ ~Exists(req[r].rid) /\ ConfirmOK(req[r])
  BY <1>1 DEF IInv, RequestOK, ReviewOK, IdleRequest
<1>3. PICK q \in Request :
        /\ req' = [req EXCEPT ![r] = q]
        /\ q.step = "written" /\ q.rid = req[r].rid
        /\ q.entity = req[r].entity /\ q.cols = req[r].cols
  BY StepOnly DEF ConfirmInsert
<1>4. RequestOK(q)
  BY <1>1, <1>2, <1>3 DEF RequestOK, ConfirmOK, KeyTaken
<1>5. ASSUME NEW s \in Requests \ {r} PROVE Apart(q, req[s]) /\ Apart(req[s], q)
  <2>1. Apart(req[r], req[s]) /\ Apart(req[s], req[r])
    BY DEF IInv
  <2>2. req[s].step = "written" /\ ~Exists(req[s].rid) =>
          ~For(req[s].entity, q.entity.call, q.entity.member)
    BY <1>1, <1>3 DEF KeyPending
  <2> QED
    BY <1>1, <1>3, <2>1, <2>2 DEF Apart, For
<1> QED
  BY <1>3, <1>4, <1>5, OneRequestMoves DEF ConfirmInsert, IInv, TypeOK

LEMMA FindPreserves ==
    ASSUME IInv, NEW r \in Requests, NEW i \in RecordIds, ReviewFind(r, i) PROVE IInv'
<1> DEFINE q == [step |-> "found", rid |-> i, entity |-> records[i], cols |-> {}]
<1>1. req' = [req EXCEPT ![r] = q] /\ UNCHANGED <<phase, deadline, now, records, lock>>
  BY DEF ReviewFind
<1>2. Exists(i) /\ records[i] \in Record /\ RecordOK(i)
  BY DEF ReviewFind, IInv, TypeOK
<1>3. q \in Request /\ q.step = "found" /\ q.rid = i /\ q.entity = records[i]
  BY <1>2 DEF Request
<1> HIDE DEF q
<1>4. RequestOK(q)
  BY <1>2, <1>3 DEF RequestOK, ReviewOK, RecordOK, Sound
<1>5. \A s \in Requests : Apart(q, req[s]) /\ Apart(req[s], q)
  BY <1>2, <1>3 DEF Apart
<1> QED
  BY <1>1, <1>3, <1>4, <1>5, OneRequestMoves DEF IInv, TypeOK

(* Deciding leaves the evidence that was read; what was read is reviewable. *)
LEMMA MergePreserves ==
    ASSUME IInv, NEW r \in Requests, NEW decision \in Decisions,
           NEW reviewer \in Reviewers, NEW note \in {None, <<reviewer, decision>>},
           ReviewMerge(r, decision, reviewer, note)
    PROVE  IInv'
<1> DEFINE new == Reviewed(req[r].entity, decision, reviewer, note)
           cols == Dirty(new, records[req[r].rid])
           q == [step |-> "merged", rid |-> req[r].rid, entity |-> new, cols |-> cols]
<1>1. req' = [req EXCEPT ![r] = q] /\ UNCHANGED <<phase, deadline, now, records, lock>>
  BY DEF ReviewMerge
<1>2. req[r].step = "found" /\ req[r].entity \in Record /\ req[r].entity.status # "regular"
  BY DEF ReviewMerge, NotReviewable, IInv, TypeOK, Request
<1>3. req[r].rid \in RecordIds /\ Exists(req[r].rid) /\ ReviewOK(req[r])
  BY <1>2 DEF IInv, RequestOK, ConfirmOK, IdleRequest
<1>4. note \in NoteTexts \union {None}
  BY DEF NoteTexts
<1>5. new \in Record
  BY <1>2, <1>4 DEF Reviewed, Record
<1>6. new.status = decision /\ \A c \in Evidence : new[c] = req[r].entity[c]
  BY <1>2 DEF Reviewed, Record, Evidence, Columns
<1>7. cols \in SUBSET Columns
  BY <1>3 DEF Dirty, IInv, TypeOK, Record, Columns
<1> HIDE DEF new, cols
<1>8. q \in Request /\ q.step = "merged" /\ q.rid = req[r].rid /\ q.entity = new
  BY <1>3, <1>5, <1>7 DEF Request
<1> HIDE DEF q
<1>9. new.status # "regular" /\ new.status # "absent" /\ new.flags # {}
  BY <1>2, <1>3, <1>6 DEF Decisions, Evidence, Columns, ReviewOK
<1>10. RequestOK(q)
  BY <1>3, <1>6, <1>8, <1>9 DEF RequestOK, ReviewOK
<1>11. \A s \in Requests : Apart(q, req[s]) /\ Apart(req[s], q)
  BY <1>3, <1>8 DEF Apart
<1> QED
  BY <1>1, <1>8, <1>10, <1>11, OneRequestMoves DEF IInv, TypeOK

LEMMA UpdatePreserves ==
    ASSUME IInv, NEW r \in Requests, ReviewUpdate(r) PROVE IInv'
<1>1. req[r].step = "merged"
  BY DEF ReviewUpdate
<1>2. req[r].rid \in RecordIds /\ Exists(req[r].rid) /\ ReviewOK(req[r])
  BY <1>1 DEF IInv, RequestOK, ConfirmOK, IdleRequest
<1>3. PICK q \in Request :
        /\ req' = [req EXCEPT ![r] = q]
        /\ q.step = "written" /\ q.rid = req[r].rid
        /\ q.entity = req[r].entity /\ q.cols = req[r].cols
  BY StepOnly DEF ReviewUpdate
<1>4. RequestOK(q)
  BY <1>1, <1>2, <1>3 DEF RequestOK, ReviewOK
<1>5. \A s \in Requests : Apart(q, req[s]) /\ Apart(req[s], q)
  BY <1>2, <1>3 DEF Apart
<1>6. lock' \in [RecordIds -> Requests \union {None}]
  BY <1>2 DEF ReviewUpdate, IInv, TypeOK
<1> QED
  BY <1>3, <1>4, <1>5, <1>6, OneRequestMoves DEF ReviewUpdate

-----------------------------------------------------------------------------
(* The commit *)

(* A commit either adds the record a confirmation holds, alone on its key,
   or changes no evidence of the record a review holds. *)
Added(r, i) ==
    /\ ~Exists(i) /\ Sound(req[r].entity)
    /\ req[r].entity.status \in {"regular", "irregular"}
    /\ records' = [records EXCEPT ![i] = req[r].entity]
    /\ ~AlreadyConfirmed(req[r].entity.call, req[r].entity.member)

Decided(i, row) ==
    /\ Exists(i) /\ row \in Record
    /\ records' = [records EXCEPT ![i] = row]
    /\ row.status \in Decisions \union {records[i].status}
    /\ row.flags # {} /\ row.status # "regular" /\ records[i].status # "regular"
    /\ \A c \in Evidence : row[c] = records[i][c]

LEMMA CommitAddsOrDecides ==
    ASSUME IInv, NEW r \in Requests, Commit(r)
    PROVE  \E i \in RecordIds :
             /\ i = req[r].rid
             /\ Added(r, i) \/ \E row \in Record : Decided(i, row)
<1> DEFINE i == req[r].rid
           row == Overwrite(records[i], req[r].entity, req[r].cols)
<1>1. req[r].step = "written" /\ req[r].entity \in Record
  BY DEF Commit, IInv, TypeOK, Request
<1>2. i \in RecordIds /\ RequestOK(req[r])
  BY <1>1 DEF IInv, RequestOK, IdleRequest
<1>3. records[i] \in Record /\ records' = [records EXCEPT ![i] = row] /\ RecordOK(i)
  BY <1>2 DEF Commit, IInv, TypeOK
<1>4. CASE ~Exists(i)
  <2>1. ConfirmOK(req[r])
    BY <1>1, <1>4 DEF IInv, RequestOK, IdleRequest
  <2>2. row = req[r].entity
    BY <1>1, <1>3, <2>1, WholeOverwrite DEF ConfirmOK
  <2> QED
    BY <1>1, <1>2, <1>3, <1>4, <2>1, <2>2 DEF Added, ConfirmOK
<1>5. CASE Exists(i)
  <2>1. ReviewOK(req[r])
    BY <1>1, <1>5 DEF IInv, RequestOK, IdleRequest
  <2>2. /\ row \in Record
        /\ \A c \in Columns :
             row[c] = IF c \in req[r].cols THEN req[r].entity[c] ELSE records[i][c]
    BY <1>1, <1>3, OverwriteIsRecord
  <2> HIDE DEF row
  <2>3. \A c \in Evidence : row[c] = records[i][c]
    BY <2>1, <2>2 DEF ReviewOK, Evidence
  <2>4. row.status \in {req[r].entity.status, records[i].status}
    BY <2>2 DEF Columns
  <2>5. req[r].entity.status \in Decisions /\ req[r].entity.flags # {}
    BY <1>1, <2>1 DEF ReviewOK, Decisions
  <2>6. req[r].entity.flags = records[i].flags /\ row.flags = records[i].flags
    BY <2>1, <2>3 DEF ReviewOK, Evidence, Columns
  <2>7. records[i].status # "regular"
    BY <1>3, <1>5, <2>5, <2>6 DEF RecordOK, Sound
  <2>8. row.status # "regular"
    BY <2>4, <2>5, <2>7 DEF Decisions
  <2> QED
    BY <1>2, <1>3, <1>5, <2>2, <2>3, <2>4, <2>5, <2>6, <2>7, <2>8 DEF Decided
<1> QED
  BY <1>4, <1>5

LEMMA AddedPreserves ==
    ASSUME IInv, NEW r \in Requests, Commit(r), NEW i \in RecordIds,
           i = req[r].rid, Added(r, i)
    PROVE  IInv'
<1> DEFINE new == req[r].entity
<1>1. /\ req[r].step = "written" /\ UNCHANGED <<phase, deadline, now>>
      /\ req' = [req EXCEPT ![r] = IdleRequest] /\ lock' = Release(r)
  BY DEF Commit
<1>2. /\ \A s \in Requests : req'[s] = IF s = r THEN IdleRequest ELSE req[s]
      /\ \A j \in RecordIds : records'[j] = IF j = i THEN new ELSE records[j]
  BY <1>1 DEF Added, IInv, TypeOK
<1>3. /\ Sound(new) /\ ~Exists(i) /\ new \in Record /\ new.status # "absent"
      /\ ~AlreadyConfirmed(new.call, new.member)
  BY DEF Added, Sound, IInv, TypeOK, Request
<1>4. \A j \in RecordIds : Exists(j)' <=> j = i \/ Exists(j)
  BY <1>2, <1>3 DEF Exists
<1>5. TypeOK'
  BY <1>1, <1>3, NullsAreTyped DEF IInv, TypeOK, Added, Release
<1> HIDE DEF new
<1>6. ASSUME NEW j \in RecordIds PROVE RecordOK(j)'
  <2>1. RecordOK(j)
    BY DEF IInv
  <2> QED
    BY <1>1, <1>2, <1>3, <1>4, <2>1 DEF RecordOK, Sound
<1>7. OneRecordPerMember'
  <2>1. \A j \in RecordIds : ~For(records[j], new.call, new.member)
    BY <1>3 DEF AlreadyConfirmed
  <2> QED
    BY <1>2, <1>4, <2>1 DEF IInv, OneRecordPerMember, For
<1>8. ASSUME NEW s \in Requests, NEW u \in Requests, s # u
      PROVE  Apart(req[s], req[u])'
  <2>1. Apart(req[s], req[u])
    BY <1>8 DEF IInv
  <2>2. CASE s = r
    <3>1. IdleRequest.step = "idle"
      BY DEF IdleRequest
    <3> QED
      BY <1>2, <1>8, <2>2, <3>1 DEF Apart
  <2>3. CASE u = r
    <3>1. IdleRequest.step = "idle" /\ IdleRequest.rid \notin RecordIds
      BY NoneAssumption DEF IdleRequest
    <3>2. req[s].step # "idle" => req[s].rid \in RecordIds
      BY <3>1 DEF IInv, RequestOK
    <3> QED
      BY <1>2, <1>8, <2>3, <3>1, <3>2 DEF Apart
  <2>4. CASE s # r /\ u # r
    <3>1. req[s] = IdleRequest \/ req[s].rid \in RecordIds
      BY DEF IInv, RequestOK
    <3>2. req[u] = IdleRequest \/ req[u].rid \in RecordIds
      BY DEF IInv, RequestOK
    <3>3. IdleRequest.step = "idle"
      BY DEF IdleRequest
    <3> QED
      BY <1>2, <1>4, <2>1, <2>4, <3>1, <3>2, <3>3 DEF Apart, For
  <2> QED
    BY <2>2, <2>3, <2>4
<1>9. ASSUME NEW s \in Requests PROVE RequestOK(req[s])'
  <2>1. CASE s = r
    BY <1>2, <2>1 DEF RequestOK
  <2>2. CASE s # r /\ req[s] = IdleRequest
    BY <1>2, <2>2 DEF RequestOK
  <2>3. CASE s # r /\ req[s].rid \in RecordIds /\ ~Exists(req[s].rid) /\ ConfirmOK(req[s])
    <3>1. Apart(req[r], req[s])
      BY <2>3 DEF IInv
    <3>2. req[s].rid # i
      BY <1>1, <1>3, <3>1 DEF Apart
    <3>3. req[s].step = "written" => ~For(new, req[s].entity.call, req[s].entity.member)
      BY <1>1, <1>3, <2>3, <3>1 DEF Apart, new
    <3>4. req[s].step = "written" =>
            \A j \in RecordIds : ~For(records'[j], req[s].entity.call, req[s].entity.member)
      BY <1>2, <2>3, <3>3 DEF ConfirmOK, AlreadyConfirmed
    <3>5. ~Exists(req[s].rid)'
      BY <1>2, <2>3, <3>2 DEF Exists
    <3> QED
      BY <1>1, <1>2, <2>3, <3>4, <3>5 DEF RequestOK, ConfirmOK, Sound, AlreadyConfirmed
  <2>4. CASE s # r /\ req[s].rid \in RecordIds /\ Exists(req[s].rid) /\ ReviewOK(req[s])
    <3>1. req[s].rid # i
      BY <1>3, <2>4
    <3>2. Exists(req[s].rid)'
      BY <1>2, <2>4, <3>1 DEF Exists
    <3> QED
      BY <1>2, <2>4, <3>1, <3>2 DEF RequestOK, ReviewOK
  <2> QED
    BY <2>1, <2>2, <2>3, <2>4 DEF IInv, RequestOK
<1> QED
  BY <1>5, <1>6, <1>7, <1>8, <1>9 DEF IInv

LEMMA DecidedPreserves ==
    ASSUME IInv, NEW r \in Requests, Commit(r), NEW i \in RecordIds,
           NEW row \in Record, Decided(i, row)
    PROVE  IInv'
<1>1. /\ UNCHANGED <<phase, deadline, now>>
      /\ req' = [req EXCEPT ![r] = IdleRequest] /\ lock' = Release(r)
  BY DEF Commit
<1>2. /\ \A s \in Requests : req'[s] = IF s = r THEN IdleRequest ELSE req[s]
      /\ \A j \in RecordIds : records'[j] = IF j = i THEN row ELSE records[j]
  BY <1>1 DEF Decided, IInv, TypeOK
<1>3. \A j \in RecordIds, c \in Evidence : records'[j][c] = records[j][c]
  BY <1>2 DEF Decided
<1>4. \A j \in RecordIds : /\ records'[j].call = records[j].call
                           /\ records'[j].member = records[j].member
                           /\ records'[j].at = records[j].at
                           /\ records'[j].flags = records[j].flags
  BY <1>3 DEF Evidence, Columns
<1>5. \A j \in RecordIds : Exists(j)' <=> Exists(j)
  BY <1>2 DEF Decided, Exists, Decisions
<1>6. TypeOK'
  BY <1>1, NullsAreTyped DEF IInv, TypeOK, Decided, Release
<1>7. ASSUME NEW j \in RecordIds PROVE RecordOK(j)'
  <2>1. RecordOK(j)
    BY DEF IInv
  <2>3. CASE Exists(j)
    <3>1. records'[j].status # "absent"
      BY <1>5, <2>3 DEF Exists
    <3>2. records'[j].status = "regular" <=> records'[j].flags = {}
      BY <1>2, <2>1, <2>3 DEF RecordOK, Sound, Decided
    <3> QED
      BY <1>1, <1>4, <1>5, <2>1, <2>3, <3>1, <3>2 DEF RecordOK, Sound
  <2>4. CASE ~Exists(j)
    BY <1>2, <1>5, <2>1, <2>4 DEF RecordOK, Decided
  <2> QED
    BY <2>3, <2>4
<1>8. OneRecordPerMember'
  BY <1>4, <1>5 DEF IInv, OneRecordPerMember
<1>9. ASSUME NEW s \in Requests PROVE RequestOK(req[s])'
  <2>1. CASE s = r
    BY <1>2, <2>1 DEF RequestOK
  <2>2. CASE s # r
    <3>1. RequestOK(req[s])
      BY DEF IInv
    <3> QED
      BY <1>1, <1>2, <1>3, <1>4, <1>5, <2>2, <3>1
         DEF RequestOK, ConfirmOK, ReviewOK, Sound, AlreadyConfirmed, For
  <2> QED
    BY <2>1, <2>2
<1>10. ASSUME NEW s \in Requests, NEW u \in Requests, s # u
       PROVE  Apart(req[s], req[u])'
  <2>1. Apart(req[s], req[u])
    BY <1>10 DEF IInv
  <2>2. IdleRequest.step = "idle" /\ IdleRequest.rid \notin RecordIds
    BY NoneAssumption DEF IdleRequest
  <2>3. /\ req[s] = IdleRequest \/ req[s].rid \in RecordIds
        /\ req[u] = IdleRequest \/ req[u].rid \in RecordIds
    BY DEF IInv, RequestOK
  <2> QED
    BY <1>2, <1>5, <1>10, <2>1, <2>2, <2>3 DEF Apart, For
<1> QED
  BY <1>6, <1>7, <1>8, <1>9, <1>10 DEF IInv

LEMMA CommitPreserves == ASSUME IInv, NEW r \in Requests, Commit(r) PROVE IInv'
<1>1. PICK i \in RecordIds :
        i = req[r].rid /\ (Added(r, i) \/ \E row \in Record : Decided(i, row))
  BY CommitAddsOrDecides
<1>2. CASE Added(r, i)
  BY <1>1, <1>2, AddedPreserves
<1>3. CASE \E row \in Record : Decided(i, row)
  BY <1>3, DecidedPreserves
<1> QED
  BY <1>1, <1>2, <1>3

-----------------------------------------------------------------------------
(* The invariant *)

LEMMA StepPreserves == ASSUME IInv, [Next]_vars PROVE IInv'
<1>1. CASE CallsNext
  BY <1>1, CallsPreserve
<1>2. ASSUME NEW r \in Requests, RequestNext(r) PROVE IInv'
  <2>1. ASSUME NEW i \in RecordIds, NEW c \in Calls, NEW m \in Members,
               NEW d \in Devices \union {None}, NEW suspect \in SUBSET {"client"},
               ConfirmLookup(r, i, c, m, d, suspect)
        PROVE  IInv'
    BY <2>1, LookupPreserves
  <2>2. ASSUME NEW i \in RecordIds, ReviewFind(r, i) PROVE IInv'
    BY <2>2, FindPreserves
  <2>3. CASE ConfirmLate(r) \/ ConfirmDuplicate(r) \/ ReviewRefused(r) \/ Abort(r)
    BY <2>3, ForgettingIsHarmless DEF ConfirmLate, ConfirmDuplicate, ReviewRefused, Abort
  <2>4. CASE ConfirmCheck(r)
    BY <2>4, CheckPreserves
  <2>5. CASE ConfirmInsert(r)
    BY <2>5, InsertPreserves
  <2>6. CASE ReviewUpdate(r)
    BY <2>6, UpdatePreserves
  <2>7. CASE Commit(r)
    BY <2>7, CommitPreserves
  <2>8. ASSUME NEW decision \in Decisions, NEW reviewer \in Reviewers,
               NEW note \in {None, <<reviewer, decision>>},
               ReviewMerge(r, decision, reviewer, note)
        PROVE  IInv'
    BY <2>8, MergePreserves
  <2> QED
    BY <1>2, <2>1, <2>2, <2>3, <2>4, <2>5, <2>6, <2>7, <2>8 DEF RequestNext, Step
<1>3. CASE UNCHANGED vars
  BY <1>3 DEF vars, IInv, TypeOK, RecordOK, Sound, OneRecordPerMember, RequestOK, ConfirmOK,
              ReviewOK, Apart, Exists, For, AlreadyConfirmed
<1> QED
  BY <1>1, <1>2, <1>3 DEF Next

(* IInv holds in every reachable state of every instance. *)
THEOREM Invariance == Spec => []IInv
<1>1. Init => IInv
  BY InitEstablishes
<1>2. IInv /\ [Next]_vars => IInv'
  BY StepPreserves
<1> QED
  BY <1>1, <1>2, PTL DEF Spec

(* Only a commit touches the committed records. *)
LEMMA RecordsMove ==
    ASSUME IInv, [Next]_vars
    PROVE  \/ records' = records
           \/ \E i \in RecordIds :
                \/ \E r \in Requests : Commit(r) /\ Added(r, i) /\ i = req[r].rid
                \/ \E row \in Record : Decided(i, row)
<1>1. CASE CallsNext
  BY <1>1, CallsOnlyStart DEF CallsMoved, recordVars
<1>2. ASSUME NEW r \in Requests, RequestNext(r)
      PROVE  records' = records \/ Commit(r)
  BY <1>2 DEF RequestNext, Step, ConfirmLookup, ReviewFind, ConfirmLate, ConfirmCheck,
              ConfirmInsert, ConfirmDuplicate, ReviewRefused, ReviewMerge, ReviewUpdate, Abort
<1>3. CASE UNCHANGED vars
  BY <1>3 DEF vars
<1> QED
  BY <1>1, <1>2, <1>3, CommitAddsOrDecides DEF Next

-----------------------------------------------------------------------------
(* The properties, for every value of the constants *)

(* Every variable keeps its type. *)
THEOREM TypeCorrect == Spec => []TypeOK
<1>1. IInv => TypeOK
  BY DEF IInv
<1> QED
  BY <1>1, Invariance, PTL

(* One record per student and call, however the confirmations interleave. *)
THEOREM MembersConfirmOnce == Spec => []OneRecordPerMember
<1>1. IInv => OneRecordPerMember
  BY DEF IInv
<1> QED
  BY <1>1, Invariance, PTL

(* A regular record is one without flags, whatever is reviewed meanwhile. *)
THEOREM RegularMeansUnflagged == Spec => []RegularIffUnflagged
<1>1. IInv => RegularIffUnflagged
  BY DEF IInv, RecordOK, Sound, RegularIffUnflagged
<1> QED
  BY <1>1, Invariance, PTL

(* Every record was confirmed before its deadline, and flagged exactly if only just. *)
THEOREM RecordsAreTimely == Spec => []ConfirmedInTime
<1>1. IInv => ConfirmedInTime
  BY DEF IInv, RecordOK, Sound, ConfirmedInTime
<1> QED
  BY <1>1, Invariance, PTL

(* No step removes a record or rewrites its evidence. *)
THEOREM RecordsStand == Spec => EvidenceStands
<1>1. ASSUME IInv, [Next]_vars, NEW i \in RecordIds, Exists(i), NEW c \in Evidence
      PROVE  records'[i][c] = records[i][c]
  <2>1. CASE records' = records
    BY <2>1
  <2>2. ASSUME NEW j \in RecordIds, NEW r \in Requests, Added(r, j)
        PROVE  records'[i][c] = records[i][c]
    BY <1>1, <2>2 DEF Added, IInv, TypeOK
  <2>3. ASSUME NEW j \in RecordIds, NEW row \in Record, Decided(j, row)
        PROVE  records'[i][c] = records[i][c]
    BY <1>1, <2>3 DEF Decided, IInv, TypeOK
  <2> QED
    BY <1>1, <2>1, <2>2, <2>3, RecordsMove
<1>2. IInv /\ [Next]_vars =>
        \A i \in RecordIds : Exists(i) =>
          \A c \in Columns \ {"status", "reviewer", "note"} :
            records'[i][c] = records[i][c]
  BY <1>1 DEF Evidence
<1> QED
  BY <1>2, Invariance, PTL DEF Spec, EvidenceStands

-----------------------------------------------------------------------------
(* The refinement of the presence sheet *)

(* The sheet the committed records stand for. *)
Sheet == [c \in Calls |-> [m \in Members |-> MarkOf(c, m)]]

(* The mark of a student is the status of their one record. *)
LEMMA MarkIsStatus ==
    ASSUME IInv, NEW c \in Calls, NEW m \in Members
    PROVE  /\ \A i \in RecordIds : For(records[i], c, m) => MarkOf(c, m) = records[i].status
           /\ ~AlreadyConfirmed(c, m) => MarkOf(c, m) = "absent"
<1>1. ASSUME NEW i \in RecordIds, For(records[i], c, m)
      PROVE  MarkOf(c, m) = records[i].status
  <2> DEFINE chosen == CHOOSE j \in RecordIds : For(records[j], c, m)
  <2>1. chosen \in RecordIds /\ For(records[chosen], c, m)
    BY <1>1
  <2>2. Exists(i) /\ Exists(chosen)
    BY <1>1, <2>1, AlreadyConfirmedExists
  <2>3. chosen = i
    BY <1>1, <2>1, <2>2 DEF IInv, OneRecordPerMember, For
  <2> QED
    BY <1>1, <2>3 DEF MarkOf, AlreadyConfirmed
<1> QED
  BY <1>1 DEF MarkOf

(* The same after a step. *)
LEMMA MarkIsStatusNext ==
    ASSUME NEW c \in Calls, NEW m \in Members, IInv'
    PROVE  /\ \A i \in RecordIds :
                For(records'[i], c, m) => MarkOf(c, m)' = records'[i].status
           /\ ~AlreadyConfirmed(c, m)' => MarkOf(c, m)' = "absent"
<1>1. ASSUME NEW i \in RecordIds, For(records'[i], c, m)
      PROVE  MarkOf(c, m)' = records'[i].status
  <2>1. PICK chosen \in RecordIds :
          /\ chosen = CHOOSE j \in RecordIds : For(records'[j], c, m)
          /\ For(records'[chosen], c, m)
    BY <1>1
  <2>2. ASSUME NEW j \in RecordIds, For(records'[j], c, m) PROVE Exists(j)'
    <3>1. records'[j].call # None
      BY <2>2, NoneAssumption DEF For
    <3>2. RecordOK(j)'
      BY DEF IInv
    <3> QED
      BY <3>1, <3>2 DEF RecordOK, AbsentRecord
  <2>3. chosen = i
    <3>1. Exists(i)' /\ Exists(chosen)'
      BY <1>1, <2>1, <2>2
    <3> QED
      BY <1>1, <2>1, <3>1 DEF IInv, OneRecordPerMember, For
  <2> QED
    BY <1>1, <2>1, <2>3 DEF MarkOf, AlreadyConfirmed, For
<1> QED
  BY <1>1 DEF MarkOf, AlreadyConfirmed, For

(* A sheet of which one mark changes. *)
LEMMA NestedUpdate ==
    ASSUME NEW S, NEW T, NEW f, NEW g, NEW a \in S, NEW b \in T, NEW v,
           f = [c \in S |-> [m \in T |-> f[c][m]]],
           g = [c \in S |-> [m \in T |-> g[c][m]]],
           \A c \in S, m \in T : g[c][m] = IF c = a /\ m = b THEN v ELSE f[c][m]
    PROVE  g = [f EXCEPT ![a][b] = v]
<1> DEFINE h == [f EXCEPT ![a][b] = v]
<1>1. h = [c \in S |-> IF c = a THEN [f[a] EXCEPT ![b] = v] ELSE f[c]]
  OBVIOUS
<1>2. [f[a] EXCEPT ![b] = v] = [m \in T |-> IF m = b THEN v ELSE f[a][m]]
  OBVIOUS
<1>3. \A c \in S : g[c] = IF c = a THEN [m \in T |-> IF m = b THEN v ELSE f[a][m]] ELSE f[c]
  OBVIOUS
<1> QED
  BY <1>1, <1>2, <1>3

LEMMA OneMark ==
    ASSUME NEW c0 \in Calls, NEW m0 \in Members, NEW mark,
           MarkOf(c0, m0)' = mark,
           \A c \in Calls, m \in Members : c # c0 \/ m # m0 => MarkOf(c, m)' = MarkOf(c, m)
    PROVE  /\ Sheet' = [Sheet EXCEPT ![c0][m0] = mark]
           /\ Sheet[c0][m0] = MarkOf(c0, m0)
<1>1. /\ Sheet = [c \in Calls |-> [m \in Members |-> Sheet[c][m]]]
      /\ Sheet' = [c \in Calls |-> [m \in Members |-> Sheet'[c][m]]]
  BY DEF Sheet
<1>2. \A c \in Calls, m \in Members :
        Sheet'[c][m] = IF c = c0 /\ m = m0 THEN mark ELSE Sheet[c][m]
  BY DEF Sheet
<1>3. Sheet' = [Sheet EXCEPT ![c0][m0] = mark]
  BY <1>1, <1>2, NestedUpdate
<1> QED
  BY <1>3 DEF Sheet

(* An insertion marks one student who had no mark. *)
LEMMA AddedIsMark ==
    ASSUME IInv, IInv', NEW r \in Requests, NEW i \in RecordIds, Added(r, i)
    PROVE  \E c \in Calls, m \in Members : PS!Mark(c, m)
<1>1. PICK new \in Record : new = req[r].entity
  BY DEF IInv, TypeOK, Request
<1>2. PICK c0 \in Calls, m0 \in Members : c0 = new.call /\ m0 = new.member
  BY <1>1 DEF Added, Sound
<1>3. records[i] = AbsentRecord
  BY DEF Added, IInv, RecordOK
<1>4. \A j \in RecordIds : records'[j] = IF j = i THEN new ELSE records[j]
  BY <1>1 DEF Added, IInv, TypeOK
<1>5. MarkOf(c0, m0) = "absent"
  BY <1>1, <1>2, MarkIsStatus DEF Added
<1>6. MarkOf(c0, m0)' = new.status
  <2>1. For(records'[i], c0, m0) /\ records'[i].status = new.status
    BY <1>2, <1>4 DEF For
  <2>2. MarkOf(c0, m0)' = records'[i].status
    BY <2>1, MarkIsStatusNext
  <2> QED
    BY <2>1, <2>2
<1>7. ASSUME NEW c \in Calls, NEW m \in Members, c # c0 \/ m # m0
      PROVE  MarkOf(c, m)' = MarkOf(c, m)
  <2>1. \A j \in RecordIds : For(records'[j], c, m) <=> j # i /\ For(records[j], c, m)
    BY <1>2, <1>3, <1>4, <1>7, NoneAssumption DEF For, AbsentRecord
  <2>2. CASE AlreadyConfirmed(c, m)
    <3>1. PICK j \in RecordIds : For(records[j], c, m)
      BY <2>2 DEF AlreadyConfirmed
    <3>2. j # i
      BY <1>3, <3>1, NoneAssumption DEF For, AbsentRecord
    <3> QED
      BY <1>4, <2>1, <3>1, <3>2, MarkIsStatus, MarkIsStatusNext
  <2>3. CASE ~AlreadyConfirmed(c, m)
    <3>1. ~AlreadyConfirmed(c, m)'
      BY <2>1, <2>3 DEF AlreadyConfirmed
    <3> QED
      BY <2>3, <3>1, MarkIsStatus, MarkIsStatusNext
  <2> QED
    BY <2>2, <2>3
<1>8. new.status \in {"regular", "irregular"}
  BY <1>1 DEF Added
<1>9. Sheet' = [Sheet EXCEPT ![c0][m0] = new.status] /\ Sheet[c0][m0] = "absent"
  BY <1>5, <1>6, <1>7, OneMark
<1> QED
  BY <1>8, <1>9 DEF PS!Mark, Sheet

(* An update decides one flagged mark, or leaves the sheet as it is. *)
LEMMA DecidedIsDecide ==
    ASSUME IInv, IInv', NEW i \in RecordIds, NEW row \in Record, Decided(i, row)
    PROVE  Sheet' = Sheet \/ \E c \in Calls, m \in Members : PS!Decide(c, m)
<1>1. PICK c0 \in Calls, m0 \in Members : For(records[i], c0, m0)
  BY DEF Decided, Sound, IInv, RecordOK, For
<1>2. \A j \in RecordIds : records'[j] = IF j = i THEN row ELSE records[j]
  BY DEF Decided, IInv, TypeOK
<1>3. row.call = c0 /\ row.member = m0
  BY <1>1 DEF Decided, Evidence, Columns, For
<1>4. \A c, m : \A j \in RecordIds : For(records'[j], c, m) <=> For(records[j], c, m)
  BY <1>1, <1>2, <1>3 DEF For
<1>5. MarkOf(c0, m0) = records[i].status /\ MarkOf(c0, m0)' = row.status
  <2>1. For(records'[i], c0, m0) /\ records'[i].status = row.status
    BY <1>2, <1>3 DEF For
  <2>2. MarkOf(c0, m0)' = records'[i].status
    BY <1>1, <2>1, MarkIsStatusNext
  <2>3. MarkOf(c0, m0) = records[i].status
    BY <1>1, MarkIsStatus
  <2> QED
    BY <2>1, <2>2, <2>3
<1>6. ASSUME NEW c \in Calls, NEW m \in Members, c # c0 \/ m # m0
      PROVE  MarkOf(c, m)' = MarkOf(c, m)
  <2>1. CASE AlreadyConfirmed(c, m)
    <3>1. PICK j \in RecordIds : For(records[j], c, m)
      BY <2>1 DEF AlreadyConfirmed
    <3>2. j # i
      BY <1>1, <1>6, <3>1 DEF For
    <3> QED
      BY <1>2, <1>4, <3>1, <3>2, MarkIsStatus, MarkIsStatusNext
  <2>2. CASE ~AlreadyConfirmed(c, m)
    <3>1. ~AlreadyConfirmed(c, m)'
      BY <1>4, <2>2 DEF AlreadyConfirmed
    <3> QED
      BY <2>2, <3>1, MarkIsStatus, MarkIsStatusNext
  <2> QED
    BY <2>1, <2>2
<1>7. records[i].status \in PS!Reviewable /\ row.status \in Decisions \union {records[i].status}
  <2>1. records[i].status \in {"absent", "regular", "irregular"} \union Decisions
    BY DEF IInv, TypeOK, Record
  <2> QED
    BY <2>1 DEF Decided, Exists, PS!Reviewable, PS!Decisions, Decisions
<1>8. Sheet' = [Sheet EXCEPT ![c0][m0] = row.status] /\ Sheet[c0][m0] = records[i].status
  BY <1>1, <1>5, <1>6, OneMark
<1>9. CASE row.status = records[i].status
  <2>1. ASSUME NEW c \in Calls, NEW m \in Members PROVE MarkOf(c, m)' = MarkOf(c, m)
    BY <1>5, <1>6, <1>9
  <2> QED
    BY <2>1 DEF Sheet
<1>10. CASE row.status \in Decisions
  BY <1>1, <1>7, <1>8, <1>10 DEF PS!Decide, PS!Decisions, Decisions, Sheet
<1> QED
  BY <1>7, <1>9, <1>10

(* AttendanceRecords implements PresenceSheet. *)
THEOREM SheetIsImplemented == Spec => PresenceSheetRefined
<1>1. Init => PS!SheetInit
  <2> SUFFICES ASSUME Init PROVE PS!SheetInit
    OBVIOUS
  <2>1. IInv
    BY InitEstablishes
  <2>2. \A c \in Calls, m \in Members : ~AlreadyConfirmed(c, m)
    BY NoneAssumption DEF Init, AlreadyConfirmed, For, AbsentRecord
  <2>3. \A c \in Calls, m \in Members : MarkOf(c, m) = "absent"
    BY <2>1, <2>2, MarkIsStatus
  <2> QED
    BY <2>3 DEF PS!SheetInit
<1>2. ASSUME IInv, IInv', [Next]_vars PROVE [PS!SheetNext]_Sheet
  <2>1. CASE records' = records
    BY <2>1 DEF Sheet, MarkOf, AlreadyConfirmed, For
  <2>2. ASSUME NEW i \in RecordIds, NEW r \in Requests, Added(r, i)
        PROVE  PS!SheetNext
    BY <1>2, <2>2, AddedIsMark DEF PS!SheetNext
  <2>3. ASSUME NEW i \in RecordIds, NEW row \in Record, Decided(i, row)
        PROVE  [PS!SheetNext]_Sheet
    BY <1>2, <2>3, DecidedIsDecide DEF PS!SheetNext
  <2> QED
    BY <1>2, <2>1, <2>2, <2>3, RecordsMove
<1>3. IInv /\ IInv' /\ [Next]_vars => [PS!SheetNext]_Sheet
  BY <1>2
<1> QED
  BY <1>1, <1>3, Invariance, PTL DEF Spec, PresenceSheetRefined, PS!SheetSpec, Sheet

-----------------------------------------------------------------------------
(* Requests that do not overlap *)

Confirming(r) == req[r].step # "idle" /\ ~Exists(req[r].rid)
Reviewing(r) == req[r].step # "idle" /\ Exists(req[r].rid)

(* No two confirmations of one call from one device are served at once. *)
ConfirmationsApart ==
    \A q, r \in Requests :
        /\ Confirming(q) /\ Confirming(r)
        /\ req[q].entity.call = req[r].entity.call
        /\ req[q].entity.device = req[r].entity.device
        => q = r

(* No two reviews of one record are served at once. *)
ReviewsApart ==
    \A q, r \in Requests :
        Reviewing(q) /\ Reviewing(r) /\ req[q].rid = req[r].rid => q = r

(* A confirmation carries the flag if its device has been used in the call. *)
SeenInv ==
    \A r \in Requests, i \in RecordIds :
        /\ Confirming(r) /\ Exists(i)
        /\ records[i].call = req[r].entity.call
        /\ records[i].device = req[r].entity.device /\ records[i].device # None
        => "shared_device" \in req[r].entity.flags

(* A review holds the row as it is, but for the columns it will write. *)
NoteOf(row) == row.note # None => row.note = <<row.reviewer, row.status>>
NoteInv ==
    /\ \A r \in Requests : Confirming(r) => req[r].entity.note = None
    /\ \A r \in Requests : Reviewing(r) =>
         /\ NoteOf(req[r].entity)
         /\ \A c \in Columns : c \in req[r].cols \/ req[r].entity[c] = records[req[r].rid][c]

(* Where the requests stand that do not commit. *)
LEMMA RequestsMove ==
    ASSUME IInv, NEW r \in Requests, RequestNext(r), ~Commit(r)
    PROVE  /\ records' = records
           /\ \A s \in Requests : s # r => req'[s] = req[s]
           /\ \/ req'[r] = IdleRequest
              \/ \E i \in RecordIds, c \in Calls, m \in Members, d \in Devices \union {None} :
                   \E suspect \in SUBSET {"client"} : ConfirmLookup(r, i, c, m, d, suspect)
              \/ ConfirmCheck(r)
              \/ \E i \in RecordIds : ReviewFind(r, i)
              \/ \E decision \in Decisions, reviewer \in Reviewers :
                   \E note \in {None, <<reviewer, decision>>} :
                     ReviewMerge(r, decision, reviewer, note)
              \/ /\ req[r].step \in {"checked", "merged"} /\ req'[r].step = "written"
                 /\ req'[r].rid = req[r].rid /\ req'[r].entity = req[r].entity
                 /\ req'[r].cols = req[r].cols
<1>1. records' = records /\ \A s \in Requests : s # r => req'[s] = req[s]
  BY DEF RequestNext, Step, ConfirmLookup, ReviewFind, ConfirmLate, ConfirmCheck, ConfirmInsert,
         ConfirmDuplicate, ReviewRefused, ReviewMerge, ReviewUpdate, Abort, IInv, TypeOK
<1>2. CASE ConfirmLate(r) \/ ConfirmDuplicate(r) \/ ReviewRefused(r) \/ Abort(r)
  BY <1>1, <1>2 DEF ConfirmLate, ConfirmDuplicate, ReviewRefused, Abort, IInv, TypeOK
<1>3. CASE ConfirmInsert(r) \/ ReviewUpdate(r)
  <2>1. PICK q \in Request :
          /\ req' = [req EXCEPT ![r] = q]
          /\ q.step = "written" /\ q.rid = req[r].rid
          /\ q.entity = req[r].entity /\ q.cols = req[r].cols
    BY <1>3, StepOnly DEF ConfirmInsert, ReviewUpdate
  <2>2. req'[r] = q /\ req[r].step \in {"checked", "merged"}
    BY <1>3, <2>1 DEF ConfirmInsert, ReviewUpdate, IInv, TypeOK
  <2> QED
    BY <1>1, <2>1, <2>2
<1> QED
  BY <1>1, <1>2, <1>3 DEF RequestNext, Step

(* What a request is after it has looked, checked, found or merged. *)
LEMMA SeenByLookup ==
    ASSUME IInv, NEW r \in Requests, NEW i \in RecordIds, NEW c \in Calls,
           NEW m \in Members, NEW d \in Devices \union {None},
           NEW suspect \in SUBSET {"client"}, ConfirmLookup(r, i, c, m, d, suspect)
    PROVE  /\ req'[r].rid = i /\ ~Exists(i) /\ ~AlreadyConfirmed(c, m)
           /\ req'[r].entity.call = c /\ req'[r].entity.device = d
           /\ req'[r].entity.note = None
           /\ SharedDevice(c, m, d) => "shared_device" \in req'[r].entity.flags
BY DEF ConfirmLookup, FreshId, IInv, TypeOK

LEMMA KeptByCheck ==
    ASSUME IInv, NEW r \in Requests, ConfirmCheck(r)
    PROVE  /\ Confirming(r) /\ req'[r].rid = req[r].rid
           /\ req'[r].entity.call = req[r].entity.call
           /\ req'[r].entity.device = req[r].entity.device
           /\ req'[r].entity.note = req[r].entity.note
           /\ req[r].entity.flags \subseteq req'[r].entity.flags
<1> DEFINE row == req[r].entity
           near == IF NearExpiry(row.call) THEN {"confirmed_near_expiry"} ELSE {}
           new == Confirmed(row, row.flags \union near)
<1>1. req[r].step = "looked" /\ row \in Record
  BY DEF ConfirmCheck, IInv, TypeOK, Request
<1>2. ~Exists(req[r].rid)
  BY <1>1 DEF IInv, RequestOK, ReviewOK, IdleRequest
<1>3. req'[r].rid = req[r].rid /\ req'[r].entity = new
  BY DEF ConfirmCheck, IInv, TypeOK
<1>4. /\ new.call = row.call /\ new.device = row.device /\ new.note = row.note
      /\ new.flags = row.flags \union near
  BY <1>1 DEF Confirmed, Record
<1> HIDE DEF new, near, row
<1> QED
  BY <1>1, <1>2, <1>3, <1>4 DEF Confirming, row

LEMMA IdleHoldsNothing == IdleRequest.step = "idle"
BY DEF IdleRequest

-----------------------------------------------------------------------------

LEMMA SharedStep ==
    ASSUME IInv, ConfirmationsApart, SeenInv, SharedDeviceIsFlagged, [Next]_vars
    PROVE  SeenInv' /\ SharedDeviceIsFlagged'
<1>1. CASE records' = records /\ req' = req
  BY <1>1 DEF SeenInv, SharedDeviceIsFlagged, Confirming, Exists
<1>2. ASSUME NEW r \in Requests, RequestNext(r), ~Commit(r)
      PROVE  SeenInv' /\ SharedDeviceIsFlagged'
  <2>1. records' = records /\ \A s \in Requests : s # r => req'[s] = req[s]
    BY <1>2, RequestsMove
  <2>2. SharedDeviceIsFlagged' /\ \A i : Exists(i)' <=> Exists(i)
    BY <2>1 DEF SharedDeviceIsFlagged, Exists
  <2>3. ASSUME NEW i \in RecordIds, Confirming(r)', Exists(i),
               records[i].call = req'[r].entity.call,
               records[i].device = req'[r].entity.device, records[i].device # None
        PROVE  "shared_device" \in req'[r].entity.flags
    <3>1. ~Exists(req'[r].rid) /\ req'[r].step # "idle"
      BY <2>1, <2>3 DEF Confirming, Exists
    <3>2. CASE ConfirmCheck(r)
      BY <2>3, <3>2, KeptByCheck DEF SeenInv
    <3>3. ASSUME NEW j \in RecordIds, NEW c \in Calls, NEW m \in Members,
                 NEW d \in Devices \union {None}, NEW suspect \in SUBSET {"client"},
                 ConfirmLookup(r, j, c, m, d, suspect)
          PROVE  "shared_device" \in req'[r].entity.flags
      <4>1. records[i].call = c /\ records[i].device = d /\ ~For(records[i], c, m)
        BY <2>3, <3>3, SeenByLookup DEF AlreadyConfirmed
      <4>2. SharedDevice(c, m, d)
        BY <2>3, <4>1 DEF For, SharedDevice
      <4> QED
        BY <3>3, <4>2, SeenByLookup
    <3>4. ASSUME NEW j \in RecordIds, ReviewFind(r, j) PROVE FALSE
      <4>1. req'[r].rid = j /\ Exists(j)
        BY <3>4 DEF ReviewFind, IInv, TypeOK
      <4> QED
        BY <3>1, <4>1
    <3>5. ASSUME NEW decision \in Decisions, NEW reviewer \in Reviewers,
                 NEW note \in {None, <<reviewer, decision>>},
                 ReviewMerge(r, decision, reviewer, note)
          PROVE  FALSE
      <4>1. req[r].step = "found" /\ req'[r].rid = req[r].rid
        BY <3>5 DEF ReviewMerge, IInv, TypeOK
      <4>2. Exists(req[r].rid)
        BY <4>1 DEF IInv, RequestOK, ConfirmOK, IdleRequest
      <4> QED
        BY <3>1, <4>1, <4>2
    <3>6. CASE /\ req[r].step \in {"checked", "merged"}
               /\ req'[r].rid = req[r].rid /\ req'[r].entity = req[r].entity
      BY <2>3, <3>1, <3>6 DEF SeenInv, Confirming
    <3> QED
      BY <1>2, <3>1, <3>2, <3>3, <3>4, <3>5, <3>6, RequestsMove, IdleHoldsNothing
  <2>4. SeenInv'
    BY <2>1, <2>2, <2>3 DEF SeenInv, Confirming, Exists
  <2> QED
    BY <2>2, <2>4
<1>3. ASSUME NEW r \in Requests, Commit(r) PROVE SeenInv' /\ SharedDeviceIsFlagged'
  <2>1. PICK i \in RecordIds :
          i = req[r].rid /\ (Added(r, i) \/ \E row \in Record : Decided(i, row))
    BY <1>3, CommitAddsOrDecides
  <2>2. /\ \A s \in Requests : req'[s] = IF s = r THEN IdleRequest ELSE req[s]
        /\ req[r].step = "written"
    BY <1>3 DEF Commit, IInv, TypeOK
  <2>3. CASE Added(r, i)
    <3>1. /\ \A j \in RecordIds : records'[j] = IF j = i THEN req[r].entity ELSE records[j]
          /\ ~Exists(i) /\ req[r].entity.status # "absent"
      BY <2>3 DEF Added, Sound, IInv, TypeOK
    <3>2. \A j \in RecordIds : Exists(j)' <=> (Exists(j) \/ j = i)
      BY <3>1 DEF Exists
    <3>3. Confirming(r)
      BY <2>1, <2>2, <3>1 DEF Confirming
    <3>4. SharedDeviceIsFlagged'
      BY <3>1, <3>2, <3>3 DEF SharedDeviceIsFlagged, SeenInv
    <3>5. ASSUME NEW s \in Requests, NEW j \in RecordIds, Confirming(s)', Exists(j)',
                 records'[j].call = req'[s].entity.call,
                 records'[j].device = req'[s].entity.device, records'[j].device # None
          PROVE  "shared_device" \in req'[s].entity.flags
      <4>1. s # r /\ req'[s] = req[s]
        BY <2>2, <3>5, IdleHoldsNothing DEF Confirming
      <4>2. req[s].rid \in RecordIds
        BY <3>5, <4>1, IdleHoldsNothing DEF Confirming, IInv, RequestOK
      <4>3. Confirming(s)
        BY <3>2, <3>5, <4>1, <4>2 DEF Confirming
      <4>4. j # i
        BY <3>1, <3>3, <3>5, <4>1, <4>3 DEF ConfirmationsApart
      <4> QED
        BY <3>1, <3>2, <3>5, <4>1, <4>3, <4>4 DEF SeenInv
    <3> QED
      BY <3>4, <3>5 DEF SeenInv
  <2>4. ASSUME NEW row \in Record, Decided(i, row) PROVE SeenInv' /\ SharedDeviceIsFlagged'
    <3>1. /\ \A j \in RecordIds : records'[j] = IF j = i THEN row ELSE records[j]
          /\ Exists(i) /\ row.status # "absent"
          /\ row.call = records[i].call /\ row.device = records[i].device
          /\ row.flags = records[i].flags
      BY <2>4 DEF Decided, Exists, Decisions, Evidence, Columns, IInv, TypeOK
    <3>2. \A j \in RecordIds : /\ Exists(j)' <=> Exists(j)
                               /\ records'[j].call = records[j].call
                               /\ records'[j].device = records[j].device
                               /\ records'[j].flags = records[j].flags
      BY <3>1 DEF Exists
    <3>3. SharedDeviceIsFlagged'
      BY <3>2 DEF SharedDeviceIsFlagged
    <3>4. ASSUME NEW s \in Requests, Confirming(s)' PROVE req'[s] = req[s] /\ Confirming(s)
      <4>1. s # r /\ req'[s] = req[s]
        BY <2>2, <3>4, IdleHoldsNothing DEF Confirming
      <4>2. req[s].rid \in RecordIds
        BY <3>4, <4>1, IdleHoldsNothing DEF Confirming, IInv, RequestOK
      <4> QED
        BY <3>2, <3>4, <4>1, <4>2 DEF Confirming
    <3> QED
      BY <3>2, <3>3, <3>4 DEF SeenInv
  <2> QED
    BY <2>1, <2>3, <2>4
<1>4. CASE CallsNext
  BY <1>1, <1>4, CallsOnlyStart DEF CallsMoved, recordVars
<1> QED
  BY <1>1, <1>2, <1>3, <1>4 DEF Next, vars

(* Where no two confirmations of one call from one device overlap, of two
   students who used one device in a call one is flagged, whatever is reviewed
   and confirmed otherwise meanwhile. *)
THEOREM SharedDevicesAreFlagged ==
    Spec /\ []ConfirmationsApart => []SharedDeviceIsFlagged
<1>1. Init => SeenInv /\ SharedDeviceIsFlagged
  BY DEF Init, SeenInv, SharedDeviceIsFlagged, Exists, AbsentRecord
<1>2. /\ IInv /\ ConfirmationsApart /\ SeenInv /\ SharedDeviceIsFlagged /\ [Next]_vars
      => SeenInv' /\ SharedDeviceIsFlagged'
  BY SharedStep
<1> QED
  BY <1>1, <1>2, Invariance, PTL DEF Spec

-----------------------------------------------------------------------------

LEMMA ReviewedNote ==
    ASSUME NEW row \in Record, NEW decision \in Decisions, NEW reviewer \in Reviewers,
           NEW note \in {None, <<reviewer, decision>>}
    PROVE  NoteOf(Reviewed(row, decision, reviewer, note))
BY DEF NoteOf, Reviewed, Record

(* The row an overlooked review leaves is the one the reviewer saw. *)
LEMMA ReviewWritesWhole ==
    ASSUME IInv, NoteInv, NEW r \in Requests, Commit(r), Reviewing(r)
    PROVE  records' = [records EXCEPT ![req[r].rid] = req[r].entity]
<1> DEFINE row == Overwrite(records[req[r].rid], req[r].entity, req[r].cols)
<1>1. /\ req[r].entity \in Record /\ req[r].rid \in RecordIds
      /\ records[req[r].rid] \in Record
  BY IdleHoldsNothing DEF Reviewing, IInv, RequestOK, TypeOK, Request
<1>2. /\ row \in Record
      /\ \A c \in Columns : row[c] = req[r].entity[c]
  BY <1>1, OverwriteIsRecord DEF NoteInv
<1>3. records' = [records EXCEPT ![req[r].rid] = row]
  BY <1>1 DEF Commit, IInv, TypeOK
<1> HIDE DEF row
<1>4. row = req[r].entity
  BY <1>1, <1>2 DEF Record, Columns
<1> QED
  BY <1>3, <1>4

LEMMA NoteStep ==
    ASSUME IInv, ReviewsApart, NoteInv, NoteMatchesDecision, [Next]_vars
    PROVE  NoteInv' /\ NoteMatchesDecision'
<1>1. CASE records' = records /\ req' = req
  BY <1>1 DEF NoteInv, NoteMatchesDecision, Confirming, Reviewing, Exists, NoteOf
<1>2. ASSUME NEW r \in Requests, RequestNext(r), ~Commit(r)
      PROVE  NoteInv' /\ NoteMatchesDecision'
  <2>1. records' = records /\ \A s \in Requests : s # r => req'[s] = req[s]
    BY <1>2, RequestsMove
  <2>2. NoteMatchesDecision' /\ \A i : Exists(i)' <=> Exists(i)
    BY <2>1 DEF NoteMatchesDecision, Exists
  <2> DEFINE Fine(s) ==
        /\ Confirming(s)' => req'[s].entity.note = None
        /\ Reviewing(s)' =>
             /\ NoteOf(req'[s].entity)
             /\ \A c \in Columns :
                  c \in req'[s].cols \/ req'[s].entity[c] = records[req'[s].rid][c]
  <2>3. ASSUME req'[r] = IdleRequest PROVE Fine(r)
    BY <2>3, IdleHoldsNothing DEF Confirming, Reviewing
  <2>4. ASSUME ConfirmCheck(r) PROVE Fine(r)
    <3>1. req'[r].entity.note = None /\ ~Exists(req'[r].rid)
      BY <2>4, KeptByCheck DEF NoteInv, Confirming
    <3> QED
      BY <2>2, <3>1 DEF Reviewing
  <2>5. ASSUME NEW j \in RecordIds, NEW c \in Calls, NEW m \in Members,
               NEW d \in Devices \union {None}, NEW suspect \in SUBSET {"client"},
               ConfirmLookup(r, j, c, m, d, suspect)
        PROVE  Fine(r)
    <3>1. req'[r].entity.note = None /\ ~Exists(req'[r].rid)
      BY <2>5, SeenByLookup
    <3> QED
      BY <2>2, <3>1 DEF Reviewing
  <2>6. ASSUME NEW j \in RecordIds, ReviewFind(r, j) PROVE Fine(r)
    <3>1. req'[r].rid = j /\ Exists(j) /\ req'[r].entity = records[j]
      BY <2>6 DEF ReviewFind, IInv, TypeOK
    <3>2. NoteOf(records[j])
      BY DEF NoteMatchesDecision, NoteOf
    <3> QED
      BY <2>2, <3>1, <3>2 DEF Confirming
  <2>7. ASSUME NEW decision \in Decisions, NEW reviewer \in Reviewers,
               NEW note \in {None, <<reviewer, decision>>},
               ReviewMerge(r, decision, reviewer, note)
        PROVE  Fine(r)
    <3> DEFINE new == Reviewed(req[r].entity, decision, reviewer, note)
    <3>1. /\ req[r].step = "found" /\ req'[r].rid = req[r].rid /\ req'[r].entity = new
          /\ req'[r].cols = Dirty(new, records[req[r].rid])
      BY <2>7 DEF ReviewMerge, IInv, TypeOK
    <3>2. Exists(req[r].rid) /\ req[r].rid \in RecordIds /\ req[r].entity \in Record
      BY <3>1 DEF IInv, TypeOK, Request, RequestOK, ConfirmOK, IdleRequest
    <3>3. NoteOf(new)
      BY <3>2, ReviewedNote
    <3>4. DOMAIN records[req[r].rid] = Columns
      BY <3>2 DEF IInv, TypeOK, Record, Columns
    <3> HIDE DEF new
    <3>5. \A c \in Columns : c \in req'[r].cols \/ new[c] = records[req[r].rid][c]
      BY <3>1, <3>4 DEF Dirty
    <3> QED
      BY <2>2, <3>1, <3>2, <3>3, <3>5 DEF Confirming
  <2>8. ASSUME req[r].step \in {"checked", "merged"},
               req'[r].rid = req[r].rid, req'[r].entity = req[r].entity,
               req'[r].cols = req[r].cols
        PROVE  Fine(r)
    <3>1. /\ Confirming(r)' => Confirming(r)
          /\ Reviewing(r)' => Reviewing(r)
      BY <2>2, <2>8 DEF Confirming, Reviewing
    <3> QED
      BY <2>8, <3>1 DEF NoteInv
  <2>9. Fine(r)
    <3> HIDE DEF Fine
    <3> QED
      BY <1>2, <2>3, <2>4, <2>5, <2>6, <2>7, <2>8, RequestsMove
  <2>10. ASSUME NEW s \in Requests, s # r PROVE Fine(s)
    <3>1. (Confirming(s)' <=> Confirming(s)) /\ (Reviewing(s)' <=> Reviewing(s))
      BY <2>1, <2>2, <2>10 DEF Confirming, Reviewing
    <3> QED
      BY <2>1, <2>10, <3>1 DEF NoteInv
  <2>11. NoteInv'
    BY <2>1, <2>9, <2>10 DEF NoteInv, NoteOf
  <2> QED
    BY <2>2, <2>11
<1>3. ASSUME NEW r \in Requests, Commit(r) PROVE NoteInv' /\ NoteMatchesDecision'
  <2>1. PICK i \in RecordIds :
          i = req[r].rid /\ (Added(r, i) \/ \E row \in Record : Decided(i, row))
    BY <1>3, CommitAddsOrDecides
  <2>2. /\ \A s \in Requests : req'[s] = IF s = r THEN IdleRequest ELSE req[s]
        /\ req[r].step = "written"
    BY <1>3 DEF Commit, IInv, TypeOK
  <2>3. /\ \A j \in RecordIds : records'[j] = IF j = i THEN req[r].entity ELSE records[j]
        /\ req[r].entity.status # "absent" /\ NoteOf(req[r].entity)
    <3>1. CASE Added(r, i)
      BY <2>1, <2>2, <3>1 DEF Added, Sound, IInv, TypeOK, NoteInv, Confirming, NoteOf
    <3>2. CASE Exists(i)
      <4>1. Reviewing(r) /\ ReviewOK(req[r])
        BY <2>1, <2>2, <3>2 DEF Reviewing, IInv, RequestOK, IdleRequest
      <4>2. records' = [records EXCEPT ![i] = req[r].entity]
        BY <1>3, <2>1, <4>1, ReviewWritesWhole
      <4> QED
        BY <4>1, <4>2 DEF NoteInv, ReviewOK, IInv, TypeOK
    <3> QED
      BY <2>1, <3>1, <3>2 DEF Decided
  <2>4. NoteMatchesDecision'
    BY <2>3 DEF NoteMatchesDecision, NoteOf
  <2>5. ASSUME NEW s \in Requests, Confirming(s)' \/ Reviewing(s)'
        PROVE  /\ s # r /\ req'[s] = req[s] /\ req[s].step # "idle" /\ req[s].rid \in RecordIds
               /\ req[s].rid # i
    <3>1. s # r /\ req'[s] = req[s] /\ req[s].step # "idle"
      BY <2>2, <2>5, IdleHoldsNothing DEF Confirming, Reviewing
    <3>2. req[s].rid \in RecordIds
      BY <3>1, IdleHoldsNothing DEF IInv, RequestOK
    <3>3. ASSUME req[s].rid = i PROVE FALSE
      <4>1. Exists(i)
        BY <2>1, <3>1, <3>3 DEF IInv, Apart
      <4>2. Reviewing(s) /\ Reviewing(r)
        BY <2>1, <2>2, <3>1, <3>3, <4>1 DEF Reviewing
      <4> QED
        BY <2>1, <3>1, <3>3, <4>2 DEF ReviewsApart
    <3> QED
      BY <3>1, <3>2, <3>3
  <2>6. ASSUME NEW s \in Requests, Confirming(s)' PROVE req'[s].entity.note = None
    <3>1. Confirming(s)
      BY <2>3, <2>5, <2>6 DEF Confirming, Exists
    <3> QED
      BY <2>5, <2>6, <3>1 DEF NoteInv
  <2>7. ASSUME NEW s \in Requests, Reviewing(s)'
        PROVE  /\ NoteOf(req'[s].entity)
               /\ \A c \in Columns :
                    c \in req'[s].cols \/ req'[s].entity[c] = records'[req'[s].rid][c]
    <3>1. Reviewing(s) /\ records'[req[s].rid] = records[req[s].rid]
      BY <2>3, <2>5, <2>7 DEF Reviewing, Exists
    <3> QED
      BY <2>5, <2>7, <3>1 DEF NoteInv
  <2> QED
    BY <2>4, <2>6, <2>7 DEF NoteInv, NoteOf
<1>4. CASE CallsNext
  BY <1>1, <1>4, CallsOnlyStart DEF CallsMoved, recordVars
<1> QED
  BY <1>1, <1>2, <1>3, <1>4 DEF Next, vars

(* Where no two reviews of one record overlap, the note beside a decision was
   written by the reviewer it names, for the decision it shows. *)
THEOREM NotesMatchDecisions ==
    Spec /\ []ReviewsApart => []NoteMatchesDecision
<1>1. Init => NoteInv /\ NoteMatchesDecision
  BY IdleHoldsNothing DEF Init, NoteInv, NoteMatchesDecision, Confirming, Reviewing, AbsentRecord
<1>2. /\ IInv /\ ReviewsApart /\ NoteInv /\ NoteMatchesDecision /\ [Next]_vars
      => NoteInv' /\ NoteMatchesDecision'
  BY NoteStep
<1> QED
  BY <1>1, <1>2, Invariance, PTL DEF Spec

=============================================================================
