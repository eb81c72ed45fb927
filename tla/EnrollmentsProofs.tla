-------------------------- MODULE EnrollmentsProofs --------------------------
(***************************************************************************)
(* Proofs about Enrollments for any number of members, enrollments and     *)
(* requests.                                                               *)
(*                                                                         *)
(* That a key is visible once is an invariant of any interleaving: IInv    *)
(* says what the unique index gives every request that is about to make a  *)
(* row visible.  What needs one request at a time is proved from Current,  *)
(* which says that such a request still sees what it has read.             *)
(***************************************************************************)
EXTENDS Enrollments, FiniteSetTheorems, TLAPS

(* A request that makes a new row. *)
Creates(q) == q.op \in {"enroll", "add"} /\ q.was.state = "absent"

InTable(op, i) ==
    /\ op \in {"enroll", "drop", "delete"} => i \in EnrollmentIds
    /\ op \in {"add", "role", "remove", "register"} => i \in MemberIds

(* A request works on a row of its table that exists, except for the one it creates, and
   never writes the state of an absent row. *)
RequestOK(q) ==
    /\ q.step = "idle" => q = IdleRequest
    /\ q.step # "idle" => q.id \in Ids /\ q.op # "none"
    /\ InTable(q.op, q.id)
    /\ q.op \in {"add", "role"} => q.goal \in Roles
    /\ Creates(q) => \/ q.step \in {"admitted", "looked"}
                     \/ q.step = "saved" /\ q.cols = Columns /\ ~q.entity.deleted
    /\ q.step # "idle" /\ ~Creates(q) => Exists(q.id) /\ q.was.state # "absent"
    /\ "state" \in q.cols => q.entity.state # "absent"
    /\ \A e \in q.due : Exists(e)

(* Whoever is about to make a row visible has the key for itself, among the
   committed rows and among the requests. *)
KeyOK ==
    \A r \in Requests : WritesShown(req[r]) =>
        /\ Rivals(r) = {}
        /\ \A q \in Requests \ {r} : ~(WritesShown(req[q]) /\ SameKey(req[q].id, req[r].id))

IInv ==
    /\ TypeOK
    /\ \A r \in Requests : RequestOK(req[r])
    /\ KeyOK
    /\ OneShownPerKey

-----------------------------------------------------------------------------
(* Rows and requests *)

LEMMA NullsAreTyped ==
    AbsentRow \in Row /\ IdleRequest \in Request /\ ~WritesShown(IdleRequest)
BY DEF AbsentRow, IdleRequest, Row, Request, Columns, Reasons, WritesShown

LEMMA RowChanges ==
    ASSUME NEW row \in Row
    PROVE  /\ Reactivated(row) \in Row /\ Reactivated(row).state = "active"
           /\ \A reason \in Reasons : /\ Dropped(row, reason) \in Row
                                      /\ Dropped(row, reason).state = "dropped"
                                      /\ Dropped(row, reason).deleted = row.deleted
           /\ Erased(row) \in Row /\ Erased(row).deleted /\ Erased(row).state = row.state
           /\ \A role \in Roles : /\ [row EXCEPT !.state = role] \in Row
                                  /\ [row EXCEPT !.state = role].state = role
                                  /\ [row EXCEPT !.state = role].deleted = row.deleted
BY DEF Reactivated, Dropped, Erased, Row, Statuses, Reasons

LEMMA OverwriteIsRow ==
    ASSUME NEW row \in Row, NEW entity \in Row, NEW cols
    PROVE  /\ Overwrite(row, entity, cols) \in Row
           /\ \A c \in Columns :
                Overwrite(row, entity, cols)[c] = IF c \in cols THEN entity[c] ELSE row[c]
<1> DEFINE new == Overwrite(row, entity, cols)
<1>1. DOMAIN row = Columns
  BY DEF Row, Columns
<1>2. new = [c \in Columns |-> IF c \in cols THEN entity[c] ELSE row[c]]
  BY <1>1 DEF Overwrite
<1>3. /\ new.state = IF "state" \in cols THEN entity.state ELSE row.state
      /\ new.reason = IF "reason" \in cols THEN entity.reason ELSE row.reason
      /\ new.deleted = IF "deleted" \in cols THEN entity.deleted ELSE row.deleted
  BY <1>2 DEF Columns
<1>4. /\ new.state \in {"absent"} \union Statuses \union Roles
      /\ new.reason \in Reasons /\ new.deleted \in BOOLEAN
  BY <1>3 DEF Row
<1>5. new = [state |-> new.state, reason |-> new.reason, deleted |-> new.deleted]
  BY <1>2 DEF Columns
<1> QED
  BY <1>2, <1>4, <1>5, Zenon DEF Row

LEMMA DirtyIsColumns ==
    ASSUME NEW row \in Row, NEW entity
    PROVE  /\ Dirty(entity, row) \subseteq Columns
           /\ \A c \in Columns : c \in Dirty(entity, row) <=> entity[c] # row[c]
BY DEF Dirty, Row, Columns

(* A request after a read, and after a merge. *)
LEMMA LookedIsRequest ==
    ASSUME NEW op \in {"enroll", "drop", "delete", "add", "role", "remove", "register"},
           NEW i \in Ids, NEW goal \in Roles \union {"none"}, NEW seen \in Row
    PROVE  /\ Looked(op, i, goal, seen) \in Request
           /\ Looked(op, i, goal, seen).step = "looked"
           /\ Looked(op, i, goal, seen).op = op
           /\ Looked(op, i, goal, seen).id = i
           /\ Looked(op, i, goal, seen).goal = goal
           /\ Looked(op, i, goal, seen).was = seen
           /\ Looked(op, i, goal, seen).cols = {}
           /\ Looked(op, i, goal, seen).due = {}
BY NullsAreTyped DEF Looked, Request, IdleRequest

Writing(q, step, entity, cols) ==
    [q EXCEPT !.step = step, !.entity = entity, !.cols = cols]

LEMMA WritingIsRequest ==
    ASSUME NEW q \in Request, NEW step \in {"merged", "saved"},
           NEW entity \in Row, NEW cols \in SUBSET Columns
    PROVE  /\ Writing(q, step, entity, cols) \in Request
           /\ Writing(q, step, entity, cols).step = step
           /\ Writing(q, step, entity, cols).op = q.op
           /\ Writing(q, step, entity, cols).id = q.id
           /\ Writing(q, step, entity, cols).goal = q.goal
           /\ Writing(q, step, entity, cols).was = q.was
           /\ Writing(q, step, entity, cols).entity = entity
           /\ Writing(q, step, entity, cols).cols = cols
           /\ Writing(q, step, entity, cols).due = q.due
           /\ Writing(q, step, entity, cols).forget = q.forget
BY DEF Writing, Request

Stepping(q, step, due, forget) ==
    [q EXCEPT !.step = step, !.due = due, !.forget = forget]

LEMMA SteppingIsRequest ==
    ASSUME NEW q \in Request, NEW step \in {"looked", "cleared", "saved", "found", "finished"},
           NEW due \in SUBSET EnrollmentIds, NEW forget \in SUBSET Users
    PROVE  /\ Stepping(q, step, due, forget) \in Request
           /\ Stepping(q, step, due, forget).step = step
           /\ Stepping(q, step, due, forget).op = q.op
           /\ Stepping(q, step, due, forget).id = q.id
           /\ Stepping(q, step, due, forget).goal = q.goal
           /\ Stepping(q, step, due, forget).was = q.was
           /\ Stepping(q, step, due, forget).entity = q.entity
           /\ Stepping(q, step, due, forget).cols = q.cols
           /\ Stepping(q, step, due, forget).due = due
           /\ Stepping(q, step, due, forget).forget = forget
BY DEF Stepping, Request

-----------------------------------------------------------------------------
(* Steps that leave the rows alone *)

Quiet(r, new) ==
    /\ rows' = rows /\ tokens' = tokens
    /\ req' = [req EXCEPT ![r] = new]
    /\ lock' \in [Ids -> Requests \union {None}]

LEMMA QuietPreserves ==
    ASSUME IInv, NEW r \in Requests, NEW new \in Request, Quiet(r, new), RequestOK(new),
           WritesShown(new) => /\ new.id = req[r].id
                               /\ WritesShown(req[r]) \/ KeyFree(r)
    PROVE  IInv'
<1>1. /\ TypeOK' /\ \A s \in Requests : req'[s] = IF s = r THEN new ELSE req[s]
  BY DEF IInv, TypeOK, Quiet
<1>2. \A i \in Ids : (Exists(i)' <=> Exists(i)) /\ (Shown(i)' <=> Shown(i))
  BY DEF Quiet, Exists, Shown
<1>3. ASSUME NEW s \in Requests PROVE RequestOK(req[s])'
  <2>1. RequestOK(req'[s])
    BY <1>1 DEF IInv
  <2> QED
    BY <1>1, <1>2, <2>1 DEF RequestOK, Quiet, Exists
<1>4. KeyOK'
  <2> SUFFICES ASSUME NEW s \in Requests, WritesShown(req'[s])
               PROVE  /\ Rivals(s)' = {}
                      /\ \A q \in Requests \ {s} :
                           ~(WritesShown(req'[q]) /\ SameKey(req'[q].id, req'[s].id))
    BY DEF KeyOK
  <2>1. /\ req'[s].id = req[s].id
        /\ Rivals(s) = {}
        /\ \A q \in Requests \ {s} :
             ~(WritesShown(req[q]) /\ SameKey(req[q].id, req[s].id))
    BY <1>1 DEF IInv, KeyOK, KeyFree
  <2>2. Rivals(s)' = {}
    BY <1>2, <2>1 DEF Rivals
  <2>3. ASSUME NEW q \in Requests \ {s}, WritesShown(req'[q]),
               SameKey(req'[q].id, req'[s].id)
        PROVE  FALSE
    <3>1. CASE q # r
      BY <1>1, <2>1, <2>3, <3>1
    <3>2. CASE q = r
      <4>1. /\ req'[r].id = req[r].id /\ s # r /\ req'[s] = req[s]
            /\ WritesShown(req[r]) \/ KeyFree(r)
        BY <1>1, <2>3, <3>2
      <4>2. SameKey(req[s].id, req[r].id) /\ SameKey(req[r].id, req[s].id)
        BY <2>3, <3>2, <4>1 DEF SameKey
      <4> QED
        BY <2>1, <3>2, <4>1, <4>2 DEF KeyFree
    <3> QED
      BY <3>1, <3>2
  <2> QED
    BY <2>2, <2>3
<1>5. OneShownPerKey'
  BY <1>2 DEF IInv, OneShownPerKey
<1> QED
  BY <1>1, <1>3, <1>4, <1>5 DEF IInv

LEMMA ReleaseIsTyped ==
    ASSUME TypeOK, NEW r \in Requests
    PROVE  Release(r) \in [Ids -> Requests \union {None}]
BY DEF TypeOK, Release

(* A request that ends without a commit. *)
LEMMA GivingUpPreserves ==
    ASSUME IInv, NEW r \in Requests, Refuse(r) \/ Abort(r)
    PROVE  IInv'
<1>1. Quiet(r, IdleRequest)
  BY ReleaseIsTyped DEF IInv, TypeOK, Refuse, Stay, Abort, Quiet
<1>2. RequestOK(IdleRequest)
  BY DEF RequestOK, IdleRequest, InTable, Creates, AbsentRow
<1> QED
  BY <1>1, <1>2, NullsAreTyped, QuietPreserves

(* A request that has read a row. *)
LEMMA LookedPreserves ==
    ASSUME IInv, NEW r \in Requests, NEW new \in Request, Quiet(r, new),
           new.step \in {"looked", "finished"}, new.id \in Ids, InTable(new.op, new.id),
           new.op # "none", new.cols = {}, new.due = {},
           new.op \in {"add", "role"} => new.goal \in Roles,
           \/ Exists(new.id) /\ new.was.state # "absent"
           \/ new.op = "add" /\ new.was.state = "absent" /\ new.step = "looked"
    PROVE  IInv'
<1>1. RequestOK(new)
  BY DEF RequestOK, Creates
<1>2. ~WritesShown(new)
  BY DEF WritesShown
<1> QED
  BY <1>1, <1>2, QuietPreserves

(* A request that will write what it holds. *)
LEMMA WritingPreserves ==
    ASSUME IInv, NEW r \in Requests, NEW step \in {"merged", "saved"},
           NEW entity \in Row, NEW cols \in SUBSET Columns,
           req' = [req EXCEPT ![r] = Writing(req[r], step, entity, cols)],
           rows' = rows, tokens' = tokens, lock' \in [Ids -> Requests \union {None}],
           req[r].step # "idle", entity.state # "absent",
           Creates(req[r]) => step = "saved" /\ cols = Columns /\ ~entity.deleted,
           step = "saved" /\ "deleted" \in cols /\ ~entity.deleted => KeyFree(r)
    PROVE  IInv'
<1> DEFINE new == Writing(req[r], step, entity, cols)
<1>1. req[r] \in Request /\ RequestOK(req[r])
  BY DEF IInv, TypeOK
<1>2. /\ new \in Request /\ new.step = step /\ new.op = req[r].op /\ new.id = req[r].id
      /\ new.goal = req[r].goal /\ new.was = req[r].was /\ new.entity = entity
      /\ new.cols = cols /\ new.due = req[r].due
  BY <1>1, WritingIsRequest
<1>3. Quiet(r, new)
  BY DEF Quiet
<1> HIDE DEF new
<1>4. RequestOK(new)
  BY <1>1, <1>2 DEF RequestOK, Creates
<1>5. WritesShown(new) => KeyFree(r)
  BY <1>2 DEF WritesShown
<1> QED
  BY <1>2, <1>3, <1>4, <1>5, QuietPreserves

(* A request that does something besides the write. *)
LEMMA SteppingPreserves ==
    ASSUME IInv, NEW r \in Requests,
           NEW step \in {"looked", "cleared", "found", "finished"},
           NEW due \in SUBSET EnrollmentIds, NEW forget \in SUBSET Users,
           req' = [req EXCEPT ![r] = Stepping(req[r], step, due, forget)],
           rows' = rows, tokens' = tokens, lock' \in [Ids -> Requests \union {None}],
           req[r].step # "idle",
           \A e \in due : Exists(e),
           Creates(req[r]) => step = "looked",
           step \in {"found", "finished"} => req[r].step \in {"saved", "found"}
    PROVE  IInv'
<1> DEFINE new == Stepping(req[r], step, due, forget)
<1>1. req[r] \in Request /\ RequestOK(req[r])
  BY DEF IInv, TypeOK
<1>2. /\ new \in Request /\ new.step = step /\ new.op = req[r].op /\ new.id = req[r].id
      /\ new.goal = req[r].goal /\ new.was = req[r].was /\ new.entity = req[r].entity
      /\ new.cols = req[r].cols /\ new.due = due
  BY <1>1, SteppingIsRequest
<1>3. Quiet(r, new)
  BY DEF Quiet
<1> HIDE DEF new
<1>4. RequestOK(new)
  BY <1>1, <1>2 DEF RequestOK, Creates
<1>5. WritesShown(new) => WritesShown(req[r])
  BY <1>2 DEF WritesShown
<1> QED
  BY <1>2, <1>3, <1>4, <1>5, QuietPreserves

LEMMA ReadsPreserve ==
    ASSUME IInv, NEW r \in Requests,
           \/ \E e \in EnrollmentIds : EnrollAdmit(r, e)
           \/ \E e \in EnrollmentIds, op \in {"drop", "delete"} : EnrollmentFind(r, e, op)
           \/ \E m \in MemberIds, role \in NewRoles :
                AddLookup(r, m, role) \/ MemberFind(r, m, "role", role)
           \/ \E m \in MemberIds : MemberFind(r, m, "remove", "none") \/ RegisterToken(r, m)
           \/ EnrollLookup(r)
    PROVE  IInv'
<1>1. /\ \A i \in Ids : rows[i] \in Row /\ (Exists(i) => rows[i].state # "absent")
      /\ req[r] \in Request
  BY DEF IInv, TypeOK, Exists
<1>2. /\ EnrollmentIds \subseteq Ids /\ MemberIds \subseteq Ids /\ NewRoles \subseteq Roles
      /\ AbsentRow \in Row /\ AbsentRow.state = "absent"
  BY FoundersAssumption, NullsAreTyped DEF Ids, AbsentRow
<1>3. ASSUME NEW e \in EnrollmentIds, EnrollAdmit(r, e) PROVE IInv'
  <2> DEFINE new == [IdleRequest EXCEPT !.step = "admitted", !.op = "enroll", !.id = e]
  <2>1. /\ new \in Request /\ new.step = "admitted" /\ new.op = "enroll" /\ new.id = e
        /\ new.was = AbsentRow /\ new.cols = {} /\ new.due = {}
    BY <1>2, NullsAreTyped DEF IdleRequest, Request
  <2>2. Quiet(r, new)
    BY <1>3 DEF EnrollAdmit, Stay, Quiet, IInv, TypeOK
  <2> HIDE DEF new
  <2>3. RequestOK(new) /\ ~WritesShown(new)
    BY <1>2, <2>1 DEF RequestOK, InTable, WritesShown, Creates
  <2> QED
    BY <2>1, <2>2, <2>3, QuietPreserves
<1>4. ASSUME NEW i \in Ids, Shown(i), NEW goal \in Roles \union {"none"},
             NEW op \in {"enroll", "drop", "delete", "role", "remove"},
             op = "role" => goal \in Roles, InTable(op, i),
             req' = [req EXCEPT ![r] = Looked(op, i, goal, rows[i])], Stay
      PROVE  IInv'
  <2> DEFINE new == Looked(op, i, goal, rows[i])
  <2>1. /\ new \in Request /\ new.step = "looked" /\ new.op = op /\ new.id = i
        /\ new.goal = goal /\ new.was = rows[i] /\ new.cols = {} /\ new.due = {}
    BY <1>1, LookedIsRequest
  <2>2. Quiet(r, new) /\ Exists(i) /\ rows[i].state # "absent"
    BY <1>1, <1>4 DEF Quiet, Stay, IInv, TypeOK, Shown
  <2> HIDE DEF new
  <2> QED
    BY <1>4, <2>1, <2>2, LookedPreserves
<1>5. ASSUME NEW e \in EnrollmentIds, NEW op \in {"drop", "delete"}, EnrollmentFind(r, e, op)
      PROVE  IInv'
  BY <1>2, <1>4, <1>5 DEF EnrollmentFind, InTable
<1>6. ASSUME NEW m \in MemberIds, NEW role \in NewRoles, AddLookup(r, m, role) PROVE IInv'
  <2> DEFINE new == Looked("add", m, role, AbsentRow)
  <2>1. /\ new \in Request /\ new.step = "looked" /\ new.op = "add" /\ new.id = m
        /\ new.goal = role /\ new.was = AbsentRow /\ new.cols = {} /\ new.due = {}
    BY <1>2, LookedIsRequest
  <2>2. Quiet(r, new)
    BY <1>6 DEF AddLookup, Quiet, Stay, IInv, TypeOK
  <2> HIDE DEF new
  <2> QED
    BY <1>2, <2>1, <2>2, LookedPreserves DEF InTable
<1>7. ASSUME NEW m \in MemberIds, NEW role \in NewRoles, MemberFind(r, m, "role", role)
      PROVE  IInv'
  BY <1>2, <1>4, <1>7 DEF MemberFind, InTable
<1>8. ASSUME NEW m \in MemberIds, MemberFind(r, m, "remove", "none") PROVE IInv'
  BY <1>2, <1>4, <1>8 DEF MemberFind, InTable
<1>9. ASSUME NEW m \in MemberIds, RegisterToken(r, m) PROVE IInv'
  <2> DEFINE looked == Looked("register", m, "none", rows[m])
             new == [looked EXCEPT !.step = "finished"]
  <2>1. /\ looked \in Request /\ looked.op = "register" /\ looked.id = m
        /\ looked.was = rows[m] /\ looked.cols = {} /\ looked.due = {}
    <3>1. m \in Ids /\ rows[m] \in Row /\ "none" \in Roles \union {"none"}
      BY <1>1, <1>2
    <3> QED
      BY <3>1, LookedIsRequest
  <2>2. Quiet(r, new) /\ Exists(m) /\ rows[m].state # "absent"
    BY <1>1, <1>2, <1>9 DEF RegisterToken, Quiet, Stay, IInv, TypeOK, Shown
  <2> HIDE DEF looked
  <2>3. /\ new \in Request /\ new.step = "finished" /\ new.op = "register" /\ new.id = m
        /\ new.was = rows[m] /\ new.cols = {} /\ new.due = {}
    BY <2>1 DEF Request
  <2> HIDE DEF new
  <2> QED
    BY <1>2, <2>2, <2>3, LookedPreserves DEF InTable
<1>10. CASE EnrollLookup(r)
  <2>1. ASSUME NEW x \in EnrollmentIds, Shown(x),
               req' = [req EXCEPT ![r] = Looked("enroll", x, "none", rows[x])]
        PROVE  IInv'
    BY <1>2, <1>4, <1>10, <2>1 DEF EnrollLookup, InTable
  <2>2. CASE req' = [req EXCEPT ![r].step = "looked"]
    <3>1. req' = [req EXCEPT ![r] = Stepping(@, "looked", @.due, @.forget)]
      BY <1>1, <2>2 DEF Stepping, Request, IInv, TypeOK
    <3>2. /\ rows' = rows /\ tokens' = tokens /\ lock' \in [Ids -> Requests \union {None}]
          /\ req[r].step # "idle"
      BY <1>10 DEF EnrollLookup, At, Stay, IInv, TypeOK
    <3>3. /\ req[r].due \in SUBSET EnrollmentIds /\ req[r].forget \in SUBSET Users
          /\ \A e \in req[r].due : Exists(e)
      BY <1>1 DEF Request, IInv, RequestOK
    <3> QED
      BY <3>1, <3>2, <3>3, SteppingPreserves
  <2> QED
    BY <1>10, <2>1, <2>2 DEF EnrollLookup
<1> QED
  BY <1>3, <1>5, <1>6, <1>7, <1>8, <1>9, <1>10

LEMMA MergesPreserve ==
    ASSUME IInv, NEW r \in Requests,
           EnrollReactivate(r) \/ DropMerge(r) \/ DeleteMerge(r) \/ RoleMerge(r) \/ RemoveMerge(r)
    PROVE  IInv'
<1>1. req[r] \in Request /\ RequestOK(req[r]) /\ req[r].was \in Row
  BY DEF IInv, TypeOK, Request
<1>2. /\ req[r].step # "idle"
      /\ ~Creates(req[r])
  BY DEF EnrollReactivate, DropMerge, DeleteMerge, RoleMerge, RemoveMerge, At, Creates
<1>3. rows[req[r].id] \in Row /\ req[r].was.state # "absent"
  BY <1>1, <1>2 DEF RequestOK, IInv, TypeOK
<1>4. ASSUME NEW entity \in Row, entity.state # "absent", NEW stamped \in SUBSET Columns,
             Merge(r, entity, stamped)
      PROVE  IInv'
  <2> DEFINE cols == Dirty(entity, rows[req[r].id]) \union stamped
  <2>1. cols \in SUBSET Columns
    BY <1>3, DirtyIsColumns
  <2>2. req' = [req EXCEPT ![r] = Writing(req[r], "merged", entity, cols)]
    BY <1>1, <1>4 DEF Merge, Writing, Request, IInv, TypeOK
  <2>3. rows' = rows /\ tokens' = tokens /\ lock' \in [Ids -> Requests \union {None}]
    BY <1>4 DEF Merge, Stay, IInv, TypeOK
  <2> HIDE DEF cols
  <2> QED
    BY <1>2, <1>4, <2>1, <2>2, <2>3, WritingPreserves
<1>5. {} \in SUBSET Columns /\ {"reason"} \in SUBSET Columns /\ {"deleted"} \in SUBSET Columns
  BY DEF Columns
<1>6. CASE EnrollReactivate(r)
  BY <1>1, <1>4, <1>5, <1>6, RowChanges DEF EnrollReactivate
<1>7. CASE DropMerge(r)
  <2>1. "admin_cancellation" \in Reasons
    BY DEF Reasons
  <2> QED
    BY <1>1, <1>4, <1>5, <1>7, <2>1, RowChanges DEF DropMerge
<1>8. CASE DeleteMerge(r)
  BY <1>1, <1>3, <1>4, <1>5, <1>8, RowChanges DEF DeleteMerge
<1>9. CASE RoleMerge(r)
  <2>1. req[r].goal \in Roles
    BY <1>1, <1>9 DEF RequestOK, RoleMerge, At
  <2>2. "absent" \notin Roles
    BY DEF Roles
  <2> DEFINE entity == [req[r].was EXCEPT !.state = req[r].goal]
  <2>3. entity \in Row /\ entity.state # "absent"
    BY <1>1, <2>1, <2>2, RowChanges
  <2>4. Merge(r, entity, {})
    BY <1>9 DEF RoleMerge
  <2> HIDE DEF entity
  <2> QED
    BY <1>4, <1>5, <2>3, <2>4
<1>10. CASE RemoveMerge(r)
  BY <1>1, <1>3, <1>4, <1>5, <1>10, RowChanges DEF RemoveMerge
<1> QED
  BY <1>6, <1>7, <1>8, <1>9, <1>10

LEMMA FlushPreserves ==
    ASSUME IInv, NEW r \in Requests, Flush(r)
    PROVE  IInv'
<1>1. req[r] \in Request /\ RequestOK(req[r]) /\ req[r].was \in Row
  BY DEF IInv, TypeOK, Request
<1>2. CASE Insert(r)
  <2> DEFINE entity == NewRow(req[r])
  <2>1. /\ req[r].step = "looked" /\ req[r].op \in {"enroll", "add"}
        /\ req[r].was.state = "absent" /\ KeyFree(r)
    BY <1>2 DEF Insert, Inserting
  <2>2. entity \in Row /\ entity.state # "absent" /\ ~entity.deleted
    BY <1>1, <2>1, NullsAreTyped DEF NewRow, AbsentRow, Row, Roles, Statuses, RequestOK
  <2>3. req' = [req EXCEPT ![r] = Writing(req[r], "saved", entity, Columns)]
    BY <1>1, <1>2 DEF Insert, Writing, Request, IInv, TypeOK
  <2>4. rows' = rows /\ tokens' = tokens /\ lock' \in [Ids -> Requests \union {None}]
    BY <1>2 DEF Insert, Stay, IInv, TypeOK
  <2> HIDE DEF entity
  <2> QED
    BY <2>1, <2>2, <2>3, <2>4, WritingPreserves
<1>3. CASE Update(r)
  <2>1. req[r].step = "merged" /\ (Revives(r) => KeyFree(r))
    BY <1>3 DEF Update
  <2> DEFINE new == [req[r] EXCEPT !.step = "saved"]
  <2>2. /\ new \in Request /\ new.step = "saved" /\ new.op = req[r].op /\ new.id = req[r].id
        /\ new.goal = req[r].goal /\ new.was = req[r].was /\ new.entity = req[r].entity
        /\ new.cols = req[r].cols /\ new.due = req[r].due
    BY <1>1 DEF Request
  <2>3. Quiet(r, new)
    BY <1>3 DEF Update, Quiet, IInv, TypeOK
  <2> HIDE DEF new
  <2>4. RequestOK(new)
    BY <1>1, <2>1, <2>2 DEF RequestOK, Creates
  <2>5. WritesShown(new) => KeyFree(r)
    BY <2>1, <2>2 DEF WritesShown, Revives
  <2> QED
    BY <2>2, <2>3, <2>4, <2>5, QuietPreserves
<1>4. CASE Duplicate(r)
  BY <1>4, GivingUpPreserves DEF Duplicate
<1>5. CASE DropAllUpdate(r)
  <2> DEFINE due == {e \in req[r].due : IsActive(e)}
  <2>1. due \in SUBSET EnrollmentIds /\ req[r].forget \in SUBSET Users
        /\ \A e \in due : Exists(e)
    BY <1>1 DEF Request, RequestOK
  <2>2. req' = [req EXCEPT ![r] = Stepping(req[r], "finished", due, req[r].forget)]
    BY <1>1, <1>5 DEF DropAllUpdate, Stepping, Request, IInv, TypeOK
  <2>3. /\ rows' = rows /\ tokens' = tokens /\ lock' \in [Ids -> Requests \union {None}]
        /\ req[r].step = "found" /\ ~Creates(req[r])
    BY <1>5 DEF DropAllUpdate, At, Creates, IInv, TypeOK
  <2> HIDE DEF due
  <2> QED
    BY <2>1, <2>2, <2>3, SteppingPreserves
<1> QED
  BY <1>2, <1>3, <1>4, <1>5 DEF Flush

LEMMA SideStepsPreserve ==
    ASSUME IInv, NEW r \in Requests, MemberCleared(r) \/ DropAllFind(r) \/ RemoveTokens(r)
    PROVE  IInv'
<1>1. req[r] \in Request /\ RequestOK(req[r])
  BY DEF IInv, TypeOK
<1>2. /\ req[r].due \in SUBSET EnrollmentIds /\ req[r].forget \in SUBSET Users
      /\ \A e \in req[r].due : Exists(e)
  BY <1>1 DEF Request, RequestOK
<1>3. rows' = rows /\ tokens' = tokens /\ lock' \in [Ids -> Requests \union {None}]
  BY DEF MemberCleared, DropAllFind, RemoveTokens, Stay, IInv, TypeOK
<1>4. CASE MemberCleared(r)
  <2>1. req' = [req EXCEPT ![r] = Stepping(req[r], "cleared", req[r].due, req[r].forget)]
    BY <1>1, <1>4 DEF MemberCleared, Stepping, Request, IInv, TypeOK
  <2>2. req[r].step = "looked" /\ ~Creates(req[r])
    BY <1>4 DEF MemberCleared, Creates
  <2> QED
    BY <1>2, <1>3, <2>1, <2>2, SteppingPreserves
<1>5. CASE DropAllFind(r)
  <2> DEFINE due == {e \in EnrollmentIds : StudentOf[e] = req[r].id /\ IsActive(e)}
  <2>1. req' = [req EXCEPT ![r] = Stepping(req[r], "found", due, req[r].forget)]
    BY <1>1, <1>5 DEF DropAllFind, Stepping, Request, IInv, TypeOK
  <2>2. req[r].step = "saved" /\ ~Creates(req[r])
    BY <1>5 DEF DropAllFind, At, Creates
  <2>3. due \in SUBSET EnrollmentIds /\ \A e \in due : Exists(e)
    BY DEF IsActive, Shown
  <2> HIDE DEF due
  <2> QED
    BY <1>2, <1>3, <2>1, <2>2, <2>3, SteppingPreserves
<1>6. CASE RemoveTokens(r)
  <2>1. req' = [req EXCEPT ![r] = Stepping(req[r], "finished", req[r].due, Forgotten(req[r].id))]
    BY <1>1, <1>6 DEF RemoveTokens, Stepping, Request, IInv, TypeOK
  <2>2. req[r].step = "saved" /\ ~Creates(req[r])
    BY <1>6 DEF RemoveTokens, At, Creates
  <2>3. Forgotten(req[r].id) \in SUBSET Users
    BY DEF Forgotten, IInv, TypeOK
  <2> QED
    BY <1>2, <1>3, <2>1, <2>2, <2>3, SteppingPreserves
<1> QED
  BY <1>4, <1>5, <1>6

-----------------------------------------------------------------------------
(* The commit *)

LEMMA CommittedRows ==
    ASSUME IInv, NEW r \in Requests, Commit(r)
    PROVE  /\ req[r].id \in Ids /\ req[r].step # "idle"
           /\ \A i \in Ids :
                /\ rows'[i] \in Row
                /\ Exists(i) => Exists(i)'
                /\ Shown(i)' => Shown(i) \/ (i = req[r].id /\ WritesShown(req[r]))
                /\ i \notin {req[r].id} \union req[r].due => rows'[i] = rows[i]
                /\ i \in req[r].due \ {req[r].id} => rows'[i] = Dropped(rows[i], "role_change")
           /\ \A c \in Columns :
                rows'[req[r].id][c] = IF c \in req[r].cols THEN req[r].entity[c]
                                      ELSE rows[req[r].id][c]
           /\ rows'[req[r].id].state # "absent"
<1>1. /\ req[r] \in Request /\ RequestOK(req[r]) /\ req[r].step \in {"saved", "finished"}
      /\ \A i \in Ids : rows[i] \in Row
  BY DEF IInv, TypeOK, Commit, ReadyToCommit, At
<1>2. req[r].id \in Ids /\ req[r].entity \in Row
  BY <1>1 DEF RequestOK, Request
<1> DEFINE i == req[r].id
           row == Overwrite(rows[i], req[r].entity, req[r].cols)
<1>3. /\ row \in Row
      /\ \A c \in Columns : row[c] = IF c \in req[r].cols THEN req[r].entity[c] ELSE rows[i][c]
  BY <1>1, <1>2, OverwriteIsRow
<1>4. \A j \in Ids : rows'[j] = IF j = i THEN row
                                ELSE IF j \in req[r].due THEN Dropped(rows[j], "role_change")
                                ELSE rows[j]
  BY DEF Commit, Committed
<1> HIDE DEF row
<1>5. rows'[i] = row
  BY <1>2, <1>4
<1>6. row.state # "absent"
  BY <1>1, <1>3 DEF RequestOK, Exists, Columns
<1>7. ~row.deleted => Shown(i) \/ WritesShown(req[r])
  BY <1>1, <1>3 DEF RequestOK, WritesShown, Shown, Columns
<1>8. ASSUME NEW j \in Ids, j # i, j \in req[r].due
      PROVE  /\ rows'[j] = Dropped(rows[j], "role_change")
             /\ Exists(j) /\ rows'[j] \in Row /\ rows'[j].state = "dropped"
             /\ rows'[j].deleted = rows[j].deleted
  <2>1. "role_change" \in Reasons
    BY DEF Reasons
  <2>2. rows'[j] = Dropped(rows[j], "role_change") /\ rows[j] \in Row /\ Exists(j)
    BY <1>1, <1>4, <1>8 DEF RequestOK
  <2>3. /\ Dropped(rows[j], "role_change") \in Row
        /\ Dropped(rows[j], "role_change").state = "dropped"
        /\ Dropped(rows[j], "role_change").deleted = rows[j].deleted
    BY <2>1, <2>2, RowChanges
  <2> QED
    BY <2>2, <2>3
<1>9. ASSUME NEW j \in Ids
      PROVE  /\ rows'[j] \in Row
             /\ Exists(j) => Exists(j)'
             /\ Shown(j)' => Shown(j) \/ (j = i /\ WritesShown(req[r]))
  <2>1. CASE j = i
    BY <1>3, <1>5, <1>6, <1>7, <2>1 DEF Exists, Shown
  <2>2. CASE j # i /\ j \in req[r].due
    BY <1>8, <2>2 DEF Exists, Shown
  <2>3. CASE j # i /\ j \notin req[r].due
    BY <1>1, <1>4, <2>3 DEF Exists, Shown
  <2> QED
    BY <2>1, <2>2, <2>3
<1>10. \A j \in Ids :
         /\ j \notin {i} \union req[r].due => rows'[j] = rows[j]
         /\ j \in req[r].due \ {i} => rows'[j] = Dropped(rows[j], "role_change")
  BY <1>4
<1>11. rows'[i].state # "absent"
  BY <1>5, <1>6
<1> QED
  BY <1>1, <1>2, <1>3, <1>5, <1>9, <1>10, <1>11

LEMMA CommitPreserves ==
    ASSUME IInv, NEW r \in Requests, Commit(r)
    PROVE  IInv'
<1>1. /\ req' = [req EXCEPT ![r] = IdleRequest] /\ lock' = Release(r)
      /\ req[r] \in Request
  BY DEF Commit, IInv, TypeOK
<1>2. \A s \in Requests : req'[s] = IF s = r THEN IdleRequest ELSE req[s]
  BY <1>1 DEF IInv, TypeOK
<1>3. TypeOK'
  <2>1. rows' \in [Ids -> Row]
    BY CommittedRows DEF Commit, Committed
  <2>2. tokens' \subseteq Users
    <3>1. CASE req[r].op = "register"
      <4>1. req[r].id \in MemberIds
        BY <3>1 DEF IInv, RequestOK, InTable
      <4> QED
        BY <3>1, <4>1 DEF Commit, IInv, TypeOK, Users
    <3>2. CASE req[r].op # "register"
      BY <3>2 DEF Commit, IInv, TypeOK
    <3> QED
      BY <3>1, <3>2
  <2>3. lock' \in [Ids -> Requests \union {None}] /\ req' \in [Requests -> Request]
    BY <1>1, NullsAreTyped, ReleaseIsTyped DEF IInv, TypeOK
  <2> QED
    BY <2>1, <2>2, <2>3 DEF TypeOK
<1>4. RequestOK(IdleRequest)'
  BY DEF RequestOK, InTable, IdleRequest, Creates, AbsentRow
<1>5. ASSUME NEW s \in Requests PROVE RequestOK(req[s])'
  <2>1. CASE s = r
    BY <1>2, <1>4, <2>1 DEF RequestOK
  <2>2. CASE s # r
    <3>1. RequestOK(req[s]) /\ req[s] \in Request
      BY DEF IInv, TypeOK
    <3>2. req'[s] = req[s] /\ \A e \in req[s].due : e \in Ids
      BY <1>2, <2>2, <3>1 DEF Request, Ids
    <3>3. \A i \in Ids : Exists(i) => Exists(i)'
      BY CommittedRows
    <3> QED
      BY <3>1, <3>2, <3>3 DEF RequestOK, Creates
  <2> QED
    BY <2>1, <2>2
<1>6. KeyOK'
  <2> SUFFICES ASSUME NEW s \in Requests, WritesShown(req'[s])
               PROVE  /\ Rivals(s)' = {}
                      /\ \A q \in Requests \ {s} :
                           ~(WritesShown(req'[q]) /\ SameKey(req'[q].id, req'[s].id))
    BY DEF KeyOK
  <2>1. s # r /\ req'[s] = req[s]
    BY <1>2, NullsAreTyped
  <2>2. /\ Rivals(s) = {}
        /\ \A q \in Requests \ {s} :
             ~(WritesShown(req[q]) /\ SameKey(req[q].id, req[s].id))
    BY <2>1 DEF IInv, KeyOK
  <2>3. Rivals(s)' = {}
    BY <2>1, <2>2, CommittedRows DEF Rivals
  <2> QED
    BY <1>2, <2>1, <2>2, <2>3, NullsAreTyped
<1>7. OneShownPerKey'
  <2> SUFFICES ASSUME NEW i \in Ids, NEW j \in Ids, i # j, SameKey(i, j), Shown(i)', Shown(j)'
               PROVE  FALSE
    BY DEF OneShownPerKey
  <2>1. SameKey(j, i) /\ ~(Shown(i) /\ Shown(j))
    BY DEF SameKey, IInv, OneShownPerKey
  <2>2. \/ i = req[r].id /\ WritesShown(req[r]) /\ Shown(j)
        \/ j = req[r].id /\ WritesShown(req[r]) /\ Shown(i)
    BY <2>1, CommittedRows
  <2>3. WritesShown(req[r]) => Rivals(r) = {}
    BY DEF IInv, KeyOK
  <2> QED
    BY <2>1, <2>2, <2>3 DEF Rivals
<1> QED
  BY <1>3, <1>5, <1>6, <1>7 DEF IInv

-----------------------------------------------------------------------------
(* The invariant *)

LEMMA InitEstablishes == ASSUME Init PROVE IInv
<1>1. \A i \in Ids : rows[i] = (IF i \in Founders THEN [AbsentRow EXCEPT !.state = "admin"]
                                ELSE AbsentRow)
  BY DEF Init
<1>2. [AbsentRow EXCEPT !.state = "admin"] \in Row
  BY DEF AbsentRow, Row, Roles, Reasons
<1>3. TypeOK
  BY <1>2, NullsAreTyped DEF Init, TypeOK
<1>4. \A r \in Requests : req[r] = IdleRequest
  BY DEF Init
<1>5. RequestOK(IdleRequest)
  BY DEF RequestOK, InTable, IdleRequest, Creates, AbsentRow
<1>6. \A i \in Ids : Shown(i) => i \in Founders
  BY <1>1 DEF Shown, Exists, AbsentRow
<1>7. OneShownPerKey
  BY <1>6, IdsAssumption, FoundersAssumption DEF OneShownPerKey, SameKey
<1> QED
  BY <1>3, <1>4, <1>5, <1>7, NullsAreTyped DEF IInv, KeyOK

LEMMA StepPreserves == ASSUME IInv, [Next]_vars PROVE IInv'
<1>1. ASSUME NEW r \in Requests, RequestNext(r) PROVE IInv'
  <2>1. CASE EnrollRefused(r) \/ DropRefused(r) \/ MemberRefused(r) \/ Abort(r)
    BY <2>1, GivingUpPreserves DEF EnrollRefused, DropRefused, MemberRefused
  <2>2. CASE Commit(r)
    BY <2>2, CommitPreserves
  <2> QED
    BY <1>1, <2>1, <2>2, ReadsPreserve, MergesPreserve, FlushPreserves, SideStepsPreserve
       DEF RequestNext, Step
<1>2. CASE UNCHANGED vars
  BY <1>2 DEF vars, IInv, TypeOK, RequestOK, Creates, KeyOK, WritesShown, Rivals, Exists, Shown,
              OneShownPerKey
<1> QED
  BY <1>1, <1>2 DEF Next

(* IInv holds in every reachable state of every instance. *)
THEOREM Invariance == Spec => []IInv
<1>1. Init => IInv
  BY InitEstablishes
<1>2. IInv /\ [Next]_vars => IInv'
  BY StepPreserves
<1> QED
  BY <1>1, <1>2, PTL DEF Spec

(* Every variable keeps its type. *)
THEOREM TypeCorrect == Spec => []TypeOK
<1>1. IInv => TypeOK
  BY DEF IInv
<1> QED
  BY <1>1, Invariance, PTL

(* One enrollment per student and class, and one membership per user, are
   visible at any time, however many requests enroll, drop, delete, add and
   remove, and whatever a stale save writes back. *)
THEOREM ShownOncePerKey == Spec => []OneShownPerKey
<1>1. IInv => OneShownPerKey
  BY DEF IInv
<1> QED
  BY <1>1, Invariance, PTL

-----------------------------------------------------------------------------
(* Who is let through to confirm *)

(* A deleted row is left that the context of a confirmation may show in the
   place of enrollment e: an earlier enrollment of the same member and class,
   or an earlier membership of the same user. *)
Buried(e) ==
    \E i \in Ids : /\ SameKey(i, e) \/ SameKey(i, StudentOf[e])
                   /\ Exists(i) /\ rows[i].deleted

(* A membership or an enrollment that is not deleted is alone with its key
   among the rows that are not deleted. *)
LEMMA OneOfTheKey ==
    ASSUME OneShownPerKey, NEW i \in Ids, NEW j \in Ids, SameKey(i, j), Shown(i), Shown(j)
    PROVE  i = j
BY DEF OneShownPerKey

(* With nothing buried the context has one row, the right one; with something
   buried it has a wrong one. *)
LEMMA ContextShowsTheBuried ==
    ASSUME TypeOK, OneShownPerKey, NEW e \in EnrollmentIds, Admits(StudentOf[e], e)
    PROVE  (\A row \in Context(UserOf[StudentOf[e]], ClassOf[e]) : Admits(row[1], row[2]))
             <=> ~Buried(e)
<1> DEFINE m == StudentOf[e]
           mine(n) == {x \in EnrollmentIds : Exists(x) /\ StudentOf[x] = n /\ ClassOf[x] = ClassOf[e]}
           context == Context(UserOf[m], ClassOf[e])
<1>1. m \in MemberIds /\ m \in Ids /\ e \in Ids
  BY IdsAssumption DEF Ids
<1>2. Shown(m) /\ Shown(e) /\ e # None /\ IsActive(e)
  BY DEF Admits, IsActive
<1>3. e \in mine(m)
  BY <1>2 DEF Shown
<1>4. ASSUME ~Buried(e), NEW n \in MemberIds, Exists(n), UserOf[n] = UserOf[m]
      PROVE  n = m
  <2>1. n \in Ids /\ SameKey(n, m)
    BY <1>1, <1>4 DEF SameKey, Ids
  <2>2. ~rows[n].deleted
    BY <1>4, <2>1 DEF Buried
  <2> QED
    BY <1>1, <1>2, <1>4, <2>1, <2>2, OneOfTheKey DEF Shown
<1>5. ASSUME ~Buried(e), NEW x \in mine(m)
      PROVE  x = e
  <2>1. x \in Ids /\ SameKey(x, e)
    BY DEF SameKey, Ids
  <2>2. ~rows[x].deleted
    BY <1>5, <2>1 DEF Buried
  <2> QED
    BY <1>1, <1>2, <2>1, <2>2, OneOfTheKey DEF Shown
<1>6. ASSUME ~Buried(e), NEW row \in context
      PROVE  Admits(row[1], row[2])
  <2>1. PICK n \in MemberIds : /\ Exists(n) /\ UserOf[n] = UserOf[m]
                               /\ row \in {<<n, x>> : x \in IF mine(n) = {} THEN {None} ELSE mine(n)}
    BY <1>6 DEF Context
  <2>2. n = m
    BY <1>4, <1>6, <2>1
  <2>3. PICK x \in mine(m) : row = <<m, x>>
    BY <1>3, <2>1, <2>2
  <2>4. x = e
    BY <1>5, <1>6
  <2> QED
    BY <2>3, <2>4
<1>7. ASSUME Buried(e)
      PROVE  \E row \in context : ~Admits(row[1], row[2])
  <2>1. PICK i \in Ids : /\ SameKey(i, e) \/ SameKey(i, m)
                         /\ Exists(i) /\ rows[i].deleted
    BY <1>7 DEF Buried
  <2>2. CASE SameKey(i, e)
    <3>1. i \in mine(m)
      BY <1>1, <2>1, <2>2, IdsAssumption DEF SameKey
    <3>2. <<m, i>> \in context
      BY <1>1, <1>2, <3>1 DEF Context, Shown
    <3>3. ~IsActive(i)
      BY <2>1 DEF IsActive, Shown
    <3> QED
      BY <3>2, <3>3 DEF Admits
  <2>3. CASE SameKey(i, m)
    <3>1. i \in MemberIds /\ UserOf[i] = UserOf[m]
      BY <1>1, <2>1, <2>3, IdsAssumption DEF SameKey
    <3>2. PICK x \in IF mine(i) = {} THEN {None} ELSE mine(i) : TRUE
      OBVIOUS
    <3>3. <<i, x>> \in context
      BY <2>1, <3>1, <3>2 DEF Context
    <3>4. ~Shown(i)
      BY <2>1 DEF Shown
    <3> QED
      BY <3>3, <3>4 DEF Admits
  <2> QED
    BY <2>1, <2>2, <2>3
<1> QED
  BY <1>6, <1>7

(* EntitledIsAdmitted fails for what is left of deleted rows and for nothing
   else: in every state it holds exactly if no student who is entitled to
   confirm has an earlier enrollment in the class, or an earlier membership,
   that was deleted. *)
THEOREM OnlyTheBuriedKeepOut ==
    Spec => [](EntitledIsAdmitted
                 <=> \A e \in EnrollmentIds : Admits(StudentOf[e], e) => ~Buried(e))
<1>1. IInv => (EntitledIsAdmitted
                 <=> \A e \in EnrollmentIds : Admits(StudentOf[e], e) => ~Buried(e))
  BY ContextShowsTheBuried DEF IInv, EntitledIsAdmitted
<1> QED
  BY <1>1, Invariance, PTL

-----------------------------------------------------------------------------
(* Who waits for whom *)

(* Request r waits for q: for the row q has updated, for the key q is about to
   take or to give up, or for an enrollment a change of role has to drop. *)
WaitsForRow(r, q) ==
    req[r].step = "merged" /\ req[r].cols # {} /\ lock[req[r].id] = q
WaitsForKey(r, q) ==
    /\ Inserting(r) \/ (req[r].step = "merged" /\ Revives(r))
    /\ \/ \E i \in Rivals(r) : lock[i] = q
       \/ WritesShown(req[q]) /\ SameKey(req[q].id, req[r].id)
WaitsForEnrollment(r, q) ==
    At(r, "found", "role") /\ \E e \in req[r].due : lock[e] = q
WaitsFor(r, q) == q # r /\ (WaitsForRow(r, q) \/ WaitsForKey(r, q) \/ WaitsForEnrollment(r, q))

(* The writes that wait find their rows and keys free, or taken for good. *)
MayGoOn(r) ==
    /\ Inserting(r) => KeyFree(r) \/ KeyTaken(r)
    /\ req[r].step = "merged" =>
         \/ (req[r].cols = {} \/ lock[req[r].id] = None) /\ (Revives(r) => KeyFree(r))
         \/ Revives(r) /\ KeyTaken(r)
    /\ At(r, "found", "role") => \A e \in req[r].due : lock[e] = None

(* A request that cannot go on waits for another, which is past its own first
   write; and whoever that one waits for is ready to commit.  No circle has
   room in two steps. *)
ChainsEnd ==
    /\ \A r \in Requests : MayGoOn(r) \/ \E q \in Requests : WaitsFor(r, q)
    /\ \A r, q \in Requests : WaitsFor(r, q) =>
         /\ req[q].step \in {"saved", "found", "finished"}
         /\ \A p \in Requests : WaitsFor(q, p) => ReadyToCommit(p)

(* A row is held by a request that has written it: its own row, or one that a
   change of role has dropped. *)
Wrote(q) == q.step \in {"saved", "found", "finished"}
LockInv ==
    /\ \A q \in Requests : req[q].step = "found" => req[q].op = "role"
    /\ \A i \in Ids, q \in Requests : lock[i] = q =>
         Wrote(req[q]) /\ (i = req[q].id \/ At(q, "finished", "role"))

LEMMA LockQuiet ==
    ASSUME TypeOK, LockInv, NEW r \in Requests, NEW new,
           req' = [req EXCEPT ![r] = new], lock' = lock,
           new.step = "found" => new.op = "role",
           \/ ~Wrote(req[r])
           \/ Wrote(new) /\ new.id = req[r].id /\ req[r].step # "finished"
    PROVE  LockInv'
<1>1. \A s \in Requests : req'[s] = IF s = r THEN new ELSE req[s]
  BY DEF TypeOK
<1>2. ASSUME NEW s \in Requests, req'[s].step = "found" PROVE req'[s].op = "role"
  BY <1>1, <1>2 DEF LockInv
<1>3. ASSUME NEW i \in Ids, NEW s \in Requests, lock[i] = s
      PROVE  Wrote(req'[s]) /\ (i = req'[s].id \/ (req'[s].step = "finished" /\ req'[s].op = "role"))
  <2>1. Wrote(req[s]) /\ (i = req[s].id \/ At(s, "finished", "role"))
    BY <1>3 DEF LockInv
  <2> QED
    BY <1>1, <2>1 DEF At
<1> QED
  BY <1>2, <1>3 DEF LockInv, At

LEMMA LockInitially == ASSUME Init PROVE LockInv
BY IdsAssumption DEF Init, LockInv, IdleRequest

(* A request that ends gives up what it holds. *)
LEMMA LockReleased ==
    ASSUME TypeOK, LockInv, NEW r \in Requests,
           req' = [req EXCEPT ![r] = IdleRequest], lock' = Release(r)
    PROVE  LockInv'
<1>1. /\ \A s \in Requests : req'[s] = IF s = r THEN IdleRequest ELSE req[s]
      /\ \A i \in Ids : lock'[i] = IF lock[i] = r THEN None ELSE lock[i]
  BY DEF TypeOK, Release
<1>2. None \notin Requests /\ IdleRequest.step = "idle"
  BY IdsAssumption DEF IdleRequest
<1> QED
  BY <1>1, <1>2 DEF LockInv, At

(* A request that takes rows. *)
LEMMA LockTaken ==
    ASSUME TypeOK, LockInv, NEW r \in Requests, NEW new, NEW taken,
           req' = [req EXCEPT ![r] = new],
           \A i \in Ids : lock'[i] = IF i \in taken THEN r ELSE lock[i],
           Wrote(new), new.step # "found", new.id = req[r].id,
           (new.step = "finished" /\ new.op = "role") \/ taken \subseteq {new.id},
           Wrote(req[r]) => new.step = "finished" /\ new.op = "role"
    PROVE  LockInv'
<1>1. \A s \in Requests : req'[s] = IF s = r THEN new ELSE req[s]
  BY DEF TypeOK
<1>2. ASSUME NEW s \in Requests, req'[s].step = "found" PROVE req'[s].op = "role"
  BY <1>1, <1>2 DEF LockInv
<1>3. ASSUME NEW i \in Ids, NEW s \in Requests, lock'[i] = s
      PROVE  Wrote(req'[s]) /\ (i = req'[s].id \/ (req'[s].step = "finished" /\ req'[s].op = "role"))
  <2>1. CASE s = r
    <3>1. i \in taken \/ lock[i] = r
      BY <1>3, <2>1
    <3>2. lock[i] = r => Wrote(req[r])
      BY DEF LockInv
    <3> QED
      BY <1>1, <2>1, <3>1, <3>2
  <2>2. CASE s # r
    <3>1. lock[i] = s
      BY <1>3, <2>2
    <3> QED
      BY <1>1, <2>2, <3>1 DEF LockInv, At
  <2> QED
    BY <2>1, <2>2
<1> QED
  BY <1>2, <1>3 DEF LockInv, At

LEMMA LockStep == ASSUME TypeOK, LockInv, [Next]_vars PROVE LockInv'
<1>1. CASE UNCHANGED vars
  BY <1>1 DEF vars, LockInv, At
<1>2. ASSUME NEW r \in Requests, RequestNext(r) PROVE LockInv'
  <2> USE DEF Wrote
  <2>1. req[r] \in Request /\ req \in [Requests -> Request]
    BY DEF TypeOK
  <2>2. ASSUME NEW new, new.step # "found", req' = [req EXCEPT ![r] = new],
               ~Wrote(req[r]), lock' = lock
        PROVE  LockInv'
    BY <2>2, LockQuiet
  <2>3. ASSUME Refuse(r), ~Wrote(req[r]) PROVE LockInv'
    <3>1. IdleRequest.step # "found"
      BY DEF IdleRequest
    <3> QED
      BY <2>2, <2>3, <3>1 DEF Refuse, Stay
  <2>4. ASSUME NEW entity, NEW stamped, Merge(r, entity, stamped), ~Wrote(req[r]) PROVE LockInv'
    <3> DEFINE new == [req[r] EXCEPT !.step = "merged", !.entity = entity,
                         !.cols = Dirty(entity, rows[req[r].id]) \union stamped]
    <3>1. req' = [req EXCEPT ![r] = new] /\ lock' = lock /\ new.step = "merged"
      BY <2>1, <2>4 DEF Merge, Stay, Request
    <3> HIDE DEF new
    <3> QED
      BY <2>2, <2>4, <3>1
  <2>5. ASSUME NEW op, NEW i, NEW goal, NEW seen, Stay, ~Wrote(req[r]),
               req' = [req EXCEPT ![r] = Looked(op, i, goal, seen)]
        PROVE  LockInv'
    <3>1. Looked(op, i, goal, seen).step = "looked"
      BY DEF Looked, IdleRequest
    <3> HIDE DEF Looked
    <3> QED
      BY <2>2, <2>5, <3>1 DEF Stay
  <2>6. ASSUME NEW step, step # "found", ~Wrote(req[r]), Stay, req' = [req EXCEPT ![r].step = step]
        PROVE  LockInv'
    <3> DEFINE new == [req[r] EXCEPT !.step = step]
    <3>1. new.step = step /\ req' = [req EXCEPT ![r] = new]
      BY <2>1, <2>6 DEF Request
    <3> HIDE DEF new
    <3> QED
      BY <2>2, <2>6, <3>1 DEF Stay
  <2>7. CASE \E e \in EnrollmentIds : EnrollAdmit(r, e)
    <3>1. PICK e \in EnrollmentIds : EnrollAdmit(r, e)
      BY <2>7
    <3> DEFINE new == [IdleRequest EXCEPT !.step = "admitted", !.op = "enroll", !.id = e]
    <3>2. new.step = "admitted" /\ req' = [req EXCEPT ![r] = new] /\ lock' = lock /\ ~Wrote(req[r])
      BY <3>1 DEF EnrollAdmit, Stay, IdleRequest
    <3> HIDE DEF new
    <3> QED
      BY <2>2, <3>2
  <2>8. CASE \/ \E e \in EnrollmentIds, op \in {"drop", "delete"} : EnrollmentFind(r, e, op)
             \/ \E m \in MemberIds, role \in NewRoles :
                  AddLookup(r, m, role) \/ MemberFind(r, m, "role", role)
             \/ \E m \in MemberIds : MemberFind(r, m, "remove", "none")
    BY <2>5, <2>8 DEF EnrollmentFind, AddLookup, MemberFind
  <2>9. CASE \E m \in MemberIds : RegisterToken(r, m)
    <3>1. PICK m \in MemberIds : RegisterToken(r, m)
      BY <2>9
    <3> DEFINE new == [Looked("register", m, "none", rows[m]) EXCEPT !.step = "finished"]
    <3>2. new.step = "finished" /\ req' = [req EXCEPT ![r] = new] /\ lock' = lock /\ ~Wrote(req[r])
      BY <3>1 DEF RegisterToken, Stay, Looked, IdleRequest
    <3> HIDE DEF new
    <3> QED
      BY <2>2, <3>2
  <2>10. CASE EnrollLookup(r)
    BY <2>5, <2>6, <2>10 DEF EnrollLookup, At
  <2>11. CASE EnrollRefused(r) \/ DropRefused(r) \/ MemberRefused(r) \/ Duplicate(r)
    BY <2>3, <2>11 DEF EnrollRefused, DropRefused, MemberRefused, Duplicate, Inserting, At
  <2>12. CASE EnrollReactivate(r) \/ DropMerge(r) \/ DeleteMerge(r) \/ RoleMerge(r) \/ RemoveMerge(r)
    BY <2>4, <2>12 DEF EnrollReactivate, DropMerge, DeleteMerge, RoleMerge, RemoveMerge, At
  <2>13. CASE MemberCleared(r)
    BY <2>6, <2>13 DEF MemberCleared
  <2>14. CASE Insert(r)
    <3> DEFINE new == [req[r] EXCEPT !.step = "saved", !.entity = NewRow(req[r]), !.cols = Columns]
    <3>1. req' = [req EXCEPT ![r] = new] /\ lock' = lock /\ new.step = "saved" /\ ~Wrote(req[r])
      BY <2>1, <2>14 DEF Insert, Inserting, Stay, Request
    <3> HIDE DEF new
    <3> QED
      BY <2>2, <3>1
  <2>15. CASE Update(r)
    <3> DEFINE new == [req[r] EXCEPT !.step = "saved"]
               taken == IF req[r].cols = {} THEN {} ELSE {req[r].id}
    <3>1. /\ req' = [req EXCEPT ![r] = new] /\ new.step = "saved" /\ new.id = req[r].id
          /\ ~Wrote(req[r])
      BY <2>1, <2>15 DEF Update, Request
    <3>2. \A i \in Ids : lock'[i] = IF i \in taken THEN r ELSE lock[i]
      BY <2>15 DEF Update, TypeOK
    <3>3. taken \subseteq {new.id}
      BY <3>1
    <3> HIDE DEF new, taken
    <3> QED
      BY <3>1, <3>2, <3>3, LockTaken
  <2>16. CASE DropAllFind(r)
    <3> DEFINE new == [req[r] EXCEPT !.step = "found",
                 !.due = {e \in EnrollmentIds : StudentOf[e] = req[r].id /\ IsActive(e)}]
    <3>1. /\ req' = [req EXCEPT ![r] = new] /\ lock' = lock /\ new.step = "found"
          /\ new.op = "role" /\ new.id = req[r].id /\ req[r].step = "saved"
      BY <2>1, <2>16 DEF DropAllFind, At, Stay, Request
    <3> HIDE DEF new
    <3> QED
      BY <3>1, LockQuiet
  <2>17. CASE DropAllUpdate(r)
    <3> DEFINE due == {e \in req[r].due : IsActive(e)}
               new == [req[r] EXCEPT !.step = "finished", !.due = due]
    <3>1. /\ req' = [req EXCEPT ![r] = new] /\ new.step = "finished"
          /\ new.op = "role" /\ new.id = req[r].id /\ req[r].step = "found"
      BY <2>1, <2>17 DEF DropAllUpdate, At, Request
    <3>2. \A i \in Ids : lock'[i] = IF i \in due THEN r ELSE lock[i]
      BY <2>17 DEF DropAllUpdate
    <3> HIDE DEF new, due
    <3> QED
      BY <3>1, <3>2, LockTaken
  <2>18. CASE RemoveTokens(r)
    <3> DEFINE new == [req[r] EXCEPT !.step = "finished", !.forget = Forgotten(req[r].id)]
    <3>1. /\ req' = [req EXCEPT ![r] = new] /\ lock' = lock /\ new.step = "finished"
          /\ new.id = req[r].id /\ req[r].step = "saved"
      BY <2>1, <2>18 DEF RemoveTokens, At, Stay, Request
    <3> HIDE DEF new
    <3> QED
      BY <3>1, LockQuiet
  <2>19. CASE Commit(r) \/ Abort(r)
    BY <2>19, LockReleased DEF Commit, Abort
  <2> QED
    BY <1>2, <2>7, <2>8, <2>9, <2>10, <2>11, <2>12, <2>13, <2>14, <2>15, <2>16, <2>17,
       <2>18, <2>19 DEF RequestNext, Step, Flush
<1> QED
  BY <1>1, <1>2 DEF Next

(* Who is waited for has written. *)
LEMMA WaitedForHasWritten ==
    ASSUME IInv, LockInv, NEW r \in Requests, NEW q \in Requests, WaitsFor(r, q)
    PROVE  Wrote(req[q])
<1>1. req[r] \in Request /\ RequestOK(req[r])
  BY DEF IInv, TypeOK
<1>2. CASE WaitsForRow(r, q)
  <2>1. req[r].id \in Ids /\ lock[req[r].id] = q
    BY <1>1, <1>2 DEF WaitsForRow, RequestOK
  <2> QED
    BY <2>1 DEF LockInv
<1>3. CASE WaitsForKey(r, q)
  <2>1. CASE \E i \in Rivals(r) : lock[i] = q
    BY <2>1 DEF Rivals, LockInv
  <2>2. CASE WritesShown(req[q])
    BY <2>2 DEF WritesShown, Wrote
  <2> QED
    BY <1>3, <2>1, <2>2 DEF WaitsForKey
<1>4. CASE WaitsForEnrollment(r, q)
  <2>1. req[r].due \subseteq Ids
    BY <1>1 DEF Request, Ids
  <2> QED
    BY <1>4, <2>1 DEF WaitsForEnrollment, LockInv
<1> QED
  BY <1>2, <1>3, <1>4 DEF WaitsFor

(* A request that has written and waits is a change of role, and whoever holds
   an enrollment has done everything but commit. *)
LEMMA ChainsAreShort ==
    ASSUME IInv, LockInv, NEW q \in Requests, NEW p \in Requests, Wrote(req[q]), WaitsFor(q, p)
    PROVE  ReadyToCommit(p)
<1>1. At(q, "found", "role") /\ \E e \in req[q].due : lock[e] = p
  BY DEF WaitsFor, WaitsForRow, WaitsForKey, WaitsForEnrollment, Inserting, Wrote
<1>2. PICK e \in req[q].due : lock[e] = p
  BY <1>1
<1>3. e \in EnrollmentIds /\ e \in Ids /\ e \notin MemberIds
  <2>1. req[q] \in Request
    BY DEF IInv, TypeOK
  <2>2. req[q].due \subseteq EnrollmentIds
    BY <2>1 DEF Request
  <2> QED
    BY <1>2, <2>2, IdsAssumption DEF Ids
<1>4. Wrote(req[p]) /\ (e = req[p].id \/ At(p, "finished", "role"))
  BY <1>2, <1>3 DEF LockInv
<1>5. CASE At(p, "finished", "role")
  BY <1>5 DEF At, ReadyToCommit
<1>6. CASE e = req[p].id
  <2>1. RequestOK(req[p]) /\ req[p] \in Request
    BY DEF IInv, TypeOK
  <2>2. InTable(req[p].op, e) /\ req[p].op # "none"
    BY <1>4, <1>6, <2>1 DEF RequestOK, Wrote
  <2>3. req[p].op \in {"enroll", "drop", "delete"}
    BY <1>3, <2>1, <2>2 DEF InTable, Request
  <2>4. req[p].step # "found"
    BY <2>3 DEF LockInv
  <2> QED
    BY <1>4, <2>3, <2>4 DEF Wrote, ReadyToCommit
<1> QED
  BY <1>4, <1>5, <1>6

(* Whoever cannot go on waits for somebody else. *)
LEMMA StuckWaits ==
    ASSUME IInv, LockInv, NEW r \in Requests, ~MayGoOn(r)
    PROVE  \E q \in Requests : WaitsFor(r, q)
<1>1. req[r] \in Request /\ RequestOK(req[r]) /\ lock \in [Ids -> Requests \union {None}]
  BY DEF IInv, TypeOK
<1>2. ASSUME NEW i \in Ids, lock[i] = r PROVE Wrote(req[r]) /\ (i = req[r].id \/ At(r, "finished", "role"))
  BY <1>2 DEF LockInv
<1>3. ASSUME Inserting(r) \/ (req[r].step = "merged" /\ Revives(r)), ~KeyFree(r), ~KeyTaken(r)
      PROVE  \E q \in Requests : WaitsFor(r, q)
  <2>1. ~Wrote(req[r])
    BY <1>3 DEF Inserting, Wrote
  <2>2. CASE Rivals(r) # {}
    <3>1. PICK i \in Rivals(r) : TRUE
      BY <2>2
    <3>2. i \in Ids /\ lock[i] \in Requests /\ lock[i] # r
      BY <1>1, <1>2, <1>3, <2>1, <3>1 DEF Rivals, KeyTaken
    <3> QED
      BY <1>3, <3>1, <3>2 DEF WaitsFor, WaitsForKey
  <2>3. CASE Rivals(r) = {}
    <3>1. PICK q \in Requests \ {r} : WritesShown(req[q]) /\ SameKey(req[q].id, req[r].id)
      BY <1>3, <2>3 DEF KeyFree
    <3> QED
      BY <1>3, <3>1 DEF WaitsFor, WaitsForKey
  <2> QED
    BY <2>2, <2>3
<1>4. CASE Inserting(r) /\ ~(KeyFree(r) \/ KeyTaken(r))
  BY <1>3, <1>4
<1>5. CASE /\ req[r].step = "merged"
           /\ ~((req[r].cols = {} \/ lock[req[r].id] = None) /\ (Revives(r) => KeyFree(r)))
           /\ ~(Revives(r) /\ KeyTaken(r))
  <2>1. CASE req[r].cols # {} /\ lock[req[r].id] # None
    <3>1. req[r].id \in Ids
      BY <1>1, <1>5 DEF RequestOK
    <3>2. lock[req[r].id] \in Requests /\ lock[req[r].id] # r
      BY <1>1, <1>2, <1>5, <2>1, <3>1 DEF Wrote
    <3> QED
      BY <1>5, <2>1, <3>2 DEF WaitsFor, WaitsForRow
  <2>2. CASE Revives(r) /\ ~KeyFree(r)
    BY <1>3, <1>5, <2>2
  <2> QED
    BY <1>5, <2>1, <2>2
<1>6. CASE At(r, "found", "role") /\ \E e \in req[r].due : lock[e] # None
  <2>1. PICK e \in req[r].due : lock[e] # None
    BY <1>6
  <2>2. e \in Ids /\ e \notin MemberIds
    BY <1>1, IdsAssumption DEF Request, Ids
  <2>3. req[r].id \in MemberIds
    BY <1>1, <1>6 DEF RequestOK, InTable, At
  <2>4. lock[e] \in Requests /\ lock[e] # r
    BY <1>1, <1>2, <1>6, <2>1, <2>2, <2>3 DEF At
  <2> QED
    BY <1>6, <2>1, <2>4 DEF WaitsFor, WaitsForEnrollment
<1> QED
  BY <1>4, <1>5, <1>6 DEF MayGoOn

(* No request waits in a circle, however many of them enroll, drop, delete,
   add, remove and change roles at the same time: a change of role, which holds
   its member while it waits for enrollments, waits only for requests that
   have nothing left but their commit. *)
THEOREM NoCircleOfWaiting == Spec => []ChainsEnd
<1>1. Init => LockInv
  BY LockInitially
<1>2. IInv /\ LockInv /\ [Next]_vars => LockInv'
  BY LockStep DEF IInv
<1>3. IInv /\ LockInv => ChainsEnd
  BY WaitedForHasWritten, ChainsAreShort, StuckWaits DEF ChainsEnd, Wrote
<1> QED
  BY <1>1, <1>2, <1>3, Invariance, PTL DEF Spec

-----------------------------------------------------------------------------
(* One request at a time *)

OneRequest == \A q, r \in Requests : q = r

ActiveOf(m) == {e \in EnrollmentIds : StudentOf[e] = m /\ IsActive(e)}

(* What the only request has read is still so, and it writes no more than the
   columns its operation is about. *)
Current(q) ==
    /\ q.op = "enroll" => rows[StudentOf[q.id]].state = "aluno"
    /\ q.op = "add" => ~Exists(q.id)
    /\ q.op \in {"drop", "delete", "role", "remove", "register"} =>
         Shown(q.id) /\ q.was = rows[q.id]
    /\ q.op \in {"drop", "delete"} =>
         /\ "state" \in q.cols => q.entity.state # "active"
         /\ "deleted" \in q.cols => q.entity.deleted
    /\ q.op \in {"role", "remove"} /\ q.step # "looked" /\ q.was.state = "admin" =>
         \E n \in Admins : n # q.id
    /\ q.op = "role" => q.cols \subseteq {"state"}
    /\ q.op = "role" /\ q.step \in {"found", "finished"} => q.due = ActiveOf(q.id)
    /\ q.op = "remove" => "state" \notin q.cols
    /\ q.op = "remove" /\ q.step = "finished" => q.forget = Forgotten(q.id)
    /\ q.op = "register" => q.cols = {}

(* A device is known of members only. *)
TokensHaveMembers ==
    \A u \in tokens \ Elsewhere : \E m \in MemberIds : UserOf[m] = u /\ Shown(m)

SerialInv ==
    /\ \A r \in Requests : Current(req[r])
    /\ ActiveIsStudent
    /\ AdminRemains
    /\ TokensHaveMembers

LEMMA SerialQuiet ==
    ASSUME OneRequest, IInv, SerialInv, NEW r \in Requests, NEW new,
           req' = [req EXCEPT ![r] = new], rows' = rows, tokens' = tokens, Current(new)
    PROVE  SerialInv'
<1>1. \A s \in Requests : req'[s] = new
  BY DEF OneRequest, IInv, TypeOK
<1>2. \A s \in Requests : Current(req[s])'
  <2>1. /\ \A i : (Exists(i)' <=> Exists(i)) /\ (Shown(i)' <=> Shown(i))
                 /\ (IsActive(i)' <=> IsActive(i))
        /\ Admins' = Admins
    BY DEF Exists, Shown, IsActive, Admins
  <2>2. \A m : ActiveOf(m)' = ActiveOf(m) /\ Forgotten(m)' = Forgotten(m)
    BY <2>1 DEF ActiveOf, Forgotten
  <2>3. Current(new)'
    BY <2>1, <2>2 DEF Current
  <2> QED
    BY <1>1, <2>3
<1> QED
  BY <1>2 DEF SerialInv, ActiveIsStudent, AdminRemains, TokensHaveMembers, Admins, Exists, Shown,
              IsActive

LEMMA CurrentReads ==
    ASSUME OneRequest, IInv, SerialInv, NEW r \in Requests,
           \/ \E e \in EnrollmentIds : EnrollAdmit(r, e)
           \/ \E e \in EnrollmentIds, op \in {"drop", "delete"} : EnrollmentFind(r, e, op)
           \/ \E m \in MemberIds, role \in NewRoles :
                AddLookup(r, m, role) \/ MemberFind(r, m, "role", role)
           \/ \E m \in MemberIds : MemberFind(r, m, "remove", "none") \/ RegisterToken(r, m)
           \/ EnrollLookup(r)
    PROVE  SerialInv'
<1>1. /\ \A i \in Ids : rows[i] \in Row /\ (Exists(i) <=> rows[i].state # "absent")
      /\ req[r] \in Request
  BY DEF IInv, TypeOK, Exists
<1>2. /\ EnrollmentIds \subseteq Ids /\ MemberIds \subseteq Ids /\ NewRoles \subseteq Roles
      /\ AbsentRow \in Row
  BY FoundersAssumption, NullsAreTyped DEF Ids
<1>3. ASSUME NEW e \in EnrollmentIds, EnrollAdmit(r, e) PROVE SerialInv'
  <2> DEFINE new == [IdleRequest EXCEPT !.step = "admitted", !.op = "enroll", !.id = e]
  <2>1. new.op = "enroll" /\ new.id = e
    BY DEF IdleRequest
  <2>2. /\ req' = [req EXCEPT ![r] = new] /\ rows' = rows /\ tokens' = tokens
        /\ rows[StudentOf[e]].state = "aluno"
    BY <1>3 DEF EnrollAdmit, Stay
  <2> HIDE DEF new
  <2>3. Current(new)
    BY <2>1, <2>2 DEF Current
  <2> QED
    BY <2>2, <2>3, SerialQuiet
<1>4. ASSUME NEW i \in Ids, Shown(i), NEW goal \in Roles \union {"none"},
             NEW op \in {"drop", "delete", "role", "remove"},
             req' = [req EXCEPT ![r] = Looked(op, i, goal, rows[i])], Stay
      PROVE  SerialInv'
  <2> DEFINE new == Looked(op, i, goal, rows[i])
  <2>1. /\ new.step = "looked" /\ new.op = op /\ new.id = i
        /\ new.was = rows[i] /\ new.cols = {}
    BY <1>1, LookedIsRequest
  <2>2. req' = [req EXCEPT ![r] = new] /\ rows' = rows /\ tokens' = tokens
    BY <1>4 DEF Stay
  <2> HIDE DEF new
  <2>3. Current(new)
    BY <1>4, <2>1 DEF Current
  <2> QED
    BY <2>2, <2>3, SerialQuiet
<1>5. ASSUME NEW e \in EnrollmentIds, NEW op \in {"drop", "delete"}, EnrollmentFind(r, e, op)
      PROVE  SerialInv'
  BY <1>2, <1>4, <1>5 DEF EnrollmentFind
<1>6. ASSUME NEW m \in MemberIds, NEW role \in NewRoles, AddLookup(r, m, role) PROVE SerialInv'
  <2> DEFINE new == Looked("add", m, role, AbsentRow)
  <2>1. new.op = "add" /\ new.id = m
    BY <1>2, LookedIsRequest
  <2>2. req' = [req EXCEPT ![r] = new] /\ rows' = rows /\ tokens' = tokens /\ ~Exists(m)
    BY <1>6 DEF AddLookup, Stay, Fresh
  <2> HIDE DEF new
  <2>3. Current(new)
    BY <2>1, <2>2 DEF Current
  <2> QED
    BY <2>2, <2>3, SerialQuiet
<1>7. ASSUME NEW m \in MemberIds, NEW role \in NewRoles, MemberFind(r, m, "role", role)
      PROVE  SerialInv'
  BY <1>2, <1>4, <1>7 DEF MemberFind
<1>8. ASSUME NEW m \in MemberIds, MemberFind(r, m, "remove", "none") PROVE SerialInv'
  BY <1>2, <1>4, <1>8 DEF MemberFind
<1>9. ASSUME NEW m \in MemberIds, RegisterToken(r, m) PROVE SerialInv'
  <2> DEFINE looked == Looked("register", m, "none", rows[m])
             new == [looked EXCEPT !.step = "finished"]
  <2>1. /\ looked \in Request /\ looked.op = "register" /\ looked.id = m
        /\ looked.was = rows[m] /\ looked.cols = {}
    <3>1. m \in Ids /\ rows[m] \in Row /\ "none" \in Roles \union {"none"}
      BY <1>1, <1>2
    <3> QED
      BY <3>1, LookedIsRequest
  <2>2. req' = [req EXCEPT ![r] = new] /\ rows' = rows /\ tokens' = tokens /\ Shown(m)
    BY <1>9 DEF RegisterToken, Stay
  <2> HIDE DEF looked
  <2>3. new.op = "register" /\ new.id = m /\ new.was = rows[m] /\ new.cols = {}
    BY <2>1 DEF Request
  <2> HIDE DEF new
  <2>4. Current(new)
    BY <2>2, <2>3 DEF Current
  <2> QED
    BY <2>2, <2>4, SerialQuiet
<1>10. CASE EnrollLookup(r)
  <2>1. req[r].op = "enroll" /\ req[r].id \in EnrollmentIds /\ rows' = rows /\ tokens' = tokens
    BY <1>10 DEF EnrollLookup, At, Stay, IInv, RequestOK, InTable
  <2>2. rows[StudentOf[req[r].id]].state = "aluno"
    BY <2>1 DEF SerialInv, Current
  <2>3. ASSUME NEW x \in EnrollmentIds, SameKey(x, req[r].id),
               req' = [req EXCEPT ![r] = Looked("enroll", x, "none", rows[x])]
        PROVE  SerialInv'
    <3> DEFINE new == Looked("enroll", x, "none", rows[x])
    <3>1. new.op = "enroll" /\ new.id = x
      BY DEF Looked, IdleRequest
    <3>2. StudentOf[x] = StudentOf[req[r].id]
      BY <2>1, <2>3, IdsAssumption DEF SameKey
    <3> HIDE DEF new
    <3>3. Current(new)
      BY <2>2, <3>1, <3>2 DEF Current
    <3>4. req' = [req EXCEPT ![r] = new]
      BY <2>3 DEF new
    <3> QED
      BY <2>1, <3>3, <3>4, SerialQuiet
  <2>4. CASE req' = [req EXCEPT ![r].step = "looked"]
    <3> DEFINE new == [req[r] EXCEPT !.step = "looked"]
    <3>1. new.op = "enroll" /\ new.id = req[r].id /\ req' = [req EXCEPT ![r] = new]
      BY <1>1, <2>1, <2>4 DEF Request, IInv, TypeOK
    <3> HIDE DEF new
    <3>2. Current(new)
      BY <2>2, <3>1 DEF Current
    <3> QED
      BY <2>1, <3>1, <3>2, SerialQuiet
  <2> QED
    BY <1>10, <2>3, <2>4 DEF EnrollLookup
<1> QED
  BY <1>3, <1>5, <1>6, <1>7, <1>8, <1>9, <1>10

LEMMA CurrentMerges ==
    ASSUME OneRequest, IInv, SerialInv, NEW r \in Requests,
           EnrollReactivate(r) \/ DropMerge(r) \/ DeleteMerge(r) \/ RoleMerge(r) \/ RemoveMerge(r)
    PROVE  SerialInv'
<1>1. /\ req[r] \in Request /\ RequestOK(req[r]) /\ Current(req[r]) /\ req[r].was \in Row
      /\ rows' = rows /\ tokens' = tokens
  BY DEF IInv, TypeOK, Request, SerialInv, EnrollReactivate, DropMerge, DeleteMerge, RoleMerge,
         RemoveMerge, Merge, Stay
<1>2. /\ req[r].step \in {"looked", "cleared"} /\ ~Creates(req[r])
      /\ req[r].op \in {"role", "remove"} => req[r].step = "cleared"
  BY DEF EnrollReactivate, DropMerge, DeleteMerge, RoleMerge, RemoveMerge, At, Creates
<1>3. rows[req[r].id] \in Row
  BY <1>1, <1>2 DEF RequestOK, IInv, TypeOK
<1>4. ASSUME NEW entity \in Row, NEW stamped \in SUBSET Columns, Merge(r, entity, stamped)
      PROVE  \E cols \in SUBSET Columns :
               LET new == Writing(req[r], "merged", entity, cols) IN
               /\ req' = [req EXCEPT ![r] = new]
               /\ new.step = "merged" /\ new.op = req[r].op /\ new.id = req[r].id
               /\ new.was = req[r].was /\ new.entity = entity /\ new.cols = cols
               /\ \A c \in Columns \ stamped :
                    c \in cols => entity[c] # rows[req[r].id][c]
  <2> DEFINE cols == Dirty(entity, rows[req[r].id]) \union stamped
             new == Writing(req[r], "merged", entity, cols)
  <2>1. /\ cols \in SUBSET Columns
        /\ \A c \in Columns \ stamped : c \in cols => entity[c] # rows[req[r].id][c]
    BY <1>3, DirtyIsColumns
  <2>2. req' = [req EXCEPT ![r] = new]
    BY <1>1, <1>4 DEF Merge, Writing, Request, IInv, TypeOK
  <2> HIDE DEF cols
  <2>3. /\ new.step = "merged" /\ new.op = req[r].op /\ new.id = req[r].id
        /\ new.was = req[r].was /\ new.entity = entity /\ new.cols = cols
    BY <1>1, <2>1, WritingIsRequest
  <2> QED
    BY <2>1, <2>2, <2>3
<1>5. {} \in SUBSET Columns /\ {"reason"} \in SUBSET Columns /\ {"deleted"} \in SUBSET Columns
  BY DEF Columns
<1>6. CASE EnrollReactivate(r)
  <2>1. Reactivated(req[r].was) \in Row /\ req[r].op = "enroll"
    BY <1>1, <1>6, RowChanges DEF EnrollReactivate, At
  <2>2. PICK cols \in SUBSET Columns :
          LET new == Writing(req[r], "merged", Reactivated(req[r].was), cols) IN
          req' = [req EXCEPT ![r] = new] /\ new.op = req[r].op /\ new.id = req[r].id
    BY <1>4, <1>5, <1>6, <2>1 DEF EnrollReactivate
  <2> DEFINE new == Writing(req[r], "merged", Reactivated(req[r].was), cols)
  <2>3. req' = [req EXCEPT ![r] = new] /\ new.op = req[r].op /\ new.id = req[r].id
    BY <2>2
  <2> HIDE DEF new
  <2>4. Current(new)
    BY <1>1, <2>1, <2>3 DEF Current
  <2> QED
    BY <1>1, <2>3, <2>4, SerialQuiet
<1>7. ASSUME NEW entity \in Row, NEW stamped \in SUBSET Columns, Merge(r, entity, stamped),
             req[r].op \in {"drop", "delete", "role", "remove"},
             req[r].op \in {"drop", "delete"} =>
               /\ \/ entity.state # "active"
                  \/ entity.state = req[r].was.state /\ "state" \notin stamped
               /\ \/ entity.deleted
                  \/ entity.deleted = req[r].was.deleted /\ "deleted" \notin stamped,
             req[r].op = "role" =>
               /\ entity.reason = req[r].was.reason /\ entity.deleted = req[r].was.deleted
               /\ stamped = {},
             req[r].op = "remove" => entity.state = req[r].was.state /\ stamped = {}
      PROVE  SerialInv'
  <2>1. PICK cols \in SUBSET Columns :
          LET new == Writing(req[r], "merged", entity, cols) IN
          /\ req' = [req EXCEPT ![r] = new]
          /\ new.step = "merged" /\ new.op = req[r].op /\ new.id = req[r].id
          /\ new.was = req[r].was /\ new.entity = entity /\ new.cols = cols
          /\ \A c \in Columns \ stamped : c \in cols => entity[c] # rows[req[r].id][c]
    BY <1>4, <1>7
  <2> DEFINE new == Writing(req[r], "merged", entity, cols)
  <2>2. /\ req' = [req EXCEPT ![r] = new]
        /\ new.step = "merged" /\ new.op = req[r].op /\ new.id = req[r].id
        /\ new.was = req[r].was /\ new.entity = entity /\ new.cols = cols
        /\ \A c \in Columns \ stamped : c \in cols => entity[c] # rows[req[r].id][c]
    BY <2>1
  <2> HIDE DEF new
  <2>3. Shown(req[r].id) /\ req[r].was = rows[req[r].id]
    BY <1>1, <1>7 DEF Current
  <2>4. CASE req[r].op \in {"drop", "delete"}
    <3>1. "state" \in cols => entity.state # "active"
      BY <1>7, <2>2, <2>3, <2>4 DEF Columns
    <3>2. "deleted" \in cols => entity.deleted
      BY <1>7, <2>2, <2>3, <2>4 DEF Columns
    <3>3. Current(new)
      BY <2>2, <2>3, <2>4, <3>1, <3>2 DEF Current
    <3> QED
      BY <1>1, <2>2, <3>3, SerialQuiet
  <2>5. CASE req[r].op \in {"role", "remove"}
    <3>1. req[r].op = "role" => cols \subseteq {"state"}
      BY <1>7, <2>2, <2>3 DEF Columns
    <3>2. req[r].op = "remove" => "state" \notin cols
      BY <1>7, <2>2, <2>3 DEF Columns
    <3>3. req[r].was.state = "admin" => \E n \in Admins : n # req[r].id
      BY <1>1, <1>2, <2>5 DEF Current
    <3>4. Current(new)
      BY <2>2, <2>3, <2>5, <3>1, <3>2, <3>3 DEF Current
    <3> QED
      BY <1>1, <2>2, <3>4, SerialQuiet
  <2> QED
    BY <1>7, <2>4, <2>5
<1>8. CASE DropMerge(r)
  <2>1. "admin_cancellation" \in Reasons
    BY DEF Reasons
  <2>2. /\ Dropped(req[r].was, "admin_cancellation") \in Row
        /\ Dropped(req[r].was, "admin_cancellation").state = "dropped"
        /\ Dropped(req[r].was, "admin_cancellation").deleted = req[r].was.deleted
    BY <1>1, <2>1, RowChanges
  <2>3. PICK entity \in Row, stamped \in SUBSET Columns :
          /\ Merge(r, entity, stamped)
          /\ entity.state = "dropped"
          /\ entity.deleted = req[r].was.deleted /\ "deleted" \notin stamped
    BY <1>5, <1>8, <2>2 DEF DropMerge
  <2>4. req[r].op = "drop"
    BY <1>8 DEF DropMerge, At
  <2> QED
    BY <1>7, <2>3, <2>4
<1>9. CASE DeleteMerge(r)
  <2>1. /\ Erased(req[r].was) \in Row /\ Erased(req[r].was).deleted
        /\ Erased(req[r].was).state = req[r].was.state
    BY <1>1, RowChanges
  <2>2. PICK entity \in Row, stamped \in SUBSET Columns :
          /\ Merge(r, entity, stamped)
          /\ entity.state = req[r].was.state /\ "state" \notin stamped
          /\ entity.deleted
    BY <1>5, <1>9, <2>1 DEF DeleteMerge
  <2>3. req[r].op = "delete"
    BY <1>9 DEF DeleteMerge, At
  <2> QED
    BY <1>7, <2>2, <2>3
<1>10. CASE RoleMerge(r)
  <2> DEFINE entity == [req[r].was EXCEPT !.state = req[r].goal]
  <2>1. Merge(r, entity, {}) /\ req[r].op = "role" /\ req[r].goal \in Roles
    BY <1>1, <1>10 DEF RoleMerge, At, RequestOK
  <2>2. /\ entity \in Row /\ entity.reason = req[r].was.reason
        /\ entity.deleted = req[r].was.deleted
    BY <1>1, <2>1 DEF Row
  <2> HIDE DEF entity
  <2> QED
    BY <1>5, <1>7, <2>1, <2>2
<1>11. CASE RemoveMerge(r)
  <2> DEFINE entity == Erased(req[r].was)
  <2>1. entity \in Row /\ entity.state = req[r].was.state
    BY <1>1, RowChanges
  <2>2. Merge(r, entity, {}) /\ req[r].op = "remove"
    BY <1>11 DEF RemoveMerge, At
  <2> HIDE DEF entity
  <2> QED
    BY <1>5, <1>7, <2>1, <2>2
<1> QED
  BY <1>6, <1>8, <1>9, <1>10, <1>11

LEMMA CurrentFlush ==
    ASSUME OneRequest, IInv, SerialInv, NEW r \in Requests, Insert(r) \/ Update(r)
    PROVE  SerialInv'
<1>1. req[r] \in Request /\ RequestOK(req[r]) /\ Current(req[r])
  BY DEF IInv, TypeOK, SerialInv
<1>2. rows' = rows /\ tokens' = tokens
  BY DEF Insert, Update, Stay
<1>3. CASE Insert(r)
  <2> DEFINE new == Writing(req[r], "saved", NewRow(req[r]), Columns)
  <2>1. req' = [req EXCEPT ![r] = new] /\ req[r].op \in {"enroll", "add"}
    BY <1>1, <1>3 DEF Insert, Inserting, Writing, Request, IInv, TypeOK
  <2>2. new.op = req[r].op /\ new.id = req[r].id
    BY <1>1 DEF Writing, Request
  <2> HIDE DEF new
  <2>3. Current(new)
    BY <1>1, <2>1, <2>2 DEF Current
  <2> QED
    BY <1>2, <2>1, <2>3, SerialQuiet
<1>4. CASE Update(r)
  <2> DEFINE new == [req[r] EXCEPT !.step = "saved"]
  <2>1. /\ req' = [req EXCEPT ![r] = new] /\ req[r].step = "merged"
        /\ new.step = "saved" /\ new.op = req[r].op /\ new.id = req[r].id
        /\ new.was = req[r].was /\ new.entity = req[r].entity /\ new.cols = req[r].cols
    BY <1>1, <1>4 DEF Update, Request, IInv, TypeOK
  <2> HIDE DEF new
  <2>2. Current(new)
    BY <1>1, <2>1 DEF Current
  <2> QED
    BY <1>2, <2>1, <2>2, SerialQuiet
<1> QED
  BY <1>3, <1>4

(* The count over the visible administrators leaves one besides the member. *)
LEMMA AnotherAdmin ==
    ASSUME NEW i, ~(Cardinality(Admins) <= 1)
    PROVE  \E n \in Admins : n # i
<1>1. IsFiniteSet(Admins)
  BY IdsAssumption, FS_Subset DEF Admins
<1>2. ASSUME \A n \in Admins : n = i PROVE FALSE
  <2>1. Admins \in SUBSET {i}
    BY <1>2
  <2>2. IsFiniteSet({i}) /\ Cardinality({i}) = 1
    BY FS_Singleton
  <2>3. Cardinality(Admins) <= 1 /\ Cardinality(Admins) \in Nat
    BY <1>1, <2>1, <2>2, FS_Subset, FS_CardinalityType
  <2> QED
    BY <2>3
<1> QED
  BY <1>2

LEMMA CurrentSideSteps ==
    ASSUME OneRequest, IInv, SerialInv, NEW r \in Requests,
           MemberCleared(r) \/ DropAllFind(r) \/ DropAllUpdate(r) \/ RemoveTokens(r)
    PROVE  SerialInv'
<1>1. req[r] \in Request /\ RequestOK(req[r]) /\ Current(req[r])
  BY DEF IInv, TypeOK, SerialInv
<1>2. rows' = rows /\ tokens' = tokens
  BY DEF MemberCleared, DropAllFind, DropAllUpdate, RemoveTokens, Stay
<1>3. ASSUME NEW step \in {"cleared", "found", "finished"}, NEW due \in SUBSET EnrollmentIds,
             NEW forget \in SUBSET Users,
             req' = [req EXCEPT ![r] = Stepping(req[r], step, due, forget)],
             req[r].op \in {"role", "remove"},
             req[r].was.state = "admin" => \E n \in Admins : n # req[r].id,
             req[r].op = "role" /\ step \in {"found", "finished"} => due = ActiveOf(req[r].id),
             req[r].op = "remove" /\ step = "finished" => forget = Forgotten(req[r].id)
      PROVE  SerialInv'
  <2> DEFINE new == Stepping(req[r], step, due, forget)
  <2>1. /\ new.step = step /\ new.op = req[r].op /\ new.id = req[r].id
        /\ new.was = req[r].was /\ new.entity = req[r].entity /\ new.cols = req[r].cols
        /\ new.due = due /\ new.forget = forget
    BY <1>1, SteppingIsRequest
  <2>2. req' = [req EXCEPT ![r] = new]
    BY <1>3
  <2> HIDE DEF new
  <2>3. Current(new)
    BY <1>1, <1>3, <2>1 DEF Current
  <2> QED
    BY <1>2, <2>2, <2>3, SerialQuiet
<1>4. req[r].due \in SUBSET EnrollmentIds /\ req[r].forget \in SUBSET Users
  BY <1>1 DEF Request
<1>5. CASE MemberCleared(r)
  <2>1. req' = [req EXCEPT ![r] = Stepping(req[r], "cleared", req[r].due, req[r].forget)]
    BY <1>1, <1>5 DEF MemberCleared, Stepping, Request, IInv, TypeOK
  <2>2. req[r].was.state = "admin" => ~(Cardinality(Admins) <= 1)
    BY <1>5 DEF MemberCleared, LastAdmin
  <2>3. req[r].was.state = "admin" => \E n \in Admins : n # req[r].id
    BY <2>2, AnotherAdmin
  <2>4. req[r].op \in {"role", "remove"}
    BY <1>5 DEF MemberCleared
  <2> QED
    BY <1>3, <1>4, <2>1, <2>3, <2>4
<1>6. CASE DropAllFind(r)
  <2>1. req' = [req EXCEPT ![r] = Stepping(req[r], "found", ActiveOf(req[r].id), req[r].forget)]
    BY <1>1, <1>6 DEF DropAllFind, Stepping, Request, ActiveOf, IInv, TypeOK
  <2>2. req[r].op = "role" /\ req[r].step = "saved"
    BY <1>6 DEF DropAllFind, At
  <2>3. req[r].was.state = "admin" => \E n \in Admins : n # req[r].id
    BY <1>1, <2>2 DEF Current
  <2>4. ActiveOf(req[r].id) \in SUBSET EnrollmentIds
    BY DEF ActiveOf
  <2> QED
    BY <1>3, <1>4, <2>1, <2>2, <2>3, <2>4
<1>7. CASE DropAllUpdate(r)
  <2>1. req[r].op = "role" /\ req[r].step = "found"
    BY <1>7 DEF DropAllUpdate, At
  <2>2. {e \in req[r].due : IsActive(e)} = ActiveOf(req[r].id)
    BY <1>1, <2>1 DEF Current, ActiveOf
  <2>3. req' = [req EXCEPT ![r] = Stepping(req[r], "finished", ActiveOf(req[r].id), req[r].forget)]
    BY <1>1, <1>7, <2>2 DEF DropAllUpdate, Stepping, Request, IInv, TypeOK
  <2>4. req[r].was.state = "admin" => \E n \in Admins : n # req[r].id
    BY <1>1, <2>1 DEF Current
  <2>5. ActiveOf(req[r].id) \in SUBSET EnrollmentIds
    BY DEF ActiveOf
  <2> QED
    BY <1>3, <1>4, <2>1, <2>3, <2>4, <2>5
<1>8. CASE RemoveTokens(r)
  <2>1. req' = [req EXCEPT ![r] = Stepping(req[r], "finished", req[r].due, Forgotten(req[r].id))]
    BY <1>1, <1>8 DEF RemoveTokens, Stepping, Request, IInv, TypeOK
  <2>2. req[r].op = "remove" /\ req[r].step = "saved"
    BY <1>8 DEF RemoveTokens, At
  <2>3. req[r].was.state = "admin" => \E n \in Admins : n # req[r].id
    BY <1>1, <2>2 DEF Current
  <2>4. Forgotten(req[r].id) \in SUBSET Users
    BY DEF Forgotten, IInv, TypeOK
  <2> QED
    BY <1>3, <1>4, <2>1, <2>2, <2>3, <2>4
<1> QED
  BY <1>5, <1>6, <1>7, <1>8

(* What a commit leaves of the members. *)
LEMMA MembersAfter ==
    ASSUME OneRequest, IInv, SerialInv, NEW r \in Requests, Commit(r)
    PROVE  /\ req[r].step \in {"saved", "finished"} /\ Current(req[r])
           /\ \A m \in MemberIds :
                /\ m # req[r].id => rows'[m] = rows[m]
                /\ Shown(m) /\ ~(req[r].op = "remove" /\ m = req[r].id) => Shown(m)'
<1>1. /\ req[r].step \in {"saved", "finished"} /\ Current(req[r])
      /\ RequestOK(req[r]) /\ req[r] \in Request
  BY DEF Commit, ReadyToCommit, At, SerialInv, IInv, TypeOK
<1>2. ASSUME NEW m \in MemberIds, m # req[r].id PROVE rows'[m] = rows[m]
  <2>1. m \in Ids /\ m \notin req[r].due
    BY <1>1, IdsAssumption DEF Ids, Request
  <2> QED
    BY <1>2, <2>1, CommittedRows
<1>3. ASSUME NEW m \in MemberIds, m = req[r].id, Shown(m), req[r].op # "remove"
      PROVE  Shown(m)'
  <2>1. req[r].op \in {"add", "role", "register"}
    BY <1>1, <1>3, IdsAssumption DEF RequestOK, InTable, Request
  <2>2. req[r].op # "add" /\ "deleted" \notin req[r].cols
    BY <1>1, <1>3, <2>1 DEF Current, Shown
  <2>3. rows'[m].deleted = rows[m].deleted /\ rows'[m].state # "absent"
    BY <1>3, <2>2, CommittedRows DEF Columns
  <2> QED
    BY <1>3, <2>3 DEF Shown, Exists
<1>4. ASSUME NEW m \in MemberIds, m # req[r].id, Shown(m) PROVE Shown(m)'
  BY <1>2, <1>4 DEF Shown, Exists
<1> QED
  BY <1>1, <1>2, <1>3, <1>4

LEMMA ActiveAfter ==
    ASSUME OneRequest, IInv, SerialInv, NEW r \in Requests, Commit(r)
    PROVE  ActiveIsStudent'
<1> SUFFICES ASSUME NEW e \in EnrollmentIds, IsActive(e)'
             PROVE  rows'[StudentOf[e]].state = "aluno"
  BY DEF ActiveIsStudent
<1>1. /\ req[r].step \in {"saved", "finished"} /\ Current(req[r])
      /\ RequestOK(req[r]) /\ req[r] \in Request
      /\ e \in Ids /\ StudentOf[e] \in MemberIds /\ StudentOf[e] \in Ids
      /\ rows'[e].state = "active" /\ ~rows'[e].deleted
  BY MembersAfter, IdsAssumption DEF IInv, TypeOK, Ids, IsActive, Shown
<1>2. CASE e = req[r].id
  <2>1. req[r].op \in {"enroll", "drop", "delete"} /\ StudentOf[e] # req[r].id
    BY <1>1, <1>2, IdsAssumption DEF RequestOK, InTable, Request
  <2>2. rows'[StudentOf[e]] = rows[StudentOf[e]]
    BY <1>1, <2>1, MembersAfter
  <2>3. CASE req[r].op = "enroll"
    BY <1>1, <1>2, <2>2, <2>3 DEF Current
  <2>4. CASE req[r].op \in {"drop", "delete"}
    <3>1. /\ "state" \in req[r].cols => req[r].entity.state # "active"
          /\ "deleted" \in req[r].cols => req[r].entity.deleted
          /\ Shown(e)
      BY <1>1, <1>2, <2>4 DEF Current
    <3>2. rows[e].state = "active" /\ IsActive(e)
      BY <1>1, <1>2, <3>1, CommittedRows DEF Columns, IsActive
    <3> QED
      BY <2>2, <3>2 DEF SerialInv, ActiveIsStudent
  <2> QED
    BY <2>1, <2>3, <2>4
<1>3. CASE e # req[r].id
  <2>1. e \notin req[r].due
    <3>1. ASSUME e \in req[r].due PROVE FALSE
      <4>1. "role_change" \in Reasons /\ rows[e] \in Row
        BY <1>1 DEF Reasons, IInv, TypeOK
      <4>2. rows'[e] = Dropped(rows[e], "role_change")
        BY <1>1, <1>3, <3>1, CommittedRows
      <4> QED
        BY <1>1, <4>1, <4>2, RowChanges
    <3> QED
      BY <3>1
  <2>2. rows'[e] = rows[e]
    BY <1>1, <1>3, <2>1, CommittedRows
  <2>3. IsActive(e) /\ rows[StudentOf[e]].state = "aluno"
    BY <1>1, <2>2 DEF IsActive, Shown, Exists, SerialInv, ActiveIsStudent
  <2>4. CASE StudentOf[e] # req[r].id
    BY <1>1, <2>3, <2>4, MembersAfter
  <2>5. CASE StudentOf[e] = req[r].id
    <3>1. req[r].op \in {"add", "role", "remove", "register"}
      BY <1>1, <2>5, IdsAssumption DEF RequestOK, InTable, Request
    <3>2. req[r].op # "add"
      BY <1>1, <2>3, <2>5 DEF Current, Exists
    <3>3. req[r].op # "role"
      <4>1. ASSUME req[r].op = "role" PROVE FALSE
        <5>1. LeavesStudents(r)
          BY <1>1, <2>3, <2>5, <4>1 DEF LeavesStudents, Current
        <5>2. req[r].step = "finished"
          BY <4>1, <5>1 DEF Commit, ReadyToCommit
        <5>3. req[r].due = ActiveOf(req[r].id)
          BY <1>1, <4>1, <5>2 DEF Current
        <5> QED
          BY <2>1, <2>3, <2>5, <5>3 DEF ActiveOf
      <4> QED
        BY <4>1
    <3>4. "state" \notin req[r].cols
      BY <1>1, <3>1, <3>2, <3>3 DEF Current
    <3> QED
      BY <2>3, <2>5, <3>4, CommittedRows DEF Columns
  <2> QED
    BY <2>4, <2>5
<1> QED
  BY <1>2, <1>3

LEMMA AdminAfter ==
    ASSUME OneRequest, IInv, SerialInv, NEW r \in Requests, Commit(r), Founders # {}
    PROVE  Admins' # {}
<1>1. /\ req[r].step \in {"saved", "finished"} /\ Current(req[r])
      /\ RequestOK(req[r]) /\ req[r] \in Request
  BY MembersAfter DEF IInv, TypeOK
<1>2. ASSUME NEW n \in Admins, n # req[r].id PROVE n \in Admins'
  BY <1>2, MembersAfter DEF Admins
<1>3. PICK n \in Admins : TRUE
  BY DEF SerialInv, AdminRemains
<1>4. CASE n # req[r].id
  BY <1>2, <1>4
<1>5. CASE n = req[r].id
  <2>1. n \in MemberIds /\ Shown(n) /\ rows[n].state = "admin" /\ Exists(n)
    BY DEF Admins, Shown
  <2>2. req[r].op \in {"role", "remove", "register"}
    BY <1>1, <1>5, <2>1, IdsAssumption DEF RequestOK, InTable, Request, Current
  <2>3. CASE req[r].op \in {"role", "remove"}
    <3>1. \E m \in Admins : m # req[r].id
      BY <1>1, <1>5, <2>1, <2>3 DEF Current
    <3> QED
      BY <1>2, <3>1
  <2>4. CASE req[r].op = "register"
    <3>1. rows'[n].state = "admin"
      BY <1>1, <1>5, <2>1, <2>4, CommittedRows DEF Current, Columns
    <3>2. Shown(n)'
      BY <2>1, <2>4, MembersAfter
    <3> QED
      BY <2>1, <3>1, <3>2 DEF Admins
  <2> QED
    BY <2>2, <2>3, <2>4
<1> QED
  BY <1>4, <1>5

LEMMA TokensAfter ==
    ASSUME OneRequest, IInv, SerialInv, NEW r \in Requests, Commit(r)
    PROVE  TokensHaveMembers'
<1>1. /\ req[r].step \in {"saved", "finished"} /\ Current(req[r])
      /\ RequestOK(req[r]) /\ req[r] \in Request
  BY MembersAfter DEF IInv, TypeOK
<1> SUFFICES ASSUME NEW u \in tokens', u \notin Elsewhere
             PROVE  \E m \in MemberIds : UserOf[m] = u /\ Shown(m)'
  BY DEF TokensHaveMembers
<1>2. CASE req[r].op = "register" /\ u = UserOf[req[r].id]
  <2>1. req[r].id \in MemberIds /\ Shown(req[r].id)
    BY <1>1, <1>2 DEF RequestOK, InTable, Current
  <2>2. \A m \in MemberIds : Shown(m) => Shown(m)'
    BY <1>2, MembersAfter
  <2> QED
    BY <1>2, <2>1, <2>2
<1>3. CASE u \in tokens \ req[r].forget
  <2>1. PICK m \in MemberIds : UserOf[m] = u /\ Shown(m)
    BY <1>3 DEF SerialInv, TokensHaveMembers
  <2>2. CASE ~(req[r].op = "remove" /\ m = req[r].id)
    BY <2>1, <2>2, MembersAfter
  <2>3. CASE req[r].op = "remove" /\ m = req[r].id
    <3>1. req[r].step = "finished"
      BY <2>3 DEF Commit, ReadyToCommit, At
    <3>2. req[r].forget = Forgotten(m)
      BY <1>1, <2>3, <3>1 DEF Current
    <3>3. PICK n \in MemberIds \ {m} : SameKey(m, n) /\ Shown(n)
      BY <1>3, <2>1, <3>2 DEF Forgotten
    <3>4. UserOf[n] = u
      BY <2>1, <3>3, IdsAssumption DEF SameKey
    <3> QED
      BY <2>3, <3>3, <3>4, MembersAfter
  <2> QED
    BY <2>2, <2>3
<1> QED
  BY <1>2, <1>3 DEF Commit

LEMMA SerialStep ==
    ASSUME OneRequest, IInv, SerialInv, [Next]_vars
    PROVE  SerialInv'
<1>1. ASSUME NEW r \in Requests, Refuse(r) \/ Abort(r) PROVE SerialInv'
  <2>1. req' = [req EXCEPT ![r] = IdleRequest] /\ rows' = rows /\ tokens' = tokens
    BY <1>1 DEF Refuse, Abort, Stay
  <2>2. Current(IdleRequest)
    BY DEF Current, IdleRequest
  <2> QED
    BY <2>1, <2>2, SerialQuiet
<1>2. ASSUME NEW r \in Requests, Commit(r) PROVE SerialInv'
  <2>1. \A s \in Requests : req'[s] = IdleRequest
    BY <1>2 DEF Commit, OneRequest, IInv, TypeOK
  <2>2. \A s \in Requests : Current(req[s])'
    BY <2>1 DEF Current, IdleRequest
  <2>3. AdminRemains'
    BY <1>2, AdminAfter DEF AdminRemains
  <2> QED
    BY <1>2, <2>2, <2>3, ActiveAfter, TokensAfter DEF SerialInv
<1>3. ASSUME NEW r \in Requests, RequestNext(r) PROVE SerialInv'
  <2>1. CASE EnrollRefused(r) \/ DropRefused(r) \/ MemberRefused(r) \/ Abort(r) \/ Duplicate(r)
    BY <1>1, <2>1 DEF EnrollRefused, DropRefused, MemberRefused, Duplicate
  <2>2. CASE Commit(r)
    BY <1>2, <2>2
  <2> QED
    BY <1>3, <2>1, <2>2, CurrentReads, CurrentMerges, CurrentFlush, CurrentSideSteps
       DEF RequestNext, Step, Flush
<1>4. CASE UNCHANGED vars
  <2>1. /\ \A i : (Exists(i)' <=> Exists(i)) /\ (Shown(i)' <=> Shown(i))
                 /\ (IsActive(i)' <=> IsActive(i))
        /\ Admins' = Admins
    BY <1>4 DEF vars, Exists, Shown, IsActive, Admins
  <2>2. \A m : ActiveOf(m)' = ActiveOf(m) /\ Forgotten(m)' = Forgotten(m)
    BY <1>4, <2>1 DEF vars, ActiveOf, Forgotten
  <2> QED
    BY <1>4, <2>1, <2>2 DEF vars, SerialInv, Current, ActiveIsStudent, AdminRemains,
                            TokensHaveMembers
<1> QED
  BY <1>3, <1>4 DEF Next

LEMMA SerialInit == ASSUME Init PROVE SerialInv
<1>1. \A i \in Ids : rows[i] = (IF i \in Founders THEN [AbsentRow EXCEPT !.state = "admin"]
                                ELSE AbsentRow)
  BY DEF Init
<1>2. \A r \in Requests : Current(req[r])
  BY DEF Init, Current, IdleRequest
<1>3. ActiveIsStudent
  BY <1>1 DEF ActiveIsStudent, IsActive, AbsentRow, Ids
<1>4. Founders \subseteq Admins
  BY <1>1, FoundersAssumption DEF Admins, Shown, Exists, AbsentRow, Ids
<1>5. TokensHaveMembers
  BY DEF Init, TokensHaveMembers
<1> QED
  BY <1>2, <1>3, <1>4, <1>5 DEF SerialInv, AdminRemains

(* While requests come one at a time, every one of them still sees what it
   has read when it commits. *)
THEOREM SerialInvariance ==
    ASSUME OneRequest
    PROVE  Spec => []SerialInv
<1>1. Init => SerialInv
  BY SerialInit
<1>2. IInv /\ SerialInv /\ [Next]_vars => SerialInv'
  BY SerialStep
<1> QED
  BY <1>1, <1>2, Invariance, PTL DEF Spec

(* While requests come one at a time, nobody is an active student of a class
   with a role other than aluno: a role change drops every active enrollment,
   and enrolling asks for the role. *)
THEOREM OneRequestActiveIsStudent ==
    ASSUME OneRequest
    PROVE  Spec => []ActiveIsStudent
<1>1. SerialInv => ActiveIsStudent
  BY DEF SerialInv
<1> QED
  BY <1>1, SerialInvariance, PTL

(* While requests come one at a time, the institution keeps an administrator
   through every change of role and every removal. *)
THEOREM OneRequestAdminRemains ==
    ASSUME OneRequest
    PROVE  Spec => []AdminRemains
<1>1. SerialInv => AdminRemains
  BY DEF SerialInv
<1> QED
  BY <1>1, SerialInvariance, PTL

(* While requests come one at a time, the devices told of a new call belong
   to members, of users without another institution. *)
THEOREM OneRequestToldAreMembers ==
    ASSUME OneRequest
    PROVE  Spec => []ToldAreMembers
<1>1. SerialInv => ToldAreMembers
  BY DEF SerialInv, ToldAreMembers, Told, TokensHaveMembers
<1> QED
  BY <1>1, SerialInvariance, PTL

=============================================================================
