---------------------------- MODULE Enrollments ----------------------------
(***************************************************************************)
(* The members of one institution and their enrollments in its classes.    *)
(*                                                                         *)
(* Both tables are soft-deleted: a row is never taken out, it is marked    *)
(* deleted, the queries skip it, and a unique index over the rows that are *)
(* not deleted admits one per key.  Both are saved through merge (Orm), so *)
(* one set of steps serves them.  A change of role also writes the other   *)
(* table: it drops the student's active enrollments in its transaction.    *)
(*                                                                         *)
(* Members that invites create are outside this module, like the requests  *)
(* refused on the institution or the class, which change nothing.          *)
(***************************************************************************)
EXTENDS Naturals, FiniteSets, Orm

CONSTANTS EnrollmentIds,    \* the ids uuid4() hands out to enrollments
          MemberIds,        \* ... and to members
          ClassOf,          \* the class an enrollment is for: never updated
          StudentOf,        \* the member an enrollment is for: never updated
          UserOf,           \* the user a membership is for: never updated
          Founders,         \* the members the institution starts with, admins
          Elsewhere,        \* users who belong to another institution as well
          NewRoles,         \* bound: the roles that requests ask for
          Equipped,         \* bound: users with a device to register
          Requests,         \* requests the API serves at the same time
          None              \* no id, no owner of a row

Ids == EnrollmentIds \union MemberIds
Users == {UserOf[m] : m \in MemberIds}
Roles == {"admin", "professor", "aluno", "coordenador"}

ASSUME IdsAssumption ==
    /\ EnrollmentIds \intersect MemberIds = {}
    /\ IsFiniteSet(MemberIds)
    /\ None \notin Ids \union Requests
    /\ DOMAIN ClassOf = EnrollmentIds
    /\ StudentOf \in [EnrollmentIds -> MemberIds]
    /\ DOMAIN UserOf = MemberIds
ASSUME FoundersAssumption ==
    /\ Founders \subseteq MemberIds
    /\ \A m, n \in Founders : UserOf[m] = UserOf[n] => m = n
    /\ NewRoles \subseteq Roles
    /\ Equipped \subseteq Users

VARIABLES rows,         \* tenant_members and subject_class_enrollments, committed
          tokens,       \* users with a registered device (user_fcm_tokens)
          lock,         \* lock[i]: the request whose UPDATE holds row i
          req           \* req[r]: where request r is, and what it holds

vars == <<rows, tokens, lock, req>>

-----------------------------------------------------------------------------
(* Types and null records *)

Statuses == {"active", "dropped"}
Reasons == {"none", "admin_cancellation", "role_change"}

(* state: the status of an enrollment, the role of a member. *)
Row == [state : {"absent"} \union Statuses \union Roles, reason : Reasons, deleted : BOOLEAN]
Columns == {"state", "reason", "deleted"}
AbsentRow == [state |-> "absent", reason |-> "none", deleted |-> FALSE]

Request == [step : {"idle", "admitted", "looked", "cleared", "merged", "saved",
                    "found", "finished"},
            op : {"none", "enroll", "drop", "delete", "add", "role", "remove", "register"},
            id : Ids \union {None},
            goal : Roles \union {"none"},       \* the role asked for
            was : Row,                          \* the row as it was read
            entity : Row,                       \* the row as it will be saved
            cols : SUBSET Columns,
            due : SUBSET EnrollmentIds,         \* what a role change drops
            forget : SUBSET Users]              \* whose devices a removal deletes

IdleRequest == [step |-> "idle", op |-> "none", id |-> None, goal |-> "none",
                was |-> AbsentRow, entity |-> AbsentRow, cols |-> {},
                due |-> {}, forget |-> {}]

TypeOK ==
    /\ rows \in [Ids -> Row]
    /\ tokens \subseteq Users
    /\ lock \in [Ids -> Requests \union {None}]
    /\ req \in [Requests -> Request]

Init ==
    /\ rows = [i \in Ids |-> IF i \in Founders THEN [AbsentRow EXCEPT !.state = "admin"]
                                               ELSE AbsentRow]
    /\ tokens = {}
    /\ lock = [i \in Ids |-> None]
    /\ req = [r \in Requests |-> IdleRequest]

-----------------------------------------------------------------------------
(* What the queries see *)

Exists(i) == rows[i].state # "absent"
Shown(i) == Exists(i) /\ ~rows[i].deleted

SameKey(i, j) ==
    \/ {i, j} \subseteq EnrollmentIds /\ ClassOf[i] = ClassOf[j] /\ StudentOf[i] = StudentOf[j]
    \/ {i, j} \subseteq MemberIds /\ UserOf[i] = UserOf[j]

IsActive(e) == Shown(e) /\ rows[e].state = "active"
Admins == {m \in MemberIds : Shown(m) /\ rows[m].state = "admin"}

Fresh(i) == ~Exists(i) /\ \A r \in Requests : req[r].id # i

Stay == UNCHANGED <<rows, tokens, lock>>
Refuse(r) == req' = [req EXCEPT ![r] = IdleRequest] /\ Stay

(* A request that has read row i as seen. *)
Looked(op, i, goal, seen) ==
    [IdleRequest EXCEPT !.step = "looked", !.op = op, !.id = i, !.goal = goal, !.was = seen]

(* save: merge with the row as committed now.  stamped: the columns whose
   timestamps are new in any case. *)
Merge(r, entity, stamped) ==
    /\ req' = [req EXCEPT ![r].step = "merged", ![r].entity = entity,
                          ![r].cols = Dirty(entity, rows[req[r].id]) \union stamped]
    /\ Stay

At(r, step, op) == req[r].step = step /\ req[r].op = op

-----------------------------------------------------------------------------
(* Enrolling: the member first, then the enrollments of the key *)

EnrollAdmit(r, e) ==
    /\ req[r].step = "idle"
    /\ Fresh(e)
    /\ Shown(StudentOf[e]) /\ rows[StudentOf[e]].state = "aluno"
    /\ req' = [req EXCEPT ![r] = [IdleRequest EXCEPT !.step = "admitted",
                                                     !.op = "enroll", !.id = e]]
    /\ Stay

EnrollLookup(r) ==
    /\ At(r, "admitted", "enroll")
    /\ LET same == {x \in EnrollmentIds : SameKey(x, req[r].id) /\ Shown(x)}
       IN IF same = {}
          THEN req' = [req EXCEPT ![r].step = "looked"]
          ELSE \E x \in same : req' = [req EXCEPT ![r] = Looked("enroll", x, "none", rows[x])]
    /\ Stay

EnrollRefused(r) ==
    /\ At(r, "looked", "enroll") /\ req[r].was.state = "active"
    /\ Refuse(r)

Reactivated(row) == [row EXCEPT !.state = "active", !.reason = "none"]

EnrollReactivate(r) ==
    /\ At(r, "looked", "enroll") /\ req[r].was.state = "dropped"
    /\ Merge(r, Reactivated(req[r].was), {})

-----------------------------------------------------------------------------
(* Dropping and deleting an enrollment *)

EnrollmentFind(r, e, op) ==
    /\ req[r].step = "idle"
    /\ Shown(e)
    /\ req' = [req EXCEPT ![r] = Looked(op, e, "none", rows[e])]
    /\ Stay

DropRefused(r) ==
    /\ At(r, "looked", "drop") /\ req[r].was.state = "dropped"
    /\ Refuse(r)

Dropped(row, reason) == [row EXCEPT !.state = "dropped", !.reason = reason]

DropMerge(r) ==
    /\ At(r, "looked", "drop") /\ req[r].was.state # "dropped"
    /\ Merge(r, Dropped(req[r].was, "admin_cancellation"), {"reason"})

Erased(row) == [row EXCEPT !.deleted = TRUE]

DeleteMerge(r) ==
    /\ At(r, "looked", "delete")
    /\ Merge(r, Erased(req[r].was), {"deleted"})

-----------------------------------------------------------------------------
(* Adding a member, changing a role, removing a member *)

AddLookup(r, m, role) ==
    /\ req[r].step = "idle"
    /\ Fresh(m)
    /\ ~\E n \in MemberIds : SameKey(m, n) /\ Shown(n)
    /\ req' = [req EXCEPT ![r] = Looked("add", m, role, AbsentRow)]
    /\ Stay

MemberFind(r, m, op, role) ==
    /\ req[r].step = "idle"
    /\ Shown(m)
    /\ rows[m].state # role
    /\ req' = [req EXCEPT ![r] = Looked(op, m, role, rows[m])]
    /\ Stay

(* Faulty variant: the count is compared with zero. *)
NoAdminLeft(r) == req[r].was.state = "admin" /\ Cardinality(Admins) <= 0
LastAdmin(r) == req[r].was.state = "admin" /\ Cardinality(Admins) <= 1

MemberRefused(r) ==
    /\ req[r].step = "looked" /\ req[r].op \in {"role", "remove"}
    /\ LastAdmin(r)
    /\ Refuse(r)

MemberCleared(r) ==
    /\ req[r].step = "looked" /\ req[r].op \in {"role", "remove"}
    /\ ~LastAdmin(r)
    /\ req' = [req EXCEPT ![r].step = "cleared"]
    /\ Stay

RoleMerge(r) ==
    /\ At(r, "cleared", "role")
    /\ Merge(r, [req[r].was EXCEPT !.state = req[r].goal], {})

RemoveMerge(r) ==
    /\ At(r, "cleared", "remove")
    /\ Merge(r, Erased(req[r].was), {})

-----------------------------------------------------------------------------
(* The unique indexes over the rows that are not deleted *)

WritesShown(q) ==
    /\ q.step \in {"saved", "found", "finished"}
    /\ "deleted" \in q.cols /\ ~q.entity.deleted

Rivals(r) == {i \in Ids \ {req[r].id} : SameKey(i, req[r].id) /\ Shown(i)}

(* A rival that another transaction is changing, or one it has not committed,
   is waited for. *)
KeyFree(r) ==
    /\ Rivals(r) = {}
    /\ \A q \in Requests \ {r} : ~(WritesShown(req[q]) /\ SameKey(req[q].id, req[r].id))
KeyTaken(r) == \E i \in Rivals(r) : lock[i] = None

Inserting(r) ==
    /\ req[r].step = "looked" /\ req[r].op \in {"enroll", "add"}
    /\ req[r].was.state = "absent"

(* Faulty variant: the state is what the request carries. *)
NewRowAsAsked(q) == [AbsentRow EXCEPT !.state = q.goal]
NewRow(q) ==
    [AbsentRow EXCEPT !.state = IF q.op = "add" THEN q.goal ELSE "active"]

Insert(r) ==
    /\ Inserting(r)
    /\ KeyFree(r)
    /\ req' = [req EXCEPT ![r].step = "saved", ![r].entity = NewRow(req[r]),
                          ![r].cols = Columns]
    /\ Stay

(* Faulty variant: the index is not consulted when deleted is written back. *)
NeverRevives(r) == FALSE

(* A stale entity that clears deleted again goes through the index as well. *)
Revives(r) == "deleted" \in req[r].cols /\ ~req[r].entity.deleted

(* flush: an UPDATE waits while another transaction holds the row; without a
   changed column there is none. *)
Update(r) ==
    /\ req[r].step = "merged"
    /\ req[r].cols = {} \/ lock[req[r].id] = None
    /\ Revives(r) => KeyFree(r)
    /\ lock' = IF req[r].cols = {} THEN lock ELSE [lock EXCEPT ![req[r].id] = r]
    /\ req' = [req EXCEPT ![r].step = "saved"]
    /\ UNCHANGED <<rows, tokens>>

(* IntegrityError: the request ends in a rollback. *)
Duplicate(r) ==
    /\ Inserting(r) \/ (req[r].step = "merged" /\ Revives(r))
    /\ KeyTaken(r)
    /\ Refuse(r)

-----------------------------------------------------------------------------
(* What a role change and a removal do besides *)

(* Faulty variant: only a new professor loses the enrollments. *)
BecomesProfessor(r) == req[r].goal = "professor"
LeavesStudents(r) == req[r].was.state = "aluno"

(* drop_all_active_for_member: the rows the UPDATE finds, then, once their
   holders are done, those that still match.  They are taken in one step:
   whoever holds an enrollment waits for nothing more. *)
DropAllFind(r) ==
    /\ At(r, "saved", "role") /\ LeavesStudents(r)
    /\ req' = [req EXCEPT ![r].step = "found",
                 ![r].due = {e \in EnrollmentIds : StudentOf[e] = req[r].id /\ IsActive(e)}]
    /\ Stay

DropAllUpdate(r) ==
    /\ At(r, "found", "role")
    /\ \A e \in req[r].due : lock[e] = None
    /\ LET due == {e \in req[r].due : IsActive(e)}
       IN /\ lock' = [i \in Ids |-> IF i \in due THEN r ELSE lock[i]]
          /\ req' = [req EXCEPT ![r].step = "finished", ![r].due = due]
    /\ UNCHANGED <<rows, tokens>>

(* A member registers a device. *)
RegisterToken(r, m) ==
    /\ req[r].step = "idle"
    /\ Shown(m) /\ UserOf[m] \in Equipped
    /\ req' = [req EXCEPT ![r] = [Looked("register", m, "none", rows[m])
                                  EXCEPT !.step = "finished"]]
    /\ Stay

(* Faulty variant: the devices stay. *)
NothingForgotten(m) == {}

(* The devices go with the user's last membership. *)
Forgotten(m) ==
    IF \/ UserOf[m] \in Elsewhere
       \/ \E n \in MemberIds \ {m} : SameKey(m, n) /\ Shown(n)
    THEN {} ELSE {UserOf[m]} \intersect tokens

RemoveTokens(r) ==
    /\ At(r, "saved", "remove")
    /\ req' = [req EXCEPT ![r].step = "finished", ![r].forget = Forgotten(req[r].id)]
    /\ Stay

-----------------------------------------------------------------------------
(* The end of a request *)

ReadyToCommit(r) ==
    \/ req[r].step = "finished"
    \/ req[r].step = "saved" /\ req[r].op \in {"enroll", "drop", "delete", "add"}
    \/ At(r, "saved", "role") /\ ~LeavesStudents(r)

(* Faulty variant: the locks outlive the transaction. *)
NoRelease(r) == lock
Release(r) == [i \in Ids |-> IF lock[i] = r THEN None ELSE lock[i]]

Committed(q) ==
    [i \in Ids |->
       IF i = q.id THEN Overwrite(rows[i], q.entity, q.cols)
       ELSE IF i \in q.due THEN Dropped(rows[i], "role_change")
       ELSE rows[i]]

Commit(r) ==
    /\ ReadyToCommit(r)
    /\ rows' = Committed(req[r])
    /\ tokens' = (tokens \ req[r].forget) \union
                   (IF req[r].op = "register" THEN {UserOf[req[r].id]} ELSE {})
    /\ lock' = Release(r)
    /\ req' = [req EXCEPT ![r] = IdleRequest]

(* An exception, a lost connection or a killed process: rollback. *)
Abort(r) ==
    /\ req[r].step # "idle"
    /\ lock' = Release(r)
    /\ req' = [req EXCEPT ![r] = IdleRequest]
    /\ UNCHANGED <<rows, tokens>>

-----------------------------------------------------------------------------

(* A write, with its waiting: one of them ends it. *)
Flush(r) == Insert(r) \/ Update(r) \/ Duplicate(r) \/ DropAllUpdate(r)

Step(r) ==
    \/ EnrollLookup(r) \/ EnrollRefused(r) \/ EnrollReactivate(r)
    \/ DropRefused(r) \/ DropMerge(r) \/ DeleteMerge(r)
    \/ MemberRefused(r) \/ MemberCleared(r) \/ RoleMerge(r) \/ RemoveMerge(r)
    \/ Flush(r) \/ DropAllFind(r) \/ RemoveTokens(r) \/ Commit(r)

RequestNext(r) ==
    \/ \E e \in EnrollmentIds : EnrollAdmit(r, e)
    \/ \E e \in EnrollmentIds, op \in {"drop", "delete"} : EnrollmentFind(r, e, op)
    \/ \E m \in MemberIds, role \in NewRoles :
         AddLookup(r, m, role) \/ MemberFind(r, m, "role", role)
    \/ \E m \in MemberIds : MemberFind(r, m, "remove", "none") \/ RegisterToken(r, m)
    \/ Step(r)
    \/ Abort(r)

Next == \E r \in Requests : RequestNext(r)

Spec == Init /\ [][Next]_vars

(* A request that was started runs to its end; PostgreSQL serves the waiters
   of a row or a key in order.  Nothing makes a client send a request. *)
Fairness == \A r \in Requests : WF_vars(Step(r)) /\ SF_vars(Flush(r))

FairSpec == Spec /\ Fairness

-----------------------------------------------------------------------------
(* Properties *)

(* One enrollment per student and class, and one membership per user, are
   visible at any time, although a stale save can clear deleted again and a
   new row may have taken its place. *)
OneShownPerKey ==
    \A i, j \in Ids : i # j /\ SameKey(i, j) => ~(Shown(i) /\ Shown(j))

(* Every request is answered: a role change that holds a member and waits for
   enrollments is never part of a circle. *)
Answered == \A r \in Requests : req[r].step # "idle" ~> req[r].step = "idle"

(* Nobody is an active student of a class with a role other than aluno.
   Holds while requests come one at a time. *)
ActiveIsStudent ==
    \A e \in EnrollmentIds : IsActive(e) => rows[StudentOf[e]].state = "aluno"

(* The institution keeps an administrator through every change of role and
   every removal.  Holds while requests come one at a time. *)
AdminRemains == Founders # {} => Admins # {}

(* The devices told of a new call (find_active_fcm_tokens asks for an active
   enrollment, not for a membership) belong to members: a removal leaves the
   enrollments and takes the devices.  Of users without another institution;
   holds while requests come one at a time. *)
Told(u) == u \in tokens /\ \E e \in EnrollmentIds : IsActive(e) /\ UserOf[StudentOf[e]] = u
ToldAreMembers ==
    \A u \in Users \ Elsewhere :
        Told(u) => \E m \in MemberIds : UserOf[m] = u /\ Shown(m)

(* find_confirmation_context outer-joins every membership of the user and
   every enrollment of the member, deleted ones too; first() takes any row. *)
Context(u, c) ==
    LET enrolled(m) == {e \in EnrollmentIds : Exists(e) /\ StudentOf[e] = m /\ ClassOf[e] = c}
    IN UNION {{<<m, e>> : e \in IF enrolled(m) = {} THEN {None} ELSE enrolled(m)} :
                m \in {n \in MemberIds : Exists(n) /\ UserOf[n] = u}}
Admits(m, e) == Shown(m) /\ e # None /\ IsActive(e)

(* A member with an active enrollment in the class is let through to confirm,
   whatever rows of earlier memberships and enrollments are left. *)
EntitledIsAdmitted ==
    \A e \in EnrollmentIds :
        LET m == StudentOf[e] IN
        Admits(m, e) => \A row \in Context(UserOf[m], ClassOf[e]) : Admits(row[1], row[2])

=============================================================================
