------------------------------ MODULE Invites ------------------------------
(***************************************************************************)
(* The invites of one institution: send, resend, revoke, accept.           *)
(*                                                                         *)
(* An invite is saved through merge (Orm) like every row.  Its token and   *)
(* its expires_at are always renewed together, so a token stands for both: *)
(* tokens run out, invites do not.  Acceptance is the transaction with the *)
(* most writes of the program: the membership, an enrollment per class the *)
(* invite names, and the invite itself.                                    *)
(*                                                                         *)
(* What administrators do to members and enrollments meanwhile (module     *)
(* Enrollments has its steps) happens here in one step, and, as a request  *)
(* of its own, only where a request slot is free.                          *)
(***************************************************************************)
EXTENDS Naturals, FiniteSets, Sequences, Functions, Orm

CONSTANTS InviteIds,        \* the ids uuid4() hands out
          Addresses,        \* e-mail addresses as they are typed
          UserOf,           \* the user whose address it is, in any spelling
          Exact,            \* the addresses spelled as in the user's account
          Classes,          \* class ids a request may name
          Known,            \* those of them that are rows of subject_classes
          Offers,           \* bound: the lists of classes that invites name
          InviteRoles,      \* bound: the roles that requests ask for
          Droppable,        \* bound: the classes that enrollments are dropped from
          MaxTokens,        \* bound: tokens drawn in all
          MaxJoins,         \* bound: memberships a user may go through
          Requests,         \* requests the API serves at the same time
          None              \* no id, no owner of a row

Users == {UserOf[a] : a \in Addresses}
Roles == {"admin", "professor", "aluno", "coordenador"}

ASSUME InvitesAssumption ==
    /\ None \notin InviteIds \union Requests
    /\ IsFiniteSet(InviteIds)
    /\ DOMAIN UserOf = Addresses
    /\ Exact \subseteq Addresses
    /\ Known \subseteq Classes /\ Droppable \subseteq Classes
    /\ Offers \subseteq Seq(Classes)
    /\ InviteRoles \subseteq Roles
    /\ MaxTokens \in Nat /\ MaxJoins \in Nat \ {0}
    /\ IsFiniteSet(Requests)

VARIABLES invites,      \* tenant_invites, committed
          expired,      \* the tokens whose expires_at is past for the program
          drawn,        \* how many tokens have been drawn
          mailed,       \* the tokens that send_invite_email_task was given
          members,      \* tenant_members: the role, and which membership it is
          enrolled,     \* subject_class_enrollments of each membership
          lock,         \* lock[i]: the request whose UPDATE holds invite i
          req           \* req[r]: where request r is, and what it holds

vars == <<invites, expired, drawn, mailed, members, enrolled, lock, req>>

-----------------------------------------------------------------------------
(* Types and null records *)

Tokens == 1..MaxTokens
Invite == [token : {0} \union Tokens, accepted : BOOLEAN, revoked : BOOLEAN,
           to : Addresses \union {None}, role : Roles \union {"none"},
           classes : Seq(Classes)]
AbsentInvite == [token |-> 0, accepted |-> FALSE, revoked |-> FALSE,
                 to |-> None, role |-> "none", classes |-> <<>>]
Columns == DOMAIN AbsentInvite

(* An enrollment is known by the membership it is for: a user, and which of
   the user's memberships. *)
Keys == Users \X (1..MaxJoins) \X Classes
Member == [role : Roles \union {"none"}, nth : 0..MaxJoins]

Request == [step : {"idle", "looked", "found", "joining", "marking", "merged",
                    "enrolling", "writing", "saved", "told", "broken"},
            op : {"none", "send", "resend", "revoke", "accept"},
            id : InviteIds \union {None},
            entity : Invite,                    \* the invite as it will be saved
            cols : SUBSET Columns,
            joins : BOOLEAN,                    \* it has inserted a member
            nth : 0..MaxJoins,                  \* target_member
            todo : Seq(Classes),                \* the rest of the loop
            seen : {"none", "active", "dropped"},
            wrote : SUBSET Classes]             \* enrollments it has flushed

IdleRequest == [step |-> "idle", op |-> "none", id |-> None, entity |-> AbsentInvite,
                cols |-> {}, joins |-> FALSE, nth |-> 0, todo |-> <<>>,
                seen |-> "none", wrote |-> {}]

TypeOK ==
    /\ invites \in [InviteIds -> Invite]
    /\ expired \subseteq 1..drawn
    /\ drawn \in 0..MaxTokens
    /\ mailed \subseteq 1..drawn
    /\ members \in [Users -> Member]
    /\ enrolled \in [Keys -> {"none", "active", "dropped"}]
    /\ lock \in [InviteIds -> Requests \union {None}]
    /\ req \in [Requests -> Request]

Init ==
    /\ invites = [i \in InviteIds |-> AbsentInvite]
    /\ expired = {} /\ drawn = 0 /\ mailed = {}
    /\ members = [u \in Users |-> [role |-> "none", nth |-> 0]]
    /\ enrolled = [k \in Keys |-> "none"]
    /\ lock = [i \in InviteIds |-> None]
    /\ req = [r \in Requests |-> IdleRequest]

-----------------------------------------------------------------------------
(* What the queries and the entity see *)

Exists(i) == invites[i].token # 0
IsMember(u) == members[u].role # "none"

(* Faulty variant: a revoked invite still counts as pending. *)
PendingUnlessAccepted(row) == ~row.accepted /\ row.token \notin expired
IsPending(row) == ~row.accepted /\ ~row.revoked /\ row.token \notin expired

(* find_by_email_and_tenant: expired invites are found as well. *)
Open(a) == {i \in InviteIds : /\ Exists(i) /\ invites[i].to = a
                              /\ ~invites[i].accepted /\ ~invites[i].revoked}

(* Faulty variant: the expiry is looked at first. *)
StatusExpiryFirst(row) == IF row.token \in expired THEN "expired"
                          ELSE IF row.accepted THEN "accepted"
                          ELSE IF row.revoked THEN "revoked" ELSE "pending"
(* TenantInvite.status looks at the acceptance first. *)
Status(row) == IF row.accepted THEN "accepted"
               ELSE IF row.revoked THEN "revoked"
               ELSE IF row.token \in expired THEN "expired" ELSE "pending"

(* The conditions of the list by status, and of the counts of get_metrics.  The
   entity compares now > expires_at by the clock of the program, the queries
   expires_at <= now() by that of the database: clocks may be apart, and at the
   very moment the two differ anyhow.  lapsed: the tokens of which the second holds. *)
Statuses == {"pending", "accepted", "revoked", "expired"}
Listed(status, lapsed) ==
    {i \in InviteIds : /\ Exists(i)
                       /\ LET row == invites[i]
                              open == ~row.accepted /\ ~row.revoked
                          IN CASE status = "pending" -> open /\ row.token \notin lapsed
                               [] status = "accepted" -> row.accepted
                               [] status = "revoked" -> row.revoked
                               [] status = "expired" -> open /\ row.token \in lapsed}
Counts(lapsed) == [s \in Statuses |-> Cardinality(Listed(s, lapsed))]

Stay == UNCHANGED <<invites, expired, drawn, mailed, members, enrolled, lock>>
At(r, step, op) == req[r].step = step /\ req[r].op = op
Refuse(r) ==
    /\ req' = [req EXCEPT ![r] = IdleRequest]
    /\ lock' = [i \in InviteIds |-> IF lock[i] = r THEN None ELSE lock[i]]
    /\ UNCHANGED <<invites, expired, drawn, mailed, members, enrolled>>

(* The bound on tokens: one is left for every request that will draw one. *)
TokensLeft == drawn + Cardinality({r \in Requests : req[r].step = "looked"}) < MaxTokens
DrawToken ==
    /\ drawn' = drawn + 1
    /\ UNCHANGED <<invites, expired, mailed, members, enrolled, lock>>

Found(op, i, entity) ==
    [IdleRequest EXCEPT !.step = "found", !.op = op, !.id = i, !.entity = entity]

-----------------------------------------------------------------------------
(* Send: the membership, the open invites of the address, the insert *)

(* uuid4(): an id nobody has had. *)
Unused == {i \in InviteIds : ~Exists(i) /\ \A q \in Requests : req[q].id # i}

SendAdmit(r, a, role, classes) ==
    /\ req[r].step = "idle" /\ TokensLeft
    /\ Unused # {}
    /\ ~(a \in Exact /\ IsMember(UserOf[a]))
    /\ req' = [req EXCEPT ![r] = [IdleRequest EXCEPT !.step = "looked", !.op = "send",
                 !.id = CHOOSE i \in InviteIds : i \in Unused,
                 !.entity = [AbsentInvite EXCEPT !.to = a, !.role = role, !.classes = classes]]]
    /\ Stay

(* scalar_one_or_none raises when there are two. *)
Ambiguous(a) == Cardinality(Open(a)) > 1
SendRefused(r) ==
    /\ At(r, "looked", "send")
    /\ LET a == req[r].entity.to
       IN Ambiguous(a) \/ \E i \in Open(a) : IsPending(invites[i])
    /\ Refuse(r)

SendInsert(r) ==
    /\ At(r, "looked", "send")
    /\ LET a == req[r].entity.to
       IN ~Ambiguous(a) /\ ~\E i \in Open(a) : IsPending(invites[i])
    /\ req' = [req EXCEPT ![r].step = "saved", ![r].entity.token = drawn + 1,
                          ![r].cols = Columns]
    /\ DrawToken

-----------------------------------------------------------------------------
(* Resend, revoke, and the start of an acceptance *)

(* Faulty variant: an accepted invite is renewed like the others. *)
AnyCanBeResent(row) == TRUE
CanBeResent(row) == ~row.accepted
Renewed(row) == [row EXCEPT !.token = drawn + 1, !.revoked = FALSE]

ResendFind(r, i) ==
    /\ req[r].step = "idle" /\ TokensLeft
    /\ Exists(i) /\ CanBeResent(invites[i])
    /\ req' = [req EXCEPT ![r] = Found("resend", i, Renewed(invites[i]))]
    /\ DrawToken

RevokeFind(r, i) ==
    /\ req[r].step = "idle"
    /\ Exists(i) /\ ~invites[i].accepted /\ ~invites[i].revoked
    /\ req' = [req EXCEPT ![r] = Found("revoke", i, [invites[i] EXCEPT !.revoked = TRUE])]
    /\ Stay

(* The token, its state, and that it was sent to this user. *)
AcceptFind(r, i) ==
    /\ req[r].step = "idle"
    /\ Exists(i) /\ IsPending(invites[i])
    /\ req' = [req EXCEPT ![r] = Found("accept", i, [invites[i] EXCEPT !.accepted = TRUE])]
    /\ Stay

(* The loop is for students only. *)
Enrolls(row) == IF row.role = "aluno" THEN row.classes ELSE <<>>

(* A member is kept, role and all, and the invite is saved at once. *)
AcceptMember(r) ==
    /\ At(r, "found", "accept")
    /\ LET u == UserOf[req[r].entity.to]
           now == [req[r] EXCEPT !.todo = Enrolls(req[r].entity)]
       IN req' = [req EXCEPT ![r] =
             IF IsMember(u) THEN [now EXCEPT !.step = "marking", !.nth = members[u].nth]
                            ELSE [now EXCEPT !.step = "joining"]]
    /\ Stay

-----------------------------------------------------------------------------
(* The membership: one per user that is not deleted, by a unique index *)

Inserts(q, u) == q.joins /\ UserOf[q.entity.to] = u

AcceptJoin(r) ==
    /\ req[r].step = "joining"
    /\ LET u == UserOf[req[r].entity.to] IN
       /\ ~IsMember(u)
       /\ ~\E q \in Requests : Inserts(req[q], u)
       /\ req' = [req EXCEPT ![r].step = "enrolling", ![r].joins = TRUE,
                             ![r].nth = members[u].nth + 1]
    /\ Stay

(* IntegrityError, outside any try: the request ends in a rollback. *)
AcceptDuplicate(r) ==
    /\ req[r].step = "joining"
    /\ IsMember(UserOf[req[r].entity.to])
    /\ Refuse(r)

-----------------------------------------------------------------------------
(* The enrollments, one class at a time *)

KeyOf(q) == <<UserOf[q.entity.to], q.nth, Head(q.todo)>>
SameMembership(p, q) == UserOf[p.entity.to] = UserOf[q.entity.to] /\ p.nth = q.nth

EnrollLookup(r) ==
    /\ req[r].step = "enrolling" /\ req[r].todo # <<>>
    /\ LET q == req[r]
           seen == enrolled[KeyOf(q)]
       IN req' = [req EXCEPT ![r] =
             IF seen = "active" \/ Head(q.todo) \in q.wrote THEN [q EXCEPT !.todo = Tail(q.todo)]
             ELSE [q EXCEPT !.step = "writing", !.seen = seen]]
    /\ Stay

(* An enrollment that another transaction has written is waited for. *)
Awaits(r, q) ==
    /\ q # r /\ req[r].step = "writing"
    /\ req[q].wrote # {} /\ SameMembership(req[q], req[r])
    /\ Head(req[r].todo) \in req[q].wrote

(* Faulty variant: every flush of the loop succeeds. *)
NeverFails(r) == FALSE
(* No such class, or an enrollment of this key has been committed meanwhile. *)
FlushFails(r) ==
    /\ req[r].seen = "none"
    /\ Head(req[r].todo) \notin Known \/ enrolled[KeyOf(req[r])] # "none"

EnrollWrite(r) ==
    /\ req[r].step = "writing"
    /\ ~\E q \in Requests : Awaits(r, q)
    /\ ~FlushFails(r)
    /\ req' = [req EXCEPT ![r].step = "enrolling", ![r].todo = Tail(@),
                          ![r].wrote = @ \union {Head(req[r].todo)}]
    /\ Stay

(* Faulty variant: only the failed write is undone, as with a savepoint. *)
OneClassFailed(q) == [q EXCEPT !.step = "enrolling", !.todo = Tail(@)]
(* The failure has rolled back the transaction and deactivated the session.
   The loop swallows the exception, but whatever comes next, the last save at
   the latest, raises. *)
AfterFailure(q) == [q EXCEPT !.step = "broken", !.joins = FALSE, !.wrote = {}]

Fail(r) ==
    /\ req' = [req EXCEPT ![r] = AfterFailure(@)]
    /\ lock' = [i \in InviteIds |-> IF lock[i] = r THEN None ELSE lock[i]]
    /\ UNCHANGED <<invites, expired, drawn, mailed, members, enrolled>>

EnrollFails(r) ==
    /\ req[r].step = "writing"
    /\ ~\E q \in Requests : Awaits(r, q)
    /\ FlushFails(r)
    /\ Fail(r)

(* Faulty variant: nobody looks for circles of waiting transactions. *)
NoCircle(r) == FALSE
(* Acceptances that wait in a circle for each other's enrollments: PostgreSQL
   ends one of them. *)
InCircle(r) ==
    \E S \in SUBSET Requests :
        /\ r \in S
        /\ \A p \in S : (\E q \in S : Awaits(p, q)) /\ (\E q \in S : Awaits(q, p))
Deadlocked(r) == InCircle(r) /\ Fail(r)

BrokenEnds(r) == req[r].step = "broken" /\ Refuse(r)

-----------------------------------------------------------------------------
(* Saving the invite, its e-mail, and the end of the request *)

InviteToSave(r) ==
    \/ req[r].step = "found" /\ req[r].op \in {"resend", "revoke"}
    \/ req[r].step = "marking"
    \/ req[r].step = "enrolling" /\ req[r].todo = <<>> /\ req[r].joins

(* merge: the timestamps are new in any case. *)
Stamped(op) == CASE op = "accept" -> {"accepted"} [] op = "revoke" -> {"revoked"}
                 [] OTHER -> {"token"}
SaveMerge(r) ==
    /\ InviteToSave(r)
    /\ req' = [req EXCEPT ![r].step = "merged",
                 ![r].cols = Dirty(req[r].entity, invites[req[r].id]) \union Stamped(req[r].op)]
    /\ Stay

(* flush: an UPDATE waits while another transaction holds the row. *)
SaveFlush(r) ==
    /\ req[r].step = "merged" /\ lock[req[r].id] = None
    /\ lock' = [lock EXCEPT ![req[r].id] = r]
    /\ req' = [req EXCEPT ![r].step = IF req[r].op = "accept" /\ ~req[r].joins
                                      THEN "enrolling" ELSE "saved"]
    /\ UNCHANGED <<invites, expired, drawn, mailed, members, enrolled>>

(* A member saves the invite once more after the loop.  It holds the row: merge
   reads what it wrote itself, and the UPDATE of the timestamp waits for nobody. *)
SaveAgain(r) ==
    /\ At(r, "enrolling", "accept") /\ req[r].todo = <<>> /\ ~req[r].joins
    /\ req' = [req EXCEPT ![r].step = "saved"]
    /\ Stay

(* Faulty variant: the link is built from the invite as it was. *)
TokenBefore(r) == invites[req[r].id].token
LinkToken(r) == req[r].entity.token

(* delay() comes before the commit. *)
Mail(r) ==
    /\ req[r].step = "saved" /\ req[r].op \in {"send", "resend"}
    /\ mailed' = mailed \union {LinkToken(r)}
    /\ req' = [req EXCEPT ![r].step = "told"]
    /\ UNCHANGED <<invites, expired, drawn, members, enrolled, lock>>

ReadyToCommit(r) ==
    \/ req[r].step = "told"
    \/ req[r].step = "saved" /\ req[r].op \in {"revoke", "accept"}

JoinsAs(q) == q.entity.role

Commit(r) ==
    /\ ReadyToCommit(r)
    /\ LET q == req[r]
           u == UserOf[q.entity.to]
       IN /\ invites' = [invites EXCEPT ![q.id] = Overwrite(@, q.entity, q.cols)]
          /\ members' = IF q.joins THEN [members EXCEPT ![u] = [role |-> JoinsAs(q), nth |-> q.nth]]
                                   ELSE members
          /\ enrolled' = [k \in Keys |-> IF k[1] = u /\ k[2] = q.nth /\ k[3] \in q.wrote
                                         THEN "active" ELSE enrolled[k]]
    /\ lock' = [i \in InviteIds |-> IF lock[i] = r THEN None ELSE lock[i]]
    /\ req' = [req EXCEPT ![r] = IdleRequest]
    /\ UNCHANGED <<expired, drawn, mailed>>

(* An exception, a lost connection or a killed process: rollback. *)
Abort(r) == req[r].step # "idle" /\ Refuse(r)

-----------------------------------------------------------------------------
(* Time, and what administrators do *)

Expire(t) ==
    /\ t \in 1..drawn \ expired
    /\ expired' = expired \union {t}
    /\ UNCHANGED <<invites, drawn, mailed, members, enrolled, lock, req>>

Slot == \E r \in Requests : req[r].step = "idle"
Unlocked(u) == ~\E q \in Requests : Inserts(req[q], u)

(* AddTenantMember, RemoveTenantMember, DropEnrollment. *)
Add(u, role) ==
    /\ Slot /\ Unlocked(u) /\ ~IsMember(u)
    /\ members' = [members EXCEPT ![u] = [role |-> role, nth |-> @.nth + 1]]
    /\ UNCHANGED <<invites, expired, drawn, mailed, enrolled, lock, req>>

Remove(u) ==
    /\ Slot /\ IsMember(u) /\ members[u].nth < MaxJoins
    /\ members' = [members EXCEPT ![u].role = "none"]
    /\ UNCHANGED <<invites, expired, drawn, mailed, enrolled, lock, req>>

Drop(k) ==
    /\ Slot /\ enrolled[k] = "active" /\ k[3] \in Droppable
    /\ \A q \in Requests : k[3] \in req[q].wrote => UserOf[req[q].entity.to] # k[1]
    /\ enrolled' = [enrolled EXCEPT ![k] = "dropped"]
    /\ UNCHANGED <<invites, expired, drawn, mailed, members, lock, req>>

-----------------------------------------------------------------------------

(* What waits for a row or a key. *)
Flush(r) == AcceptJoin(r) \/ AcceptDuplicate(r) \/ EnrollWrite(r) \/ EnrollFails(r) \/ SaveFlush(r)

Step(r) ==
    \/ SendRefused(r) \/ SendInsert(r) \/ AcceptMember(r) \/ EnrollLookup(r)
    \/ BrokenEnds(r) \/ SaveMerge(r) \/ SaveAgain(r) \/ Mail(r) \/ Commit(r) \/ Deadlocked(r) \/ Flush(r)

RequestNext(r) ==
    \/ \E a \in Addresses, role \in InviteRoles, classes \in Offers :
         SendAdmit(r, a, role, classes)
    \/ \E i \in InviteIds :
         \/ ResendFind(r, i) \/ RevokeFind(r, i) \/ AcceptFind(r, i)
    \/ Step(r)
    \/ Abort(r)

Next ==
    \/ \E r \in Requests : RequestNext(r)
    \/ \E t \in Tokens : Expire(t)
    \/ \E u \in Users : Remove(u) \/ \E role \in InviteRoles : Add(u, role)
    \/ \E k \in Keys : Drop(k)

Spec == Init /\ [][Next]_vars

(* A request runs to its end, PostgreSQL serves waiters in order and breaks
   circles.  Nothing makes a client send a request. *)
Fairness == \A r \in Requests : WF_vars(Step(r)) /\ SF_vars(Flush(r))

FairSpec == Spec /\ Fairness

-----------------------------------------------------------------------------
(* Properties *)

(* An acceptance is final: no resend, revocation or second acceptance takes
   it back, gives it a new token or revokes it.  Holds while requests come one
   at a time. *)
AcceptedStands ==
    [][\A i \in InviteIds : invites[i].accepted => invites'[i] = invites[i]]_vars

(* Who accepts an invite that names a role and classes leaves as a member,
   with that role if not a member before, and as a student enrolled in every
   class of the list: a failure in the loop, which the code swallows, never
   leaves an acceptance with a part of it.  Holds while requests come one at
   a time. *)
AcceptanceIsComplete ==
    [][\A i \in InviteIds :
         ~invites[i].accepted /\ invites'[i].accepted =>
           LET u == UserOf[invites[i].to]
               classes == Enrolls(invites[i])
           IN /\ members'[u].role # "none"
              /\ members[u].role = "none" => members'[u].role = invites[i].role
              /\ \A n \in DOMAIN classes :
                   enrolled'[<<u, members'[u].nth, classes[n]>>] = "active"]_vars

(* Whatever the clock of the database says, the four lists by status share out
   the invites and the four counts add up to their total; and an invite is in
   the list of the status shown with it, except that of one nobody answered
   whose expiry the two clocks judge differently.  Holds while requests come one
   at a time. *)
StatusesPartition ==
    \A lapsed \in SUBSET Tokens :
        /\ \A i \in InviteIds : Exists(i) =>
             \E s \in Statuses :
                 /\ \A t \in Statuses : i \in Listed(t, lapsed) <=> t = s
                 /\ \/ s = Status(invites[i])
                    \/ /\ {s, Status(invites[i])} = {"pending", "expired"}
                       /\ (invites[i].token \in lapsed) # (invites[i].token \in expired)
        /\ SumFunction(Counts(lapsed)) = Cardinality({i \in InviteIds : Exists(i)})

(* Nobody enters through an invite that has been revoked and not renewed:
   when a membership appears with an acceptance, the invite had not been
   revoked.  Holds while requests come one at a time. *)
RevokedKeepsOut ==
    [][\A i \in InviteIds :
         ~invites[i].accepted /\ invites'[i].accepted => ~invites[i].revoked]_vars

(* Whoever holds the token of an invite got it by e-mail, even if stale saves
   bring an older token back: no committed invite is one nobody was told of. *)
TokensAreMailed == \A i \in InviteIds : Exists(i) => invites[i].token \in mailed

(* Every request is answered: two acceptances that enroll one member in the
   same classes in different orders do not wait for each other for ever. *)
Answered == \A r \in Requests : req[r].step # "idle" ~> req[r].step = "idle"

(* "Apenas 1 invite pendente por e-mail + tenant".  The code does not keep it:
   a resend revives an invite without looking for another, see README. *)
OnePending ==
    \A i, j \in InviteIds :
        /\ Exists(i) /\ Exists(j) /\ invites[i].to = invites[j].to
        /\ IsPending(invites[i]) /\ IsPending(invites[j])
        => i = j

=============================================================================
