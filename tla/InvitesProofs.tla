---------------------------- MODULE InvitesProofs ----------------------------
(***************************************************************************)
(* Proofs about Invites for any number of invites, addresses, classes and  *)
(* requests.                                                               *)
(*                                                                         *)
(* That every token was mailed holds in any interleaving: IInv says what a *)
(* request holds at each of its steps.  An accepted invite stands, and a   *)
(* revoked one keeps out, as long as no two requests are at work on the    *)
(* same invite; that an acceptance is complete needs them one at a time,   *)
(* because whatever else is done to the member comes in between.           *)
(* Requests may wait for each other in a circle, and HoldInv shows that    *)
(* PostgreSQL breaks every one.                                            *)
(***************************************************************************)
EXTENDS Invites, SumLemmas

(* What each step of a request has to do with the next one. *)
ShapeOK(q) ==
    /\ q.step = "idle" => q = IdleRequest
    /\ q.step # "idle" => /\ q.id \in InviteIds /\ q.op # "none"
                          /\ q.entity.to \in Addresses /\ q.entity.role \in Roles
    /\ q.step = "looked" => q.op = "send"
    /\ q.step = "told" => q.op \in {"send", "resend"}
    /\ q.op = "send" => /\ q.step \in {"looked", "saved", "told"}
                        /\ q.step # "looked" => q.cols = Columns
                        /\ ~q.entity.accepted /\ ~q.entity.revoked /\ ~q.joins
    /\ q.op # "accept" => ~q.joins /\ q.wrote = {}
    /\ q.step \in {"joining", "marking", "enrolling", "writing"} => q.op = "accept"
    /\ q.step \in {"marking", "enrolling", "writing"} \/ q.joins => q.nth # 0
    /\ q.step \in {"merged", "saved"} /\ q.op = "accept" => q.nth # 0
    /\ q.step = "writing" => q.todo # <<>>

(* Every request but a send has read a row that exists, hence a token that was
   mailed; a new token is mailed before the commit. *)
HoldsOK(q, rows, n, sent) ==
    /\ q.step # "idle" /\ q.op # "send" => rows[q.id].token # 0
    /\ q.step \notin {"idle", "looked"} => q.entity.token \in 1..n
    /\ q.step = "told" \/ q.op \in {"revoke", "accept"} => q.entity.token \in sent

RequestsOK == \A r \in Requests : ShapeOK(req[r]) /\ HoldsOK(req[r], invites, drawn, mailed)

RowsOK == \A i \in InviteIds : Exists(i) =>
              invites[i].to \in Addresses /\ invites[i].role \in Roles

(* A member has had a membership; one more fits for everyone else. *)
MembersOK == \A u \in Users : IF IsMember(u) THEN members[u].nth # 0
                                             ELSE members[u].nth < MaxJoins

(* A token is left for every request that will draw one. *)
Lookers == {r \in Requests : req[r].step = "looked"}
TokenRoom == drawn + Cardinality(Lookers) <= MaxTokens

IInv ==
    /\ TypeOK
    /\ RequestsOK
    /\ RowsOK
    /\ MembersOK
    /\ TokenRoom
    /\ TokensAreMailed

-----------------------------------------------------------------------------

(* No two requests are at work on the same invite. *)
InvitesApart ==
    \A q, r \in Requests :
        /\ req[q].step # "idle" /\ req[r].step # "idle" /\ req[q].id = req[r].id
        => q = r

(* What the request has read of its invite is still so. *)
CurrentOK(q, row) ==
    /\ ~row.accepted
    /\ q.op = "send" => ~row.revoked /\ ~q.entity.accepted /\ ~q.entity.revoked
    /\ q.op # "send" => \A c \in {"to", "role", "classes"} : q.entity[c] = row[c]
    /\ q.op = "resend" => ~q.entity.accepted /\ ~q.entity.revoked
    /\ q.op = "revoke" => ~q.entity.accepted /\ ~row.revoked
    /\ q.op = "accept" => ~q.entity.revoked /\ ~row.revoked

ApartInv ==
    /\ \A r \in Requests : req[r].step # "idle" => CurrentOK(req[r], invites[req[r].id])
    /\ \A i \in InviteIds : /\ ~(invites[i].accepted /\ invites[i].revoked)
                            /\ ~Exists(i) => ~invites[i].accepted /\ ~invites[i].revoked

(* One request at a time. *)
OneRequest == \A q, r \in Requests : q = r

(* An acceptance has every class of the list behind it, enrolled by itself or
   found enrolled, or still before it; the membership is its own or was there. *)
Before(q, c) == \E m \in DOMAIN q.todo : q.todo[m] = c
Behind(q, c) == c \in q.wrote \/ enrolled[<<UserOf[q.entity.to], q.nth, c>>] = "active"
Covered(q) ==
    LET classes == Enrolls(q.entity)
    IN \A n \in DOMAIN classes :
          Before(q, classes[n]) \/ (q.step # "joining" /\ Behind(q, classes[n]))
Belongs(q) ==
    LET u == UserOf[q.entity.to]
    IN IF q.joins THEN ~IsMember(u) ELSE IsMember(u) /\ q.nth = members[u].nth

AcceptOK(q) ==
    q.op = "accept" =>
        /\ q.step \in {"found", "joining", "marking"} => ~q.joins
        /\ q.step \in {"marking", "merged", "enrolling", "writing", "saved"} => Belongs(q)
        /\ q.step \in {"joining", "marking", "merged", "enrolling", "writing", "saved"} =>
              Covered(q)
        /\ q.step = "merged" /\ q.joins => q.todo = <<>>
        /\ q.step = "saved" => q.todo = <<>>

AcceptInv == \A r \in Requests : AcceptOK(req[r])

-----------------------------------------------------------------------------
(* Rows and requests *)

LEMMA NullsAreTyped ==
    AbsentInvite \in Invite /\ IdleRequest \in Request /\ IdleRequest.step = "idle"
    /\ IdleRequest.op = "none" /\ ~IdleRequest.joins
<1>1. <<>> \in Seq(Classes) /\ 0 \in 0..MaxJoins
  BY InvitesAssumption
<1>2. AbsentInvite \in Invite
  BY <1>1 DEF AbsentInvite, Invite
<1>3. IdleRequest \in Request
  BY <1>1, <1>2 DEF IdleRequest, Request
<1> QED
  BY <1>2, <1>3 DEF IdleRequest

LEMMA InviteChanges ==
    ASSUME NEW row \in Invite, NEW t \in Tokens
    PROVE  /\ [row EXCEPT !.token = t, !.revoked = FALSE] \in Invite
           /\ [row EXCEPT !.revoked = TRUE] \in Invite
           /\ [row EXCEPT !.accepted = TRUE] \in Invite
           /\ [row EXCEPT !.token = t] \in Invite
BY DEF Invite

LEMMA NewInvite ==
    ASSUME NEW a \in Addresses, NEW role \in Roles, NEW classes \in Seq(Classes)
    PROVE  [AbsentInvite EXCEPT !.to = a, !.role = role, !.classes = classes] \in Invite
BY NullsAreTyped DEF Invite

(* What an UPDATE leaves of a row. *)
LEMMA OverwriteIsInvite ==
    ASSUME NEW row \in Invite, NEW entity \in Invite, NEW cols
    PROVE  /\ Overwrite(row, entity, cols) \in Invite
           /\ \A c \in Columns :
                Overwrite(row, entity, cols)[c] = IF c \in cols THEN entity[c] ELSE row[c]
<1> DEFINE new == Overwrite(row, entity, cols)
<1>1. DOMAIN row = Columns
  BY DEF Invite, Columns, AbsentInvite
<1>2. new = [c \in Columns |-> IF c \in cols THEN entity[c] ELSE row[c]]
  BY <1>1 DEF Overwrite
<1>3. Columns = {"token", "accepted", "revoked", "to", "role", "classes"}
  BY DEF Columns, AbsentInvite
<1>4. /\ new.token \in {0} \union Tokens /\ new.accepted \in BOOLEAN /\ new.revoked \in BOOLEAN
      /\ new.to \in Addresses \union {None} /\ new.role \in Roles \union {"none"}
      /\ new.classes \in Seq(Classes)
  BY <1>2, <1>3 DEF Invite
<1>5. new = [token |-> new.token, accepted |-> new.accepted, revoked |-> new.revoked,
             to |-> new.to, role |-> new.role, classes |-> new.classes]
  BY <1>2, <1>3
<1> QED
  BY <1>2, <1>4, <1>5, Zenon DEF Invite

LEMMA DirtyIsColumns ==
    ASSUME NEW row \in Invite, NEW entity
    PROVE  Dirty(entity, row) \subseteq Columns
BY DEF Dirty, Invite, Columns, AbsentInvite

(* The first class of the loop, and the rest. *)
LEMMA HeadAndTail ==
    ASSUME NEW todo \in Seq(Classes), todo # <<>>
    PROVE  /\ Head(todo) \in Classes /\ Tail(todo) \in Seq(Classes)
           /\ \A c : (\E m \in DOMAIN todo : todo[m] = c) =>
                        c = Head(todo) \/ \E m \in DOMAIN Tail(todo) : Tail(todo)[m] = c
<1>1. Len(todo) \in Nat /\ Len(todo) # 0
  OBVIOUS
<1>2. ASSUME NEW m \in DOMAIN todo, m # 1
      PROVE  m - 1 \in DOMAIN Tail(todo) /\ Tail(todo)[m - 1] = todo[m]
  BY <1>1, <1>2
<1>3. ASSUME NEW c, NEW m \in DOMAIN todo, todo[m] = c
      PROVE  c = Head(todo) \/ \E k \in DOMAIN Tail(todo) : Tail(todo)[k] = c
  <2>1. CASE m = 1
    BY <1>1, <1>3, <2>1
  <2>2. CASE m # 1
    BY <1>2, <1>3, <2>2
  <2> QED
    BY <2>1, <2>2
<1>4. Head(todo) \in Classes /\ Tail(todo) \in Seq(Classes)
  OBVIOUS
<1> QED
  BY <1>3, <1>4

LEMMA EnrollsIsSeq ==
    ASSUME NEW row \in Invite
    PROVE  Enrolls(row) \in Seq(Classes)
BY DEF Enrolls, Invite

(* The requests after each kind of step. *)
LEMMA FoundIsRequest ==
    ASSUME NEW op \in {"resend", "revoke", "accept"}, NEW i \in InviteIds, NEW entity \in Invite
    PROVE  LET new == Found(op, i, entity)
           IN /\ new \in Request /\ new.step = "found" /\ new.op = op /\ new.id = i
              /\ new.entity = entity /\ ~new.joins /\ new.wrote = {} /\ new.cols = {}
BY NullsAreTyped DEF Found, Request, IdleRequest

(* Nothing changes but the step and the columns to write. *)
Moved(q, step, cols) == [q EXCEPT !.step = step, !.cols = cols]

LEMMA MovedIsRequest ==
    ASSUME NEW q \in Request, NEW step \in {"merged", "enrolling", "saved", "told"},
           NEW cols \in SUBSET Columns
    PROVE  LET new == Moved(q, step, cols)
           IN /\ new \in Request /\ new.step = step /\ new.cols = cols
              /\ new.op = q.op /\ new.id = q.id /\ new.entity = q.entity
              /\ new.joins = q.joins /\ new.nth = q.nth /\ new.todo = q.todo
              /\ new.wrote = q.wrote
BY DEF Moved, Request

(* The steps of an acceptance. *)
Looped(q, step, joins, nth, todo, seen, wrote) ==
    [q EXCEPT !.step = step, !.joins = joins, !.nth = nth, !.todo = todo,
              !.seen = seen, !.wrote = wrote]

LEMMA LoopedIsRequest ==
    ASSUME NEW q \in Request, NEW step \in {"joining", "marking", "enrolling", "writing", "broken"},
           NEW joins \in BOOLEAN, NEW nth \in 0..MaxJoins, NEW todo \in Seq(Classes),
           NEW seen \in {"none", "active", "dropped"}, NEW wrote \in SUBSET Classes
    PROVE  LET new == Looped(q, step, joins, nth, todo, seen, wrote)
           IN /\ new \in Request /\ new.step = step
              /\ new.op = q.op /\ new.id = q.id /\ new.entity = q.entity /\ new.cols = q.cols
              /\ new.joins = joins /\ new.nth = nth /\ new.todo = todo /\ new.wrote = wrote
BY DEF Looped, Request

LEMMA HoldsMore ==
    ASSUME NEW q, NEW rows, NEW rows2, NEW n \in Nat, NEW m \in Nat, NEW sent, NEW sent2,
           HoldsOK(q, rows, n, sent), n <= m, sent \subseteq sent2,
           rows[q.id].token # 0 => rows2[q.id].token # 0
    PROVE  HoldsOK(q, rows2, m, sent2)
BY DEF HoldsOK

-----------------------------------------------------------------------------
(* The bound on tokens *)

LEMMA LookersAreFinite ==
    IsFiniteSet(Lookers) /\ Cardinality(Lookers) \in Nat
<1>1. Lookers \subseteq Requests
  BY DEF Lookers
<1>2. IsFiniteSet(Lookers)
  BY <1>1, InvitesAssumption, FS_Subset
<1> QED
  BY <1>2, FS_CardinalityType

(* No step to "looked", and no token drawn. *)
LEMMA RoomStays ==
    ASSUME TypeOK, TokenRoom, drawn' = drawn, Lookers' \subseteq Lookers
    PROVE  TokenRoom'
<1>1. Cardinality(Lookers') \in Nat /\ Cardinality(Lookers') <= Cardinality(Lookers)
  <2>1. IsFiniteSet(Lookers')
    BY LookersAreFinite, FS_Subset
  <2> QED
    BY <2>1, LookersAreFinite, FS_Subset, FS_CardinalityType
<1>2. drawn \in Nat /\ MaxTokens \in Nat
  BY InvitesAssumption DEF TypeOK
<1> QED
  BY <1>1, <1>2, LookersAreFinite DEF TokenRoom

(* A send looks, or a resend draws at once: TokensLeft. *)
LEMMA RoomTaken ==
    ASSUME TypeOK, TokensLeft, NEW r \in Requests, r \notin Lookers,
           \/ drawn' = drawn + 1 /\ Lookers' \subseteq Lookers
           \/ drawn' = drawn /\ Lookers' = Lookers \union {r}
    PROVE  TokenRoom' /\ drawn + 1 <= MaxTokens
<1>1. drawn \in Nat /\ MaxTokens \in Nat
  BY InvitesAssumption DEF TypeOK
<1>2. drawn + Cardinality(Lookers) < MaxTokens
  BY DEF TokensLeft, Lookers
<1>3. CASE drawn' = drawn + 1 /\ Lookers' \subseteq Lookers
  <2>1. Cardinality(Lookers') \in Nat /\ Cardinality(Lookers') <= Cardinality(Lookers)
    <3>1. IsFiniteSet(Lookers')
      BY <1>3, LookersAreFinite, FS_Subset
    <3> QED
      BY <1>3, <3>1, LookersAreFinite, FS_Subset, FS_CardinalityType
  <2> QED
    BY <1>1, <1>2, <1>3, <2>1, LookersAreFinite DEF TokenRoom
<1>4. CASE drawn' = drawn /\ Lookers' = Lookers \union {r}
  <2>1. Cardinality(Lookers') = Cardinality(Lookers) + 1
    BY <1>4, LookersAreFinite, FS_AddElement
  <2> QED
    BY <1>1, <1>2, <1>4, <2>1, LookersAreFinite DEF TokenRoom
<1> QED
  BY <1>3, <1>4

(* A send draws the token that was left for it. *)
LEMMA RoomUsed ==
    ASSUME TypeOK, TokenRoom, NEW r \in Requests, r \in Lookers,
           drawn' = drawn + 1, Lookers' = Lookers \ {r}
    PROVE  TokenRoom' /\ drawn + 1 <= MaxTokens
<1>1. drawn \in Nat /\ MaxTokens \in Nat
  BY InvitesAssumption DEF TypeOK
<1>2. IsFiniteSet(Lookers \ {r}) /\ Cardinality(Lookers \ {r}) = Cardinality(Lookers) - 1
  BY LookersAreFinite, FS_RemoveElement
<1>3. Cardinality(Lookers \ {r}) \in Nat
  BY <1>2, FS_CardinalityType
<1> QED
  BY <1>1, <1>2, <1>3, LookersAreFinite DEF TokenRoom

(* Where a request goes, and what that does to the room. *)
LEMMA LookersMove ==
    ASSUME TypeOK, NEW r \in Requests, NEW new, req' = [req EXCEPT ![r] = new]
    PROVE  /\ new.step # "looked" => Lookers' = Lookers \ {r}
           /\ new.step = "looked" => Lookers' = Lookers \union {r}
BY DEF Lookers, TypeOK

-----------------------------------------------------------------------------
(* A step of one request that commits nothing *)

LEMMA Quiet ==
    ASSUME IInv, NEW r \in Requests, NEW new \in Request, req' = [req EXCEPT ![r] = new],
           UNCHANGED <<invites, expired, members, enrolled>>,
           drawn' \in Nat, drawn <= drawn', TokenRoom',
           mailed \subseteq mailed', mailed' \subseteq 1..drawn',
           lock' \in [InviteIds -> Requests \union {None}],
           ShapeOK(new), HoldsOK(new, invites, drawn', mailed')
    PROVE  IInv'
<1>1. drawn \in Nat /\ drawn' <= MaxTokens /\ 1..drawn \subseteq 1..drawn'
  <2>1. Lookers' \subseteq Requests
    BY DEF Lookers
  <2>2. Cardinality(Lookers') \in Nat
    BY <2>1, InvitesAssumption, FS_Subset, FS_CardinalityType
  <2> QED
    BY <2>2, InvitesAssumption DEF IInv, TypeOK, TokenRoom
<1>2. TypeOK'
  BY <1>1 DEF IInv, TypeOK
<1>3. RequestsOK'
  <2> SUFFICES ASSUME NEW q \in Requests
               PROVE  ShapeOK(req'[q]) /\ HoldsOK(req'[q], invites', drawn', mailed')
    BY DEF RequestsOK, HoldsOK, ShapeOK
  <2>1. CASE q = r
    BY <2>1 DEF IInv, TypeOK
  <2>2. CASE q # r
    <3>1. req'[q] = req[q] /\ ShapeOK(req[q]) /\ HoldsOK(req[q], invites, drawn, mailed)
      BY <2>2 DEF IInv, TypeOK, RequestsOK
    <3>2. HoldsOK(req[q], invites, drawn', mailed')
      BY <1>1, <3>1, HoldsMore
    <3> QED
      BY <3>1, <3>2
  <2> QED
    BY <2>1, <2>2
<1>4. RowsOK' /\ MembersOK' /\ TokensAreMailed'
  BY DEF IInv, RowsOK, MembersOK, TokensAreMailed, Exists, IsMember
<1> QED
  BY <1>2, <1>3, <1>4 DEF IInv

(* ... and draws or mails nothing either. *)
LEMMA Still ==
    ASSUME IInv, NEW r \in Requests, NEW new \in Request, req' = [req EXCEPT ![r] = new],
           UNCHANGED <<invites, expired, drawn, mailed, members, enrolled>>,
           lock' \in [InviteIds -> Requests \union {None}],
           new.step # "looked", ShapeOK(new), HoldsOK(new, invites, drawn, mailed)
    PROVE  IInv'
<1>1. TokenRoom'
  <2>1. Lookers' = Lookers \ {r}
    BY LookersMove DEF IInv
  <2> QED
    BY <2>1, RoomStays DEF IInv
<1>2. drawn' \in Nat /\ drawn <= drawn' /\ mailed' \subseteq 1..drawn'
  BY DEF IInv, TypeOK
<1> QED
  BY <1>1, <1>2, Quiet

LEMMA IdleIsOK ==
    /\ ShapeOK(IdleRequest)
    /\ \A rows, n, sent : HoldsOK(IdleRequest, rows, n, sent)
BY DEF ShapeOK, HoldsOK, IdleRequest

(* Unlocking, locking, and the lock as it is. *)
LEMMA LockIsTyped ==
    ASSUME TypeOK, NEW r \in Requests
    PROVE  /\ lock \in [InviteIds -> Requests \union {None}]
           /\ [i \in InviteIds |-> IF lock[i] = r THEN None ELSE lock[i]]
                 \in [InviteIds -> Requests \union {None}]
           /\ \A i \in InviteIds :
                 [lock EXCEPT ![i] = r] \in [InviteIds -> Requests \union {None}]
BY DEF TypeOK

LEMMA RefuseKeeps ==
    ASSUME IInv, NEW r \in Requests, Refuse(r)
    PROVE  IInv'
<1>1. IdleRequest \in Request /\ IdleRequest.step # "looked"
  BY NullsAreTyped
<1>2. lock' \in [InviteIds -> Requests \union {None}]
  BY LockIsTyped DEF Refuse, IInv
<1>3. req' = [req EXCEPT ![r] = IdleRequest]
      /\ UNCHANGED <<invites, expired, drawn, mailed, members, enrolled>>
  BY DEF Refuse
<1> QED
  BY <1>1, <1>2, <1>3, IdleIsOK, Still

LEMMA AtWork ==
    ASSUME IInv, NEW r \in Requests
    PROVE  req[r] \in Request /\ ShapeOK(req[r]) /\ HoldsOK(req[r], invites, drawn, mailed)
BY DEF IInv, TypeOK, RequestsOK

-----------------------------------------------------------------------------
(* Send *)

LEMMA SendAdmitKeeps ==
    ASSUME IInv, NEW r \in Requests, NEW a \in Addresses, NEW role \in InviteRoles,
           NEW classes \in Offers, SendAdmit(r, a, role, classes)
    PROVE  IInv'
<1>1. PICK i \in InviteIds : i = CHOOSE j \in InviteIds : j \in Unused
  BY DEF SendAdmit, Unused
<1> DEFINE entity == [AbsentInvite EXCEPT !.to = a, !.role = role, !.classes = classes]
           new == [IdleRequest EXCEPT !.step = "looked", !.op = "send", !.id = i,
                                      !.entity = entity]
<1>2. role \in Roles /\ classes \in Seq(Classes)
  BY InvitesAssumption
<1>3. /\ entity \in Invite /\ entity.to = a /\ entity.role = role
      /\ ~entity.accepted /\ ~entity.revoked
  BY <1>2, NewInvite DEF AbsentInvite
<1>4. req' = [req EXCEPT ![r] = new]
  BY <1>1 DEF SendAdmit
<1> HIDE DEF entity
<1>5. /\ new \in Request /\ new.step = "looked" /\ new.op = "send" /\ new.id = i
      /\ new.entity = entity /\ ~new.joins /\ new.wrote = {}
  BY <1>3, NullsAreTyped DEF Request, IdleRequest
<1> HIDE DEF new
<1>6. UNCHANGED <<invites, expired, drawn, mailed, members, enrolled, lock>>
      /\ TokensLeft /\ r \notin Lookers
  BY DEF SendAdmit, Stay, Lookers
<1>7. TokenRoom'
  <2>1. Lookers' = Lookers \union {r}
    BY <1>4, <1>5, LookersMove DEF IInv
  <2> QED
    BY <1>6, <2>1, RoomTaken DEF IInv
<1>8. ShapeOK(new) /\ HoldsOK(new, invites, drawn', mailed')
  BY <1>2, <1>3, <1>5 DEF ShapeOK, HoldsOK
<1>9. drawn' \in Nat /\ drawn <= drawn' /\ mailed' \subseteq 1..drawn'
      /\ lock' \in [InviteIds -> Requests \union {None}]
  BY <1>6 DEF IInv, TypeOK
<1> QED
  BY <1>4, <1>5, <1>6, <1>7, <1>8, <1>9, Quiet

LEMMA SendInsertKeeps ==
    ASSUME IInv, NEW r \in Requests, SendInsert(r)
    PROVE  IInv'
<1> DEFINE q == req[r]
           entity == [q.entity EXCEPT !.token = drawn + 1]
           new == [q EXCEPT !.step = "saved", !.entity = entity, !.cols = Columns]
<1>1. q \in Request /\ ShapeOK(q) /\ q.step = "looked" /\ q.op = "send" /\ r \in Lookers
  BY AtWork DEF SendInsert, At, Lookers
<1>2. /\ UNCHANGED <<invites, expired, mailed, members, enrolled, lock>>
      /\ drawn' = drawn + 1 /\ req' = [req EXCEPT ![r] = new]
  BY <1>1 DEF SendInsert, DrawToken, IInv, TypeOK, Request, Invite
<1>3. new.step # "looked"
  BY <1>1 DEF Request
<1>4. Lookers' = Lookers \ {r}
  BY <1>2, <1>3, LookersMove DEF IInv
<1>5. TokenRoom' /\ drawn + 1 <= MaxTokens
  BY <1>1, <1>2, <1>4, RoomUsed DEF IInv
<1>6. drawn \in Nat /\ mailed \subseteq 1..drawn /\ MaxTokens \in Nat
      /\ lock \in [InviteIds -> Requests \union {None}]
  BY InvitesAssumption DEF IInv, TypeOK
<1>7. drawn + 1 \in Tokens
  BY <1>5, <1>6 DEF Tokens
<1>8. /\ entity \in Invite /\ entity.token = drawn + 1 /\ entity.to = q.entity.to
      /\ entity.role = q.entity.role /\ entity.accepted = q.entity.accepted
      /\ entity.revoked = q.entity.revoked
  <2>1. q.entity \in Invite
    BY <1>1 DEF Request
  <2> QED
    BY <1>7, <2>1, InviteChanges DEF Invite
<1> HIDE DEF entity
<1>9. /\ new \in Request /\ new.step = "saved" /\ new.op = "send" /\ new.id = q.id
      /\ new.entity = entity /\ new.cols = Columns /\ new.joins = q.joins
      /\ new.wrote = q.wrote
  BY <1>1, <1>8 DEF Request
<1> HIDE DEF new
<1>10. ShapeOK(new) /\ HoldsOK(new, invites, drawn', mailed')
  <2> HIDE DEF q
  <2>1. drawn + 1 \in 1..drawn'
    BY <1>2, <1>6
  <2>2. HoldsOK(new, invites, drawn', mailed')
    BY <1>8, <1>9, <2>1 DEF HoldsOK
  <2>3. ShapeOK(new)
    BY <1>1, <1>8, <1>9 DEF ShapeOK
  <2> QED
    BY <2>2, <2>3
<1>11. drawn' \in Nat /\ drawn <= drawn' /\ mailed' \subseteq 1..drawn'
       /\ lock' \in [InviteIds -> Requests \union {None}]
  BY <1>2, <1>6
<1> QED
  BY <1>2, <1>5, <1>9, <1>10, <1>11, Quiet

-----------------------------------------------------------------------------
(* Resend, revoke, and the start of an acceptance *)

LEMMA RowIsOK ==
    ASSUME IInv, NEW i \in InviteIds, Exists(i)
    PROVE  /\ invites[i] \in Invite /\ invites[i].to \in Addresses /\ invites[i].role \in Roles
           /\ invites[i].token # 0 /\ invites[i].token \in mailed
           /\ invites[i].token \in 1..drawn
BY DEF IInv, TypeOK, RowsOK, TokensAreMailed, Exists

LEMMA ResendFindKeeps ==
    ASSUME IInv, NEW r \in Requests, NEW i \in InviteIds, ResendFind(r, i)
    PROVE  IInv'
<1> DEFINE entity == Renewed(invites[i])
           new == Found("resend", i, entity)
<1>1. /\ UNCHANGED <<invites, expired, mailed, members, enrolled, lock>>
      /\ drawn' = drawn + 1 /\ req' = [req EXCEPT ![r] = new]
      /\ TokensLeft /\ r \notin Lookers /\ Exists(i)
  BY DEF ResendFind, DrawToken, Lookers
<1>2. TokenRoom' /\ drawn + 1 <= MaxTokens
  <2>1. new.step # "looked"
    BY DEF Found, IdleRequest
  <2>2. Lookers' = Lookers \ {r}
    BY <1>1, <2>1, LookersMove DEF IInv
  <2> QED
    BY <1>1, <2>2, RoomTaken DEF IInv
<1>3. drawn \in Nat /\ mailed \subseteq 1..drawn /\ MaxTokens \in Nat
      /\ lock \in [InviteIds -> Requests \union {None}]
  BY InvitesAssumption DEF IInv, TypeOK
<1>4. drawn + 1 \in Tokens /\ drawn + 1 \in 1..drawn'
  BY <1>1, <1>2, <1>3 DEF Tokens
<1>5. /\ entity \in Invite /\ entity.token = drawn + 1
      /\ entity.to = invites[i].to /\ entity.role = invites[i].role
  <2>1. invites[i] \in Invite
    BY <1>1, RowIsOK
  <2> QED
    BY <1>4, <2>1, InviteChanges DEF Renewed, Invite
<1> HIDE DEF entity
<1>6. /\ new \in Request /\ new.step = "found" /\ new.op = "resend" /\ new.id = i
      /\ new.entity = entity /\ ~new.joins /\ new.wrote = {}
  BY <1>5, FoundIsRequest
<1> HIDE DEF new
<1>7. ShapeOK(new) /\ HoldsOK(new, invites, drawn', mailed')
  BY <1>1, <1>4, <1>5, <1>6, RowIsOK DEF ShapeOK, HoldsOK
<1>8. drawn' \in Nat /\ drawn <= drawn' /\ mailed' \subseteq 1..drawn'
      /\ lock' \in [InviteIds -> Requests \union {None}]
  BY <1>1, <1>3
<1> QED
  BY <1>1, <1>2, <1>6, <1>7, <1>8, Quiet

LEMMA FindKeeps ==
    ASSUME IInv, NEW r \in Requests, NEW i \in InviteIds, RevokeFind(r, i) \/ AcceptFind(r, i)
    PROVE  IInv'
<1>1. PICK op \in {"revoke", "accept"}, entity \in Invite :
         /\ req' = [req EXCEPT ![r] = Found(op, i, entity)]
         /\ entity.to = invites[i].to /\ entity.role = invites[i].role
         /\ entity.token = invites[i].token
  <2>1. Exists(i)
    BY DEF RevokeFind, AcceptFind
  <2>2. invites[i] \in Invite
    BY <2>1, RowIsOK
  <2>3. CASE RevokeFind(r, i)
    <3>1. [invites[i] EXCEPT !.revoked = TRUE] \in Invite
      BY <2>2 DEF Invite
    <3> QED
      BY <2>2, <2>3, <3>1 DEF RevokeFind, Invite
  <2>4. CASE AcceptFind(r, i)
    <3>1. [invites[i] EXCEPT !.accepted = TRUE] \in Invite
      BY <2>2 DEF Invite
    <3> QED
      BY <2>2, <2>4, <3>1 DEF AcceptFind, Invite
  <2> QED
    BY <2>3, <2>4
<1>2. UNCHANGED <<invites, expired, drawn, mailed, members, enrolled, lock>> /\ Exists(i)
  BY DEF RevokeFind, AcceptFind, Stay
<1> DEFINE new == Found(op, i, entity)
<1>3. /\ new \in Request /\ new.step = "found" /\ new.op = op /\ new.id = i
      /\ new.entity = entity /\ ~new.joins /\ new.wrote = {}
  BY FoundIsRequest
<1>4. req' = [req EXCEPT ![r] = new]
  BY <1>1
<1> HIDE DEF new
<1>5. ShapeOK(new) /\ HoldsOK(new, invites, drawn, mailed)
  BY <1>1, <1>2, <1>3, RowIsOK DEF ShapeOK, HoldsOK, Exists
<1>6. lock' \in [InviteIds -> Requests \union {None}]
  BY <1>2 DEF IInv, TypeOK
<1> QED
  BY <1>2, <1>3, <1>4, <1>5, <1>6, Still

-----------------------------------------------------------------------------
(* The acceptance *)

(* A step of the loop, or of what leads to it. *)
LEMMA LoopKeeps ==
    ASSUME IInv, NEW r \in Requests, req[r].op = "accept", req[r].step # "idle",
           NEW new \in Request, req' = [req EXCEPT ![r] = new],
           new.step \in {"joining", "marking", "enrolling", "writing", "broken"},
           new.op = "accept", new.id = req[r].id, new.entity = req[r].entity,
           new.step \in {"marking", "enrolling", "writing"} \/ new.joins => new.nth # 0,
           new.step = "writing" => new.todo # <<>>,
           UNCHANGED <<invites, expired, drawn, mailed, members, enrolled>>,
           lock' \in [InviteIds -> Requests \union {None}]
    PROVE  IInv'
<1>1. req[r] \in Request /\ ShapeOK(req[r]) /\ HoldsOK(req[r], invites, drawn, mailed)
  BY AtWork
<1>2. ShapeOK(new)
  BY <1>1 DEF ShapeOK
<1>3. HoldsOK(new, invites, drawn, mailed)
  BY <1>1 DEF HoldsOK, ShapeOK
<1> QED
  BY <1>2, <1>3, Still

LEMMA MembershipIsTyped ==
    ASSUME IInv, NEW r \in Requests, req[r].step # "idle"
    PROVE  /\ UserOf[req[r].entity.to] \in Users
           /\ \A u \in Users : /\ members[u].nth \in 0..MaxJoins
                               /\ IsMember(u) => members[u].nth # 0
                               /\ ~IsMember(u) => members[u].nth + 1 \in 1..MaxJoins
<1>1. UserOf[req[r].entity.to] \in Users
  BY AtWork DEF ShapeOK, Users
<1>2. ASSUME NEW u \in Users
      PROVE  /\ members[u].nth \in 0..MaxJoins
             /\ IsMember(u) => members[u].nth # 0
             /\ ~IsMember(u) => members[u].nth + 1 \in 1..MaxJoins
  <2>1. members[u].nth \in 0..MaxJoins /\ MaxJoins \in Nat
    BY InvitesAssumption DEF IInv, TypeOK, Member
  <2>2. IF IsMember(u) THEN members[u].nth # 0 ELSE members[u].nth < MaxJoins
    BY DEF IInv, MembersOK
  <2> QED
    BY <2>1, <2>2
<1> QED
  BY <1>1, <1>2

(* Request r takes a step of its acceptance and is new then. *)
Moves(r, new) ==
    /\ new \in Request /\ req' = [req EXCEPT ![r] = new]
    /\ new.op = "accept" /\ req[r].op = "accept"
    /\ new.id = req[r].id /\ new.entity = req[r].entity /\ new.cols = req[r].cols
    /\ UNCHANGED <<invites, expired, drawn, mailed, members, enrolled>>
    /\ lock' \in [InviteIds -> Requests \union {None}]

LEMMA AcceptMemberMoves ==
    ASSUME IInv, NEW r \in Requests, AcceptMember(r)
    PROVE  \E new : LET q == req[r]  u == UserOf[q.entity.to] IN
              /\ Moves(r, new) /\ q.step = "found"
              /\ new.joins = q.joins /\ new.wrote = q.wrote /\ new.todo = Enrolls(q.entity)
              /\ \/ IsMember(u) /\ new.step = "marking" /\ new.nth = members[u].nth
                 \/ ~IsMember(u) /\ new.step = "joining" /\ new.nth = q.nth
<1> DEFINE q == req[r]
           u == UserOf[q.entity.to]
           todo == Enrolls(q.entity)
           marking == Looped(q, "marking", q.joins, members[u].nth, todo, q.seen, q.wrote)
           joining == Looped(q, "joining", q.joins, q.nth, todo, q.seen, q.wrote)
<1>1. /\ q \in Request /\ ShapeOK(q) /\ q.step = "found" /\ q.op = "accept"
      /\ q.nth \in 0..MaxJoins /\ q.joins \in BOOLEAN /\ q.entity \in Invite
      /\ q.seen \in {"none", "active", "dropped"} /\ q.wrote \in SUBSET Classes
  BY AtWork DEF AcceptMember, At, Request
<1>2. todo \in Seq(Classes)
  BY <1>1, EnrollsIsSeq
<1>3. members[u].nth \in 0..MaxJoins
  BY <1>1, MembershipIsTyped
<1>4. UNCHANGED <<invites, expired, drawn, mailed, members, enrolled, lock>>
      /\ lock' \in [InviteIds -> Requests \union {None}]
  BY DEF AcceptMember, Stay, IInv, TypeOK
<1>5. req' = [req EXCEPT ![r] = IF IsMember(u) THEN marking ELSE joining]
  <2>1. /\ [[q EXCEPT !.todo = todo] EXCEPT !.step = "marking", !.nth = members[u].nth] = marking
        /\ [[q EXCEPT !.todo = todo] EXCEPT !.step = "joining"] = joining
    BY <1>1 DEF Looped, Request
  <2> QED
    BY <2>1 DEF AcceptMember
<1> HIDE DEF todo, u
<1>6. CASE IsMember(u)
  <2>1. /\ marking \in Request /\ marking.step = "marking" /\ marking.op = q.op
        /\ marking.id = q.id /\ marking.entity = q.entity /\ marking.cols = q.cols
        /\ marking.joins = q.joins /\ marking.nth = members[u].nth /\ marking.todo = todo
        /\ marking.wrote = q.wrote
    BY <1>1, <1>2, <1>3, LoopedIsRequest
  <2> HIDE DEF marking
  <2> QED
    BY <1>1, <1>4, <1>5, <1>6, <2>1 DEF Moves, todo, u
<1>7. CASE ~IsMember(u)
  <2>1. /\ joining \in Request /\ joining.step = "joining" /\ joining.op = q.op
        /\ joining.id = q.id /\ joining.entity = q.entity /\ joining.cols = q.cols
        /\ joining.joins = q.joins /\ joining.nth = q.nth /\ joining.todo = todo
        /\ joining.wrote = q.wrote
    BY <1>1, <1>2, LoopedIsRequest
  <2> HIDE DEF joining
  <2> QED
    BY <1>1, <1>4, <1>5, <1>7, <2>1 DEF Moves, todo, u
<1> QED
  BY <1>6, <1>7

LEMMA AcceptJoinMoves ==
    ASSUME IInv, NEW r \in Requests, AcceptJoin(r)
    PROVE  \E new : LET q == req[r]  u == UserOf[q.entity.to] IN
              /\ Moves(r, new) /\ q.step = "joining" /\ new.step = "enrolling"
              /\ new.joins /\ new.wrote = q.wrote /\ new.todo = q.todo
              /\ ~IsMember(u) /\ new.nth = members[u].nth + 1
<1> DEFINE q == req[r]
           u == UserOf[q.entity.to]
           new == Looped(q, "enrolling", TRUE, members[u].nth + 1, q.todo, q.seen, q.wrote)
<1>1. /\ q \in Request /\ q.step = "joining" /\ q.op = "accept"
      /\ q.todo \in Seq(Classes) /\ ~IsMember(u)
      /\ q.seen \in {"none", "active", "dropped"} /\ q.wrote \in SUBSET Classes
  BY AtWork DEF AcceptJoin, ShapeOK, Request
<1>2. u \in Users /\ members[u].nth + 1 \in 1..MaxJoins
  BY <1>1, MembershipIsTyped
<1>3. UNCHANGED <<invites, expired, drawn, mailed, members, enrolled, lock>>
      /\ lock' \in [InviteIds -> Requests \union {None}]
  BY DEF AcceptJoin, Stay, IInv, TypeOK
<1>4. req' = [req EXCEPT ![r] = new]
  BY <1>1 DEF AcceptJoin, Looped, Request, IInv, TypeOK
<1>5. members[u].nth + 1 \in 0..MaxJoins
  BY <1>2
<1> HIDE DEF u
<1>6. /\ new \in Request /\ new.step = "enrolling" /\ new.op = q.op /\ new.id = q.id
      /\ new.entity = q.entity /\ new.cols = q.cols /\ new.joins = TRUE
      /\ new.nth = members[u].nth + 1 /\ new.todo = q.todo /\ new.wrote = q.wrote
  BY <1>1, <1>5 DEF Looped, Request
<1> HIDE DEF new
<1> QED
  BY <1>1, <1>3, <1>4, <1>6 DEF Moves, u

LEMMA EnrollLookupMoves ==
    ASSUME IInv, NEW r \in Requests, EnrollLookup(r)
    PROVE  \E new : LET q == req[r] IN
              /\ Moves(r, new) /\ q.step = "enrolling" /\ q.todo # <<>>
              /\ new.joins = q.joins /\ new.wrote = q.wrote /\ new.nth = q.nth
              /\ \/ /\ new.step = "enrolling" /\ new.todo = Tail(q.todo)
                    /\ enrolled[KeyOf(q)] = "active" \/ Head(q.todo) \in q.wrote
                 \/ new.step = "writing" /\ new.todo = q.todo
<1> DEFINE q == req[r]
           seen == enrolled[KeyOf(q)]
           passed == Looped(q, "enrolling", q.joins, q.nth, Tail(q.todo), q.seen, q.wrote)
           writing == Looped(q, "writing", q.joins, q.nth, q.todo, seen, q.wrote)
<1>1. /\ q \in Request /\ ShapeOK(q) /\ q.step = "enrolling" /\ q.op = "accept"
      /\ q.todo \in Seq(Classes) /\ q.todo # <<>> /\ q.nth \in 0..MaxJoins /\ q.nth # 0
      /\ q.seen \in {"none", "active", "dropped"} /\ q.wrote \in SUBSET Classes
      /\ q.joins \in BOOLEAN
  BY AtWork DEF EnrollLookup, ShapeOK, Request
<1>2. Head(q.todo) \in Classes /\ Tail(q.todo) \in Seq(Classes)
  BY <1>1, HeadAndTail
<1>3. seen \in {"none", "active", "dropped"}
  <2>1. UserOf[q.entity.to] \in Users
    BY <1>1, MembershipIsTyped
  <2>2. q.nth \in 1..MaxJoins
    BY <1>1, InvitesAssumption
  <2>3. KeyOf(q) \in Keys
    BY <1>2, <2>1, <2>2 DEF KeyOf, Keys
  <2> QED
    BY <2>3 DEF IInv, TypeOK
<1>4. UNCHANGED <<invites, expired, drawn, mailed, members, enrolled, lock>>
      /\ lock' \in [InviteIds -> Requests \union {None}]
  BY DEF EnrollLookup, Stay, IInv, TypeOK
<1>5. CASE seen = "active" \/ Head(q.todo) \in q.wrote
  <2>1. [q EXCEPT !.todo = Tail(q.todo)] = passed
    BY <1>1 DEF Looped, Request
  <2>2. req' = [req EXCEPT ![r] = passed]
    BY <1>5, <2>1 DEF EnrollLookup, IInv, TypeOK
  <2>3. /\ passed \in Request /\ passed.step = "enrolling" /\ passed.op = q.op
        /\ passed.id = q.id /\ passed.entity = q.entity /\ passed.cols = q.cols
        /\ passed.joins = q.joins /\ passed.nth = q.nth /\ passed.todo = Tail(q.todo)
        /\ passed.wrote = q.wrote
    BY <1>1, <1>2 DEF Looped, Request
  <2> HIDE DEF passed
  <2> QED
    BY <1>1, <1>4, <1>5, <2>2, <2>3 DEF Moves
<1>6. CASE ~(seen = "active" \/ Head(q.todo) \in q.wrote)
  <2>1. [q EXCEPT !.step = "writing", !.seen = seen] = writing
    BY <1>1 DEF Looped, Request
  <2>2. req' = [req EXCEPT ![r] = writing]
    BY <1>6, <2>1 DEF EnrollLookup, IInv, TypeOK
  <2> HIDE DEF seen
  <2>3. /\ writing \in Request /\ writing.step = "writing" /\ writing.op = q.op
        /\ writing.id = q.id /\ writing.entity = q.entity /\ writing.cols = q.cols
        /\ writing.joins = q.joins /\ writing.nth = q.nth /\ writing.todo = q.todo
        /\ writing.wrote = q.wrote
    BY <1>1, <1>3, LoopedIsRequest
  <2> HIDE DEF writing
  <2> QED
    BY <1>1, <1>4, <2>2, <2>3 DEF Moves
<1> QED
  BY <1>5, <1>6

LEMMA EnrollWriteMoves ==
    ASSUME IInv, NEW r \in Requests, EnrollWrite(r)
    PROVE  \E new : LET q == req[r] IN
              /\ Moves(r, new) /\ q.step = "writing" /\ new.step = "enrolling"
              /\ q.todo # <<>> /\ new.todo = Tail(q.todo)
              /\ new.wrote = q.wrote \union {Head(q.todo)}
              /\ new.joins = q.joins /\ new.nth = q.nth
<1> DEFINE q == req[r]
           wrote == q.wrote \union {Head(q.todo)}
           new == Looped(q, "enrolling", q.joins, q.nth, Tail(q.todo), q.seen, wrote)
<1>1. /\ q \in Request /\ ShapeOK(q) /\ q.step = "writing" /\ q.op = "accept"
      /\ q.todo \in Seq(Classes) /\ q.todo # <<>> /\ q.nth \in 0..MaxJoins
      /\ q.seen \in {"none", "active", "dropped"} /\ q.wrote \in SUBSET Classes
      /\ q.joins \in BOOLEAN
  BY AtWork DEF EnrollWrite, ShapeOK, Request
<1>2. Head(q.todo) \in Classes /\ Tail(q.todo) \in Seq(Classes)
  BY <1>1, HeadAndTail
<1>3. UNCHANGED <<invites, expired, drawn, mailed, members, enrolled, lock>>
      /\ lock' \in [InviteIds -> Requests \union {None}]
  BY DEF EnrollWrite, Stay, IInv, TypeOK
<1>4. req' = [req EXCEPT ![r] = new]
  BY <1>1 DEF EnrollWrite, Looped, Request, IInv, TypeOK
<1>5. wrote \in SUBSET Classes
  BY <1>1, <1>2
<1> HIDE DEF wrote
<1>6. /\ new \in Request /\ new.step = "enrolling" /\ new.op = q.op /\ new.id = q.id
      /\ new.entity = q.entity /\ new.cols = q.cols /\ new.joins = q.joins
      /\ new.nth = q.nth /\ new.todo = Tail(q.todo) /\ new.wrote = wrote
  BY <1>1, <1>2, <1>5 DEF Looped, Request
<1> HIDE DEF new
<1> QED
  BY <1>1, <1>3, <1>4, <1>6 DEF Moves, wrote

(* The failed flush of an enrollment, and the broken circle. *)
LEMMA FailMoves ==
    ASSUME IInv, NEW r \in Requests, req[r].step = "writing", Fail(r)
    PROVE  \E new : Moves(r, new) /\ new.step = "broken" /\ ~new.joins /\ new.wrote = {}
<1> DEFINE q == req[r]
           new == Looped(q, "broken", FALSE, q.nth, q.todo, q.seen, {})
<1>1. /\ q \in Request /\ q.op = "accept" /\ q.todo \in Seq(Classes) /\ q.nth \in 0..MaxJoins
      /\ q.seen \in {"none", "active", "dropped"}
  BY AtWork DEF ShapeOK, Request
<1>2. req' = [req EXCEPT ![r] = new]
  BY <1>1 DEF Fail, AfterFailure, Looped, Request, IInv, TypeOK
<1>3. UNCHANGED <<invites, expired, drawn, mailed, members, enrolled>>
      /\ lock' \in [InviteIds -> Requests \union {None}]
  BY LockIsTyped DEF Fail, IInv
<1>4. /\ new \in Request /\ new.step = "broken" /\ new.op = q.op /\ new.id = q.id
      /\ new.entity = q.entity /\ new.cols = q.cols /\ new.joins = FALSE /\ new.wrote = {}
  BY <1>1 DEF Looped, Request
<1> HIDE DEF new
<1> QED
  BY <1>1, <1>2, <1>3, <1>4 DEF Moves

AcceptStep(r) == AcceptMember(r) \/ AcceptJoin(r) \/ EnrollLookup(r) \/ EnrollWrite(r)

LEMMA AcceptStepKeeps ==
    ASSUME IInv, NEW r \in Requests,
           AcceptStep(r) \/ (req[r].step = "writing" /\ Fail(r))
    PROVE  IInv'
<1> DEFINE q == req[r]
<1>1. q \in Request /\ ShapeOK(q) /\ HoldsOK(q, invites, drawn, mailed)
  BY AtWork
<1>2. \E new : /\ Moves(r, new) /\ q.step # "idle"
               /\ new.step \in {"joining", "marking", "enrolling", "writing", "broken"}
               /\ new.step \in {"marking", "enrolling", "writing"} \/ new.joins => new.nth # 0
               /\ new.step = "writing" => new.todo # <<>>
  <2>1. CASE AcceptMember(r)
    <3>1. UserOf[q.entity.to] \in Users
      BY <2>1, MembershipIsTyped DEF AcceptMember, At
    <3>2. IsMember(UserOf[q.entity.to]) => members[UserOf[q.entity.to]].nth # 0
      BY <2>1, <3>1, MembershipIsTyped DEF AcceptMember, At
    <3>3. q.joins => q.nth # 0
      BY <1>1 DEF ShapeOK
    <3> QED
      BY <2>1, <3>2, <3>3, AcceptMemberMoves
  <2>2. CASE AcceptJoin(r)
    <3>1. UserOf[q.entity.to] \in Users
      BY <2>2, MembershipIsTyped DEF AcceptJoin
    <3>2. members[UserOf[q.entity.to]].nth + 1 # 0
      BY <2>2, <3>1, MembershipIsTyped DEF AcceptJoin
    <3> QED
      BY <2>2, <3>2, AcceptJoinMoves
  <2>3. CASE EnrollLookup(r)
    <3>1. q.nth # 0
      BY <1>1, <2>3 DEF ShapeOK, EnrollLookup
    <3> QED
      BY <2>3, <3>1, EnrollLookupMoves
  <2>4. CASE EnrollWrite(r)
    <3>1. q.nth # 0
      BY <1>1, <2>4 DEF ShapeOK, EnrollWrite
    <3> QED
      BY <2>4, <3>1, EnrollWriteMoves
  <2>5. CASE q.step = "writing" /\ Fail(r)
    BY <2>5, FailMoves
  <2> QED
    BY <2>1, <2>2, <2>3, <2>4, <2>5 DEF AcceptStep
<1> QED
  BY <1>2, LoopKeeps DEF Moves

-----------------------------------------------------------------------------
(* Saving the invite, and the e-mail *)

LEMMA StampedIsColumns ==
    \A op : Stamped(op) \subseteq Columns
BY DEF Stamped, Columns, AbsentInvite

LEMMA SaveMergeKeeps ==
    ASSUME IInv, NEW r \in Requests, SaveMerge(r)
    PROVE  IInv'
<1> DEFINE q == req[r]
           cols == Dirty(q.entity, invites[q.id]) \union Stamped(q.op)
           new == Moved(q, "merged", cols)
<1>1. q \in Request /\ ShapeOK(q) /\ HoldsOK(q, invites, drawn, mailed)
  BY AtWork
<1>2. /\ q.step # "idle" /\ q.step # "looked" /\ q.op \in {"resend", "revoke", "accept"}
      /\ q.op = "accept" => q.nth # 0
  BY <1>1 DEF SaveMerge, InviteToSave, ShapeOK
<1>3. cols \in SUBSET Columns
  <2>1. invites[q.id] \in Invite
    BY <1>1, <1>2 DEF ShapeOK, IInv, TypeOK
  <2> QED
    BY <2>1, DirtyIsColumns, StampedIsColumns
<1>4. req' = [req EXCEPT ![r] = new]
      /\ UNCHANGED <<invites, expired, drawn, mailed, members, enrolled, lock>>
  BY <1>1 DEF SaveMerge, Stay, Moved, Request, IInv, TypeOK
<1> HIDE DEF cols
<1>5. /\ new \in Request /\ new.step = "merged" /\ new.cols = cols
      /\ new.op = q.op /\ new.id = q.id /\ new.entity = q.entity
      /\ new.joins = q.joins /\ new.nth = q.nth /\ new.todo = q.todo /\ new.wrote = q.wrote
  BY <1>1, <1>3, MovedIsRequest
<1> HIDE DEF new, q
<1>6. ShapeOK(new)
  BY <1>1, <1>2, <1>5 DEF ShapeOK
<1>7. HoldsOK(new, invites, drawn, mailed)
  BY <1>1, <1>2, <1>5 DEF HoldsOK
<1>8. lock' \in [InviteIds -> Requests \union {None}]
  BY <1>4 DEF IInv, TypeOK
<1> QED
  BY <1>4, <1>5, <1>6, <1>7, <1>8, Still

LEMMA SaveFlushKeeps ==
    ASSUME IInv, NEW r \in Requests, SaveFlush(r)
    PROVE  IInv'
<1> DEFINE q == req[r]
           step == IF q.op = "accept" /\ ~q.joins THEN "enrolling" ELSE "saved"
           new == Moved(q, step, q.cols)
<1>1. q \in Request /\ ShapeOK(q) /\ HoldsOK(q, invites, drawn, mailed)
  BY AtWork
<1>2. q.step = "merged" /\ step \in {"enrolling", "saved"} /\ q.cols \in SUBSET Columns
      /\ (step = "enrolling" => q.op = "accept")
  BY <1>1 DEF SaveFlush, Request
<1>3. req' = [req EXCEPT ![r] = new]
      /\ UNCHANGED <<invites, expired, drawn, mailed, members, enrolled>>
  BY <1>1 DEF SaveFlush, Moved, Request, IInv, TypeOK
<1> HIDE DEF step
<1>4. /\ new \in Request /\ new.step = step /\ new.cols = q.cols
      /\ new.op = q.op /\ new.id = q.id /\ new.entity = q.entity
      /\ new.joins = q.joins /\ new.nth = q.nth /\ new.todo = q.todo /\ new.wrote = q.wrote
  BY <1>1, <1>2, MovedIsRequest
<1>5. lock' \in [InviteIds -> Requests \union {None}]
  <2>1. q.id \in InviteIds
    BY <1>1, <1>2 DEF ShapeOK
  <2> QED
    BY <2>1, LockIsTyped DEF SaveFlush, IInv
<1> HIDE DEF new, q
<1>6. ShapeOK(new)
  BY <1>1, <1>2, <1>4 DEF ShapeOK
<1>7. HoldsOK(new, invites, drawn, mailed)
  BY <1>1, <1>2, <1>4 DEF HoldsOK
<1>8. new.step # "looked"
  BY <1>2, <1>4
<1> QED
  BY <1>3, <1>4, <1>5, <1>6, <1>7, <1>8, Still

LEMMA SaveAgainKeeps ==
    ASSUME IInv, NEW r \in Requests, SaveAgain(r)
    PROVE  IInv'
<1> DEFINE q == req[r]
           new == Moved(q, "saved", q.cols)
<1>1. /\ q \in Request /\ ShapeOK(q) /\ HoldsOK(q, invites, drawn, mailed)
      /\ q.step = "enrolling" /\ q.op = "accept" /\ q.cols \in SUBSET Columns
  BY AtWork DEF SaveAgain, At, Request
<1>2. /\ req' = [req EXCEPT ![r] = new]
      /\ UNCHANGED <<invites, expired, drawn, mailed, members, enrolled, lock>>
  BY <1>1 DEF SaveAgain, Stay, Moved, Request, IInv, TypeOK
<1>3. /\ new \in Request /\ new.step = "saved" /\ new.cols = q.cols
      /\ new.op = q.op /\ new.id = q.id /\ new.entity = q.entity
      /\ new.joins = q.joins /\ new.nth = q.nth /\ new.todo = q.todo /\ new.wrote = q.wrote
  BY <1>1, MovedIsRequest
<1> HIDE DEF new, q
<1>4. ShapeOK(new)
  BY <1>1, <1>3 DEF ShapeOK
<1>5. HoldsOK(new, invites, drawn, mailed)
  BY <1>1, <1>3 DEF HoldsOK
<1>6. lock' \in [InviteIds -> Requests \union {None}]
  BY <1>2 DEF IInv, TypeOK
<1> QED
  BY <1>2, <1>3, <1>4, <1>5, <1>6, Still

LEMMA MailKeeps ==
    ASSUME IInv, NEW r \in Requests, Mail(r)
    PROVE  IInv'
<1> DEFINE q == req[r]
           new == Moved(q, "told", q.cols)
<1>1. /\ q \in Request /\ ShapeOK(q) /\ HoldsOK(q, invites, drawn, mailed)
      /\ q.step = "saved" /\ q.op \in {"send", "resend"} /\ q.cols \in SUBSET Columns
  BY AtWork DEF Mail, Request
<1>2. /\ req' = [req EXCEPT ![r] = new] /\ mailed' = mailed \union {q.entity.token}
      /\ UNCHANGED <<invites, expired, drawn, members, enrolled, lock>>
  BY <1>1 DEF Mail, LinkToken, Moved, Request, IInv, TypeOK
<1>3. /\ new \in Request /\ new.step = "told" /\ new.cols = q.cols
      /\ new.op = q.op /\ new.id = q.id /\ new.entity = q.entity
      /\ new.joins = q.joins /\ new.nth = q.nth /\ new.todo = q.todo /\ new.wrote = q.wrote
  BY <1>1, MovedIsRequest
<1> HIDE DEF new
<1>4. q.entity.token \in 1..drawn
  BY <1>1 DEF HoldsOK
<1>5. /\ drawn' \in Nat /\ drawn <= drawn'
      /\ mailed \subseteq mailed' /\ mailed' \subseteq 1..drawn'
      /\ lock' \in [InviteIds -> Requests \union {None}]
  <2> HIDE DEF q
  <2>1. drawn \in Nat /\ mailed \subseteq 1..drawn /\ lock \in [InviteIds -> Requests \union {None}]
    BY InvitesAssumption DEF IInv, TypeOK
  <2>2. drawn' = drawn /\ lock' = lock /\ mailed \subseteq mailed' /\ mailed' \subseteq 1..drawn
    BY <1>2, <1>4, <2>1
  <2> QED
    BY <2>1, <2>2
<1>6. TokenRoom'
  <2>1. Lookers' = Lookers \ {r}
    BY <1>2, <1>3, LookersMove DEF IInv
  <2> QED
    BY <1>2, <2>1, RoomStays DEF IInv
<1>7. ShapeOK(new) /\ HoldsOK(new, invites, drawn', mailed')
  <2> HIDE DEF q
  <2>1. ShapeOK(new)
    BY <1>1, <1>3 DEF ShapeOK
  <2>2. HoldsOK(new, invites, drawn', mailed')
    BY <1>1, <1>2, <1>3, <1>4 DEF HoldsOK
  <2> QED
    BY <2>1, <2>2
<1> QED
  BY <1>2, <1>3, <1>5, <1>6, <1>7, Quiet

-----------------------------------------------------------------------------
(* The commit *)

LEMMA CommitIsOf ==
    ASSUME IInv, NEW r \in Requests, ReadyToCommit(r)
    PROVE  LET q == req[r] IN
           /\ q \in Request /\ ShapeOK(q) /\ HoldsOK(q, invites, drawn, mailed)
           /\ q.step \in {"told", "saved", "enrolling"} /\ q.id \in InviteIds
           /\ q.op \in {"send", "resend", "revoke", "accept"}
           /\ q.entity \in Invite /\ q.entity.to \in Addresses /\ q.entity.role \in Roles
           /\ q.entity.token \in 1..drawn /\ q.entity.token \in mailed
           /\ q.op = "send" => q.cols = Columns
           /\ q.op # "send" => Exists(q.id)
<1> DEFINE q == req[r]
<1>1. q \in Request /\ ShapeOK(q) /\ HoldsOK(q, invites, drawn, mailed)
  BY AtWork
<1>2. q.step \in {"told", "saved", "enrolling"}
  BY DEF ReadyToCommit, At
<1>3. /\ q.id \in InviteIds /\ q.op \in {"send", "resend", "revoke", "accept"}
      /\ q.entity \in Invite /\ q.entity.to \in Addresses /\ q.entity.role \in Roles
  BY <1>1, <1>2 DEF ShapeOK, Request
<1>4. q.step = "told" \/ q.op \in {"revoke", "accept"}
  BY DEF ReadyToCommit, At
<1>5. q.op = "send" => q.cols = Columns
  BY <1>1, <1>2 DEF ShapeOK
<1> HIDE DEF q
<1>6. /\ q.entity.token \in 1..drawn /\ q.entity.token \in mailed
      /\ q.op # "send" => invites[q.id].token # 0
  BY <1>1, <1>2, <1>4 DEF HoldsOK
<1> QED
  BY <1>1, <1>2, <1>3, <1>5, <1>6 DEF q, Exists

(* The row that a commit leaves, and the rows it does not touch. *)
LEMMA CommitRow ==
    ASSUME IInv, NEW r \in Requests, Commit(r)
    PROVE  /\ invites' \in [InviteIds -> Invite]
           /\ \A i \in InviteIds : i # req[r].id => invites'[i] = invites[i]
           /\ \A c \in Columns : invites'[req[r].id][c] =
                 IF c \in req[r].cols THEN req[r].entity[c] ELSE invites[req[r].id][c]
           /\ invites'[req[r].id].to \in Addresses /\ invites'[req[r].id].role \in Roles
           /\ invites'[req[r].id].token \in mailed
<1> DEFINE q == req[r]
           row == invites[q.id]
           new == Overwrite(row, q.entity, q.cols)
<1>1. /\ q \in Request /\ q.id \in InviteIds /\ q.entity \in Invite
      /\ q.entity.to \in Addresses /\ q.entity.role \in Roles /\ q.entity.token \in mailed
      /\ q.op = "send" => q.cols = Columns
      /\ q.op # "send" => Exists(q.id)
  BY CommitIsOf DEF Commit
<1>2. row \in Invite /\ invites \in [InviteIds -> Invite]
  BY <1>1 DEF IInv, TypeOK
<1>3. invites' = [invites EXCEPT ![q.id] = new]
  BY DEF Commit
<1> HIDE DEF row
<1>4. /\ new \in Invite
      /\ \A c \in Columns : new[c] = IF c \in q.cols THEN q.entity[c] ELSE row[c]
  BY <1>1, <1>2, OverwriteIsInvite
<1> HIDE DEF new
<1>5. Columns = {"token", "accepted", "revoked", "to", "role", "classes"}
  BY DEF Columns, AbsentInvite
<1>6. /\ new.token = IF "token" \in q.cols THEN q.entity.token ELSE row.token
      /\ new.to = IF "to" \in q.cols THEN q.entity.to ELSE row.to
      /\ new.role = IF "role" \in q.cols THEN q.entity.role ELSE row.role
  BY <1>4, <1>5
<1>7. new.token \in mailed /\ new.to \in Addresses /\ new.role \in Roles
  <2>1. CASE q.op = "send"
    BY <1>1, <1>5, <1>6, <2>1
  <2>2. CASE q.op # "send"
    <3>1. row.token \in mailed /\ row.to \in Addresses /\ row.role \in Roles
      BY <1>1, <2>2, RowIsOK DEF row
    <3> QED
      BY <1>1, <1>6, <3>1
  <2> QED
    BY <2>1, <2>2
<1>8. invites'[q.id] = new /\ \A i \in InviteIds : i # q.id => invites'[i] = invites[i]
  BY <1>1, <1>2, <1>3
<1>9. invites' \in [InviteIds -> Invite]
  BY <1>2, <1>3, <1>4
<1> QED
  BY <1>4, <1>7, <1>8, <1>9 DEF row

LEMMA CommitMembers ==
    ASSUME IInv, NEW r \in Requests, Commit(r)
    PROVE  /\ members' \in [Users -> Member] /\ MembersOK'
           /\ enrolled' \in [Keys -> {"none", "active", "dropped"}]
<1> DEFINE q == req[r]
           u == UserOf[q.entity.to]
           joined == [role |-> q.entity.role, nth |-> q.nth]
<1>1. /\ q \in Request /\ ShapeOK(q) /\ q.entity.role \in Roles /\ q.nth \in 0..MaxJoins
      /\ q.joins => q.nth # 0
  BY CommitIsOf DEF Commit, ShapeOK, Request
<1>2. "none" \notin Roles
  BY DEF Roles
<1>3. joined \in Member /\ joined.role # "none" /\ joined.nth = q.nth
  BY <1>1, <1>2 DEF Member
<1>4. members' = IF q.joins THEN [members EXCEPT ![u] = joined] ELSE members
  BY DEF Commit, JoinsAs
<1>5. /\ members \in [Users -> Member] /\ MembersOK
      /\ enrolled \in [Keys -> {"none", "active", "dropped"}]
  BY DEF IInv, TypeOK
<1> HIDE DEF joined
<1>6. members' \in [Users -> Member]
  BY <1>3, <1>4, <1>5
<1>7. MembersOK'
  <2> SUFFICES ASSUME NEW v \in Users
               PROVE  IF members'[v].role # "none" THEN members'[v].nth # 0
                                                   ELSE members'[v].nth < MaxJoins
    BY DEF MembersOK, IsMember
  <2>1. CASE q.joins /\ v = u
    BY <1>1, <1>3, <1>4, <1>5, <2>1
  <2>2. CASE ~(q.joins /\ v = u)
    <3>1. members'[v] = members[v]
      BY <1>4, <1>5, <2>2
    <3> QED
      BY <1>5, <3>1 DEF MembersOK, IsMember
  <2> QED
    BY <2>1, <2>2
<1>8. enrolled' \in [Keys -> {"none", "active", "dropped"}]
  BY <1>5 DEF Commit
<1> QED
  BY <1>6, <1>7, <1>8

LEMMA CommitKeeps ==
    ASSUME IInv, NEW r \in Requests, Commit(r)
    PROVE  IInv'
<1>1. /\ invites' \in [InviteIds -> Invite]
      /\ \A i \in InviteIds : i # req[r].id => invites'[i] = invites[i]
      /\ invites'[req[r].id].to \in Addresses /\ invites'[req[r].id].role \in Roles
      /\ invites'[req[r].id].token \in mailed
  BY CommitRow
<1>2. req' = [req EXCEPT ![r] = IdleRequest] /\ UNCHANGED <<expired, drawn, mailed>>
  BY DEF Commit
<1>3. lock' \in [InviteIds -> Requests \union {None}]
  BY LockIsTyped DEF Commit, IInv
<1>4. TypeOK'
  BY <1>1, <1>2, <1>3, CommitMembers, NullsAreTyped DEF IInv, TypeOK
<1>5. \A i \in InviteIds : invites[i].token # 0 => invites'[i].token # 0
  <2>1. 0 \notin mailed
    BY DEF IInv, TypeOK
  <2> QED
    BY <1>1, <2>1
<1>6. RequestsOK'
  <2> SUFFICES ASSUME NEW p \in Requests
               PROVE  ShapeOK(req'[p]) /\ HoldsOK(req'[p], invites', drawn', mailed')
    BY DEF RequestsOK, HoldsOK, ShapeOK
  <2>1. CASE p = r
    BY <1>2, <2>1, IdleIsOK DEF IInv, TypeOK
  <2>2. CASE p # r
    <3>1. /\ req'[p] = req[p] /\ ShapeOK(req[p]) /\ HoldsOK(req[p], invites, drawn, mailed)
      BY <1>2, <2>2 DEF IInv, TypeOK, RequestsOK
    <3>2. req[p].step # "idle" /\ invites[req[p].id].token # 0 => invites'[req[p].id].token # 0
      BY <1>5, <3>1 DEF ShapeOK
    <3>3. HoldsOK(req[p], invites', drawn', mailed')
      BY <1>2, <3>1, <3>2 DEF HoldsOK
    <3> QED
      BY <3>1, <3>3
  <2> QED
    BY <2>1, <2>2
<1>7. RowsOK' /\ TokensAreMailed'
  <2>1. ASSUME NEW i \in InviteIds, invites'[i].token # 0
        PROVE  /\ invites'[i].to \in Addresses /\ invites'[i].role \in Roles
               /\ invites'[i].token \in mailed'
    <3>1. CASE i = req[r].id
      BY <1>1, <1>2, <3>1
    <3>2. CASE i # req[r].id
      BY <1>1, <1>2, <2>1, <3>2 DEF IInv, RowsOK, TokensAreMailed, Exists
    <3> QED
      BY <3>1, <3>2
  <2> QED
    BY <2>1 DEF RowsOK, TokensAreMailed, Exists
<1>8. TokenRoom'
  <2>1. Lookers' = Lookers \ {r}
    BY <1>2, NullsAreTyped, LookersMove DEF IInv
  <2> QED
    BY <1>2, <2>1, RoomStays DEF IInv
<1> QED
  BY <1>4, <1>6, <1>7, <1>8, CommitMembers DEF IInv

-----------------------------------------------------------------------------
(* Time, and what administrators do *)

LEMMA OthersKeep ==
    ASSUME IInv,
           \/ \E t \in Tokens : Expire(t)
           \/ \E u \in Users : Remove(u) \/ \E role \in InviteRoles : Add(u, role)
           \/ \E k \in Keys : Drop(k)
    PROVE  IInv'
<1>1. UNCHANGED <<invites, drawn, mailed, lock, req>>
  BY DEF Expire, Remove, Add, Drop
<1>2. RequestsOK' /\ RowsOK' /\ TokensAreMailed' /\ TokenRoom'
  BY <1>1 DEF IInv, RequestsOK, RowsOK, TokensAreMailed, TokenRoom, Lookers, Exists,
              ShapeOK, HoldsOK
<1>3. expired' \subseteq 1..drawn
  BY DEF Expire, Remove, Add, Drop, IInv, TypeOK
<1>4. enrolled' \in [Keys -> {"none", "active", "dropped"}]
  BY DEF Expire, Remove, Add, Drop, IInv, TypeOK
<1>5. members' \in [Users -> Member] /\ MembersOK'
  <2>1. members \in [Users -> Member] /\ MembersOK /\ MaxJoins \in Nat /\ "none" \notin Roles
    BY InvitesAssumption DEF IInv, TypeOK, Roles
  <2>2. CASE members' = members
    BY <2>1, <2>2 DEF MembersOK, IsMember
  <2>3. ASSUME NEW u \in Users, Remove(u)
        PROVE  members' \in [Users -> Member] /\ MembersOK'
    <3> DEFINE new == [members[u] EXCEPT !.role = "none"]
    <3>1. new \in Member /\ new.role = "none" /\ new.nth < MaxJoins
      BY <2>1, <2>3 DEF Remove, Member
    <3>2. members' = [members EXCEPT ![u] = new]
      BY <2>1, <2>3 DEF Remove, Member
    <3> HIDE DEF new
    <3> QED
      BY <2>1, <3>1, <3>2 DEF MembersOK, IsMember
  <2>4. ASSUME NEW u \in Users, NEW role \in InviteRoles, Add(u, role)
        PROVE  members' \in [Users -> Member] /\ MembersOK'
    <3> DEFINE new == [role |-> role, nth |-> members[u].nth + 1]
    <3>1. ~IsMember(u) /\ members' = [members EXCEPT ![u] = new]
      BY <2>4 DEF Add
    <3>2. new \in Member /\ new.role # "none" /\ new.nth # 0
      <4>1. members[u].nth \in 0..MaxJoins /\ members[u].nth < MaxJoins
        BY <2>1, <3>1 DEF MembersOK, Member
      <4> QED
        BY <2>1, <4>1, InvitesAssumption DEF Member
    <3> HIDE DEF new
    <3> QED
      BY <2>1, <3>1, <3>2 DEF MembersOK, IsMember
  <2>5. ASSUME NEW k \in Keys, Drop(k)
        PROVE  members' = members
    BY <2>5 DEF Drop
  <2>6. ASSUME NEW t \in Tokens, Expire(t)
        PROVE  members' = members
    BY <2>6 DEF Expire
  <2> QED
    BY <2>2, <2>3, <2>4, <2>5, <2>6
<1>6. TypeOK'
  BY <1>1, <1>3, <1>4, <1>5 DEF IInv, TypeOK
<1> QED
  BY <1>2, <1>5, <1>6 DEF IInv

-----------------------------------------------------------------------------
(* The invariant *)

LEMMA InitHolds ==
    ASSUME Init
    PROVE  IInv
<1>1. TypeOK
  BY NullsAreTyped, InvitesAssumption DEF Init, TypeOK, Member
<1>2. RequestsOK
  BY IdleIsOK DEF Init, RequestsOK
<1>3. RowsOK /\ TokensAreMailed
  BY DEF Init, RowsOK, TokensAreMailed, Exists, AbsentInvite
<1>4. MembersOK
  BY InvitesAssumption DEF Init, MembersOK, IsMember
<1>5. TokenRoom
  <2>1. Lookers = {}
    BY NullsAreTyped DEF Init, Lookers
  <2> QED
    BY <2>1, FS_EmptySet, InvitesAssumption DEF Init, TokenRoom
<1> QED
  BY <1>1, <1>2, <1>3, <1>4, <1>5 DEF IInv

LEMMA RequestNextKeeps ==
    ASSUME IInv, NEW r \in Requests, RequestNext(r)
    PROVE  IInv'
<1>1. CASE \E a \in Addresses, role \in InviteRoles, classes \in Offers :
             SendAdmit(r, a, role, classes)
  BY <1>1, SendAdmitKeeps
<1>2. CASE \E i \in InviteIds : ResendFind(r, i) \/ RevokeFind(r, i) \/ AcceptFind(r, i)
  BY <1>2, ResendFindKeeps, FindKeeps
<1>3. CASE SendRefused(r) \/ BrokenEnds(r) \/ AcceptDuplicate(r) \/ Abort(r)
  BY <1>3, RefuseKeeps DEF SendRefused, BrokenEnds, AcceptDuplicate, Abort
<1>4. CASE SendInsert(r)
  BY <1>4, SendInsertKeeps
<1>5. CASE AcceptStep(r)
  BY <1>5, AcceptStepKeeps
<1>6. CASE EnrollFails(r) \/ Deadlocked(r)
  <2>1. req[r].step = "writing" /\ Fail(r)
    BY <1>6 DEF EnrollFails, Deadlocked, InCircle, Awaits
  <2> QED
    BY <2>1, AcceptStepKeeps
<1>7. CASE SaveMerge(r) \/ SaveFlush(r) \/ SaveAgain(r) \/ Mail(r)
  BY <1>7, SaveMergeKeeps, SaveFlushKeeps, SaveAgainKeeps, MailKeeps
<1>8. CASE Commit(r)
  BY <1>8, CommitKeeps
<1> QED
  BY <1>1, <1>2, <1>3, <1>4, <1>5, <1>6, <1>7, <1>8
  DEF RequestNext, Step, Flush, AcceptStep

LEMMA NextKeeps ==
    ASSUME IInv, [Next]_vars
    PROVE  IInv'
<1>1. CASE UNCHANGED vars
  BY <1>1 DEF vars, IInv, TypeOK, RequestsOK, RowsOK, MembersOK, TokenRoom, Lookers,
              TokensAreMailed, Exists, IsMember, ShapeOK, HoldsOK
<1>2. CASE \E r \in Requests : RequestNext(r)
  BY <1>2, RequestNextKeeps
<1>3. CASE \/ \E t \in Tokens : Expire(t)
           \/ \E u \in Users : Remove(u) \/ \E role \in InviteRoles : Add(u, role)
           \/ \E k \in Keys : Drop(k)
  BY <1>3, OthersKeep
<1> QED
  BY <1>1, <1>2, <1>3 DEF Next

(* IInv holds whatever the requests and the administrators do. *)
THEOREM Invariance == Spec => []IInv
<1>1. Init => IInv
  BY InitHolds
<1>2. IInv /\ [Next]_vars => IInv'
  BY NextKeeps
<1> QED
  BY <1>1, <1>2, PTL DEF Spec

(* The variables keep their types: never more tokens or memberships than the
   bounds allow. *)
THEOREM TypeCorrect == Spec => []TypeOK
<1>1. IInv => TypeOK
  BY DEF IInv
<1> QED
  BY <1>1, Invariance, PTL

(* No committed invite has a token that was not given to an e-mail: a send and
   a resend mail theirs before they commit, and a stale save can only bring back
   a token that was committed, hence mailed, before.  For any number of requests. *)
THEOREM EveryTokenWasMailed == Spec => []TokensAreMailed
<1>1. IInv => TokensAreMailed
  BY DEF IInv
<1> QED
  BY <1>1, Invariance, PTL

-----------------------------------------------------------------------------
(* Requests that are not at work on the same invite *)

(* What becomes of a request that goes on: its operation, its invite and, but
   for the token of a send, its copy of the invite stay. *)
GoesOn(q, new) ==
    /\ q.step # "idle" /\ new.op = q.op /\ new.id = q.id
    /\ new.entity.accepted = q.entity.accepted /\ new.entity.revoked = q.entity.revoked
    /\ q.op # "send" => new.entity = q.entity

LEMMA SavingMoves ==
    ASSUME IInv, NEW r \in Requests
    PROVE  /\ SaveMerge(r) => \E cols : req' = [req EXCEPT ![r] = Moved(req[r], "merged", cols)]
           /\ SaveFlush(r) =>
                req' = [req EXCEPT ![r] = Moved(req[r],
                          IF req[r].op = "accept" /\ ~req[r].joins THEN "enrolling" ELSE "saved",
                          req[r].cols)]
           /\ SaveAgain(r) => req' = [req EXCEPT ![r] = Moved(req[r], "saved", req[r].cols)]
           /\ Mail(r) => req' = [req EXCEPT ![r] = Moved(req[r], "told", req[r].cols)]
<1> DEFINE q == req[r]
<1>1. q \in Request /\ req \in [Requests -> Request]
  BY AtWork DEF IInv, TypeOK
<1>2. ASSUME SaveMerge(r)
      PROVE  req' = [req EXCEPT ![r] = Moved(q, "merged",
                      Dirty(q.entity, invites[q.id]) \union Stamped(q.op))]
  BY <1>1, <1>2 DEF SaveMerge, Moved, Request
<1>3. ASSUME SaveFlush(r)
      PROVE  req' = [req EXCEPT ![r] = Moved(q,
                      IF q.op = "accept" /\ ~q.joins THEN "enrolling" ELSE "saved", q.cols)]
  BY <1>1, <1>3 DEF SaveFlush, Moved, Request
<1>4. ASSUME Mail(r)
      PROVE  req' = [req EXCEPT ![r] = Moved(q, "told", q.cols)]
  BY <1>1, <1>4 DEF Mail, Moved, Request
<1>5. SaveMerge(r) => \E cols : req' = [req EXCEPT ![r] = Moved(q, "merged", cols)]
  BY <1>2
<1>6. ASSUME SaveAgain(r)
      PROVE  req' = [req EXCEPT ![r] = Moved(q, "saved", q.cols)]
  BY <1>1, <1>6 DEF SaveAgain, Moved, Request
<1> QED
  BY <1>3, <1>4, <1>5, <1>6

LEMMA RequestGoesOn ==
    ASSUME IInv, NEW r \in Requests,
           \/ SendInsert(r) \/ AcceptStep(r) \/ (req[r].step = "writing" /\ Fail(r))
           \/ SaveMerge(r) \/ SaveFlush(r) \/ SaveAgain(r) \/ Mail(r)
    PROVE  invites' = invites /\ \E new : req' = [req EXCEPT ![r] = new] /\ GoesOn(req[r], new)
<1> DEFINE q == req[r]
<1>1. q \in Request /\ q.entity \in Invite /\ ShapeOK(q) /\ req \in [Requests -> Request]
  BY AtWork DEF Request, IInv, TypeOK
<1>2. CASE SendInsert(r)
  <2> DEFINE entity == [q.entity EXCEPT !.token = drawn + 1]
             new == [q EXCEPT !.step = "saved", !.entity = entity, !.cols = Columns]
  <2>1. req' = [req EXCEPT ![r] = new] /\ q.step = "looked" /\ q.op = "send"
    BY <1>1, <1>2 DEF SendInsert, At, Request, Invite
  <2>2. /\ new.op = q.op /\ new.id = q.id /\ new.entity = entity
        /\ entity.accepted = q.entity.accepted /\ entity.revoked = q.entity.revoked
    BY <1>1 DEF Request, Invite
  <2>3. invites' = invites
    BY <1>2 DEF SendInsert, DrawToken
  <2> HIDE DEF new, entity
  <2> QED
    BY <2>1, <2>2, <2>3 DEF GoesOn
<1>3. CASE AcceptStep(r) \/ (q.step = "writing" /\ Fail(r))
  <2>1. q.step # "idle"
    BY <1>3 DEF AcceptStep, AcceptMember, AcceptJoin, EnrollLookup, EnrollWrite, At
  <2>2. \E new : Moves(r, new)
    BY <1>3, AcceptMemberMoves, AcceptJoinMoves, EnrollLookupMoves, EnrollWriteMoves, FailMoves
    DEF AcceptStep
  <2> QED
    BY <2>1, <2>2 DEF Moves, GoesOn
<1>4. CASE SaveMerge(r) \/ SaveFlush(r) \/ SaveAgain(r) \/ Mail(r)
  <2>1. q.step # "idle" /\ invites' = invites
    BY <1>4 DEF SaveMerge, InviteToSave, SaveFlush, SaveAgain, At, Mail, Stay
  <2>2. \E step, cols : req' = [req EXCEPT ![r] = Moved(q, step, cols)]
    BY <1>4, SavingMoves
  <2>3. \A step, cols : GoesOn(q, Moved(q, step, cols))
    BY <1>1, <2>1 DEF GoesOn, Moved, Request
  <2> QED
    BY <2>1, <2>2, <2>3
<1> QED
  BY <1>2, <1>3, <1>4

(* A step that commits nothing and leaves its request current. *)
LEMMA ApartQuiet ==
    ASSUME IInv, ApartInv, NEW r \in Requests, NEW new, req' = [req EXCEPT ![r] = new],
           invites' = invites,
           new.step # "idle" => CurrentOK(new, invites[new.id])
    PROVE  ApartInv'
<1>1. \A p \in Requests : req'[p] = IF p = r THEN new ELSE req[p]
  BY DEF IInv, TypeOK
<1>2. ASSUME NEW p \in Requests, req'[p].step # "idle"
      PROVE  CurrentOK(req'[p], invites'[req'[p].id])
  <2>1. CASE p = r
    BY <1>1, <1>2, <2>1
  <2>2. CASE p # r
    BY <1>1, <1>2, <2>2 DEF ApartInv
  <2> QED
    BY <2>1, <2>2
<1> QED
  BY <1>2 DEF ApartInv, CurrentOK, Exists

LEMMA ApartGoesOn ==
    ASSUME IInv, ApartInv, NEW r \in Requests, NEW new, req' = [req EXCEPT ![r] = new],
           invites' = invites, GoesOn(req[r], new)
    PROVE  ApartInv'
<1>1. CurrentOK(req[r], invites[req[r].id])
  BY DEF ApartInv, GoesOn
<1>2. CurrentOK(new, invites[new.id])
  BY <1>1 DEF CurrentOK, GoesOn
<1> QED
  BY <1>2, ApartQuiet

LEMMA ApartStarts ==
    ASSUME IInv, ApartInv, NEW r \in Requests,
           \/ \E a \in Addresses, role \in InviteRoles, classes \in Offers :
                 SendAdmit(r, a, role, classes)
           \/ \E i \in InviteIds : ResendFind(r, i) \/ RevokeFind(r, i) \/ AcceptFind(r, i)
    PROVE  ApartInv'
<1>1. invites' = invites
  BY DEF SendAdmit, ResendFind, RevokeFind, AcceptFind, Stay, DrawToken
<1>2. ASSUME NEW a \in Addresses, NEW role \in InviteRoles, NEW classes \in Offers,
             SendAdmit(r, a, role, classes)
      PROVE  ApartInv'
  <2>1. PICK i \in InviteIds : i = (CHOOSE j \in InviteIds : j \in Unused) /\ i \in Unused
    BY <1>2 DEF SendAdmit, Unused
  <2> DEFINE entity == [AbsentInvite EXCEPT !.to = a, !.role = role, !.classes = classes]
             new == [IdleRequest EXCEPT !.step = "looked", !.op = "send", !.id = i,
                                        !.entity = entity]
  <2>2. req' = [req EXCEPT ![r] = new]
    BY <1>2, <2>1 DEF SendAdmit
  <2>3. ~entity.accepted /\ ~entity.revoked
    BY DEF AbsentInvite
  <2>4. new.op = "send" /\ new.id = i /\ new.entity = entity
    BY DEF IdleRequest
  <2>5. ~invites[i].accepted /\ ~invites[i].revoked
    <3>1. ~Exists(i)
      BY <2>1 DEF Unused
    <3> QED
      BY <3>1 DEF ApartInv
  <2> HIDE DEF new, entity
  <2>6. CurrentOK(new, invites[new.id])
    BY <2>3, <2>4, <2>5 DEF CurrentOK
  <2> QED
    BY <1>1, <2>2, <2>6, ApartQuiet
<1>3. ASSUME NEW i \in InviteIds, ResendFind(r, i) \/ RevokeFind(r, i) \/ AcceptFind(r, i)
      PROVE  ApartInv'
  <2>1. invites[i] \in Invite
    BY DEF IInv, TypeOK
  <2>2. PICK op, entity : /\ req' = [req EXCEPT ![r] = Found(op, i, entity)]
                          /\ op # "send" /\ CurrentOK([op |-> op, entity |-> entity], invites[i])
    <3>1. CASE ResendFind(r, i)
      <4>1. CurrentOK([op |-> "resend", entity |-> Renewed(invites[i])], invites[i])
        BY <2>1, <3>1 DEF ResendFind, CanBeResent, Renewed, CurrentOK, Invite
      <4> QED
        BY <3>1, <4>1 DEF ResendFind
    <3>2. CASE RevokeFind(r, i)
      <4>1. CurrentOK([op |-> "revoke", entity |-> [invites[i] EXCEPT !.revoked = TRUE]],
                      invites[i])
        BY <2>1, <3>2 DEF RevokeFind, CurrentOK, Invite
      <4> QED
        BY <3>2, <4>1 DEF RevokeFind
    <3>3. CASE AcceptFind(r, i)
      <4>1. CurrentOK([op |-> "accept", entity |-> [invites[i] EXCEPT !.accepted = TRUE]],
                      invites[i])
        BY <2>1, <3>3 DEF AcceptFind, IsPending, CurrentOK, Invite
      <4> QED
        BY <3>3, <4>1 DEF AcceptFind
    <3> QED
      BY <1>3, <3>1, <3>2, <3>3
  <2>3. /\ Found(op, i, entity).op = op /\ Found(op, i, entity).id = i
        /\ Found(op, i, entity).entity = entity
    BY DEF Found, IdleRequest
  <2>4. CurrentOK(Found(op, i, entity), invites[i])
    BY <2>2, <2>3 DEF CurrentOK
  <2> QED
    BY <1>1, <2>2, <2>3, <2>4, ApartQuiet
<1> QED
  BY <1>2, <1>3

(* What a commit does to its invite, nobody else being at work on it. *)
LEMMA CommitOfApart ==
    ASSUME IInv, ApartInv, NEW r \in Requests, Commit(r)
    PROVE  LET q == req[r]  row == invites'[q.id] IN
           /\ ~invites[q.id].accepted
           /\ ~(row.accepted /\ row.revoked) /\ row.token # 0
           /\ row.accepted => q.op = "accept" /\ ~invites[q.id].revoked
<1> DEFINE q == req[r]
           row == invites'[q.id]
<1>1. /\ q.step # "idle" /\ q.op \in {"send", "resend", "revoke", "accept"}
      /\ q.id \in InviteIds
  BY CommitIsOf DEF Commit
<1>2. CurrentOK(q, invites[q.id])
  BY <1>1 DEF ApartInv
<1>3. /\ row.accepted = IF "accepted" \in q.cols THEN q.entity.accepted ELSE invites[q.id].accepted
      /\ row.revoked = IF "revoked" \in q.cols THEN q.entity.revoked ELSE invites[q.id].revoked
      /\ row.token \in mailed
  BY CommitRow DEF Columns, AbsentInvite
<1>4. row.token # 0
  BY <1>3 DEF IInv, TypeOK
<1> HIDE DEF q, row
<1> QED
  BY <1>1, <1>2, <1>3, <1>4 DEF CurrentOK, q, row

LEMMA ApartCommits ==
    ASSUME IInv, ApartInv, InvitesApart, NEW r \in Requests, Commit(r)
    PROVE  ApartInv'
<1>1. \A p \in Requests : req'[p] = IF p = r THEN IdleRequest ELSE req[p]
  BY DEF Commit, IInv, TypeOK
<1>2. \A i \in InviteIds : i # req[r].id => invites'[i] = invites[i]
  BY CommitRow
<1>3. ASSUME NEW p \in Requests, req'[p].step # "idle"
      PROVE  CurrentOK(req'[p], invites'[req'[p].id])
  <2>1. p # r /\ req'[p] = req[p]
    BY <1>1, <1>3, NullsAreTyped
  <2>2. req[p].id \in InviteIds
    BY <1>3, <2>1, AtWork DEF ShapeOK
  <2>3. req[r].step # "idle"
    BY CommitIsOf DEF Commit
  <2>4. req[p].id # req[r].id
    BY <1>3, <2>1, <2>3 DEF InvitesApart
  <2>5. invites'[req[p].id] = invites[req[p].id]
    BY <1>2, <2>2, <2>4
  <2> QED
    BY <1>3, <2>1, <2>5 DEF ApartInv
<1>4. ASSUME NEW i \in InviteIds
      PROVE  /\ ~(invites'[i].accepted /\ invites'[i].revoked)
             /\ invites'[i].token = 0 => ~invites'[i].accepted /\ ~invites'[i].revoked
  <2>1. CASE i = req[r].id
    BY <2>1, CommitOfApart
  <2>2. CASE i # req[r].id
    <3>1. invites'[i] = invites[i]
      BY <1>2, <2>2
    <3> QED
      BY <3>1 DEF ApartInv, Exists
  <2> QED
    BY <2>1, <2>2
<1> QED
  BY <1>3, <1>4 DEF ApartInv, CurrentOK, Exists

(* What each step is of the invites: it leaves them, or it commits. *)
LEMMA ApartKeeps ==
    ASSUME IInv, ApartInv, InvitesApart, [Next]_vars
    PROVE  ApartInv'
<1>1. CASE UNCHANGED <<invites, req>>
  BY <1>1 DEF ApartInv, CurrentOK, Exists
<1>2. ASSUME NEW r \in Requests, RequestNext(r)
      PROVE  ApartInv'
  <2>1. CASE \/ \E a \in Addresses, role \in InviteRoles, classes \in Offers :
                   SendAdmit(r, a, role, classes)
             \/ \E i \in InviteIds : ResendFind(r, i) \/ RevokeFind(r, i) \/ AcceptFind(r, i)
    BY <2>1, ApartStarts
  <2>2. CASE Refuse(r)
    <3>1. req' = [req EXCEPT ![r] = IdleRequest] /\ invites' = invites
      BY <2>2 DEF Refuse
    <3> QED
      BY <3>1, NullsAreTyped, ApartQuiet
  <2>3. CASE \/ SendInsert(r) \/ AcceptStep(r) \/ (req[r].step = "writing" /\ Fail(r))
             \/ SaveMerge(r) \/ SaveFlush(r) \/ SaveAgain(r) \/ Mail(r)
    BY <2>3, RequestGoesOn, ApartGoesOn
  <2>4. CASE Commit(r)
    BY <2>4, ApartCommits
  <2>5. EnrollFails(r) \/ Deadlocked(r) => req[r].step = "writing" /\ Fail(r)
    BY DEF EnrollFails, Deadlocked, InCircle, Awaits
  <2>6. SendRefused(r) \/ BrokenEnds(r) \/ AcceptDuplicate(r) \/ Abort(r) => Refuse(r)
    BY DEF SendRefused, BrokenEnds, AcceptDuplicate, Abort
  <2> QED
    BY <1>2, <2>1, <2>2, <2>3, <2>4, <2>5, <2>6 DEF RequestNext, Step, Flush, AcceptStep
<1>3. CASE \/ \E t \in Tokens : Expire(t)
           \/ \E u \in Users : Remove(u) \/ \E role \in InviteRoles : Add(u, role)
           \/ \E k \in Keys : Drop(k)
  BY <1>1, <1>3 DEF Expire, Remove, Add, Drop
<1> QED
  BY <1>1, <1>2, <1>3 DEF Next, vars

(* The only steps that change invites are commits. *)
LEMMA OnlyCommits ==
    ASSUME IInv, [Next]_vars
    PROVE  invites' = invites \/ \E r \in Requests : Commit(r)
<1>1. ASSUME NEW r \in Requests, RequestNext(r)
      PROVE  invites' = invites \/ Commit(r)
  BY <1>1 DEF RequestNext, Step, Flush, SendAdmit, ResendFind, RevokeFind, AcceptFind, SendRefused,
              SendInsert, AcceptMember, EnrollLookup, BrokenEnds, SaveMerge, SaveAgain, Mail,
              Deadlocked,
              AcceptJoin, AcceptDuplicate, EnrollWrite, EnrollFails, SaveFlush, Abort, Refuse,
              Fail, Stay, DrawToken
<1>2. CASE \/ \E t \in Tokens : Expire(t)
           \/ \E u \in Users : Remove(u) \/ \E role \in InviteRoles : Add(u, role)
           \/ \E k \in Keys : Drop(k)
  BY <1>2 DEF Expire, Remove, Add, Drop
<1> QED
  BY <1>1, <1>2 DEF Next, vars

(* ApartInv, as long as no two requests are at work on the same invite. *)
THEOREM ApartInvariance == Spec /\ []InvitesApart => []ApartInv
<1>1. Init => ApartInv
  BY DEF Init, ApartInv, IdleRequest, AbsentInvite
<1>2. IInv /\ ApartInv /\ InvitesApart /\ [Next]_vars => ApartInv'
  BY ApartKeeps
<1> QED
  BY <1>1, <1>2, Invariance, PTL DEF Spec

(* The list an invite is in. *)
ListOf(row, lapsed) ==
    IF row.accepted THEN "accepted"
    ELSE IF row.revoked THEN "revoked"
    ELSE IF row.token \in lapsed THEN "expired" ELSE "pending"

LEMMA InOneList ==
    ASSUME IInv, ApartInv, NEW i \in InviteIds, Exists(i), NEW lapsed
    PROVE  /\ ListOf(invites[i], lapsed) \in Statuses
           /\ \A t \in Statuses : i \in Listed(t, lapsed) <=> t = ListOf(invites[i], lapsed)
           /\ \/ ListOf(invites[i], lapsed) = Status(invites[i])
              \/ /\ {ListOf(invites[i], lapsed), Status(invites[i])} = {"pending", "expired"}
                 /\ (invites[i].token \in lapsed) # (invites[i].token \in expired)
<1> DEFINE row == invites[i]
<1>1. ~(row.accepted /\ row.revoked) /\ row \in Invite
  BY DEF ApartInv, IInv, TypeOK
<1>2. row.accepted \in BOOLEAN /\ row.revoked \in BOOLEAN
  BY <1>1 DEF Invite
<1>3. \A t : i \in Listed(t, lapsed) <=>
         CASE t = "pending" -> (~row.accepted /\ ~row.revoked) /\ row.token \notin lapsed
           [] t = "accepted" -> row.accepted
           [] t = "revoked" -> row.revoked
           [] t = "expired" -> (~row.accepted /\ ~row.revoked) /\ row.token \in lapsed
  BY DEF Listed
<1>4. ListOf(row, lapsed) \in Statuses
  BY DEF ListOf, Statuses
<1>5. \A t \in Statuses : i \in Listed(t, lapsed) <=> t = ListOf(row, lapsed)
  BY <1>1, <1>2, <1>3 DEF ListOf, Statuses
<1>6. \/ ListOf(row, lapsed) = Status(row)
      \/ /\ {ListOf(row, lapsed), Status(row)} = {"pending", "expired"}
         /\ (row.token \in lapsed) # (row.token \in expired)
  BY DEF ListOf, Status
<1> QED
  BY <1>4, <1>5, <1>6

(* The counts add up: each invite is counted once. *)
LEMMA CountsAddUp ==
    ASSUME IInv, ApartInv, NEW lapsed
    PROVE  SumFunction(Counts(lapsed)) = Cardinality({i \in InviteIds : Exists(i)})
<1> DEFINE E == {i \in InviteIds : Exists(i)}
           k == [i \in E |-> ListOf(invites[i], lapsed)]
<1>1. IsFiniteSet(E)
  BY InvitesAssumption, FS_Subset
<1>2. IsFiniteSet(Statuses)
  <2>1. Statuses = (({"pending"} \union {"accepted"}) \union {"revoked"}) \union {"expired"}
    BY DEF Statuses
  <2> QED
    BY <2>1, FS_EmptySet, FS_Singleton, FS_Union
<1>3. k \in [E -> Statuses]
  BY InOneList
<1>4. \A s \in Statuses : Fibre(k, E, s) = Listed(s, lapsed)
  <2>1. \A s \in Statuses : \A i \in Listed(s, lapsed) : i \in E
    BY DEF Listed
  <2>2. \A s \in Statuses : \A i \in E : i \in Listed(s, lapsed) <=> k[i] = s
    BY InOneList
  <2> HIDE DEF E, k
  <2> QED
    BY <2>1, <2>2 DEF Fibre
<1>5. Counts(lapsed) = [s \in Statuses |-> Cardinality(Fibre(k, E, s))]
  BY <1>4 DEF Counts
<1>6. Cardinality(E) = SumFunction([s \in Statuses |-> Cardinality(Fibre(k, E, s))])
  <2> HIDE DEF E, k
  <2> QED
    BY <1>1, <1>2, <1>3, CardFibres
<1> QED
  BY <1>5, <1>6

(* Accepted and revoked exclude each other, so the lists by status share out
   the invites and the counts add up, whatever the clock of the database says,
   and the list is that of the status but where the clocks judge an expiry
   differently: as long as no two requests are at work on the same invite.  (An
   acceptance and a revocation that overlap leave an invite that is both.) *)
THEOREM ListsShareOutInvites == Spec /\ []InvitesApart => []StatusesPartition
<1>1. ASSUME IInv, ApartInv
      PROVE  StatusesPartition
  <2>1. ASSUME NEW lapsed \in SUBSET Tokens, NEW i \in InviteIds, Exists(i)
        PROVE  \E s \in Statuses :
                 /\ \A t \in Statuses : i \in Listed(t, lapsed) <=> t = s
                 /\ \/ s = Status(invites[i])
                    \/ /\ {s, Status(invites[i])} = {"pending", "expired"}
                       /\ (invites[i].token \in lapsed) # (invites[i].token \in expired)
    <3> DEFINE s == ListOf(invites[i], lapsed)
    <3>1. /\ s \in Statuses
          /\ \A t \in Statuses : i \in Listed(t, lapsed) <=> t = s
          /\ \/ s = Status(invites[i])
             \/ /\ {s, Status(invites[i])} = {"pending", "expired"}
                /\ (invites[i].token \in lapsed) # (invites[i].token \in expired)
      BY <1>1, <2>1, InOneList
    <3> HIDE DEF s
    <3> QED
      BY <3>1
  <2> QED
    BY <1>1, <2>1, CountsAddUp DEF StatusesPartition
<1> QED
  BY <1>1, Invariance, ApartInvariance, PTL

(* No resend, revocation or second acceptance changes an accepted invite, as
   long as no two requests are at work on the same invite. *)
THEOREM AcceptanceStands == Spec /\ []InvitesApart => AcceptedStands
<1>1. ASSUME IInv, ApartInv, [Next]_vars, NEW i \in InviteIds, invites[i].accepted
      PROVE  invites'[i] = invites[i]
  BY <1>1, OnlyCommits, CommitOfApart, CommitRow
<1>2. IInv /\ ApartInv /\ [Next]_vars =>
        [\A i \in InviteIds : invites[i].accepted => invites'[i] = invites[i]]_vars
  BY <1>1
<1> QED
  BY <1>2, Invariance, ApartInvariance, PTL DEF Spec, AcceptedStands

(* What an acceptance commits was not revoked when it does, as long as no two
   requests are at work on the same invite. *)
THEOREM RevocationKeepsOut == Spec /\ []InvitesApart => RevokedKeepsOut
<1>1. ASSUME IInv, ApartInv, [Next]_vars, NEW i \in InviteIds,
             ~invites[i].accepted, invites'[i].accepted
      PROVE  ~invites[i].revoked
  BY <1>1, OnlyCommits, CommitOfApart, CommitRow
<1>2. IInv /\ ApartInv /\ [Next]_vars =>
        [\A i \in InviteIds :
           ~invites[i].accepted /\ invites'[i].accepted => ~invites[i].revoked]_vars
  BY <1>1
<1> QED
  BY <1>2, Invariance, ApartInvariance, PTL DEF Spec, RevokedKeepsOut

-----------------------------------------------------------------------------
(* One request at a time: the acceptance as a whole *)

LEMMA AloneIsApart ==
    ASSUME OneRequest
    PROVE  InvitesApart
BY DEF OneRequest, InvitesApart

(* Nothing but the one request has moved, and what it holds is OK. *)
LEMMA AcceptQuiet ==
    ASSUME OneRequest, IInv, NEW r \in Requests, NEW new, req' = [req EXCEPT ![r] = new],
           AcceptOK(new), UNCHANGED <<members, enrolled>>
    PROVE  AcceptInv'
<1>1. ASSUME NEW p \in Requests
      PROVE  req'[p] = new
  BY DEF OneRequest, IInv, TypeOK
<1> QED
  BY <1>1 DEF AcceptInv, AcceptOK, Belongs, Covered, Behind, Before, IsMember

LEMMA AcceptMemberFits ==
    ASSUME IInv, AcceptInv, NEW r \in Requests, AcceptMember(r), NEW new, Moves(r, new),
           req[r].step = "found", new.joins = req[r].joins, new.todo = Enrolls(req[r].entity),
           LET u == UserOf[req[r].entity.to] IN
              \/ IsMember(u) /\ new.step = "marking" /\ new.nth = members[u].nth
              \/ ~IsMember(u) /\ new.step = "joining" /\ new.nth = req[r].nth
    PROVE  AcceptOK(new)
<1>1. ~new.joins /\ new.entity = req[r].entity
  BY DEF AcceptInv, AcceptOK, Moves
<1>2. Covered(new)
  BY <1>1 DEF Covered, Before
<1>3. new.step = "marking" => Belongs(new)
  BY <1>1 DEF Belongs
<1> QED
  BY <1>1, <1>2, <1>3 DEF AcceptOK

LEMMA AcceptJoinFits ==
    ASSUME IInv, AcceptInv, NEW r \in Requests, NEW new, Moves(r, new),
           req[r].step = "joining", new.step = "enrolling", new.joins, new.wrote = req[r].wrote,
           new.todo = req[r].todo, ~IsMember(UserOf[req[r].entity.to])
    PROVE  AcceptOK(new)
<1>1. Covered(req[r]) /\ new.entity = req[r].entity
  BY DEF AcceptInv, AcceptOK, Moves
<1>2. Covered(new)
  BY <1>1 DEF Covered, Before
<1>3. Belongs(new)
  BY <1>1 DEF Belongs
<1> QED
  BY <1>2, <1>3 DEF AcceptOK

(* A class that leaves the list of those to come is behind. *)
LEMMA LoopFits ==
    ASSUME IInv, AcceptInv, NEW r \in Requests, NEW new, Moves(r, new),
           req[r].step \in {"enrolling", "writing"}, new.step \in {"enrolling", "writing"},
           new.joins = req[r].joins, new.nth = req[r].nth, req[r].wrote \subseteq new.wrote,
           \/ new.todo = req[r].todo
           \/ /\ req[r].todo # <<>> /\ new.todo = Tail(req[r].todo)
              /\ enrolled[KeyOf(req[r])] = "active" \/ Head(req[r].todo) \in new.wrote
    PROVE  AcceptOK(new)
<1> DEFINE q == req[r]
<1>1. Covered(q) /\ Belongs(q) /\ new.entity = q.entity
  BY DEF AcceptInv, AcceptOK, Moves
<1>2. q.todo \in Seq(Classes)
  BY AtWork DEF Request
<1>3. \A c : Behind(q, c) => Behind(new, c)
  BY <1>1 DEF Behind
<1>4. ASSUME NEW c, Before(q, c)
      PROVE  Before(new, c) \/ Behind(new, c)
  <2>1. CASE new.todo = q.todo
    BY <1>4, <2>1 DEF Before
  <2>2. CASE q.todo # <<>> /\ new.todo = Tail(q.todo)
    <3>1. c = Head(q.todo) \/ \E m \in DOMAIN Tail(q.todo) : Tail(q.todo)[m] = c
      BY <1>2, <1>4, <2>2, HeadAndTail DEF Before
    <3>2. CASE c = Head(q.todo)
      BY <1>1, <3>2, <2>2, <1>4 DEF Behind, Before, KeyOf
    <3>3. CASE \E m \in DOMAIN Tail(q.todo) : Tail(q.todo)[m] = c
      BY <2>2, <3>3 DEF Before
    <3> QED
      BY <3>1, <3>2, <3>3
  <2> QED
    BY <2>1, <2>2
<1>5. Covered(new)
  <2> DEFINE classes == Enrolls(q.entity)
  <2> SUFFICES ASSUME NEW n \in DOMAIN classes
               PROVE  Before(new, classes[n]) \/ Behind(new, classes[n])
    BY <1>1 DEF Covered
  <2>1. Before(q, classes[n]) \/ Behind(q, classes[n])
    BY <1>1 DEF Covered
  <2> HIDE DEF classes
  <2> QED
    BY <1>3, <1>4, <2>1
<1>6. Belongs(new)
  BY <1>1 DEF Belongs
<1> QED
  BY <1>5, <1>6 DEF AcceptOK

LEMMA AcceptStepFits ==
    ASSUME OneRequest, IInv, AcceptInv, NEW r \in Requests,
           AcceptStep(r) \/ (req[r].step = "writing" /\ Fail(r))
    PROVE  AcceptInv'
<1>1. \E new : Moves(r, new) /\ AcceptOK(new)
  <2>1. CASE AcceptMember(r)
    BY <2>1, AcceptMemberMoves, AcceptMemberFits
  <2>2. CASE AcceptJoin(r)
    BY <2>2, AcceptJoinMoves, AcceptJoinFits
  <2>3. CASE EnrollLookup(r)
    BY <2>3, EnrollLookupMoves, LoopFits
  <2>4. CASE EnrollWrite(r)
    BY <2>4, EnrollWriteMoves, LoopFits
  <2>5. CASE req[r].step = "writing" /\ Fail(r)
    <3>1. \A new : new.step = "broken" => AcceptOK(new)
      BY DEF AcceptOK
    <3> QED
      BY <2>5, <3>1, FailMoves
  <2> QED
    BY <2>1, <2>2, <2>3, <2>4, <2>5 DEF AcceptStep
<1> QED
  BY <1>1, AcceptQuiet DEF Moves

LEMMA SaveFits ==
    ASSUME OneRequest, IInv, AcceptInv, NEW r \in Requests,
           SaveMerge(r) \/ SaveFlush(r) \/ SaveAgain(r) \/ Mail(r)
    PROVE  AcceptInv'
<1> DEFINE q == req[r]
<1>1. q \in Request /\ ShapeOK(q) /\ AcceptOK(q)
  BY AtWork DEF AcceptInv
<1>2. PICK step, cols : /\ req' = [req EXCEPT ![r] = Moved(q, step, cols)]
                        /\ \/ SaveMerge(r) /\ step = "merged"
                           \/ /\ SaveFlush(r)
                              /\ step = IF q.op = "accept" /\ ~q.joins THEN "enrolling" ELSE "saved"
                           \/ SaveAgain(r) /\ step = "saved"
                           \/ Mail(r)
  BY SavingMoves
<1> DEFINE new == Moved(q, step, cols)
<1>3. /\ new.step = step /\ new.op = q.op /\ new.entity = q.entity /\ new.joins = q.joins
      /\ new.nth = q.nth /\ new.todo = q.todo /\ new.wrote = q.wrote
  BY <1>1 DEF Moved, Request
<1>4. UNCHANGED <<members, enrolled>>
  BY DEF SaveMerge, SaveFlush, SaveAgain, Mail, Stay
<1> HIDE DEF new
<1>5. ASSUME q.op = "accept"
      PROVE  /\ q.step \in {"marking", "enrolling", "merged"}
             /\ step \in {"merged", "enrolling", "saved"}
             /\ step = "merged" /\ q.joins => q.todo = <<>>
             /\ step = "saved" => q.todo = <<>>
  <2>1. CASE SaveMerge(r) /\ step = "merged"
    BY <1>1, <1>5, <2>1 DEF SaveMerge, InviteToSave, AcceptOK
  <2>2. CASE SaveFlush(r) /\ step = IF q.op = "accept" /\ ~q.joins THEN "enrolling" ELSE "saved"
    BY <1>1, <1>5, <2>2 DEF SaveFlush, AcceptOK
  <2>3. CASE Mail(r)
    BY <1>5, <2>3 DEF Mail
  <2>4. CASE SaveAgain(r) /\ step = "saved"
    BY <1>5, <2>4 DEF SaveAgain, At
  <2> QED
    BY <1>2, <2>1, <2>2, <2>3, <2>4
<1>6. ASSUME q.op = "accept"
      PROVE  Covered(new) /\ Belongs(new)
  <2>1. Covered(q) /\ Belongs(q)
    BY <1>1, <1>5, <1>6 DEF AcceptOK
  <2>2. \A c : (Before(q, c) => Before(new, c)) /\ (Behind(q, c) => Behind(new, c))
    BY <1>3 DEF Before, Behind
  <2>3. Covered(new)
    <3>1. new.step # "joining" /\ Enrolls(new.entity) = Enrolls(q.entity)
      BY <1>3, <1>5, <1>6
    <3> HIDE DEF q
    <3> QED
      BY <2>1, <2>2, <3>1 DEF Covered
  <2>4. Belongs(new)
    BY <1>3, <2>1 DEF Belongs
  <2> QED
    BY <2>3, <2>4
<1>7. AcceptOK(new)
  <2> HIDE DEF q
  <2> QED
    BY <1>3, <1>5, <1>6 DEF AcceptOK
<1> QED
  BY <1>2, <1>4, <1>7, AcceptQuiet DEF new

LEMMA AcceptKeeps ==
    ASSUME OneRequest, IInv, AcceptInv, [Next]_vars
    PROVE  AcceptInv'
<1>1. AcceptOK(IdleRequest)
  BY DEF AcceptOK, IdleRequest
<1>2. ASSUME NEW r \in Requests, RequestNext(r)
      PROVE  AcceptInv'
  <2>1. ASSUME NEW a \in Addresses, NEW role \in InviteRoles, NEW classes \in Offers,
               SendAdmit(r, a, role, classes)
        PROVE  AcceptInv'
    <3> DEFINE new == [IdleRequest EXCEPT !.step = "looked", !.op = "send",
                         !.id = CHOOSE i \in InviteIds : i \in Unused,
                         !.entity = [AbsentInvite EXCEPT !.to = a, !.role = role,
                                                         !.classes = classes]]
    <3>1. req' = [req EXCEPT ![r] = new] /\ new.op = "send"
      BY <2>1 DEF SendAdmit, IdleRequest
    <3> HIDE DEF new
    <3> QED
      BY <2>1, <3>1, AcceptQuiet DEF SendAdmit, Stay, AcceptOK
  <2>2. ASSUME NEW i \in InviteIds, ResendFind(r, i) \/ RevokeFind(r, i) \/ AcceptFind(r, i)
        PROVE  AcceptInv'
    <3>1. PICK op, entity : req' = [req EXCEPT ![r] = Found(op, i, entity)]
      BY <2>2 DEF ResendFind, RevokeFind, AcceptFind
    <3>2. AcceptOK(Found(op, i, entity))
      BY DEF AcceptOK, Found, IdleRequest
    <3>3. UNCHANGED <<members, enrolled>>
      BY <2>2 DEF ResendFind, RevokeFind, AcceptFind, DrawToken, Stay
    <3> QED
      BY <3>1, <3>2, <3>3, AcceptQuiet
  <2>3. CASE Refuse(r)
    BY <1>1, <2>3, AcceptQuiet DEF Refuse
  <2>4. CASE SendInsert(r)
    <3>1. PICK new : req' = [req EXCEPT ![r] = new] /\ GoesOn(req[r], new)
      BY <2>4, RequestGoesOn
    <3>2. new.op = "send"
      BY <2>4, <3>1 DEF SendInsert, At, GoesOn
    <3> QED
      BY <2>4, <3>1, <3>2, AcceptQuiet DEF SendInsert, DrawToken, AcceptOK
  <2>5. CASE AcceptStep(r) \/ (req[r].step = "writing" /\ Fail(r))
    BY <2>5, AcceptStepFits
  <2>6. CASE SaveMerge(r) \/ SaveFlush(r) \/ SaveAgain(r) \/ Mail(r)
    BY <2>6, SaveFits
  <2>7. CASE Commit(r)
    <3>1. \A p \in Requests : req'[p] = IdleRequest
      BY <2>7 DEF Commit, OneRequest, IInv, TypeOK
    <3> QED
      BY <3>1, NullsAreTyped DEF AcceptInv, AcceptOK
  <2>8. EnrollFails(r) \/ Deadlocked(r) => req[r].step = "writing" /\ Fail(r)
    BY DEF EnrollFails, Deadlocked, InCircle, Awaits
  <2>9. SendRefused(r) \/ BrokenEnds(r) \/ AcceptDuplicate(r) \/ Abort(r) => Refuse(r)
    BY DEF SendRefused, BrokenEnds, AcceptDuplicate, Abort
  <2> QED
    BY <1>2, <2>1, <2>2, <2>3, <2>4, <2>5, <2>6, <2>7, <2>8, <2>9
    DEF RequestNext, Step, Flush, AcceptStep
<1>3. CASE \/ \E u \in Users : Remove(u) \/ \E role \in InviteRoles : Add(u, role)
           \/ \E k \in Keys : Drop(k)
  <2>1. req' = req /\ \E r \in Requests : req[r].step = "idle"
    BY <1>3 DEF Remove, Add, Drop, Slot
  <2>2. \A r \in Requests : req'[r] = IdleRequest
    BY <2>1, AtWork DEF OneRequest, ShapeOK
  <2> QED
    BY <2>2, NullsAreTyped DEF AcceptInv, AcceptOK
<1>4. CASE UNCHANGED <<members, enrolled, req>>
  BY <1>4 DEF AcceptInv, AcceptOK, Belongs, Covered, Behind, Before, IsMember
<1>5. (\E t \in Tokens : Expire(t)) \/ UNCHANGED vars => UNCHANGED <<members, enrolled, req>>
  BY DEF Expire, vars
<1> QED
  BY <1>2, <1>3, <1>4, <1>5 DEF Next

(* AcceptInv, if requests are served one at a time. *)
THEOREM AcceptInvariance ==
    ASSUME OneRequest
    PROVE  Spec => [](ApartInv /\ AcceptInv)
<1>1. Init => ApartInv /\ AcceptInv
  <2>1. Init => AcceptInv
    BY NullsAreTyped DEF Init, AcceptInv, AcceptOK
  <2>2. Init => ApartInv
    BY DEF Init, ApartInv, IdleRequest, AbsentInvite
  <2> QED
    BY <2>1, <2>2
<1>2. IInv /\ ApartInv /\ AcceptInv /\ [Next]_vars => ApartInv' /\ AcceptInv'
  BY AloneIsApart, ApartKeeps, AcceptKeeps
<1> QED
  BY <1>1, <1>2, Invariance, PTL DEF Spec

(* The acceptance that is committed is complete: the loop has enrolled the
   member in every class of the invite, or found the member enrolled. *)
LEMMA CommitIsComplete ==
    ASSUME OneRequest, IInv, ApartInv, AcceptInv, NEW r \in Requests, Commit(r),
           req[r].op = "accept"
    PROVE  LET q == req[r]
               u == UserOf[q.entity.to]
               classes == Enrolls(q.entity)
           IN /\ members'[u].role # "none" /\ members'[u].nth = q.nth
              /\ ~IsMember(u) => members'[u].role = q.entity.role
              /\ \A n \in DOMAIN classes : enrolled'[<<u, q.nth, classes[n]>>] = "active"
<1> DEFINE q == req[r]
           u == UserOf[q.entity.to]
           classes == Enrolls(q.entity)
<1>1. /\ q \in Request /\ ShapeOK(q) /\ q.step \in {"saved", "enrolling"} /\ q.nth # 0
      /\ q.nth \in 0..MaxJoins /\ q.entity \in Invite /\ q.entity.role \in Roles
      /\ q.entity.role # "none" /\ q.entity.to \in Addresses
  <2>1. "none" \notin Roles
    BY DEF Roles
  <2>2. q \in Request /\ ShapeOK(q) /\ q.entity \in Invite
    BY CommitIsOf DEF Commit
  <2>3. q.step \in {"saved", "enrolling"}
    BY <2>2 DEF Commit, ReadyToCommit, At, ShapeOK
  <2> QED
    BY <2>1, <2>2, <2>3 DEF ShapeOK, Request
<1>2. AcceptOK(q)
  BY DEF AcceptInv
<1>3. Belongs(q) /\ Covered(q) /\ q.todo = <<>>
  BY <1>1, <1>2 DEF Commit, ReadyToCommit, At, AcceptOK
<1>4. u \in Users
  BY <1>1 DEF Users
<1>5. members \in [Users -> Member]
  BY DEF IInv, TypeOK
<1>6. members' = IF q.joins THEN [members EXCEPT ![u] = [role |-> q.entity.role, nth |-> q.nth]]
                 ELSE members
  BY DEF Commit, JoinsAs
<1>7. enrolled' = [k \in Keys |-> IF k[1] = u /\ k[2] = q.nth /\ k[3] \in q.wrote
                                  THEN "active" ELSE enrolled[k]]
  BY DEF Commit
<1>8. /\ members'[u].role # "none" /\ members'[u].nth = q.nth
      /\ ~IsMember(u) => members'[u].role = q.entity.role
  BY <1>1, <1>3, <1>4, <1>5, <1>6 DEF Belongs, IsMember
<1>9. ASSUME NEW n \in DOMAIN classes
      PROVE  enrolled'[<<u, q.nth, classes[n]>>] = "active"
  <2>1. classes \in Seq(Classes)
    BY <1>1, EnrollsIsSeq
  <2>2. classes[n] \in Classes
    BY <2>1
  <2>3. <<u, q.nth, classes[n]>> \in Keys
    <3>1. q.nth \in 1..MaxJoins
      BY <1>1, InvitesAssumption
    <3> QED
      BY <1>4, <2>2, <3>1 DEF Keys
  <2>4. Behind(q, classes[n])
    <3>1. Before(q, classes[n]) \/ Behind(q, classes[n])
      BY <1>1, <1>3 DEF Covered
    <3>2. ~Before(q, classes[n])
      BY <1>3 DEF Before
    <3> QED
      BY <3>1, <3>2
  <2> QED
    BY <1>7, <2>3, <2>4 DEF Behind
<1> QED
  BY <1>8, <1>9

(* Who accepts an invite leaves as a member with its role, unless a member
   before, and enrolled in every class it names, for lists of any length: if
   requests are served one at a time. *)
THEOREM AcceptanceLeavesNothingOut ==
    ASSUME OneRequest
    PROVE  Spec => AcceptanceIsComplete
<1>1. ASSUME IInv, ApartInv, AcceptInv, [Next]_vars, NEW i \in InviteIds,
             ~invites[i].accepted, invites'[i].accepted
      PROVE  LET u == UserOf[invites[i].to]
                 classes == Enrolls(invites[i])
             IN /\ members'[u].role # "none"
                /\ members[u].role = "none" => members'[u].role = invites[i].role
                /\ \A n \in DOMAIN classes :
                     enrolled'[<<u, members'[u].nth, classes[n]>>] = "active"
  <2>1. PICK r \in Requests : Commit(r)
    BY <1>1, OnlyCommits
  <2> DEFINE q == req[r]
  <2>2. i = q.id
    BY <1>1, <2>1, CommitRow
  <2>3. q.op = "accept"
    BY <1>1, <2>1, <2>2, CommitOfApart
  <2>4. q.step # "idle"
    BY <1>1, <2>1, CommitIsOf DEF Commit
  <2>5. CurrentOK(q, invites[i])
    BY <1>1, <2>2, <2>4 DEF ApartInv
  <2>6. /\ q.entity.to = invites[i].to /\ q.entity.role = invites[i].role
        /\ q.entity.classes = invites[i].classes
    BY <2>3, <2>5 DEF CurrentOK
  <2>7. Enrolls(q.entity) = Enrolls(invites[i])
    BY <2>6 DEF Enrolls
  <2> HIDE DEF q
  <2> QED
    BY <1>1, <2>1, <2>3, <2>6, <2>7, CommitIsComplete DEF IsMember, q
<1>2. IInv /\ ApartInv /\ AcceptInv /\ [Next]_vars =>
      [\A i \in InviteIds :
         ~invites[i].accepted /\ invites'[i].accepted =>
           LET u == UserOf[invites[i].to]
               classes == Enrolls(invites[i])
           IN /\ members'[u].role # "none"
              /\ members[u].role = "none" => members'[u].role = invites[i].role
              /\ \A n \in DOMAIN classes :
                   enrolled'[<<u, members'[u].nth, classes[n]>>] = "active"]_vars
  BY <1>1
<1> QED
  BY <1>2, Invariance, AcceptInvariance, PTL DEF Spec, AcceptanceIsComplete

-----------------------------------------------------------------------------
(* Who waits for whom *)

(* Request r waits for q: for the membership q has inserted, for the invite q
   has updated, or for an enrollment q has written. *)
WaitsForMember(r, q) ==
    /\ req[r].step = "joining"
    /\ LET u == UserOf[req[r].entity.to] IN ~IsMember(u) /\ Inserts(req[q], u)
WaitsForInvite(r, q) == req[r].step = "merged" /\ lock[req[r].id] = q
WaitsFor(r, q) == q # r /\ (WaitsForMember(r, q) \/ WaitsForInvite(r, q) \/ Awaits(r, q))

(* The writes that wait find their keys and rows free, or taken for good. *)
MayGoOn(r) ==
    /\ req[r].step = "joining" =>
         LET u == UserOf[req[r].entity.to]
         IN IsMember(u) \/ ~\E q \in Requests : Inserts(req[q], u)
    /\ req[r].step = "merged" => lock[req[r].id] = None
    /\ req[r].step = "writing" => ~\E q \in Requests : Awaits(r, q)

(* A request that cannot go on waits for another; and wherever requests wait
   for each other, with no way out, there is one among them that waits in a
   circle for enrollments, as PostgreSQL looks for: Deadlocked ends it. *)
CirclesAreBroken ==
    /\ \A r \in Requests : MayGoOn(r) \/ \E q \in Requests : WaitsFor(r, q)
    /\ \A S \in SUBSET Requests :
         S # {} /\ (\A r \in S : \E q \in S : WaitsFor(r, q)) => \E r \in S : InCircle(r)

(* A new member goes by the membership after the last one and is the only one
   to insert it; everyone else's membership has been there. *)
HoldOK(q, table) ==
    LET u == UserOf[q.entity.to]
    IN /\ q.step \in {"found", "joining", "marking"} => ~q.joins /\ q.wrote = {}
       /\ q.step = "merged" /\ ~q.joins => q.wrote = {}
       /\ q.joins => table[u].role = "none" /\ q.nth = table[u].nth + 1
       /\ q.step \in {"marking", "merged", "enrolling", "writing"} /\ q.op = "accept" /\ ~q.joins
            => q.nth <= table[u].nth
(* Past the UPDATE of the invite, which a new member does last. *)
Updated(q) == q.step \in {"saved", "told"} \/ (q.step \in {"enrolling", "writing"} /\ ~q.joins)

HoldInv ==
    /\ \A q \in Requests : HoldOK(req[q], members)
    /\ \A q, r \in Requests :
         req[r].joins /\ Inserts(req[q], UserOf[req[r].entity.to]) => q = r
    /\ \A i \in InviteIds, q \in Requests : lock[i] = q => Updated(req[q])

(* A request goes on, with or without the row it holds. *)
LEMMA HoldQuiet ==
    ASSUME IInv, HoldInv, NEW r \in Requests, NEW new, req' = [req EXCEPT ![r] = new],
           members' = members, HoldOK(new, members),
           new.joins => \A q \in Requests : Inserts(req[q], UserOf[new.entity.to]) => q = r,
           \A i \in InviteIds : \/ lock'[i] = lock[i] /\ lock[i] # r
                                \/ lock'[i] = None
                                \/ lock'[i] = r /\ Updated(new)
    PROVE  HoldInv'
<1>1. \A q \in Requests : req'[q] = IF q = r THEN new ELSE req[q]
  BY DEF IInv, TypeOK
<1>2. None \notin Requests
  BY InvitesAssumption
<1>3. \A q \in Requests : HoldOK(req'[q], members')
  BY <1>1 DEF HoldInv
<1>4. ASSUME NEW p \in Requests, NEW q \in Requests, req'[p].joins,
             Inserts(req'[q], UserOf[req'[p].entity.to])
      PROVE  q = p
  <2>1. CASE p = r /\ q # r
    BY <1>1, <1>4, <2>1
  <2>2. CASE q = r /\ p # r
    <3>1. Inserts(req[p], UserOf[new.entity.to]) /\ new.joins
      BY <1>1, <1>4, <2>2 DEF Inserts
    <3> QED
      BY <2>2, <3>1
  <2>3. CASE p # r /\ q # r
    BY <1>1, <1>4, <2>3 DEF HoldInv
  <2> QED
    BY <2>1, <2>2, <2>3
<1>5. ASSUME NEW i \in InviteIds, NEW q \in Requests, lock'[i] = q
      PROVE  Updated(req'[q])
  <2>1. CASE q = r
    BY <1>1, <1>2, <1>5, <2>1
  <2>2. CASE q # r
    BY <1>1, <1>2, <1>5, <2>2 DEF HoldInv
  <2> QED
    BY <2>1, <2>2
<1> QED
  BY <1>3, <1>4, <1>5 DEF HoldInv, Inserts, Updated, HoldOK

(* ... as it was, when it locks nothing. *)
LEMMA HoldStays ==
    ASSUME IInv, HoldInv, NEW r \in Requests, NEW new, req' = [req EXCEPT ![r] = new],
           members' = members, lock' = lock, HoldOK(new, members),
           new.joins => req[r].joins /\ new.entity = req[r].entity,
           Updated(req[r]) => Updated(new)
    PROVE  HoldInv'
<1>1. new.joins => \A q \in Requests : Inserts(req[q], UserOf[new.entity.to]) => q = r
  BY DEF HoldInv
<1>2. \A i \in InviteIds : lock[i] = r => Updated(new)
  BY DEF HoldInv
<1> QED
  BY <1>1, <1>2, HoldQuiet

(* A request that gives up everything. *)
LEMMA HoldReleased ==
    ASSUME IInv, HoldInv, NEW r \in Requests, NEW new, req' = [req EXCEPT ![r] = new],
           members' = members, ~new.joins, new.step \in {"idle", "broken"},
           lock' = [i \in InviteIds |-> IF lock[i] = r THEN None ELSE lock[i]]
    PROVE  HoldInv'
<1>1. HoldOK(new, members)
  BY DEF HoldOK
<1>2. \A i \in InviteIds : (lock'[i] = lock[i] /\ lock[i] # r) \/ lock'[i] = None
  OBVIOUS
<1> QED
  BY <1>1, <1>2, HoldQuiet

(* A request that was idle and holds nothing. *)
LEMMA HoldBegins ==
    ASSUME IInv, HoldInv, NEW r \in Requests, NEW new, req' = [req EXCEPT ![r] = new],
           members' = members, lock' = lock, req[r].step = "idle",
           ~new.joins, new.wrote = {}, new.step \in {"looked", "found"}
    PROVE  HoldInv'
<1>1. HoldOK(new, members)
  BY DEF HoldOK
<1>2. ~Updated(req[r])
  BY DEF Updated
<1> QED
  BY <1>1, <1>2, HoldStays

LEMMA HoldSends ==
    ASSUME IInv, HoldInv, NEW r \in Requests, NEW a \in Addresses, NEW role \in InviteRoles,
           NEW classes \in Offers, SendAdmit(r, a, role, classes)
    PROVE  HoldInv'
<1>1. PICK i \in InviteIds : i = CHOOSE j \in InviteIds : j \in Unused
  BY DEF SendAdmit, Unused
<1> DEFINE entity == [AbsentInvite EXCEPT !.to = a, !.role = role, !.classes = classes]
           new == [IdleRequest EXCEPT !.step = "looked", !.op = "send", !.id = i,
                                      !.entity = entity]
<1>2. req' = [req EXCEPT ![r] = new]
  BY <1>1 DEF SendAdmit
<1>3. members' = members /\ lock' = lock /\ req[r].step = "idle"
  BY DEF SendAdmit, Stay
<1> HIDE DEF entity
<1>4. ~new.joins /\ new.wrote = {} /\ new.step = "looked"
  BY DEF IdleRequest
<1> HIDE DEF new
<1> QED
  BY <1>2, <1>3, <1>4, HoldBegins

LEMMA HoldFinds ==
    ASSUME IInv, HoldInv, NEW r \in Requests, NEW i \in InviteIds,
           ResendFind(r, i) \/ RevokeFind(r, i) \/ AcceptFind(r, i)
    PROVE  HoldInv'
<1>1. PICK op, entity : req' = [req EXCEPT ![r] = Found(op, i, entity)]
  BY DEF ResendFind, RevokeFind, AcceptFind
<1>2. members' = members /\ lock' = lock /\ req[r].step = "idle"
  BY DEF ResendFind, RevokeFind, AcceptFind, Stay, DrawToken
<1> DEFINE new == Found(op, i, entity)
<1>3. ~new.joins /\ new.wrote = {} /\ new.step = "found"
  BY DEF Found, IdleRequest
<1> HIDE DEF new
<1> QED
  BY <1>1, <1>2, <1>3, HoldBegins DEF new

LEMMA HoldAccepts ==
    ASSUME IInv, HoldInv, NEW r \in Requests, AcceptStep(r)
    PROVE  HoldInv'
<1> DEFINE q == req[r]
           u == UserOf[q.entity.to]
<1>1. /\ HoldOK(q, members) /\ UNCHANGED <<members, lock>> /\ q.step # "idle"
      /\ u \in Users /\ members[u].nth \in Nat
  <2>1. HoldOK(q, members) /\ UNCHANGED <<members, lock>> /\ q.step # "idle"
    BY DEF HoldInv, AcceptStep, AcceptMember, AcceptJoin, EnrollLookup, EnrollWrite, Stay, At
  <2>2. u \in Users /\ members[u].nth \in 0..MaxJoins
    BY <2>1, MembershipIsTyped
  <2> QED
    BY <2>1, <2>2
<1>2. CASE AcceptMember(r)
  <2>1. PICK new : /\ Moves(r, new) /\ q.step = "found"
                   /\ new.joins = q.joins /\ new.wrote = q.wrote
                   /\ \/ IsMember(u) /\ new.step = "marking" /\ new.nth = members[u].nth
                      \/ ~IsMember(u) /\ new.step = "joining" /\ new.nth = q.nth
    BY <1>2, AcceptMemberMoves
  <2>2. req' = [req EXCEPT ![r] = new] /\ new.entity = q.entity /\ new.op = "accept"
    BY <2>1 DEF Moves
  <2>3. ~q.joins /\ q.wrote = {}
    BY <1>1, <2>1 DEF HoldOK
  <2>4. HoldOK(new, members)
    <3>1. new.step = "marking" => new.nth <= members[UserOf[new.entity.to]].nth
      BY <1>1, <2>1, <2>2
    <3>2. ~new.joins /\ new.wrote = {} /\ new.step \in {"marking", "joining"}
      BY <2>1, <2>3
    <3> HIDE DEF q, u
    <3> QED
      BY <3>1, <3>2 DEF HoldOK
  <2>5. ~Updated(q)
    BY <2>1 DEF Updated
  <2> HIDE DEF u
  <2> QED
    BY <1>1, <2>1, <2>2, <2>3, <2>4, <2>5, HoldStays
<1>3. CASE AcceptJoin(r)
  <2>1. PICK new : /\ Moves(r, new) /\ q.step = "joining" /\ new.step = "enrolling"
                   /\ new.joins /\ new.wrote = q.wrote
                   /\ ~IsMember(u) /\ new.nth = members[u].nth + 1
    BY <1>3, AcceptJoinMoves
  <2>2. req' = [req EXCEPT ![r] = new] /\ new.entity = q.entity
    BY <2>1 DEF Moves
  <2>3. ~\E p \in Requests : Inserts(req[p], UserOf[new.entity.to])
    BY <1>3, <2>2 DEF AcceptJoin
  <2>4. HoldOK(new, members)
    BY <2>1, <2>2 DEF HoldOK, IsMember
  <2>5. \A i \in InviteIds : lock[i] # r
    <3>1. ~Updated(q)
      BY <2>1 DEF Updated
    <3> QED
      BY <3>1 DEF HoldInv
  <2> HIDE DEF q, u
  <2> QED
    BY <1>1, <2>2, <2>3, <2>4, <2>5, HoldQuiet
<1>4. CASE EnrollLookup(r) \/ EnrollWrite(r)
  <2>1. PICK new : /\ Moves(r, new) /\ q.step \in {"enrolling", "writing"}
                   /\ new.step \in {"enrolling", "writing"}
                   /\ new.joins = q.joins /\ new.nth = q.nth
    <3>1. EnrollLookup(r) => \E new : /\ Moves(r, new) /\ q.step \in {"enrolling", "writing"}
                                      /\ new.step \in {"enrolling", "writing"}
                                      /\ new.joins = q.joins /\ new.nth = q.nth
      BY EnrollLookupMoves
    <3>2. EnrollWrite(r) => \E new : /\ Moves(r, new) /\ q.step \in {"enrolling", "writing"}
                                     /\ new.step \in {"enrolling", "writing"}
                                     /\ new.joins = q.joins /\ new.nth = q.nth
      BY EnrollWriteMoves
    <3> QED
      BY <1>4, <3>1, <3>2
  <2>2. req' = [req EXCEPT ![r] = new] /\ new.entity = q.entity /\ new.op = q.op
    BY <2>1 DEF Moves
  <2>3. HoldOK(new, members)
    <3> HIDE DEF q, u
    <3> QED
      BY <1>1, <2>1, <2>2 DEF HoldOK
  <2>4. Updated(q) => Updated(new)
    BY <2>1 DEF Updated
  <2> HIDE DEF u
  <2> QED
    BY <1>1, <2>1, <2>2, <2>3, <2>4, HoldStays
<1> QED
  BY <1>2, <1>3, <1>4 DEF AcceptStep

LEMMA HoldSaves ==
    ASSUME IInv, HoldInv, NEW r \in Requests,
           SendInsert(r) \/ SaveMerge(r) \/ SaveFlush(r) \/ SaveAgain(r) \/ Mail(r)
    PROVE  HoldInv'
<1> DEFINE q == req[r]
<1>1. /\ q \in Request /\ q.entity \in Invite /\ ShapeOK(q) /\ HoldOK(q, members) /\ req \in [Requests -> Request]
      /\ members' = members /\ q.id \in InviteIds \union {None}
  BY AtWork DEF HoldInv, SendInsert, SaveMerge, SaveFlush, SaveAgain, Mail, Stay, DrawToken,
                IInv, TypeOK, Request
<1>2. \A step, cols : LET new == Moved(q, step, cols) IN
         /\ new.step = step /\ new.entity = q.entity /\ new.joins = q.joins
         /\ new.nth = q.nth /\ new.wrote = q.wrote /\ new.op = q.op
  BY <1>1 DEF Moved, Request
<1>3. CASE SendInsert(r)
  <2> DEFINE entity == [q.entity EXCEPT !.token = drawn + 1]
             new == [q EXCEPT !.step = "saved", !.entity = entity, !.cols = Columns]
  <2>1. req' = [req EXCEPT ![r] = new] /\ q.op = "send"
    BY <1>1, <1>3 DEF SendInsert, At, Request, Invite
  <2>2. new.step = "saved" /\ new.joins = q.joins
    BY <1>1 DEF Request
  <2>3. ~q.joins
    BY <1>1, <2>1 DEF ShapeOK
  <2>4. lock' = lock /\ HoldOK(new, members) /\ Updated(new)
    <3>1. lock' = lock
      BY <1>3 DEF SendInsert, DrawToken
    <3> HIDE DEF new
    <3> QED
      BY <2>2, <2>3, <3>1 DEF HoldOK, Updated
  <2> HIDE DEF new
  <2> QED
    BY <1>1, <2>1, <2>2, <2>3, <2>4, HoldStays
<1>4. CASE SaveMerge(r)
  <2>1. PICK cols : req' = [req EXCEPT ![r] = Moved(q, "merged", cols)]
    BY <1>4, SavingMoves
  <2> DEFINE new == Moved(q, "merged", cols)
  <2>2. /\ new.step = "merged" /\ new.entity = q.entity /\ new.joins = q.joins
        /\ new.nth = q.nth /\ new.wrote = q.wrote /\ new.op = q.op
    BY <1>2
  <2>3. /\ q.step \in {"found", "marking"} \/ (q.step = "enrolling" /\ q.joins)
        /\ q.step = "found" => q.op # "accept"
        /\ lock' = lock
    BY <1>4 DEF SaveMerge, InviteToSave, Stay
  <2> HIDE DEF new
  <2>4. HoldOK(new, members)
    <3> HIDE DEF q
    <3> QED
      BY <1>1, <2>2, <2>3 DEF HoldOK
  <2>5. ~Updated(q)
    BY <2>3 DEF Updated
  <2> QED
    BY <1>1, <2>1, <2>2, <2>3, <2>4, <2>5, HoldStays DEF new
<1>5. CASE SaveFlush(r)
  <2> DEFINE step == IF q.op = "accept" /\ ~q.joins THEN "enrolling" ELSE "saved"
             new == Moved(q, step, q.cols)
  <2>1. req' = [req EXCEPT ![r] = new]
    BY <1>5, SavingMoves
  <2>2. /\ new.step = step /\ new.entity = q.entity /\ new.joins = q.joins
        /\ new.nth = q.nth /\ new.wrote = q.wrote /\ new.op = q.op
    BY <1>2
  <2>3. q.step = "merged" /\ lock' = [lock EXCEPT ![q.id] = r]
    BY <1>5 DEF SaveFlush
  <2> HIDE DEF new
  <2>4. HoldOK(new, members) /\ Updated(new)
    <3> HIDE DEF q
    <3> QED
      BY <1>1, <2>2, <2>3 DEF HoldOK, Updated
  <2>5. new.joins => \A p \in Requests : Inserts(req[p], UserOf[new.entity.to]) => p = r
    BY <2>2 DEF HoldInv
  <2>6. \A i \in InviteIds : lock[i] # r
    <3>1. ~Updated(q)
      BY <2>3 DEF Updated
    <3> QED
      BY <3>1 DEF HoldInv
  <2>7. \A i \in InviteIds : (lock'[i] = lock[i] /\ lock[i] # r) \/ (lock'[i] = r /\ Updated(new))
    BY <2>3, <2>4, <2>6 DEF IInv, TypeOK
  <2> HIDE DEF q
  <2> QED
    BY <1>1, <2>1, <2>4, <2>5, <2>7, HoldQuiet
<1>6. CASE Mail(r)
  <2> DEFINE new == Moved(q, "told", q.cols)
  <2>1. req' = [req EXCEPT ![r] = new] /\ lock' = lock
    BY <1>6, SavingMoves DEF Mail
  <2>2. new.step = "told" /\ new.entity = q.entity /\ new.joins = q.joins /\ new.nth = q.nth
    BY <1>2
  <2> HIDE DEF new
  <2>3. HoldOK(new, members) /\ Updated(new)
    <3> HIDE DEF q
    <3> QED
      BY <1>1, <2>2 DEF HoldOK, Updated
  <2> QED
    BY <1>1, <2>1, <2>2, <2>3, HoldStays
<1>7. CASE SaveAgain(r)
  <2> DEFINE new == Moved(q, "saved", q.cols)
  <2>1. req' = [req EXCEPT ![r] = new] /\ lock' = lock /\ ~q.joins
    BY <1>7, SavingMoves DEF SaveAgain, Stay
  <2>2. new.step = "saved" /\ new.entity = q.entity /\ new.joins = q.joins /\ new.nth = q.nth
    BY <1>2
  <2> HIDE DEF new
  <2>3. HoldOK(new, members) /\ Updated(new)
    <3> HIDE DEF q
    <3> QED
      BY <2>1, <2>2 DEF HoldOK, Updated
  <2> QED
    BY <1>1, <2>1, <2>2, <2>3, HoldStays
<1> QED
  BY <1>3, <1>4, <1>5, <1>6, <1>7

(* Memberships only go up, and whoever inserts one has its user to itself. *)
LEMMA HoldOthers ==
    ASSUME NEW q, NEW table, NEW table2, HoldOK(q, table),
           table[UserOf[q.entity.to]].nth \in Nat, table2[UserOf[q.entity.to]].nth \in Nat,
           q.nth \in Nat,
           table[UserOf[q.entity.to]].nth <= table2[UserOf[q.entity.to]].nth,
           q.joins => table2[UserOf[q.entity.to]] = table[UserOf[q.entity.to]]
    PROVE  HoldOK(q, table2)
<1> DEFINE u == UserOf[q.entity.to]
<1>1. ASSUME q.nth <= table[u].nth PROVE q.nth <= table2[u].nth
  BY <1>1
<1> HIDE DEF u
<1> QED
  BY <1>1 DEF HoldOK, u

LEMMA HoldCommits ==
    ASSUME IInv, HoldInv, NEW r \in Requests, Commit(r)
    PROVE  HoldInv'
<1> DEFINE q == req[r]
           u == UserOf[q.entity.to]
           joined == [role |-> q.entity.role, nth |-> q.nth]
<1>1. /\ q \in Request /\ u \in Users /\ q.nth \in Nat /\ q.step # "idle"
      /\ HoldOK(q, members) /\ members \in [Users -> Member]
  BY CommitIsOf DEF Commit, Request, HoldInv, IInv, TypeOK, Users
<1>2. members' = IF q.joins THEN [members EXCEPT ![u] = joined] ELSE members
  BY DEF Commit, JoinsAs
<1>3. /\ \A s \in Requests : req'[s] = IF s = r THEN IdleRequest ELSE req[s]
      /\ \A i \in InviteIds : lock'[i] = IF lock[i] = r THEN None ELSE lock[i]
  BY DEF Commit, IInv, TypeOK
<1>4. joined.nth = q.nth /\ ~IdleRequest.joins /\ IdleRequest.step = "idle"
  BY NullsAreTyped
<1>5. \A v \in Users : members[v].nth \in Nat
  BY <1>1 DEF Member
<1> HIDE DEF joined
<1>6. \A v \in Users : /\ members'[v].nth \in Nat /\ members[v].nth <= members'[v].nth
                       /\ ~(q.joins /\ v = u) => members'[v] = members[v]
  <2>1. ASSUME q.joins PROVE q.nth = members[u].nth + 1
    BY <1>1, <2>1 DEF HoldOK
  <2> HIDE DEF q, u
  <2>2. ASSUME NEW v \in Users, q.joins /\ v = u
        PROVE  members'[v].nth \in Nat /\ members[v].nth <= members'[v].nth
    <3>1. members'[v].nth = q.nth
      BY <1>1, <1>2, <1>4, <2>2
    <3> QED
      BY <1>1, <1>5, <2>1, <2>2, <3>1
  <2>3. ASSUME NEW v \in Users, ~(q.joins /\ v = u) PROVE members'[v] = members[v]
    BY <1>1, <1>2, <2>3
  <2> QED
    BY <1>5, <2>2, <2>3
<1>7. ASSUME NEW s \in Requests PROVE HoldOK(req'[s], members')
  <2>1. CASE s = r
    BY <1>3, <1>4, <2>1 DEF HoldOK
  <2>2. CASE s # r /\ req[s].step = "idle"
    <3>1. ~req[s].joins
      BY <2>2, AtWork, NullsAreTyped DEF ShapeOK
    <3> QED
      BY <1>3, <2>2, <3>1 DEF HoldOK
  <2>3. CASE s # r /\ req[s].step # "idle"
    <3>1. UserOf[req[s].entity.to] \in Users /\ HoldOK(req[s], members) /\ req[s].nth \in Nat
      BY <2>3, MembershipIsTyped DEF HoldInv, IInv, TypeOK, Request
    <3>2. req[s].joins => members'[UserOf[req[s].entity.to]] = members[UserOf[req[s].entity.to]]
      <4>1. ASSUME req[s].joins PROVE ~(q.joins /\ UserOf[req[s].entity.to] = u)
        BY <2>3, <4>1 DEF HoldInv, Inserts
      <4> QED
        BY <1>6, <3>1, <4>1
    <3>3. req'[s] = req[s]
      BY <1>3, <2>3
    <3> HIDE DEF q, u
    <3> QED
      BY <1>5, <1>6, <3>1, <3>2, <3>3, HoldOthers
  <2> QED
    BY <2>1, <2>2, <2>3
<1>8. \A p, s \in Requests :
         req'[p].joins /\ Inserts(req'[s], UserOf[req'[p].entity.to]) => s = p
  BY <1>3, <1>4 DEF HoldInv, Inserts
<1>9. \A i \in InviteIds, s \in Requests : lock'[i] = s => Updated(req'[s])
  <2>1. None \notin Requests
    BY InvitesAssumption
  <2> QED
    BY <1>3, <2>1 DEF HoldInv
<1> QED
  BY <1>7, <1>8, <1>9 DEF HoldInv, Inserts, Updated

(* What administrators do: nobody is added beside a member being inserted. *)
LEMMA HoldBeside ==
    ASSUME IInv, HoldInv, NEW u \in Users,
           Remove(u) \/ \E role \in InviteRoles : Add(u, role)
    PROVE  HoldInv'
<1>1. UNCHANGED <<lock, req>> /\ members \in [Users -> Member]
  BY DEF Remove, Add, IInv, TypeOK
<1>2. \A v \in Users : members[v].nth \in Nat
  BY <1>1 DEF Member
<1>3. \A v \in Users : members'[v].nth \in Nat /\ members[v].nth <= members'[v].nth
  <2>1. CASE Remove(u)
    <3>1. \A v \in Users : members'[v].nth = members[v].nth
      BY <1>1, <2>1 DEF Remove, Member
    <3> QED
      BY <1>2, <3>1
  <2>2. CASE \E role \in InviteRoles : Add(u, role)
    <3>1. \A v \in Users : members'[v].nth \in {members[v].nth, members[v].nth + 1}
      BY <1>1, <2>2 DEF Add
    <3> QED
      BY <1>2, <3>1
  <2> QED
    BY <2>1, <2>2
<1>4. ASSUME NEW s \in Requests PROVE HoldOK(req[s], members')
  <2>1. CASE req[s].step = "idle"
    <3>1. ~req[s].joins
      BY <2>1, AtWork, NullsAreTyped DEF ShapeOK
    <3> QED
      BY <2>1, <3>1 DEF HoldOK
  <2>2. CASE req[s].step # "idle"
    <3>1. UserOf[req[s].entity.to] \in Users /\ HoldOK(req[s], members) /\ req[s].nth \in Nat
      BY <2>2, MembershipIsTyped DEF HoldInv, IInv, TypeOK, Request
    <3>2. ASSUME req[s].joins
          PROVE  members'[UserOf[req[s].entity.to]] = members[UserOf[req[s].entity.to]]
      <4>1. UserOf[req[s].entity.to] # u
        BY <3>1, <3>2 DEF HoldOK, Remove, Add, Unlocked, Inserts, IsMember
      <4> QED
        BY <1>1, <3>1, <4>1 DEF Remove, Add
    <3> QED
      BY <1>2, <1>3, <3>1, <3>2, HoldOthers
  <2> QED
    BY <2>1, <2>2
<1> QED
  BY <1>1, <1>4 DEF HoldInv, Inserts, Updated

LEMMA HoldStep == ASSUME IInv, HoldInv, [Next]_vars PROVE HoldInv'
<1>1. ASSUME NEW r \in Requests, RequestNext(r) PROVE HoldInv'
  <2>1. CASE \/ \E a \in Addresses, role \in InviteRoles, classes \in Offers :
                  SendAdmit(r, a, role, classes)
             \/ \E i \in InviteIds : ResendFind(r, i) \/ RevokeFind(r, i) \/ AcceptFind(r, i)
    BY <2>1, HoldSends, HoldFinds
  <2>2. CASE AcceptStep(r)
    BY <2>2, HoldAccepts
  <2>3. CASE SendInsert(r) \/ SaveMerge(r) \/ SaveFlush(r) \/ SaveAgain(r) \/ Mail(r)
    BY <2>3, HoldSaves
  <2>4. CASE Commit(r)
    BY <2>4, HoldCommits
  <2>5. CASE SendRefused(r) \/ AcceptDuplicate(r) \/ BrokenEnds(r) \/ Abort(r)
    <3>1. Refuse(r)
      BY <2>5 DEF SendRefused, AcceptDuplicate, BrokenEnds, Abort
    <3> QED
      BY <3>1, NullsAreTyped, HoldReleased DEF Refuse
  <2>6. CASE EnrollFails(r) \/ Deadlocked(r)
    <3>1. req[r].step = "writing" /\ Fail(r)
      BY <2>6 DEF EnrollFails, Deadlocked, InCircle, Awaits
    <3>2. PICK new : Moves(r, new) /\ new.step = "broken" /\ ~new.joins
      BY <3>1, FailMoves
    <3>3. /\ req' = [req EXCEPT ![r] = new] /\ members' = members
          /\ lock' = [i \in InviteIds |-> IF lock[i] = r THEN None ELSE lock[i]]
      BY <3>1, <3>2 DEF Moves, Fail
    <3> QED
      BY <3>2, <3>3, HoldReleased
  <2> QED
    BY <1>1, <2>1, <2>2, <2>3, <2>4, <2>5, <2>6 DEF RequestNext, Step, Flush, AcceptStep
<1>2. CASE \E u \in Users : Remove(u) \/ \E role \in InviteRoles : Add(u, role)
  BY <1>2, HoldBeside
<1>3. CASE (\E t \in Tokens : Expire(t)) \/ (\E k \in Keys : Drop(k)) \/ UNCHANGED vars
  <2>1. UNCHANGED <<members, lock, req>>
    BY <1>3 DEF Expire, Drop, vars
  <2> QED
    BY <2>1 DEF HoldInv, Inserts, Updated
<1> QED
  BY <1>1, <1>2, <1>3 DEF Next

LEMMA HoldInitially == Init => HoldInv
<1>1. ~IdleRequest.joins /\ IdleRequest.step = "idle" /\ None \notin Requests
  BY NullsAreTyped, InvitesAssumption
<1> QED
  BY <1>1 DEF Init, HoldInv, HoldOK, Inserts

(* Nobody waits for a request that is joining, and for one that is saving its
   invite only those do who are joining. *)
LEMMA WaitedForIsWriting ==
    ASSUME IInv, HoldInv, NEW r \in Requests, NEW q \in Requests, WaitsFor(r, q)
    PROVE  /\ req[q].step # "joining"
           /\ req[q].step = "merged" => req[r].step = "joining"
<1>1. HoldOK(req[q], members) /\ HoldOK(req[r], members)
  BY DEF HoldInv
<1>2. \A p \in Requests : req[p].step \in {"joining", "merged", "writing"} =>
         req[p].entity.to \in Addresses /\ UserOf[req[p].entity.to] \in Users
         /\ members[UserOf[req[p].entity.to]].nth \in Nat
  <2>1. \A p \in Requests : req[p].step # "idle" =>
           members[UserOf[req[p].entity.to]].nth \in 0..MaxJoins
    BY MembershipIsTyped
  <2>2. \A p \in Requests : req[p].step # "idle" =>
           req[p].entity.to \in Addresses /\ UserOf[req[p].entity.to] \in Users
    BY AtWork DEF ShapeOK, Users
  <2> QED
    BY <2>1, <2>2
<1>3. CASE WaitsForMember(r, q)
  <2>1. req[q].joins /\ req[r].step = "joining"
    BY <1>3 DEF WaitsForMember, Inserts
  <2> QED
    BY <1>1, <2>1 DEF HoldOK
<1>4. CASE WaitsForInvite(r, q)
  <2>1. req[r].id \in InviteIds
    BY <1>4, AtWork DEF WaitsForInvite, ShapeOK
  <2>2. Updated(req[q])
    BY <1>4, <2>1 DEF WaitsForInvite, HoldInv
  <2> QED
    BY <2>2 DEF Updated
<1>5. CASE Awaits(r, q)
  <2>1. /\ q # r /\ req[r].step = "writing" /\ req[q].wrote # {}
        /\ UserOf[req[q].entity.to] = UserOf[req[r].entity.to] /\ req[q].nth = req[r].nth
    BY <1>5 DEF Awaits, SameMembership
  <2>2. req[q].step # "joining"
    BY <1>1, <2>1 DEF HoldOK
  <2>3. ASSUME req[q].step = "merged" PROVE FALSE
    <3> DEFINE u == UserOf[req[r].entity.to]
    <3>1. req[q].joins
      BY <1>1, <2>1, <2>3 DEF HoldOK
    <3>2. req[r].nth = members[u].nth + 1
      BY <1>1, <2>1, <3>1 DEF HoldOK
    <3>3. ~req[r].joins
      BY <2>1, <3>1 DEF HoldInv, Inserts
    <3>4. req[r].op = "accept"
      BY <2>1, AtWork DEF ShapeOK
    <3>5. req[r].nth <= members[u].nth
      BY <1>1, <2>1, <3>3, <3>4 DEF HoldOK
    <3>6. members[u].nth \in Nat
      BY <1>2, <2>1
    <3> HIDE DEF u
    <3> QED
      BY <3>2, <3>5, <3>6
  <2> QED
    BY <2>2, <2>3
<1> QED
  BY <1>3, <1>4, <1>5 DEF WaitsFor

(* Whoever is stopped waits for somebody. *)
LEMMA StoppedWaits ==
    ASSUME IInv, HoldInv, NEW r \in Requests, ~MayGoOn(r)
    PROVE  \E q \in Requests : WaitsFor(r, q)
<1>1. CASE req[r].step = "joining"
  <2>1. PICK q \in Requests : Inserts(req[q], UserOf[req[r].entity.to])
    BY <1>1 DEF MayGoOn
  <2>2. ~IsMember(UserOf[req[r].entity.to])
    BY <1>1 DEF MayGoOn
  <2>3. q # r
    BY <1>1, <2>1 DEF Inserts, HoldInv, HoldOK
  <2> QED
    BY <1>1, <2>1, <2>2, <2>3 DEF WaitsFor, WaitsForMember
<1>2. CASE req[r].step = "merged"
  <2>1. req[r].id \in InviteIds /\ lock[req[r].id] # None
    BY <1>2, AtWork DEF ShapeOK, MayGoOn
  <2>2. lock[req[r].id] \in Requests
    BY <2>1 DEF IInv, TypeOK
  <2>3. lock[req[r].id] # r
    BY <1>2, <2>1 DEF HoldInv, Updated
  <2> QED
    BY <1>2, <2>2, <2>3 DEF WaitsFor, WaitsForInvite
<1>3. CASE req[r].step = "writing"
  BY <1>3 DEF MayGoOn, WaitsFor, Awaits
<1> QED
  BY <1>1, <1>2, <1>3 DEF MayGoOn

(* A set in which everybody awaits somebody has a smallest one within, and in
   that one everybody is awaited too. *)
LEMMA CircleWithin ==
    ASSUME NEW S \in SUBSET Requests, S # {}, \A p \in S : \E q \in S : Awaits(p, q)
    PROVE  \E r \in S : InCircle(r)
<1> DEFINE Closed == {T \in SUBSET S : T # {} /\ \A p \in T : \E q \in T : Awaits(p, q)}
           sizes == {Cardinality(T) : T \in Closed}
<1>1. \A T \in Closed : IsFiniteSet(T) /\ Cardinality(T) \in Nat
  BY InvitesAssumption, FS_Subset, FS_CardinalityType
<1>2. S \in Closed
  OBVIOUS
<1>3. sizes \in SUBSET Nat /\ sizes # {}
  BY <1>1, <1>2
<1> HIDE DEF sizes
<1>4. PICK n \in sizes : \A m \in sizes : n <= m
  BY <1>3, LeastNumber
<1>5. PICK T \in Closed : n = Cardinality(T)
  BY <1>4 DEF sizes
<1>6. \A U \in Closed : Cardinality(T) <= Cardinality(U)
  BY <1>4, <1>5 DEF sizes
<1>7. ASSUME NEW p \in T PROVE \E q \in T : Awaits(q, p)
  <2> SUFFICES ASSUME \A q \in T : ~Awaits(q, p) PROVE FALSE
    OBVIOUS
  <2>1. \A x \in T : \E q \in T \ {p} : Awaits(x, q)
    BY <1>5
  <2>2. T \ {p} # {} /\ T \ {p} \in SUBSET S
    BY <1>5, <1>7, <2>1
  <2>3. T \ {p} \in Closed
    BY <2>1, <2>2
  <2> HIDE DEF Closed
  <2>4. Cardinality(T \ {p}) = Cardinality(T) - 1 /\ Cardinality(T) \in Nat
    BY <1>1, <1>5, <1>7, FS_RemoveElement
  <2>5. Cardinality(T) <= Cardinality(T \ {p})
    BY <1>6, <2>3
  <2> QED
    BY <2>4, <2>5
<1>8. PICK r \in T : r \in S
  BY <1>5
<1>9. InCircle(r)
  BY <1>5, <1>7, <1>8 DEF InCircle
<1> QED
  BY <1>8, <1>9

(* Every set of requests that wait for each other has a circle in it: those of
   the set that are neither joining nor saving their invite wait for each
   other's enrollments. *)
LEMMA WaitingHasACircle ==
    ASSUME IInv, HoldInv, NEW S \in SUBSET Requests, S # {},
           \A r \in S : \E q \in S : WaitsFor(r, q)
    PROVE  \E r \in S : InCircle(r)
<1> DEFINE J == {r \in S : req[r].step # "joining"}
           W == {r \in J : req[r].step # "merged"}
<1>1. \A r \in S : \E q \in J : WaitsFor(r, q)
  BY WaitedForIsWriting
<1>2. \A r \in J : \E q \in W : WaitsFor(r, q)
  <2>1. ASSUME NEW r \in J PROVE \E q \in W : WaitsFor(r, q)
    <3>1. PICK q \in J : WaitsFor(r, q)
      BY <1>1
    <3>2. req[q].step # "merged"
      BY <3>1, WaitedForIsWriting
    <3> QED
      BY <3>1, <3>2
  <2> QED
    BY <2>1
<1>3. W # {} /\ W \in SUBSET Requests /\ W \subseteq S
  BY <1>1, <1>2
<1>4. \A r \in W : \E q \in W : Awaits(r, q)
  BY <1>2 DEF WaitsFor, WaitsForMember, WaitsForInvite
<1> HIDE DEF W
<1> QED
  BY <1>3, <1>4, CircleWithin

(* Requests never wait for each other in a circle that nothing breaks, however
   many of them send, resend, revoke and accept at the same time: memberships
   and invites are waited for in one direction only, and what is left is
   acceptances waiting for each other's enrollments. *)
THEOREM EveryCircleIsBroken == Spec => []CirclesAreBroken
<1>1. Init => HoldInv
  BY HoldInitially
<1>2. IInv /\ HoldInv /\ [Next]_vars => HoldInv'
  BY HoldStep
<1>3. IInv /\ HoldInv => CirclesAreBroken
  BY StoppedWaits, WaitingHasACircle DEF CirclesAreBroken
<1> QED
  BY <1>1, <1>2, <1>3, Invariance, PTL DEF Spec

=============================================================================
