--------------------------- MODULE FiguresProofs ---------------------------
(***************************************************************************)
(* Proofs about Figures for any number of members, classes, calls and days *)
(* and any past: every property of Figures holds in every state.           *)
(*                                                                         *)
(* The lists of live calls agree because a class never has two live calls  *)
(* and a user never two memberships that last, and the week holds the      *)
(* month because no call is of a day to come (IInv).  The rest holds whatever the tables hold: it compares two ways  *)
(* of counting one table, by the laws of sums of SumLemmas.                *)
(***************************************************************************)
EXTENDS Figures, SumLemmas, FiniteSetTheorems, FunctionTheorems, TLAPS

(* Only a call that was never opened belongs to no class. *)
CallsHaveClasses ==
    \A s \in SessionIds : session[s].class = None <=> session[s].status = "absent"

(* A class has one live call at most. *)
OneLiveCall ==
    \A s, t \in SessionIds :
        Live(s) /\ Live(t) /\ session[s].class = session[t].class => s = t

(* No call is opened on a day to come. *)
CallsHaveBegun == \A s \in SessionIds : session[s].day <= now

(* A user belongs to the institution by one membership at most. *)
OneMembership ==
    \A m, n \in Members : Belongs(m) /\ Belongs(n) /\ UserOf[m] = UserOf[n] => m = n

IInv == TypeOK /\ CallsHaveClasses /\ OneLiveCall /\ CallsHaveBegun /\ OneMembership

-----------------------------------------------------------------------------

LEMMA Days ==
    ASSUME TypeOK, NEW s \in SessionIds
    PROVE  session[s] \in Session /\ session[s].day \in Nat /\ now \in Nat
<1>1. session[s] \in Session /\ now \in 0..MaxNow
  BY DEF TypeOK
<1>2. session[s].day \in 0..MaxNow
  BY <1>1 DEF Session
<1>3. \A n \in 0..MaxNow : n \in Nat
  BY FiguresAssumption
<1> QED
  BY <1>1, <1>2, <1>3

LEMMA InitInv == Init => IInv
<1> SUFFICES ASSUME Init PROVE IInv
  OBVIOUS
<1> USE FiguresAssumption
<1>1. TypeOK
  <2>1. 0 \in 0..MaxNow /\ 0 \in 0..MaxChanges
    OBVIOUS
  <2>2. Unopened \in Session
    BY <2>1 DEF Unopened, Session
  <2> QED
    BY <2>1, <2>2 DEF Init, TypeOK
<1>2. CallsHaveClasses /\ OneLiveCall /\ CallsHaveBegun
  BY DEF Init, CallsHaveClasses, OneLiveCall, CallsHaveBegun, Live, Unopened
<1>3. OneMembership
  BY DEF Init, OneMembership, Belongs
<1> QED
  BY <1>1, <1>2, <1>3 DEF IInv

LEMMA NextTypeOK == TypeOK /\ [Next]_vars => TypeOK'
<1> SUFFICES ASSUME TypeOK, [Next]_vars PROVE TypeOK'
  OBVIOUS
<1> MaxNow \in Nat /\ MaxChanges \in Nat
  BY FiguresAssumption
<1>1. Correct => changes' \in 0..MaxChanges
  BY DEF Correct, TypeOK
<1>2. ASSUME NEW c \in Classes, CreateClass(c) PROVE TypeOK'
  BY <1>2 DEF CreateClass, TypeOK
<1>3. ASSUME NEW c \in Classes, DeleteClass(c) PROVE TypeOK'
  BY <1>1, <1>3 DEF DeleteClass, TypeOK
<1>4. ASSUME NEW c \in Classes, NEW to \in {"active", "inactive"}, UpdateClass(c, to) PROVE TypeOK'
  BY <1>1, <1>4 DEF UpdateClass, TypeOK
<1>5. ASSUME NEW m \in Members, NEW c \in Classes, Enroll(m, c) PROVE TypeOK'
  BY <1>5 DEF Enroll, TypeOK
<1>6. ASSUME NEW m \in Members, NEW c \in Classes, Drop(m, c) PROVE TypeOK'
  BY <1>1, <1>6 DEF Drop, TypeOK
<1>7. ASSUME NEW m \in Members, NEW role \in {"aluno", "professor"}, ChangeRole(m, role)
      PROVE TypeOK'
  BY <1>1, <1>7 DEF ChangeRole, TypeOK
<1>8. ASSUME NEW m \in Members, RemoveMember(m) PROVE TypeOK'
  BY <1>1, <1>8 DEF RemoveMember, TypeOK
<1>9. ASSUME NEW s \in SessionIds, NEW c \in Classes, Open(s, c) PROVE TypeOK'
  <2>1. [class |-> c, status |-> "open", day |-> now] \in Session
    BY DEF Session, TypeOK
  <2> QED
    BY <1>9, <2>1 DEF Open, TypeOK
<1>10. ASSUME NEW s \in SessionIds, Close(s) PROVE TypeOK'
  BY <1>10 DEF Close, TypeOK, Session
<1>11. ASSUME NEW s \in SessionIds, Cancel(s) PROVE TypeOK'
  BY <1>1, <1>11 DEF Cancel, TypeOK, Session
<1>12. ASSUME NEW m \in Members, NEW s \in SessionIds, NEW status \in {"regular", "irregular"},
              Confirm(m, s, status)
       PROVE  TypeOK'
  BY <1>12 DEF Confirm, TypeOK
<1>13. ASSUME NEW m \in Members, NEW s \in SessionIds, NEW decision \in {"approved", "rejected"},
              Review(m, s, decision)
       PROVE  TypeOK'
  BY <1>1, <1>13 DEF Review, TypeOK
<1>17. ASSUME NEW m \in Members, NEW c \in Classes, DeleteEnrollment(m, c) PROVE TypeOK'
  BY <1>1, <1>17 DEF DeleteEnrollment, TypeOK
<1>18. ASSUME NEW m \in Members, NEW role \in {"aluno", "professor"}, AddMember(m, role)
       PROVE  TypeOK'
  BY <1>18 DEF AddMember, TypeOK
<1>14. CASE Sweep
  <2>1. ASSUME NEW s \in SessionIds
        PROVE  [session[s] EXCEPT !.status = "closed"] \in Session
    BY Days DEF Session
  <2>2. session' \in [SessionIds -> Session]
    BY <1>14, <2>1 DEF Sweep, TypeOK
  <2> QED
    BY <1>14, <2>2 DEF Sweep, TypeOK
<1>15. CASE Tick
  BY <1>15 DEF Tick, TypeOK
<1>16. CASE UNCHANGED vars
  BY <1>16 DEF vars, TypeOK
<1> QED
  BY <1>2, <1>3, <1>4, <1>5, <1>6, <1>7, <1>8, <1>9, <1>10, <1>11, <1>12, <1>13, <1>14,
     <1>15, <1>16, <1>17, <1>18 DEF Next

(* No step but Open brings a call to life or gives it a class. *)
CallsOnlyEnd ==
    /\ now' \in Nat /\ now <= now'
    /\ \A s \in SessionIds :
         /\ session'[s].class = session[s].class /\ session'[s].day = session[s].day
         /\ session'[s].status = "absent" <=> session[s].status = "absent"
         /\ session'[s].status = "open" => session[s].status = "open"

LEMMA OthersOnlyEnd ==
    ASSUME TypeOK, [Next]_vars, ~\E s \in SessionIds, c \in Classes : Open(s, c)
    PROVE  CallsOnlyEnd
<1>1. now \in 0..MaxNow /\ now \in Nat /\ now' \in Nat /\ now <= now + 1
  BY NextTypeOK, FiguresAssumption DEF TypeOK
<1>2. CASE session' = session /\ now' \in {now, now + 1}
  BY <1>1, <1>2 DEF CallsOnlyEnd
<1>3. ASSUME NEW s \in SessionIds, Close(s) PROVE CallsOnlyEnd
  <2>1. \A t \in SessionIds : session[t] \in Session
    BY DEF TypeOK
  <2>2. session' = [session EXCEPT ![s].status = "closed"] /\ now' = now
        /\ session[s].status # "absent"
    BY <1>3 DEF Close
  <2> QED
    BY <1>1, <2>1, <2>2 DEF CallsOnlyEnd, TypeOK, Session
<1>4. ASSUME NEW s \in SessionIds, Cancel(s) PROVE CallsOnlyEnd
  <2>1. \A t \in SessionIds : session[t] \in Session
    BY DEF TypeOK
  <2>2. session' = [session EXCEPT ![s].status = "cancelled"] /\ now' = now
        /\ session[s].status # "absent"
    BY <1>4 DEF Cancel
  <2> QED
    BY <1>1, <2>1, <2>2 DEF CallsOnlyEnd, TypeOK, Session
<1>5. CASE Sweep
  <2>1. \A t \in SessionIds : session[t] \in Session
    BY DEF TypeOK
  <2> QED
    BY <1>1, <1>5, <2>1 DEF CallsOnlyEnd, Sweep, Session
<1> QED
  BY <1>2, <1>3, <1>4, <1>5 DEF Next, vars, CreateClass, DeleteClass, UpdateClass, Enroll,
     Drop, DeleteEnrollment, AddMember, ChangeRole, RemoveMember, Confirm, Review, Tick

LEMMA EndingKeeps ==
    ASSUME TypeOK, CallsHaveClasses, OneLiveCall, CallsHaveBegun, CallsOnlyEnd
    PROVE  CallsHaveClasses' /\ OneLiveCall' /\ CallsHaveBegun'
<1>1. CallsHaveClasses'
  BY DEF CallsHaveClasses, CallsOnlyEnd
<1>2. ASSUME NEW s \in SessionIds, Live(s)' PROVE Live(s)
  BY <1>2, Days DEF Live, Lapsed, CallsOnlyEnd
<1>3. OneLiveCall'
  BY <1>2 DEF OneLiveCall, CallsOnlyEnd
<1>4. CallsHaveBegun'
  BY Days DEF CallsHaveBegun, CallsOnlyEnd
<1> QED
  BY <1>1, <1>3, <1>4

(* A call is opened beside expired ones only. *)
LEMMA OpenKeeps ==
    ASSUME TypeOK, CallsHaveClasses, OneLiveCall, CallsHaveBegun,
           NEW s \in SessionIds, NEW c \in Classes, Open(s, c)
    PROVE  CallsHaveClasses' /\ OneLiveCall' /\ CallsHaveBegun'
<1>1. /\ session' = [session EXCEPT ![s] = [class |-> c, status |-> "open", day |-> now]]
      /\ now' = now /\ MayOpen(c) /\ session \in [SessionIds -> Session]
  BY DEF Open, TypeOK
<1>2. /\ session'[s].class = c /\ session'[s].status = "open"
      /\ \A t \in SessionIds \ {s} : session'[t] = session[t]
  BY <1>1
<1>3. CallsHaveClasses'
  BY <1>2, FiguresAssumption DEF CallsHaveClasses
<1>4. ASSUME NEW t \in SessionIds \ {s}, Live(t)' PROVE Live(t) /\ session'[t].class # c
  BY <1>1, <1>2, <1>4 DEF Live, Lapsed, MayOpen, OpenIn
<1>5. OneLiveCall'
  BY <1>2, <1>4 DEF OneLiveCall
<1>6. CallsHaveBegun'
  <2>1. session'[s].day = now /\ now <= now
    BY <1>1, Days
  <2> QED
    BY <1>1, <1>2, <2>1 DEF CallsHaveBegun
<1> QED
  BY <1>3, <1>5, <1>6

(* A user is added who does not belong, and nothing else brings one in. *)
LEMMA MembershipKeeps ==
    ASSUME TypeOK, OneMembership, [Next]_vars
    PROVE  OneMembership'
<1>1. ASSUME NEW m \in Members, NEW role \in {"aluno", "professor"}, AddMember(m, role)
      PROVE  OneMembership'
  BY <1>1 DEF AddMember, OneMembership, Belongs, TypeOK
<1>2. ASSUME \A m \in Members : Belongs(m)' => Belongs(m)
      PROVE  OneMembership'
  BY <1>2 DEF OneMembership
<1>3. ASSUME NEW m \in Members, NEW role \in {"aluno", "professor"}, ChangeRole(m, role)
      PROVE  OneMembership'
  <2>1. \A n \in Members : Belongs(n)' => Belongs(n)
    BY <1>3 DEF ChangeRole, Belongs, TypeOK
  <2> QED
    BY <1>2, <2>1
<1>4. ASSUME NEW m \in Members, RemoveMember(m)
      PROVE  OneMembership'
  <2>1. \A n \in Members : Belongs(n)' => Belongs(n)
    BY <1>4 DEF RemoveMember, Belongs, TypeOK
  <2> QED
    BY <1>2, <2>1
<1>5. CASE UNCHANGED member
  BY <1>2, <1>5 DEF Belongs
<1> QED
  BY <1>1, <1>3, <1>4, <1>5 DEF Next, vars, CreateClass, DeleteClass, UpdateClass, Enroll, Drop,
     DeleteEnrollment, Open, Close, Cancel, Confirm, Review, Sweep, Tick

LEMMA NextInv == IInv /\ [Next]_vars => IInv'
<1> SUFFICES ASSUME IInv, [Next]_vars PROVE IInv'
  OBVIOUS
<1>1. TypeOK'
  BY NextTypeOK DEF IInv
<1>2. CallsHaveClasses' /\ OneLiveCall' /\ CallsHaveBegun'
  BY OthersOnlyEnd, EndingKeeps, OpenKeeps DEF IInv
<1>3. OneMembership'
  BY MembershipKeeps DEF IInv
<1> QED
  BY <1>1, <1>2, <1>3 DEF IInv

(* A class that is asked for its open call has one at most that is not expired
   (find_open_session_by_class, and MultipleResultsFound when it has two), and a
   user belongs by one membership (uq_active_tenant_user). *)
THEOREM Invariance == Spec => []IInv
BY InitInv, NextInv, PTL DEF Spec

(* Whatever requests and the task do, the tables keep their columns' values. *)
THEOREM TypeCorrect == Spec => []TypeOK
<1>1. IInv => TypeOK
  BY DEF IInv
<1> QED
  BY <1>1, Invariance, PTL

-----------------------------------------------------------------------------
(* The five parts of LiveListsAgree *)

LEMMA LiveFacts ==
    ASSUME IInv, NEW s \in SessionIds, Live(s)
    PROVE  session[s].class \in Classes /\ session[s].class # None
<1>1. session[s] \in Session
  BY DEF IInv, TypeOK
<1>2. session[s].class # None
  BY DEF IInv, CallsHaveClasses, Live
<1> QED
  BY <1>1, <1>2 DEF Session

(* The rows a confirmation may come upon: one of each membership the user has
   had at least, and of each of its enrollments in the class. *)
LEMMA ContextHas ==
    ASSUME NEW m, NEW c
    PROVE  LET owns == {x \in Members : UserOf[x] = UserOf[m] /\ member[x] # "absent"} IN
           /\ \A n \in owns : \A e \in EnrollmentsOf(n, c) : <<n, e>> \in Context(m, c)
           /\ \A n \in owns : \E row \in Context(m, c) : row[1] = n
           /\ \A row \in Context(m, c) :
                /\ row = <<row[1], row[2]>> /\ row[1] \in owns
                /\ IF EnrollmentsOf(row[1], c) = {} THEN row[2] = "none"
                   ELSE row[2] \in EnrollmentsOf(row[1], c)
<1> DEFINE owns == {x \in Members : UserOf[x] = UserOf[m] /\ member[x] # "absent"}
           es(n) == IF EnrollmentsOf(n, c) = {} THEN {"none"} ELSE EnrollmentsOf(n, c)
<1>1. \A row : row \in Context(m, c) <=> \E n \in owns : \E e \in es(n) : row = <<n, e>>
  BY DEF Context
<1>2. \A n \in owns : \A e \in EnrollmentsOf(n, c) : <<n, e>> \in Context(m, c)
  BY <1>1
<1>3. ASSUME NEW n \in owns PROVE \E row \in Context(m, c) : row[1] = n
  <2>1. PICK e \in es(n) : TRUE
    OBVIOUS
  <2>2. <<n, e>> \in Context(m, c) /\ <<n, e>>[1] = n
    BY <1>1, <2>1
  <2> QED
    BY <2>2
<1>4. ASSUME NEW row \in Context(m, c)
      PROVE  /\ row = <<row[1], row[2]>> /\ row[1] \in owns
             /\ IF EnrollmentsOf(row[1], c) = {} THEN row[2] = "none"
                ELSE row[2] \in EnrollmentsOf(row[1], c)
  <2>1. PICK n \in owns : \E e \in es(n) : row = <<n, e>>
    BY <1>1, <1>4
  <2>2. PICK e \in es(n) : row = <<n, e>>
    BY <2>1
  <2>3. row[1] = n /\ row[2] = e
    BY <2>2
  <2> QED
    BY <2>1, <2>2, <2>3
<1> QED
  BY <1>2, <1>3, <1>4

(* A student who belongs is let through by the row of the active enrollment. *)
LEMMA OwnRowAdmits ==
    ASSUME TypeOK, NEW m \in Students, NEW c
    PROVE  (\E row \in Context(m, c) : Admits(row) /\ row[1] = m) <=> IsEnrolled(m, c)
<1>1. m \in Members /\ member[m] = "aluno" /\ Belongs(m)
  BY DEF Students, Belongs
<1>2. ASSUME IsEnrolled(m, c)
      PROVE  \E row \in Context(m, c) : Admits(row) /\ row[1] = m
  <2>1. "active" \in EnrollmentsOf(m, c)
    BY <1>2 DEF EnrollmentsOf, IsEnrolled
  <2>2. <<m, "active">> \in Context(m, c)
    BY <1>1, <2>1, ContextHas
  <2> QED
    BY <1>1, <2>2 DEF Admits
<1>3. ASSUME NEW row \in Context(m, c), Admits(row), row[1] = m
      PROVE  IsEnrolled(m, c)
  <2>1. row[2] = "active" /\ "active" \in EnrollmentsOf(m, c)
    BY <1>3, ContextHas DEF Admits
  <2> QED
    BY <2>1 DEF EnrollmentsOf, IsEnrolled
<1> QED
  BY <1>2, <1>3

LEMMA StudentsSeeWhatTheyMayConfirm ==
    ASSUME IInv, NEW m \in Students, NEW s \in SessionIds, record[s][m] = "none"
    PROVE  s \in LiveForStudent(m) <=> MayConfirm(m, s) /\ class[session[s].class] = "active"
<1>1. (\E row \in Context(m, session[s].class) : Admits(row) /\ row[1] = m)
        <=> IsEnrolled(m, session[s].class)
  BY OwnRowAdmits DEF IInv
<1> QED
  BY <1>1, LiveFacts DEF LiveForStudent, MayConfirm

(* Any earlier row is one that does not admit. *)
LEMMA OnlyTheReturnedAreRefused ==
    ASSUME IInv, NEW m \in Students, NEW s \in LiveForStudent(m)
    PROVE  (\A row \in Context(m, session[s].class) : Admits(row))
             <=> ~Returned(m, session[s].class)
<1> DEFINE c == session[s].class
           owns == {x \in Members : UserOf[x] = UserOf[m] /\ member[x] # "absent"}
<1>1. m \in Members /\ Belongs(m) /\ enrolled[m][c] = "active"
  BY DEF Students, LiveForStudent, IsEnrolled, Belongs
<1>2. m \in owns
  BY <1>1 DEF Belongs
<1>3. ASSUME <<m, c>> \in erased
      PROVE  \E row \in Context(m, c) : ~Admits(row)
  <2>1. "deleted" \in EnrollmentsOf(m, c)
    BY <1>3 DEF EnrollmentsOf
  <2>2. <<m, "deleted">> \in Context(m, c)
    BY <1>2, <2>1, ContextHas
  <2> QED
    BY <2>2 DEF Admits
<1>4. ASSUME NEW n \in Members, UserOf[n] = UserOf[m], member[n] = "removed"
      PROVE  \E row \in Context(m, c) : ~Admits(row)
  <2>1. PICK row \in Context(m, c) : row[1] = n
    BY <1>4, ContextHas
  <2> QED
    BY <1>4, <2>1 DEF Admits, Belongs
<1>5. ASSUME ~Returned(m, c), NEW row \in Context(m, c)
      PROVE  Admits(row)
  <2>1. /\ row[1] \in owns
        /\ row[2] \in EnrollmentsOf(row[1], c) \/ EnrollmentsOf(row[1], c) = {}
    BY ContextHas
  <2>2. Belongs(row[1])
    BY <1>5, <2>1 DEF Returned, Belongs
  <2>3. row[1] = m
    BY <1>1, <2>1, <2>2 DEF IInv, OneMembership
  <2>4. EnrollmentsOf(m, c) = {"active"}
    BY <1>1, <1>5 DEF EnrollmentsOf, Returned
  <2> QED
    BY <2>1, <2>2, <2>3, <2>4 DEF Admits
<1> QED
  BY <1>3, <1>4, <1>5 DEF Returned

LEMMA StudentsSeeWhatTheTenantSees ==
    ASSUME IInv, NEW m \in Members
    PROVE  LiveForStudent(m) \subseteq LiveInTenant(None)
BY LiveFacts DEF LiveForStudent, LiveInTenant, InScope, Shown

LEMMA LatestIsAll ==
    ASSUME IInv, NEW c \in Classes
    PROVE  /\ LatestLive(c) = LiveIn(c)
           /\ LiveIn(c) = {s \in SessionIds : Live(s) /\ session[s].class = c}
           /\ \A s, t \in LiveIn(c) : s = t
<1>1. LiveIn(c) = {s \in SessionIds : Live(s) /\ session[s].class = c}
  BY DEF LiveIn, OpenIn, Live
<1>2. \A s, t \in LiveIn(c) : s = t
  BY <1>1 DEF IInv, OneLiveCall
<1>3. \A s \in LiveIn(c) : session[s].day <= session[s].day
  <2>1. ASSUME NEW s \in SessionIds PROVE session[s].day <= session[s].day
    BY Days DEF IInv
  <2> QED
    BY <1>1, <2>1
<1> QED
  BY <1>1, <1>2, <1>3 DEF LatestLive

LEMMA ClassShowsItsLiveCall ==
    ASSUME IInv, NEW c \in Classes, class[c] = "active"
    PROVE  /\ LatestLive(c) = LiveInTenant(None) \intersect SessionsIn(c)
           /\ ClassSummary(c).live <=> Cardinality(LatestLive(c)) = 1
<1>1. LatestLive(c) = LiveInTenant(None) \intersect SessionsIn(c)
  BY LatestIsAll DEF LiveInTenant, SessionsIn, InScope, Shown
<1>2. ClassSummary(c).live <=> LiveIn(c) # {}
  BY DEF ClassSummary
<1>3. LiveIn(c) = {} => Cardinality(LatestLive(c)) # 1
  <2>1. LatestLive(c) = LiveIn(c)
    BY LatestIsAll
  <2>2. Cardinality({}) # 1
    BY FS_EmptySet
  <2> QED
    BY <2>1, <2>2
<1>4. LiveIn(c) # {} => Cardinality(LatestLive(c)) = 1
  <2> SUFFICES ASSUME LiveIn(c) # {} PROVE Cardinality(LatestLive(c)) = 1
    OBVIOUS
  <2>1. PICK s \in LiveIn(c) : TRUE
    OBVIOUS
  <2>2. LatestLive(c) = {s}
    BY <2>1, LatestIsAll
  <2> QED
    BY <2>2, FS_Singleton
<1> QED
  BY <1>1, <1>2, <1>3, <1>4

(* The classes with a live call; every list of live classes or calls counts them. *)
LiveClasses == {c \in TaughtBy(None) : LatestLive(c) # {}}

LEMMA LiveClassesFinite == IsFiniteSet(LiveClasses)
BY FS_Subset, FiguresAssumption DEF LiveClasses, TaughtBy

(* The summaries have one row for each class. *)
LEMMA SummaryRows ==
    /\ \A c \in TaughtBy(None) : \E sum \in ClassSummaries(None) : sum.class = c
    /\ \A sum \in ClassSummaries(None) :
         sum.class \in TaughtBy(None) /\ sum.live = (LatestLive(sum.class) # {})
    /\ \A x, y \in ClassSummaries(None) : x.class = y.class => x = y
<1>1. \A c \in Classes : WindowSummary(c).class = c
  BY DEF WindowSummary
<1>2. \A c \in Classes : WindowSummary(c).live = (LatestLive(c) # {})
  BY DEF WindowSummary
<1>3. TaughtBy(None) \subseteq Classes
  BY DEF TaughtBy
<1> QED
  BY <1>1, <1>2, <1>3 DEF ClassSummaries

LEMMA PageRows ==
    /\ \A c \in LiveClasses : \E sum \in ClassPage(None, "live") : sum.class = c
    /\ \A sum \in ClassPage(None, "live") : sum.class \in LiveClasses
    /\ \A x, y \in ClassPage(None, "live") : x.class = y.class => x = y
<1>1. \A c \in Classes : ClassSummary(c).class = c
  BY DEF ClassSummary
<1>2. ClassPage(None, "live") = {ClassSummary(c) : c \in LiveClasses}
  BY DEF ClassPage, LiveClasses
<1>3. LiveClasses \subseteq Classes
  BY DEF LiveClasses, TaughtBy
<1> QED
  BY <1>1, <1>2, <1>3

LEMMA CardOfLiveClasses ==
    ClassMetrics(None).live = Cardinality({sum \in ClassSummaries(None) : sum.live})
BY DEF ClassMetrics

LEMMA CardCountsLiveClasses == ClassMetrics(None).live = Cardinality(LiveClasses)
<1> DEFINE rows == {sum \in ClassSummaries(None) : sum.live}
           f == [sum \in rows |-> sum.class]
<1>1. f \in [rows -> LiveClasses]
  BY SummaryRows DEF LiveClasses
<1>2. \A x, y \in rows : f[x] = f[y] => x = y
  BY SummaryRows
<1>3. ASSUME NEW c \in LiveClasses PROVE \E x \in rows : f[x] = c
  BY SummaryRows DEF LiveClasses
<1>4. Cardinality(rows) = Cardinality(LiveClasses)
  <2> HIDE DEF rows, f
  <2> QED
    BY <1>1, <1>2, <1>3, LiveClassesFinite, SameNumber
<1> QED
  BY <1>4, CardOfLiveClasses

LEMMA PageCountsLiveClasses == Cardinality(ClassPage(None, "live")) = Cardinality(LiveClasses)
<1> DEFINE rows == ClassPage(None, "live")
           f == [sum \in rows |-> sum.class]
<1>1. f \in [rows -> LiveClasses]
  BY PageRows
<1>2. \A x, y \in rows : f[x] = f[y] => x = y
  BY PageRows
<1>3. \A c \in LiveClasses : \E x \in rows : f[x] = c
  BY PageRows
<1>4. Cardinality(rows) = Cardinality(LiveClasses)
  <2> HIDE DEF rows, f
  <2> QED
    BY <1>1, <1>2, <1>3, LiveClassesFinite, SameNumber
<1> QED
  BY <1>4

(* With no inactive class, every live class has one call on the list of the
   institution. *)
LEMMA TenantCountsLiveClasses ==
    ASSUME IInv, \A c \in Classes : class[c] # "inactive"
    PROVE  Cardinality(LiveInTenant(None)) = Cardinality(LiveClasses)
<1> DEFINE calls == LiveInTenant(None)
           f == [s \in calls |-> session[s].class]
<1>1. \A s \in calls : s \in SessionIds /\ Live(s) /\ session[s].class \in TaughtBy(None)
  BY DEF LiveInTenant, InScope, TaughtBy
<1>2. TaughtBy(None) \subseteq Classes
  BY DEF TaughtBy
<1>3. f \in [calls -> LiveClasses]
  <2>1. \A s \in calls : s \in LiveIn(session[s].class)
    BY <1>1, <1>2, LatestIsAll
  <2>2. \A s \in calls : session[s].class \in LiveClasses
    BY <1>1, <1>2, <2>1, LatestIsAll DEF LiveClasses
  <2> QED
    BY <2>2
<1>4. \A s, t \in calls : f[s] = f[t] => s = t
  BY <1>1 DEF IInv, OneLiveCall
<1>5. ASSUME NEW c \in LiveClasses PROVE \E s \in calls : f[s] = c
  <2>1. c \in Classes /\ Shown(c) /\ LatestLive(c) # {}
    BY DEF LiveClasses, TaughtBy
  <2>2. PICK s \in SessionIds : Live(s) /\ session[s].class = c
    BY <2>1, LatestIsAll
  <2>3. s \in calls
    BY <2>1, <2>2 DEF LiveInTenant, InScope, Shown
  <2> QED
    BY <2>2, <2>3
<1>6. Cardinality(calls) = Cardinality(LiveClasses)
  <2> HIDE DEF calls, f
  <2> QED
    BY <1>3, <1>4, <1>5, LiveClassesFinite, SameNumber
<1> QED
  BY <1>6

(* What is shown as live is what may be confirmed, for sure by students who have
   not returned, and every screen counts the same live calls: the lists of the student, of the institution and of the
   classes, and the card (list_active_sessions_by_student,
   list_active_sessions_by_tenant, find_summaries_by_tenant_paginated,
   list_summaries_by_tenant, get_metrics_by_tenant). *)
THEOREM LiveListsAlwaysAgree == Spec => []LiveListsAgree
<1>1. IInv => LiveListsAgree
  <2> SUFFICES ASSUME IInv PROVE LiveListsAgree
    OBVIOUS
  <2>1. \A m \in Students, s \in SessionIds :
          /\ record[s][m] = "none" =>
               (s \in LiveForStudent(m)
                  <=> MayConfirm(m, s) /\ class[session[s].class] = "active")
          /\ s \in LiveForStudent(m) =>
               ((\A row \in Context(m, session[s].class) : Admits(row))
                  <=> ~Returned(m, session[s].class))
    BY StudentsSeeWhatTheyMayConfirm, OnlyTheReturnedAreRefused
  <2>2. \A m \in Members : LiveForStudent(m) \subseteq LiveInTenant(None)
    BY StudentsSeeWhatTheTenantSees
  <2>3. \A c \in Classes : class[c] = "active" =>
          /\ LatestLive(c) = LiveInTenant(None) \intersect SessionsIn(c)
          /\ ClassSummary(c).live <=> Cardinality(LatestLive(c)) = 1
    BY ClassShowsItsLiveCall
  <2>4. ClassMetrics(None).live = Cardinality(ClassPage(None, "live"))
    BY CardCountsLiveClasses, PageCountsLiveClasses
  <2>5. (\A c \in Classes : class[c] # "inactive") =>
          ClassMetrics(None).live = Cardinality(LiveInTenant(None))
    BY CardCountsLiveClasses, TenantCountsLiveClasses
  <2> QED
    BY <2>1, <2>2, <2>3, <2>4, <2>5 DEF LiveListsAgree
<1> QED
  BY <1>1, Invariance, PTL

-----------------------------------------------------------------------------
(* Rates near the limit *)

LEMMA Division ==
    ASSUME NEW a \in Nat, NEW b \in Nat, b > 0
    PROVE  /\ a \div b \in Nat
           /\ b * (a \div b) <= a /\ a < b * (a \div b) + b
OBVIOUS

LEMMA QuotientBelow ==
    ASSUME NEW a \in Nat, NEW b \in Nat, b > 0, NEW k \in Nat
    PROVE  a \div b < k <=> a < b * k
<1> DEFINE q == a \div b
<1>1. q \in Nat /\ b * q <= a /\ a < b * q + b
  BY Division
<1> HIDE DEF q
<1>2. q < k => b * q + b <= b * k
  BY <1>1
<1>3. q >= k => b * k <= b * q
  BY <1>1
<1> QED
  BY <1>1, <1>2, <1>3

LEMMA Rounding ==
    ASSUME NEW present \in Nat, NEW lessons \in Nat, 0 < lessons
    PROVE  /\ lessons <= 5000 =>
                (RoundedBelow75(present, lessons, 10000) <=> Below75(present, lessons))
           /\ lessons <= 50 =>
                (RoundedBelow75(present, lessons, 100) <=> Below75(present, lessons))
<1>1. RoundedBelow75(present, lessons, 10000)
        <=> (2 * 10000 * present + lessons) \div (2 * lessons) < 7500
  BY DEF RoundedBelow75, Rounded
<1>2. @ <=> 2 * 10000 * present + lessons < (2 * lessons) * 7500
  BY QuotientBelow
<1>3. RoundedBelow75(present, lessons, 100)
        <=> (2 * 100 * present + lessons) \div (2 * lessons) < 75
  BY DEF RoundedBelow75, Rounded
<1>4. @ <=> 2 * 100 * present + lessons < (2 * lessons) * 75
  BY QuotientBelow
<1> QED
  BY <1>1, <1>2, <1>3, <1>4 DEF Below75

(* Rounding moves no rate across the limit of 75 % while there are few lessons:
   round(..., 4) of the lists agrees with the exact test of the dashboard and
   the cards up to 5000 lessons, round(..., 2) of a student's page up to 50
   (compute_attendance_rate, find_student_with_metrics_by_id). *)
THEOREM RoundingKeepsTheLimit ==
    \A present \in Nat, lessons \in Nat \ {0} :
        /\ lessons <= 5000 =>
             (RoundedBelow75(present, lessons, 10000) <=> Below75(present, lessons))
        /\ lessons <= 50 =>
             (RoundedBelow75(present, lessons, 100) <=> Below75(present, lessons))
BY Rounding

LEMMA CountsAreNumbers ==
    ASSUME NEW m \in Members, NEW c \in Classes
    PROVE  Lessons(c) \in Nat /\ Presences(m, c) \in Nat /\ Presences(m, c) <= Lessons(c)
<1>1. Counted(c) \in SUBSET SessionIds
      /\ {s \in Counted(c) : WasPresent(m, s)} \in SUBSET Counted(c)
  BY DEF Counted, SessionsIn
<1>2. /\ Cardinality(Counted(c)) \in Nat
      /\ Cardinality({s \in Counted(c) : WasPresent(m, s)}) \in Nat
      /\ Cardinality({s \in Counted(c) : WasPresent(m, s)}) <= Cardinality(Counted(c))
  BY <1>1, FS_Subset, FS_CardinalityType, FiguresAssumption
<1>3. Held[c] \in Nat /\ Attended[m][c] \in Nat /\ Attended[m][c] <= Held[c]
  BY FiguresAssumption
<1> QED
  BY <1>2, <1>3 DEF Lessons, Presences

(* The rows of a student's own list have one row for each class shown. *)
LEMMA OwnRows ==
    ASSUME NEW m \in Members
    PROVE  /\ \A c \in Classes : Shown(c) /\ IsEnrolled(m, c) =>
                \E row \in OwnClasses(m) : row.class = c
           /\ \A row \in OwnClasses(m) :
                /\ row.class \in Classes /\ Shown(row.class) /\ IsEnrolled(m, row.class)
                /\ row.sessions = Lessons(row.class)
                /\ row.present = Presences(m, row.class)
           /\ \A x, y \in OwnClasses(m) : x.class = y.class => x = y
<1> DEFINE Row(c) == [class |-> c, sessions |-> Lessons(c), present |-> Presences(m, c)]
           own == {d \in Classes : Shown(d) /\ IsEnrolled(m, d)}
<1>1. OwnClasses(m) = {Row(c) : c \in own}
  BY DEF OwnClasses
<1>2. \A c : Row(c).class = c /\ Row(c).sessions = Lessons(c) /\ Row(c).present = Presences(m, c)
  OBVIOUS
<1>3. \A c : c \in own <=> c \in Classes /\ Shown(c) /\ IsEnrolled(m, c)
  OBVIOUS
<1> HIDE DEF Row, own
<1> QED
  BY <1>1, <1>2, <1>3

(* The classes in which a student is below the limit. *)
RiskyClasses(m) ==
    {c \in Classes : /\ Shown(c) /\ IsEnrolled(m, c) /\ Lessons(c) > 0
                     /\ Below75(Presences(m, c), Lessons(c))}

LEMMA RiskyClassesFinite == \A m : IsFiniteSet(RiskyClasses(m))
BY FS_Subset, FiguresAssumption DEF RiskyClasses

LEMMA OwnCardCountsRiskyClasses ==
    ASSUME NEW m \in Members, \A c \in Classes : Lessons(c) <= 5000
    PROVE  OwnMetrics(m).atRisk = Cardinality(RiskyClasses(m))
<1> DEFINE rows == {own \in OwnClasses(m) :
                      own.sessions > 0 /\ RoundedBelow75(own.present, own.sessions, 10000)}
           f == [own \in rows |-> own.class]
<1>1. \A c \in Classes : Lessons(c) > 0 =>
        (RoundedBelow75(Presences(m, c), Lessons(c), 10000) <=> Below75(Presences(m, c), Lessons(c)))
  BY CountsAreNumbers, Rounding
<1>2. f \in [rows -> RiskyClasses(m)]
  BY <1>1, OwnRows DEF RiskyClasses
<1>3. \A x, y \in rows : f[x] = f[y] => x = y
  BY OwnRows
<1>4. ASSUME NEW c \in RiskyClasses(m) PROVE \E x \in rows : f[x] = c
  BY <1>1, OwnRows DEF RiskyClasses
<1>5. Cardinality(rows) = Cardinality(RiskyClasses(m))
  <2> HIDE DEF rows, f
  <2> QED
    BY <1>2, <1>3, <1>4, RiskyClassesFinite, SameNumber
<1> QED
  BY <1>5 DEF OwnMetrics

LEMMA DashboardCountsRiskyClasses ==
    ASSUME NEW m \in Members
    PROVE  Cardinality({e \in AtRiskEnrollments(DashboardClasses(None, "all")) : e[1] = m})
             = Cardinality(RiskyClasses(m))
<1> DEFINE pairs == {e \in AtRiskEnrollments(DashboardClasses(None, "all")) : e[1] = m}
           f == [e \in pairs |-> e[2]]
<1>1. DashboardClasses(None, "all") = {c \in Classes : Shown(c)}
  BY DEF DashboardClasses, InScope
<1>2. \A e \in pairs : e = <<m, e[2]>> /\ e[2] \in RiskyClasses(m)
  BY <1>1 DEF AtRiskEnrollments, RiskyClasses
<1>3. \A c \in RiskyClasses(m) : <<m, c>> \in pairs
  BY <1>1 DEF AtRiskEnrollments, RiskyClasses
<1>4. /\ f \in [pairs -> RiskyClasses(m)]
      /\ \A x, y \in pairs : f[x] = f[y] => x = y
      /\ \A c \in RiskyClasses(m) : \E x \in pairs : f[x] = c
  <2> HIDE DEF pairs
  <2>1. \A x, y \in pairs : f[x] = f[y] => x = y
    BY <1>2
  <2>2. ASSUME NEW c \in RiskyClasses(m) PROVE \E x \in pairs : f[x] = c
    <3>1. f[<<m, c>>] = c
      BY <1>3
    <3> QED
      BY <3>1, <1>3
  <2> QED
    BY <1>2, <2>1, <2>2
<1>5. Cardinality(pairs) = Cardinality(RiskyClasses(m))
  <2> HIDE DEF pairs, f
  <2> QED
    BY <1>4, RiskyClassesFinite, SameNumber
<1> QED
  BY <1>5

(* The card of a student counts the enrollments the dashboard marks for that
   student, whatever the tables hold, while no class has more than 5000 lessons:
   the one rounds rates it computed in Python, the other compares products in
   SQL (GetStudentMetricsUseCase.execute, _get_students_at_risk_count). *)
THEOREM OwnCardCountsTheDashboard ==
    ASSUME NEW m \in Members, \A c \in Classes : Lessons(c) <= 5000
    PROVE  OwnMetrics(m).atRisk
             = Cardinality({e \in AtRiskEnrollments(DashboardClasses(None, "all")) : e[1] = m})
BY OwnCardCountsRiskyClasses, DashboardCountsRiskyClasses

(* The report of a class marks the students the dashboard marks while no call of
   the class was cancelled: it counts cancelled calls, the dashboard does not
   (_build_student_report, _get_students_at_risk_count). *)
THEOREM ReportMarksTheDashboard ==
    ASSUME NEW c \in Classes, Lessons(c) > 0, Counted(c) = SessionsIn(c),
           NEW m \in EnrolledIn(c)
    PROVE  ReportRow(m, c).atRisk <=> <<m, c>> \in AtRiskEnrollments({c})
<1>1. m \in Members /\ IsEnrolled(m, c)
  BY DEF EnrolledIn
<1>2. ReportRow(m, c).atRisk = (Lessons(c) = 0 \/ Below75(Presences(m, c), Lessons(c)))
  BY DEF ReportRow, Lessons, Presences
<1>3. Lessons(c) # 0
  BY CountsAreNumbers, <1>1
<1>4. <<m, c>> \in AtRiskEnrollments({c}) <=> Below75(Presences(m, c), Lessons(c))
  BY <1>1 DEF AtRiskEnrollments
<1> QED
  BY <1>2, <1>3, <1>4

-----------------------------------------------------------------------------
(* The lists and cards of students *)

LEMMA ClassListsFinite ==
    ASSUME NEW scope
    PROVE  /\ IsFiniteSet(Students) /\ Students \subseteq Members
           /\ IsFiniteSet(InScope(scope)) /\ InScope(scope) \subseteq Classes
           /\ IsFiniteSet(TaughtBy(scope)) /\ TaughtBy(scope) \subseteq Classes
<1>1. Students \in SUBSET Members /\ InScope(scope) \in SUBSET Classes
      /\ TaughtBy(scope) \in SUBSET Classes
  BY DEF Students, InScope, TaughtBy
<1> QED
  BY <1>1, FS_Subset, FiguresAssumption

LEMMA EnrolledFinite ==
    ASSUME NEW c
    PROVE  /\ IsFiniteSet(EnrolledIn(c)) /\ EnrolledIn(c) \subseteq Members
           /\ Cardinality(EnrolledIn(c)) \in Nat
<1>1. EnrolledIn(c) \in SUBSET Members
  BY DEF EnrolledIn
<1> QED
  BY <1>1, FS_Subset, FS_CardinalityType, FiguresAssumption

LEMMA ClassesOfFinite ==
    ASSUME NEW m, NEW scope, NEW only
    PROVE  /\ IsFiniteSet(ClassesOf(m, scope, only)) /\ ClassesOf(m, scope, only) \subseteq Classes
           /\ Cardinality(ClassesOf(m, scope, only)) \in Nat
           /\ Cardinality(ClassesOf(m, scope, only)) > 0 <=> ClassesOf(m, scope, only) # {}
           /\ Cardinality(ClassesOf(m, scope, only)) = 0 <=> ClassesOf(m, scope, only) = {}
<1>1. ClassesOf(m, scope, only) \in SUBSET Classes
  BY DEF ClassesOf, InScope
<1> QED
  BY <1>1, FS_Subset, FS_CardinalityType, FS_EmptySet, FiguresAssumption

(* The sums of an item, named. *)
LessonsIn(mine) == SumFunction([c \in mine |-> Lessons(c)])
PresencesIn(m, mine) == SumFunction([c \in mine |-> Presences(m, c)])

LEMMA TotalsAreNumbers ==
    ASSUME NEW m \in Members, NEW mine \in SUBSET Classes
    PROVE  /\ IsFiniteSet(mine)
           /\ [c \in mine |-> Lessons(c)] \in [mine -> Nat]
           /\ [c \in mine |-> Presences(m, c)] \in [mine -> Nat]
           /\ LessonsIn(mine) \in Nat /\ PresencesIn(m, mine) \in Nat
           /\ PresencesIn(m, mine) <= LessonsIn(mine)
<1> DEFINE f == [c \in mine |-> Lessons(c)]
           g == [c \in mine |-> Presences(m, c)]
<1>1. IsFiniteSet(mine)
  BY FS_Subset, FiguresAssumption
<1>2. f \in [mine -> Nat] /\ g \in [mine -> Nat] /\ \A c \in mine : g[c] <= f[c]
  BY CountsAreNumbers
<1> HIDE DEF f, g
<1>3. SumFunction(f) \in Nat /\ SumFunction(g) \in Nat /\ SumFunction(g) <= SumFunction(f)
  BY <1>1, <1>2, SumNat, SumLeq
<1> QED
  BY <1>1, <1>2, <1>3 DEF f, g, LessonsIn, PresencesIn

LEMMA ItemIs ==
    ASSUME NEW m, NEW scope, NEW only, NEW unit
    PROVE  LET item == StudentItem(m, scope, only, unit)
               mine == ClassesOf(m, scope, only)
           IN  /\ item.student = m /\ item.turmas = Cardinality(mine)
               /\ item.sessions = LessonsIn(mine) /\ item.present = PresencesIn(m, mine)
               /\ item.status = IF mine = {} THEN "sem_turma"
                                ELSE IF LessonsIn(mine) > 0
                                        /\ RoundedBelow75(PresencesIn(m, mine), LessonsIn(mine), unit)
                                THEN "at_risk" ELSE "regular"
BY DEF StudentItem, LessonsIn, PresencesIn

(* The list has one item for each student it keeps. *)
LEMMA ListItems ==
    ASSUME NEW scope, NEW only, NEW status
    PROVE  /\ \A item \in StudentList(scope, only, status) :
                /\ item.student \in Students
                /\ item = StudentItem(item.student, scope, only, 10000)
           /\ \A m \in Students :
                StudentItem(m, scope, only, 10000) \in StudentList(scope, only, status)
                  <=> /\ only # None => ClassesOf(m, scope, only) # {}
                      /\ status = "regular" => ClassesOf(m, scope, only) # {}
                      /\ status = "sem_turma" => ClassesOf(m, scope, only) = {}
<1>1. \A m \in Students :
        /\ StudentItem(m, scope, only, 10000).student = m
        /\ StudentItem(m, scope, only, 10000).turmas > 0 <=> ClassesOf(m, scope, only) # {}
        /\ StudentItem(m, scope, only, 10000).turmas = 0 <=> ClassesOf(m, scope, only) = {}
  BY ItemIs, ClassesOfFinite
<1> QED
  BY <1>1 DEF StudentList

LEMMA TotalCountsTheList ==
    ASSUME NEW scope, NEW only, NEW status, only = None \/ only \in InScope(scope)
    PROVE  StudentTotal(scope, only, status) = Cardinality(StudentList(scope, only, status))
<1> DEFINE list == StudentList(scope, only, status)
           kept == {m \in Students :
                      /\ only # None => IsEnrolled(m, only)
                      /\ status = "regular" => ClassesOf(m, scope, only) # {}
                      /\ status = "sem_turma" => ClassesOf(m, scope, only) = {}}
           f == [item \in list |-> item.student]
<1>1. \A m \in Students : only # None => (IsEnrolled(m, only) <=> ClassesOf(m, scope, only) # {})
  BY FiguresAssumption DEF ClassesOf, InScope
<1>2. \A m \in Students : StudentItem(m, scope, only, 10000) \in list <=> m \in kept
  BY <1>1, ListItems
<1>3. \A item \in list : item.student \in Students
        /\ item = StudentItem(item.student, scope, only, 10000)
  BY ListItems
<1>4. \A m \in Students : StudentItem(m, scope, only, 10000).student = m
  BY ItemIs
<1>5. IsFiniteSet(kept)
  <2>1. kept \in SUBSET Students
    OBVIOUS
  <2> HIDE DEF kept
  <2> QED
    BY <2>1, ClassListsFinite, FS_Subset
<1>6. StudentTotal(scope, only, status) = Cardinality(kept)
  BY DEF StudentTotal
<1> HIDE DEF list
<1>7. /\ f \in [list -> kept] /\ \A x, y \in list : f[x] = f[y] => x = y
      /\ \A m \in kept : \E x \in list : f[x] = m
  <2>1. \A m \in kept : m \in Students
    OBVIOUS
  <2> HIDE DEF kept
  <2> QED
    BY <1>2, <1>3, <1>4, <2>1
<1> HIDE DEF kept, f
<1>8. Cardinality(list) = Cardinality(kept)
  BY <1>5, <1>7, SameNumber
<1> QED
  BY <1>6, <1>8 DEF list

-----------------------------------------------------------------------------
(* A class adds up *)

LEMMA OwnRowOf ==
    ASSUME NEW c \in Classes, Shown(c), NEW m \in EnrolledIn(c)
    PROVE  (CHOOSE row \in OwnClasses(m) : row.class = c).present = Presences(m, c)
<1> DEFINE own == CHOOSE row \in OwnClasses(m) : row.class = c
<1>1. m \in Members /\ IsEnrolled(m, c)
  BY DEF EnrolledIn
<1>2. own \in OwnClasses(m) /\ own.class = c
  BY <1>1, OwnRows
<1> QED
  BY <1>1, <1>2, OwnRows

LEMMA ClassPresentsBound ==
    ASSUME NEW c \in Classes
    PROVE  /\ ClassPresents(c) \in Nat
           /\ ClassPresents(c) <= Cardinality(EnrolledIn(c)) * Lessons(c)
<1> DEFINE S == EnrolledIn(c)
           f == [m \in S |-> Presences(m, c)]
           g == [m \in S |-> Lessons(c)]
<1>1. S \subseteq Members /\ IsFiniteSet(S) /\ Cardinality(S) \in Nat
  BY EnrolledFinite
<1>2. \A m \in Members : /\ Lessons(c) \in Nat /\ Presences(m, c) \in Nat
                         /\ Presences(m, c) <= Lessons(c)
  BY CountsAreNumbers
<1>3. Lessons(c) \in Nat
  <2>1. Counted(c) \in SUBSET SessionIds
    BY DEF Counted, SessionsIn
  <2>2. Cardinality(Counted(c)) \in Nat /\ Held[c] \in Nat
    BY <2>1, FS_Subset, FS_CardinalityType, FiguresAssumption
  <2> QED
    BY <2>2 DEF Lessons
<1>4. /\ f \in [S -> Nat] /\ g \in [S -> Nat]
      /\ \A m \in S : f[m] <= g[m] /\ g[m] = Lessons(c)
  BY <1>1, <1>2, <1>3
<1>5. ClassPresents(c) = SumFunction(f)
  BY DEF ClassPresents
<1> HIDE DEF f, g, S
<1>6. /\ SumFunction(f) \in Nat /\ SumFunction(f) <= SumFunction(g)
      /\ SumFunction(g) = Lessons(c) * Cardinality(S)
  BY <1>1, <1>3, <1>4, SumNat, SumLeq, SumConst
<1>7. Lessons(c) * Cardinality(S) = Cardinality(S) * Lessons(c)
  BY <1>1, <1>3
<1> QED
  BY <1>5, <1>6, <1>7 DEF S

LEMMA ReportCountsEnrollments ==
    ASSUME NEW c \in Classes
    PROVE  /\ ClassReport(c).students = Cardinality(Reported(c))
           /\ Cardinality(EnrolledIn(c)) <= Cardinality(Reported(c))
           /\ {ReportRow(m, c).student : m \in Reported(c)} = Reported(c)
<1> DEFINE rows == {ReportRow(m, c) : m \in Reported(c)}
           f == [row \in rows |-> row.student]
<1>1. \A m : ReportRow(m, c).student = m
  BY DEF ReportRow
<1>2. ClassReport(c).students = Cardinality(rows)
  BY DEF ClassReport
<1>3. Reported(c) \in SUBSET Members
  BY DEF Reported
<1>4. IsFiniteSet(Reported(c))
  BY <1>3, FS_Subset, FiguresAssumption
<1>5. /\ f \in [rows -> Reported(c)] /\ \A x, y \in rows : f[x] = f[y] => x = y
      /\ \A m \in Reported(c) : \E x \in rows : f[x] = m
  BY <1>1
<1>6. Cardinality(rows) = Cardinality(Reported(c))
  <2> HIDE DEF rows, f
  <2> QED
    BY <1>4, <1>5, SameNumber
<1>7. EnrolledIn(c) \in SUBSET Reported(c)
  BY DEF EnrolledIn, Reported, IsEnrolled
<1>8. Cardinality(EnrolledIn(c)) <= Cardinality(Reported(c))
  BY <1>4, <1>7, FS_Subset
<1> QED
  BY <1>1, <1>2, <1>6, <1>8

LEMMA ClassesAddUp == ClassAddsUp
<1> SUFFICES ASSUME NEW c \in Classes, Shown(c)
             PROVE  LET sum == ClassSummary(c)
                        own(m) == CHOOSE row \in OwnClasses(m) : row.class = c
                    IN /\ sum.present = SumFunction([m \in EnrolledIn(c) |-> own(m).present])
                       /\ sum.present <= sum.students * sum.sessions
                       /\ StudentTotal(None, c, None) = Cardinality(StudentList(None, c, None))
                       /\ ClassReport(c).students >= sum.students
                       /\ {ReportRow(m, c).student : m \in Reported(c)}
                              \ {m \in Members : member[m] = "removed"} = MemberList(c)
  BY DEF ClassAddsUp
<1>1. /\ ClassSummary(c).present = ClassPresents(c)
      /\ ClassSummary(c).students = Cardinality(EnrolledIn(c))
      /\ ClassSummary(c).sessions = Lessons(c)
  BY DEF ClassSummary
<1>2. ClassPresents(c)
        = SumFunction([m \in EnrolledIn(c) |->
            (CHOOSE row \in OwnClasses(m) : row.class = c).present])
  <2>1. [m \in EnrolledIn(c) |-> (CHOOSE row \in OwnClasses(m) : row.class = c).present]
          = [m \in EnrolledIn(c) |-> Presences(m, c)]
    BY OwnRowOf
  <2> QED
    BY <2>1 DEF ClassPresents
<1>3. StudentTotal(None, c, None) = Cardinality(StudentList(None, c, None))
  BY TotalCountsTheList DEF InScope
<1>4. ClassReport(c).students >= Cardinality(EnrolledIn(c))
  <2>1. Cardinality(EnrolledIn(c)) <= ClassReport(c).students
    BY ReportCountsEnrollments
  <2>2. Reported(c) \in SUBSET Members
    BY DEF Reported
  <2>3. Cardinality(Reported(c)) \in Nat
    BY <2>2, FS_Subset, FS_CardinalityType, FiguresAssumption
  <2> QED
    BY <2>1, <2>3, EnrolledFinite, ReportCountsEnrollments
<1>5. Reported(c) \ {m \in Members : member[m] = "removed"} = MemberList(c)
  BY DEF Reported, MemberList
<1> QED
  BY <1>1, <1>2, <1>3, <1>4, <1>5, ClassPresentsBound, ReportCountsEnrollments

-----------------------------------------------------------------------------
(* A student adds up *)

Mine(m) == ClassesOf(m, None, None)

LEMMA MineIs ==
    ASSUME NEW m
    PROVE  /\ Mine(m) = {c \in Classes : Shown(c) /\ IsEnrolled(m, c)}
           /\ Mine(m) \subseteq Classes /\ IsFiniteSet(Mine(m))
<1>1. Mine(m) = {c \in Classes : Shown(c) /\ IsEnrolled(m, c)}
  BY DEF Mine, ClassesOf, InScope
<1> QED
  BY <1>1, ClassesOfFinite DEF Mine

(* The rows of the own page stand for the classes of the list. *)
LEMMA OwnRowsAreMine ==
    ASSUME NEW m \in Members
    PROVE  LET class_of == [own \in OwnClasses(m) |-> own.class]
           IN  /\ class_of \in [OwnClasses(m) -> Mine(m)]
               /\ \A x, y \in OwnClasses(m) : class_of[x] = class_of[y] => x = y
               /\ \A c \in Mine(m) : \E x \in OwnClasses(m) : class_of[x] = c
               /\ IsFiniteSet(OwnClasses(m))
               /\ Cardinality(OwnClasses(m)) = Cardinality(Mine(m))
<1> DEFINE f == [own \in OwnClasses(m) |-> own.class]
<1>1. f \in [OwnClasses(m) -> Mine(m)]
  BY OwnRows, MineIs
<1>2. \A x, y \in OwnClasses(m) : f[x] = f[y] => x = y
  BY OwnRows
<1>3. \A c \in Mine(m) : \E x \in OwnClasses(m) : f[x] = c
  BY OwnRows, MineIs
<1> HIDE DEF f
<1>4. IsFiniteSet(OwnClasses(m)) /\ Cardinality(OwnClasses(m)) = Cardinality(Mine(m))
  BY <1>1, <1>2, <1>3, MineIs, SameNumber
<1> QED
  BY <1>1, <1>2, <1>3, <1>4 DEF f

LEMMA PastIsMine ==
    ASSUME NEW m \in Members, NEW past \in [Classes -> Nat]
    PROVE  SumFunction([own \in OwnClasses(m) |-> past[own.class]])
             = SumFunction([c \in Mine(m) |-> past[c]])
<1> DEFINE S == OwnClasses(m)
           C == Mine(m)
           k == [own \in S |-> own.class]
           f == [own \in S |-> past[own.class]]
           g == [c \in C |-> past[c]]
<1>1. /\ k \in [S -> C] /\ \A x, y \in S : k[x] = k[y] => x = y
      /\ \A c \in C : \E x \in S : k[x] = c
      /\ IsFiniteSet(S)
  BY OwnRowsAreMine
<1>2. C \subseteq Classes /\ IsFiniteSet(C)
  BY MineIs
<1> HIDE DEF S, C
<1>3. \A x \in S : k[x] = x.class /\ x.class \in C
  BY <1>1
<1>4. f \in [S -> Nat] /\ g \in [C -> Nat] /\ \A x \in S : f[x] = g[k[x]]
  BY <1>2, <1>3
<1> HIDE DEF k, f, g
<1>5. SumFunction(f) = SumFunction(g)
  BY <1>1, <1>2, <1>4, SumReindex
<1> QED
  BY <1>5 DEF f, g, S, C

(* The calls of the history that count, class by class. *)
LEMMA HistoryByClass ==
    ASSUME NEW m \in Members
    PROVE  LET counted == {s \in History(m) : session[s].status # "cancelled"}
           IN  /\ Cardinality(counted) = SumFunction([c \in Mine(m) |-> Cardinality(Counted(c))])
               /\ Cardinality({s \in counted : WasPresent(m, s)})
                    = SumFunction([c \in Mine(m) |->
                        Cardinality({s \in Counted(c) : WasPresent(m, s)})])
<1> DEFINE counted == {s \in History(m) : session[s].status # "cancelled"}
           present == {s \in counted : WasPresent(m, s)}
           C == Mine(m)
           k == [s \in counted |-> session[s].class]
           p == [s \in present |-> session[s].class]
<1>1. \A s : s \in counted <=> /\ s \in SessionIds /\ session[s].class \in C
                               /\ session[s].status # "cancelled"
  BY MineIs DEF History, SessionsIn
<1>2. IsFiniteSet(C)
  BY MineIs
<1>3. IsFiniteSet(counted) /\ IsFiniteSet(present)
  <2>1. counted \in SUBSET SessionIds /\ present \in SUBSET SessionIds
    BY <1>1
  <2> QED
    BY <2>1, FS_Subset, FiguresAssumption
<1>4. k \in [counted -> C] /\ p \in [present -> C]
  BY <1>1
<1>5. ASSUME NEW c \in C
      PROVE  /\ Fibre(k, counted, c) = Counted(c)
             /\ Fibre(p, present, c) = {s \in Counted(c) : WasPresent(m, s)}
  BY <1>1 DEF Fibre, Counted, SessionsIn
<1> HIDE DEF counted, present, C, k, p
<1>6. /\ Cardinality(counted) = SumFunction([c \in C |-> Cardinality(Fibre(k, counted, c))])
      /\ Cardinality(present) = SumFunction([c \in C |-> Cardinality(Fibre(p, present, c))])
  BY <1>2, <1>3, <1>4, CardFibres
<1>7. /\ [c \in C |-> Cardinality(Fibre(k, counted, c))] = [c \in C |-> Cardinality(Counted(c))]
      /\ [c \in C |-> Cardinality(Fibre(p, present, c))]
           = [c \in C |-> Cardinality({s \in Counted(c) : WasPresent(m, s)})]
  BY <1>5
<1> QED
  BY <1>6, <1>7 DEF counted, present, C

(* A total is what is past and what the calls give. *)
LEMMA TotalsSplit ==
    ASSUME NEW m \in Members
    PROVE  /\ LessonsIn(Mine(m)) = SumFunction([c \in Mine(m) |-> Held[c]])
                                   + SumFunction([c \in Mine(m) |-> Cardinality(Counted(c))])
           /\ PresencesIn(m, Mine(m))
                = SumFunction([c \in Mine(m) |-> Attended[m][c]])
                  + SumFunction([c \in Mine(m) |->
                      Cardinality({s \in Counted(c) : WasPresent(m, s)})])
<1> DEFINE C == Mine(m)
           f1 == [c \in C |-> Held[c]]
           g1 == [c \in C |-> Cardinality(Counted(c))]
           h1 == [c \in C |-> Lessons(c)]
           f2 == [c \in C |-> Attended[m][c]]
           g2 == [c \in C |-> Cardinality({s \in Counted(c) : WasPresent(m, s)})]
           h2 == [c \in C |-> Presences(m, c)]
<1>1. C \subseteq Classes /\ IsFiniteSet(C)
  BY MineIs
<1>2. ASSUME NEW c \in Classes
      PROVE  /\ Held[c] \in Nat /\ Attended[m][c] \in Nat
             /\ Cardinality(Counted(c)) \in Nat
             /\ Cardinality({s \in Counted(c) : WasPresent(m, s)}) \in Nat
  <2>1. Counted(c) \in SUBSET SessionIds
        /\ {s \in Counted(c) : WasPresent(m, s)} \in SUBSET SessionIds
    BY DEF Counted, SessionsIn
  <2> QED
    BY <2>1, FS_Subset, FS_CardinalityType, FiguresAssumption
<1>3. \A c \in Classes :
        /\ Lessons(c) = Held[c] + Cardinality(Counted(c))
        /\ Presences(m, c)
             = Attended[m][c] + Cardinality({s \in Counted(c) : WasPresent(m, s)})
  BY DEF Lessons, Presences
<1>4. \A c \in Classes : Lessons(c) \in Nat /\ Presences(m, c) \in Nat
  BY CountsAreNumbers
<1> HIDE DEF C
<1>5. /\ f1 \in [C -> Nat] /\ g1 \in [C -> Nat] /\ h1 \in [C -> Nat]
      /\ f2 \in [C -> Nat] /\ g2 \in [C -> Nat] /\ h2 \in [C -> Nat]
  BY <1>1, <1>2, <1>4
<1>6. \A c \in C : h1[c] = f1[c] + g1[c] /\ h2[c] = f2[c] + g2[c]
  BY <1>1, <1>3
<1> HIDE DEF f1, g1, h1, f2, g2, h2
<1>7. /\ SumFunction(h1) = SumFunction(f1) + SumFunction(g1)
      /\ SumFunction(h2) = SumFunction(f2) + SumFunction(g2)
  BY <1>1, <1>5, <1>6, SumPlus
<1> QED
  BY <1>7 DEF f1, g1, h1, f2, g2, h2, C, LessonsIn, PresencesIn

LEMMA StudentsAddUp == StudentAddsUp
<1> SUFFICES ASSUME NEW m \in Students
             PROVE  LET item == StudentItem(m, None, None, 10000)
                        past(f) == SumFunction([own \in OwnClasses(m) |-> f[own.class]])
                        counted == {s \in History(m) : session[s].status # "cancelled"}
                    IN /\ item.turmas = OwnMetrics(m).classes
                       /\ item.sessions = past(Held) + Cardinality(counted)
                       /\ item.present = past(Attended[m])
                                         + Cardinality({s \in counted : WasPresent(m, s)})
                       /\ item.present <= item.sessions
  BY DEF StudentAddsUp
<1> DEFINE item == StudentItem(m, None, None, 10000)
           counted == {s \in History(m) : session[s].status # "cancelled"}
<1>1. m \in Members
  BY DEF Students
<1>2. /\ item.turmas = Cardinality(Mine(m)) /\ item.sessions = LessonsIn(Mine(m))
      /\ item.present = PresencesIn(m, Mine(m))
  BY ItemIs DEF Mine
<1>3. OwnMetrics(m).classes = Cardinality(Mine(m))
  BY <1>1, OwnRowsAreMine DEF OwnMetrics
<1>4. Held \in [Classes -> Nat] /\ Attended[m] \in [Classes -> Nat]
  BY <1>1, FiguresAssumption
<1>5. /\ SumFunction([own \in OwnClasses(m) |-> Held[own.class]])
           = SumFunction([c \in Mine(m) |-> Held[c]])
      /\ SumFunction([own \in OwnClasses(m) |-> Attended[m][own.class]])
           = SumFunction([c \in Mine(m) |-> Attended[m][c]])
  BY <1>1, <1>4, PastIsMine
<1>6. /\ Cardinality(counted) = SumFunction([c \in Mine(m) |-> Cardinality(Counted(c))])
      /\ Cardinality({s \in counted : WasPresent(m, s)})
           = SumFunction([c \in Mine(m) |->
               Cardinality({s \in Counted(c) : WasPresent(m, s)})])
  BY <1>1, HistoryByClass
<1>7. PresencesIn(m, Mine(m)) <= LessonsIn(Mine(m))
  BY <1>1, MineIs, TotalsAreNumbers
<1> HIDE DEF item, counted
<1>8. /\ item.sessions = SumFunction([own \in OwnClasses(m) |-> Held[own.class]])
                         + Cardinality(counted)
      /\ item.present = SumFunction([own \in OwnClasses(m) |-> Attended[m][own.class]])
                        + Cardinality({s \in counted : WasPresent(m, s)})
  BY <1>1, <1>2, <1>5, <1>6, TotalsSplit
<1> QED
  BY <1>2, <1>3, <1>7, <1>8 DEF item, counted

-----------------------------------------------------------------------------
(* The cards add up *)

(* A professor's scope is the classes that professor teaches. *)
LEMMA ScopeIsTaught ==
    ASSUME IInv, NEW scope \in Scopes
    PROVE  /\ InScope(scope) = TaughtBy(scope)
           /\ DashboardClasses(scope, "all") = TaughtBy(scope)
<1>1. scope # None => member[scope] = "professor" /\ scope \in Members
  BY DEF Scopes, ScopeOf
<1>2. InScope(scope) = TaughtBy(scope)
  BY <1>1 DEF InScope, TaughtBy
<1> QED
  BY <1>2 DEF DashboardClasses

LEMMA SummaryIs ==
    ASSUME NEW c
    PROVE  /\ WindowSummary(c).class = c
           /\ WindowSummary(c).active = (class[c] = "active")
           /\ WindowSummary(c).students = Cardinality(EnrolledIn(c))
           /\ WindowSummary(c).sessions = Cardinality(Since({c}, MonthStart))
           /\ WindowSummary(c).present = PresentIn(Since({c}, MonthStart))
           /\ WindowSummary(c).live = (LatestLive(c) # {})
BY DEF WindowSummary

LEMMA SummariesOf ==
    ASSUME NEW scope
    PROVE  LET class_of == [sum \in ClassSummaries(scope) |-> sum.class]
           IN  /\ class_of \in [ClassSummaries(scope) -> TaughtBy(scope)]
               /\ \A x, y \in ClassSummaries(scope) : class_of[x] = class_of[y] => x = y
               /\ \A c \in TaughtBy(scope) : \E x \in ClassSummaries(scope) : class_of[x] = c
               /\ IsFiniteSet(ClassSummaries(scope))
               /\ \A sum \in ClassSummaries(scope) :
                    sum.class \in TaughtBy(scope) /\ sum = WindowSummary(sum.class)
<1> DEFINE rows == ClassSummaries(scope)
           f == [sum \in rows |-> sum.class]
<1> \A c : WindowSummary(c).class = c
  BY SummaryIs
<1>1. \A sum \in rows : sum.class \in TaughtBy(scope) /\ sum = WindowSummary(sum.class)
  BY DEF ClassSummaries
<1>2. \A c \in TaughtBy(scope) : WindowSummary(c) \in rows /\ WindowSummary(c).class = c
  BY DEF ClassSummaries
<1> HIDE DEF rows
<1>3. f \in [rows -> TaughtBy(scope)] /\ \A x, y \in rows : f[x] = f[y] => x = y
  BY <1>1
<1>4. \A c \in TaughtBy(scope) : \E x \in rows : f[x] = c
  BY <1>2
<1> HIDE DEF f
<1>5. IsFiniteSet(rows)
  BY <1>3, <1>4, ClassListsFinite, SameNumber
<1> QED
  BY <1>1, <1>3, <1>4, <1>5 DEF rows, f

(* A sum over the summaries is a sum over the classes taught. *)
LEMMA SummariesSum ==
    ASSUME NEW scope, NEW g \in [TaughtBy(scope) -> Nat]
    PROVE  SumFunction([sum \in ClassSummaries(scope) |-> g[sum.class]]) = SumFunction(g)
<1> DEFINE S == ClassSummaries(scope)
           C == TaughtBy(scope)
           k == [sum \in S |-> sum.class]
           f == [sum \in S |-> g[sum.class]]
<1>1. /\ k \in [S -> C] /\ \A x, y \in S : k[x] = k[y] => x = y
      /\ \A c \in C : \E x \in S : k[x] = c
      /\ IsFiniteSet(S) /\ \A x \in S : x.class \in C
  BY SummariesOf
<1>2. IsFiniteSet(C)
  BY ClassListsFinite
<1> HIDE DEF S
<1>3. f \in [S -> Nat] /\ \A x \in S : f[x] = g[k[x]]
  BY <1>1
<1> HIDE DEF k, f, C
<1>4. g \in [C -> Nat]
  BY DEF C
<1>5. SumFunction(f) = SumFunction(g)
  BY <1>1, <1>2, <1>3, <1>4, SumReindex
<1> QED
  BY <1>5 DEF f, S

StudentsOf(scope) == SumFunction([c \in TaughtBy(scope) |-> Cardinality(EnrolledIn(c))])

LEMMA CardCountsStudents ==
    ASSUME NEW scope
    PROVE  ClassMetrics(scope).students = StudentsOf(scope)
<1> DEFINE g == [c \in TaughtBy(scope) |-> Cardinality(EnrolledIn(c))]
<1>1. g \in [TaughtBy(scope) -> Nat]
  BY EnrolledFinite
<1>2. ClassMetrics(scope).students
        = SumFunction([sum \in ClassSummaries(scope) |-> sum.students])
  BY DEF ClassMetrics
<1>3. [sum \in ClassSummaries(scope) |-> sum.students]
        = [sum \in ClassSummaries(scope) |-> g[sum.class]]
  <2>1. \A sum \in ClassSummaries(scope) : sum.students = g[sum.class]
    BY SummariesOf, SummaryIs
  <2> HIDE DEF g
  <2> QED
    BY <2>1
<1>4. SumFunction([sum \in ClassSummaries(scope) |-> g[sum.class]]) = SumFunction(g)
  <2> HIDE DEF g
  <2> QED
    BY <1>1, SummariesSum
<1> QED
  BY <1>2, <1>3, <1>4 DEF StudentsOf

(* Enrollments of students are enrollments. *)
LEMMA EnrollmentsAreStudents ==
    ASSUME IInv, NEW scope \in Scopes
    PROVE  StudentsMetrics(scope).enrollments <= StudentsOf(scope)
<1> DEFINE C == TaughtBy(scope)
           P == {e \in Students \X C : IsEnrolled(e[1], e[2])}
           Q == {e \in Members \X C : IsEnrolled(e[1], e[2])}
<1>1. /\ IsFiniteSet(C) /\ IsFiniteSet(Students) /\ IsFiniteSet(Members)
      /\ Students \subseteq Members
  BY ClassListsFinite, FiguresAssumption
<1>2. StudentsMetrics(scope).enrollments
        = SumFunction([m \in Students |-> Cardinality(ClassesOf(m, scope, None))])
  BY DEF StudentsMetrics
<1>3. \A m \in Students : ClassesOf(m, scope, None) = {c \in C : <<m, c>> \in P}
  BY ScopeIsTaught DEF ClassesOf
<1>4. \A c \in C : EnrolledIn(c) = {m \in Members : <<m, c>> \in Q}
  BY DEF EnrolledIn
<1>5. P \in SUBSET (Students \X C) /\ Q \in SUBSET (Members \X C) /\ P \in SUBSET Q
  BY <1>1
<1>6. IsFiniteSet(Q)
  BY <1>1, <1>5, FS_Product, FS_Subset
<1> HIDE DEF C, P, Q
<1>7. Cardinality(P) <= Cardinality(Q)
  BY <1>5, <1>6, FS_Subset
<1>8. Cardinality(P) = SumFunction(ByLeft(P, Students, C))
  BY <1>1, <1>5, CountPairs
<1>9. Cardinality(Q) = SumFunction(ByRight(Q, Members, C))
  BY <1>1, <1>5, CountPairs
<1>10. ByLeft(P, Students, C) = [m \in Students |-> Cardinality(ClassesOf(m, scope, None))]
  BY <1>3 DEF ByLeft
<1>11. ByRight(Q, Members, C) = [c \in C |-> Cardinality(EnrolledIn(c))]
  BY <1>4 DEF ByRight
<1>12. StudentsOf(scope) = SumFunction([c \in C |-> Cardinality(EnrolledIn(c))])
  BY DEF StudentsOf, C
<1> QED
  BY <1>2, <1>7, <1>8, <1>9, <1>10, <1>11, <1>12

LEMMA UniqueStudentsBound ==
    ASSUME NEW scope
    PROVE  UniqueStudents(TaughtBy(scope)) <= StudentsOf(scope)
<1> DEFINE C == TaughtBy(scope)
           S == UNION {EnrolledIn(c) : c \in C}
           part == [c \in C |-> EnrolledIn(c)]
<1>1. IsFiniteSet(C)
  BY ClassListsFinite
<1>2. IsFiniteSet(S)
  <2>1. S \in SUBSET Members
    BY EnrolledFinite
  <2> QED
    BY <2>1, FS_Subset, FiguresAssumption
<1>3. part \in [C -> SUBSET S] /\ \A x \in S : \E c \in C : x \in part[c]
  OBVIOUS
<1>4. [c \in C |-> Cardinality(part[c])] = [c \in C |-> Cardinality(EnrolledIn(c))]
  OBVIOUS
<1>5. UniqueStudents(C) = Cardinality(S)
  BY DEF UniqueStudents
<1>6. StudentsOf(scope) = SumFunction([c \in C |-> Cardinality(EnrolledIn(c))])
  BY DEF StudentsOf
<1> HIDE DEF C, S, part
<1>7. Cardinality(S) <= SumFunction([c \in C |-> Cardinality(part[c])])
  BY <1>1, <1>2, <1>3, UnionBound
<1> QED
  BY <1>4, <1>5, <1>6, <1>7 DEF C

LEMMA ActiveClassesBound ==
    ASSUME NEW scope
    PROVE  /\ ClassMetrics(scope).atRisk <= ClassMetrics(scope).active
           /\ ClassMetrics(scope).active <= ClassMetrics(scope).classes
<1> DEFINE all == ClassSummaries(scope)
           active == {sum \in all : sum.active}
           risky == {sum \in active : sum.students * sum.sessions = 0
                       \/ RoundedBelow75(sum.present, sum.students * sum.sessions, 10000)}
<1>1. /\ ClassMetrics(scope).classes = Cardinality(all)
      /\ ClassMetrics(scope).active = Cardinality(active)
      /\ ClassMetrics(scope).atRisk = Cardinality(risky)
  BY DEF ClassMetrics
<1>2. IsFiniteSet(all)
  BY SummariesOf
<1>3. active \in SUBSET all /\ risky \in SUBSET active
  OBVIOUS
<1> HIDE DEF all, active, risky
<1> QED
  BY <1>1, <1>2, <1>3, FS_Subset

LEMMA NoClassIsTheRest ==
    StudentsMetrics(None).noClass = StudentTotal(None, None, "sem_turma")
<1> DEFINE attending == {m \in Students : ClassesOf(m, None, None) # {}}
           rest == {m \in Students : ClassesOf(m, None, None) = {}}
           total == Cardinality(Students)
<1>1. StudentsMetrics(None).noClass
        = IF total > Cardinality(attending) THEN total - Cardinality(attending) ELSE 0
  BY DEF StudentsMetrics
<1>2. StudentTotal(None, None, "sem_turma") = Cardinality(rest)
  BY DEF StudentTotal
<1>3. rest = Students \ attending /\ Students \cap attending = attending
      /\ attending \in SUBSET Students /\ rest \in SUBSET Students
  OBVIOUS
<1> HIDE DEF attending, rest
<1>4. IsFiniteSet(Students) /\ IsFiniteSet(attending) /\ IsFiniteSet(rest)
  BY <1>3, ClassListsFinite, FS_Subset
<1>5. Cardinality(rest) = total - Cardinality(attending)
  BY <1>3, <1>4, FS_Difference
<1>6. total \in Nat /\ Cardinality(attending) \in Nat /\ Cardinality(rest) \in Nat
  BY <1>4, FS_CardinalityType
<1> HIDE DEF total
<1> QED
  BY <1>1, <1>2, <1>5, <1>6

LEMMA CallsCardBound ==
    ASSUME NEW scope
    PROVE  Cardinality(SessionMetrics(scope).averaged) + SessionMetrics(scope).cancelled
             <= SessionMetrics(scope).total
<1> DEFINE within == {s \in SessionList(scope) : session[s].day >= MonthStart}
           cancelled == {s \in within : session[s].status = "cancelled"}
           averaged == {s \in within : session[s].status # "cancelled"
                                       /\ SessionStats(s).students > 0}
<1>1. /\ SessionMetrics(scope).total = Cardinality(within)
      /\ SessionMetrics(scope).cancelled = Cardinality(cancelled)
      /\ SessionMetrics(scope).averaged = averaged
  BY DEF SessionMetrics
<1>2. IsFiniteSet(within)
  <2>1. within \in SUBSET SessionIds
    BY DEF SessionList, SessionsIn
  <2> QED
    BY <2>1, FS_Subset, FiguresAssumption
<1>3. averaged \in SUBSET within /\ cancelled \in SUBSET within /\ averaged \cap cancelled = {}
  OBVIOUS
<1> HIDE DEF within, cancelled, averaged
<1> QED
  BY <1>1, <1>2, <1>3, DisjointParts

LEMMA RecordsOfACall ==
    ASSUME NEW s \in SessionIds
    PROVE  /\ SessionStats(s).students = Cardinality(DOMAIN Roster(s))
           /\ Cardinality(PresentAt(s)) + SessionStats(s).irregular <= SessionStats(s).confirmed
<1> DEFINE confirmed == {m \in Members : record[s][m] # "none"}
           irregular == {m \in Members : record[s][m] = "irregular"}
<1>1. /\ SessionStats(s).confirmed = Cardinality(confirmed)
      /\ SessionStats(s).irregular = Cardinality(irregular)
      /\ SessionStats(s).students = Cardinality(EnrolledIn(session[s].class))
  BY DEF SessionStats
<1>2. DOMAIN Roster(s) = EnrolledIn(session[s].class)
  BY DEF Roster
<1>3. PresentAt(s) \in SUBSET confirmed /\ irregular \in SUBSET confirmed
      /\ PresentAt(s) \cap irregular = {}
  BY DEF PresentAt, EnrolledIn, WasPresent, Valid
<1>4. IsFiniteSet(confirmed)
  <2>1. confirmed \in SUBSET Members
    OBVIOUS
  <2> QED
    BY <2>1, FS_Subset, FiguresAssumption
<1> HIDE DEF confirmed, irregular
<1> QED
  BY <1>1, <1>2, <1>3, <1>4, DisjointParts

LEMMA AllCardsAddUp == ASSUME IInv PROVE CardsAddUp
<1> SUFFICES ASSUME NEW scope \in Scopes
             PROVE  LET cards == StudentsMetrics(scope)
                        classes == ClassMetrics(scope)
                        calls == SessionMetrics(scope)
                    IN /\ \A status \in {"regular", "sem_turma"} :
                            StudentTotal(scope, None, status)
                              = Cardinality(StudentList(scope, None, status))
                       /\ scope = None => cards.noClass = StudentTotal(None, None, "sem_turma")
                       /\ cards.enrollments <= classes.students
                       /\ UniqueStudents(DashboardClasses(scope, "all")) <= classes.students
                       /\ classes.atRisk <= classes.active /\ classes.active <= classes.classes
                       /\ Cardinality(calls.averaged) + calls.cancelled <= calls.total
                       /\ \A s \in SessionList(scope) :
                            /\ SessionStats(s).students = Cardinality(DOMAIN Roster(s))
                            /\ Cardinality(PresentAt(s)) + SessionStats(s).irregular
                                 <= SessionStats(s).confirmed
  BY DEF CardsAddUp
<1>1. \A status : StudentTotal(scope, None, status) = Cardinality(StudentList(scope, None, status))
  BY TotalCountsTheList
<1>2. scope = None => StudentsMetrics(scope).noClass = StudentTotal(None, None, "sem_turma")
  BY NoClassIsTheRest
<1>3. StudentsMetrics(scope).enrollments <= ClassMetrics(scope).students
  BY EnrollmentsAreStudents, CardCountsStudents
<1>4. UniqueStudents(DashboardClasses(scope, "all")) <= ClassMetrics(scope).students
  BY UniqueStudentsBound, CardCountsStudents, ScopeIsTaught
<1>5. SessionList(scope) \subseteq SessionIds
  BY DEF SessionList, SessionsIn
<1> QED
  BY <1>1, <1>2, <1>3, <1>4, <1>5, ActiveClassesBound, CallsCardBound, RecordsOfACall

-----------------------------------------------------------------------------
(* The month and the week add up *)

ExpectedIn(calls) == SumFunction([s \in calls |-> Cardinality(EnrolledIn(session[s].class))])

LEMMA SinceIs ==
    ASSUME NEW classes, NEW day, NEW s
    PROVE  s \in Since(classes, day)
             <=> /\ s \in SessionIds /\ session[s].class \in classes
                 /\ session[s].status # "cancelled" /\ session[s].day >= day
BY DEF Since, Counted, SessionsIn

LEMMA CallsFinite ==
    ASSUME NEW calls \in SUBSET SessionIds
    PROVE  IsFiniteSet(calls)
BY FS_Subset, FiguresAssumption

LEMMA PresentAtFinite ==
    ASSUME NEW s
    PROVE  /\ Cardinality(PresentAt(s)) \in Nat
           /\ Cardinality(PresentAt(s)) <= Cardinality(EnrolledIn(session[s].class))
<1>1. PresentAt(s) \in SUBSET EnrolledIn(session[s].class)
  BY DEF PresentAt
<1> QED
  BY <1>1, EnrolledFinite, FS_Subset, FS_CardinalityType

LEMMA RatesAreRates ==
    ASSUME NEW calls \in SUBSET SessionIds
    PROVE  /\ PresentIn(calls) \in Nat /\ ExpectedIn(calls) \in Nat
           /\ PresentIn(calls) <= ExpectedIn(calls)
<1> DEFINE f == [s \in calls |-> Cardinality(PresentAt(s))]
           g == [s \in calls |-> Cardinality(EnrolledIn(session[s].class))]
<1>1. f \in [calls -> Nat] /\ g \in [calls -> Nat] /\ \A s \in calls : f[s] <= g[s]
  BY PresentAtFinite, EnrolledFinite
<1>2. PresentIn(calls) = SumFunction(f) /\ ExpectedIn(calls) = SumFunction(g)
  BY DEF PresentIn, ExpectedIn
<1> HIDE DEF f, g
<1> QED
  BY <1>1, <1>2, CallsFinite, SumNat, SumLeq

(* Calls may be counted group by group. *)
LEMMA RatesByGroup ==
    ASSUME NEW calls \in SUBSET SessionIds, NEW C, IsFiniteSet(C), NEW k \in [calls -> C]
    PROVE  /\ PresentIn(calls) = SumFunction([c \in C |-> PresentIn(Fibre(k, calls, c))])
           /\ ExpectedIn(calls) = SumFunction([c \in C |-> ExpectedIn(Fibre(k, calls, c))])
<1> DEFINE f == [s \in calls |-> Cardinality(PresentAt(s))]
           g == [s \in calls |-> Cardinality(EnrolledIn(session[s].class))]
<1>1. f \in [calls -> Nat] /\ g \in [calls -> Nat]
  BY PresentAtFinite, EnrolledFinite
<1>2. PresentIn(calls) = SumFunction(f) /\ ExpectedIn(calls) = SumFunction(g)
  BY DEF PresentIn, ExpectedIn
<1>3. ASSUME NEW c \in C
      PROVE  /\ SumOver(f, Fibre(k, calls, c)) = PresentIn(Fibre(k, calls, c))
             /\ SumOver(g, Fibre(k, calls, c)) = ExpectedIn(Fibre(k, calls, c))
  <2> DEFINE part == Fibre(k, calls, c)
  <2>1. part \subseteq calls
    BY DEF Fibre
  <2> HIDE DEF part
  <2>2. Restrict(f, part) = [s \in part |-> Cardinality(PresentAt(s))]
    BY <2>1 DEF Restrict
  <2>3. Restrict(g, part) = [s \in part |-> Cardinality(EnrolledIn(session[s].class))]
    BY <2>1 DEF Restrict
  <2> HIDE DEF f, g
  <2>4. SumOver(f, part) = PresentIn(part) /\ SumOver(g, part) = ExpectedIn(part)
    BY <2>2, <2>3 DEF SumOver, PresentIn, ExpectedIn
  <2> QED
    BY <2>4 DEF part
<1> HIDE DEF f, g
<1>4. /\ SumFunction(f) = SumFunction([c \in C |-> SumOver(f, Fibre(k, calls, c))])
      /\ SumFunction(g) = SumFunction([c \in C |-> SumOver(g, Fibre(k, calls, c))])
  BY <1>1, CallsFinite, SumFibres
<1>5. /\ [c \in C |-> SumOver(f, Fibre(k, calls, c))]
           = [c \in C |-> PresentIn(Fibre(k, calls, c))]
      /\ [c \in C |-> SumOver(g, Fibre(k, calls, c))]
           = [c \in C |-> ExpectedIn(Fibre(k, calls, c))]
  BY <1>3
<1> QED
  BY <1>2, <1>4, <1>5

ExpectedOf(c, day) == Cardinality(EnrolledIn(c)) * Cardinality(Since({c}, day))

LEMMA SinceByClass ==
    ASSUME NEW classes \in SUBSET Classes, NEW day
    PROVE  /\ PresentIn(Since(classes, day))
                = SumFunction([c \in classes |-> PresentIn(Since({c}, day))])
           /\ ExpectedIn(Since(classes, day))
                = SumFunction([c \in classes |-> ExpectedOf(c, day)])
           /\ \A c \in classes : /\ PresentIn(Since({c}, day)) \in Nat
                                 /\ ExpectedOf(c, day) \in Nat
<1> DEFINE calls == Since(classes, day)
           k == [s \in calls |-> session[s].class]
<1>1. calls \in SUBSET SessionIds /\ k \in [calls -> classes]
  BY SinceIs
<1>2. \A c \in classes : Fibre(k, calls, c) = Since({c}, day)
  BY SinceIs DEF Fibre
<1>3. IsFiniteSet(classes)
  BY FS_Subset, FiguresAssumption
<1> HIDE DEF calls, k
<1>4. /\ PresentIn(calls) = SumFunction([c \in classes |-> PresentIn(Fibre(k, calls, c))])
      /\ ExpectedIn(calls) = SumFunction([c \in classes |-> ExpectedIn(Fibre(k, calls, c))])
  BY <1>1, <1>3, RatesByGroup
<1>5. ASSUME NEW c \in classes
      PROVE  /\ Since({c}, day) \in SUBSET SessionIds
             /\ ExpectedIn(Since({c}, day)) = ExpectedOf(c, day)
             /\ ExpectedOf(c, day) \in Nat
  <2> DEFINE of_c == Since({c}, day)
             n == Cardinality(EnrolledIn(c))
             g == [s \in of_c |-> Cardinality(EnrolledIn(session[s].class))]
  <2>1. of_c \in SUBSET SessionIds /\ \A s \in of_c : session[s].class = c
    BY SinceIs
  <2>2. n \in Nat
    BY EnrolledFinite
  <2>3. g \in [of_c -> Nat] /\ \A s \in of_c : g[s] = n
    BY <2>1, <2>2
  <2>4. ExpectedIn(of_c) = SumFunction(g)
    BY DEF ExpectedIn
  <2>5. ExpectedOf(c, day) = n * Cardinality(of_c)
    BY DEF ExpectedOf
  <2>6. IsFiniteSet(of_c) /\ Cardinality(of_c) \in Nat
    BY <2>1, CallsFinite, FS_CardinalityType
  <2> HIDE DEF g, n, of_c
  <2>7. SumFunction(g) = n * Cardinality(of_c)
    BY <2>2, <2>3, <2>6, SumConst
  <2>8. n * Cardinality(of_c) \in Nat
    BY <2>2, <2>6
  <2> QED
    BY <2>1, <2>4, <2>5, <2>7, <2>8 DEF of_c
<1>6. /\ [c \in classes |-> PresentIn(Fibre(k, calls, c))]
           = [c \in classes |-> PresentIn(Since({c}, day))]
      /\ [c \in classes |-> ExpectedIn(Fibre(k, calls, c))]
           = [c \in classes |-> ExpectedOf(c, day)]
  BY <1>2, <1>5
<1>7. \A c \in classes : PresentIn(Since({c}, day)) \in Nat
  BY <1>5, RatesAreRates
<1> QED
  BY <1>4, <1>5, <1>6, <1>7 DEF calls

LEMMA MonthIs ==
    ASSUME NEW classes \in SUBSET Classes
    PROVE  /\ MonthRate(classes).present = PresentIn(Since(classes, MonthStart))
           /\ MonthRate(classes).expected = ExpectedIn(Since(classes, MonthStart))
<1>1. MonthRate(classes).expected = SumFunction([c \in classes |-> ExpectedOf(c, MonthStart)])
  BY DEF MonthRate, ExpectedOf
<1>2. MonthRate(classes).present = PresentIn(Since(classes, MonthStart))
  BY DEF MonthRate
<1> QED
  BY <1>1, <1>2, SinceByClass

(* The class cards add up to the month. *)
LEMMA MonthIsTheCards ==
    ASSUME NEW scope
    PROVE  /\ ExpectedIn(Since(TaughtBy(scope), MonthStart))
                = SumFunction([sum \in ClassSummaries(scope) |-> sum.students * sum.sessions])
           /\ PresentIn(Since(TaughtBy(scope), MonthStart))
                = SumFunction([sum \in ClassSummaries(scope) |-> sum.present])
<1> DEFINE C == TaughtBy(scope)
           f == [c \in C |-> ExpectedOf(c, MonthStart)]
           g == [c \in C |-> PresentIn(Since({c}, MonthStart))]
<1>1. C \in SUBSET Classes
  BY ClassListsFinite
<1>2. \A sum \in ClassSummaries(scope) :
        /\ sum.class \in C
        /\ sum.students * sum.sessions = ExpectedOf(sum.class, MonthStart)
        /\ sum.present = PresentIn(Since({sum.class}, MonthStart))
  BY SummariesOf, SummaryIs DEF ExpectedOf
<1>3. \A c \in C : PresentIn(Since({c}, MonthStart)) \in Nat /\ ExpectedOf(c, MonthStart) \in Nat
  BY <1>1, SinceByClass
<1>4. f \in [C -> Nat] /\ g \in [C -> Nat]
  BY <1>3
<1>5. /\ [sum \in ClassSummaries(scope) |-> sum.students * sum.sessions]
           = [sum \in ClassSummaries(scope) |-> f[sum.class]]
      /\ [sum \in ClassSummaries(scope) |-> sum.present]
           = [sum \in ClassSummaries(scope) |-> g[sum.class]]
  BY <1>2
<1>6. /\ ExpectedIn(Since(C, MonthStart)) = SumFunction(f)
      /\ PresentIn(Since(C, MonthStart)) = SumFunction(g)
  BY <1>1, SinceByClass
<1> HIDE DEF f, g
<1>7. /\ SumFunction([sum \in ClassSummaries(scope) |-> f[sum.class]]) = SumFunction(f)
      /\ SumFunction([sum \in ClassSummaries(scope) |-> g[sum.class]]) = SumFunction(g)
  BY <1>4, SummariesSum
<1> QED
  BY <1>5, <1>6, <1>7

WeekDays == WeekStart..(WeekStart + WeekLength - 1)

LEMMA TodayIsThisWeek ==
    ASSUME TypeOK
    PROVE  /\ WeekStart \in Nat /\ now \in WeekDays /\ now \in Nat /\ IsFiniteSet(WeekDays)
           /\ \A d \in Nat : WeekStart <= d /\ d <= now => d \in WeekDays
<1>1. now \in Nat /\ WeekLength \in Nat /\ WeekLength > 0
  BY FiguresAssumption DEF TypeOK
<1>2. now % WeekLength \in 0..(WeekLength - 1) /\ now % WeekLength <= now
  BY <1>1
<1>3. WeekStart \in Nat /\ WeekStart <= now /\ now <= WeekStart + WeekLength - 1
  BY <1>1, <1>2 DEF WeekStart
<1>4. now \in WeekDays /\ \A d \in Nat : WeekStart <= d /\ d <= now => d \in WeekDays
  BY <1>1, <1>3 DEF WeekDays
<1>5. IsFiniteSet(WeekDays)
  BY <1>1, <1>3, FS_Interval DEF WeekDays
<1> QED
  BY <1>1, <1>3, <1>4, <1>5

CallsOn(classes, d) == {s \in Since(classes, WeekStart) : session[s].day = d}

LEMMA WeekIs ==
    ASSUME NEW classes
    PROVE  /\ DOMAIN WeekFrequency(classes) = WeekDays
           /\ \A d \in WeekDays :
                /\ WeekFrequency(classes)[d].present = PresentIn(CallsOn(classes, d))
                /\ WeekFrequency(classes)[d].expected = ExpectedIn(CallsOn(classes, d))
<1>1. \A calls : /\ DayFrequency(calls).present = PresentIn(calls)
                 /\ DayFrequency(calls).expected = ExpectedIn(calls)
  BY DEF DayFrequency, ExpectedIn
<1>2. WeekFrequency(classes) = [d \in WeekDays |-> DayFrequency(CallsOn(classes, d))]
  BY DEF WeekFrequency, WeekDays, CallsOn
<1> QED
  BY <1>1, <1>2

LEMMA WeekByDay ==
    ASSUME IInv, NEW classes
    PROVE  LET week == WeekFrequency(classes)
               calls == Since(classes, WeekStart)
           IN  /\ PresentIn(calls) = SumFunction([d \in DOMAIN week |-> week[d].present])
               /\ ExpectedIn(calls) = SumFunction([d \in DOMAIN week |-> week[d].expected])
<1> DEFINE week == WeekFrequency(classes)
           calls == Since(classes, WeekStart)
           k == [s \in calls |-> session[s].day]
<1>1. calls \in SUBSET SessionIds
  BY SinceIs
<1>2. k \in [calls -> WeekDays]
  <2>1. \A s \in calls : session[s].day \in Nat /\ WeekStart <= session[s].day
                         /\ session[s].day <= now
    <3>1. \A s \in SessionIds : session[s].day \in Nat /\ session[s].day <= now
      BY Days DEF IInv, CallsHaveBegun
    <3>2. WeekStart \in Nat
      BY TodayIsThisWeek DEF IInv
    <3> QED
      BY <3>1, <3>2, SinceIs
  <2> QED
    BY <2>1, TodayIsThisWeek DEF IInv
<1>3. \A d \in WeekDays : Fibre(k, calls, d) = CallsOn(classes, d)
  BY DEF Fibre, CallsOn
<1>4. /\ DOMAIN week = WeekDays
      /\ \A d \in WeekDays : /\ week[d].present = PresentIn(CallsOn(classes, d))
                             /\ week[d].expected = ExpectedIn(CallsOn(classes, d))
  BY WeekIs
<1> HIDE DEF week, calls, k
<1>5. /\ PresentIn(calls) = SumFunction([d \in WeekDays |-> PresentIn(Fibre(k, calls, d))])
      /\ ExpectedIn(calls) = SumFunction([d \in WeekDays |-> ExpectedIn(Fibre(k, calls, d))])
  BY <1>1, <1>2, TodayIsThisWeek, RatesByGroup DEF IInv
<1>6. /\ [d \in WeekDays |-> PresentIn(Fibre(k, calls, d))] = [d \in DOMAIN week |-> week[d].present]
      /\ [d \in WeekDays |-> ExpectedIn(Fibre(k, calls, d))]
           = [d \in DOMAIN week |-> week[d].expected]
  BY <1>3, <1>4
<1> QED
  BY <1>5, <1>6 DEF week, calls

LEMMA WindowsAddUp == ASSUME IInv PROVE WindowAddsUp
<1> SUFFICES ASSUME NEW scope \in Scopes
             PROVE  LET classes == DashboardClasses(scope, "all")
                        month == MonthRate(classes)
                        week == WeekFrequency(classes)
                        cards == ClassSummaries(scope)
                    IN /\ month.present <= month.expected
                       /\ month.expected
                            = SumFunction([sum \in cards |-> sum.students * sum.sessions])
                       /\ month.present = SumFunction([sum \in cards |-> sum.present])
                       /\ \A d \in DOMAIN week : week[d].present <= week[d].expected
                       /\ WeekStart = MonthStart =>
                            /\ month.present
                                 = SumFunction([d \in DOMAIN week |-> week[d].present])
                            /\ month.expected
                                 = SumFunction([d \in DOMAIN week |-> week[d].expected])
  BY DEF WindowAddsUp
<1> DEFINE K == DashboardClasses(scope, "all")
<1>1. K = TaughtBy(scope) /\ K \in SUBSET Classes
  BY ScopeIsTaught, ClassListsFinite
<1> HIDE DEF K
<1>2. /\ MonthRate(K).present = PresentIn(Since(K, MonthStart))
      /\ MonthRate(K).expected = ExpectedIn(Since(K, MonthStart))
  BY <1>1, MonthIs
<1>3. Since(K, MonthStart) \in SUBSET SessionIds
  BY SinceIs
<1>4. MonthRate(K).present <= MonthRate(K).expected
  BY <1>2, <1>3, RatesAreRates
<1>5. /\ MonthRate(K).expected
           = SumFunction([sum \in ClassSummaries(scope) |-> sum.students * sum.sessions])
      /\ MonthRate(K).present = SumFunction([sum \in ClassSummaries(scope) |-> sum.present])
  BY <1>1, <1>2, MonthIsTheCards
<1>6. ASSUME NEW d \in DOMAIN WeekFrequency(K)
      PROVE  WeekFrequency(K)[d].present <= WeekFrequency(K)[d].expected
  <2>1. CallsOn(K, d) \in SUBSET SessionIds
    BY SinceIs DEF CallsOn
  <2> QED
    BY <2>1, WeekIs, RatesAreRates
<1>7. WeekStart = MonthStart =>
        /\ MonthRate(K).present
             = SumFunction([d \in DOMAIN WeekFrequency(K) |-> WeekFrequency(K)[d].present])
        /\ MonthRate(K).expected
             = SumFunction([d \in DOMAIN WeekFrequency(K) |-> WeekFrequency(K)[d].expected])
  BY <1>2, WeekByDay
<1> QED
  BY <1>4, <1>5, <1>6, <1>7 DEF K

(* Every total is the sum of its parts and every rate a rate: what a class,
   a student, the cards and the windows count agrees in every state, for any
   number of members, classes, calls and days, whatever the past
   (find_summary_by_id_and_tenant, find_students_with_metrics_paginated,
   get_students_metrics, list_summaries_by_tenant, _compute_30d_attendance_rate,
   _compute_week_frequency). *)
THEOREM EverythingAlwaysAddsUp == Spec => []EverythingAddsUp
<1>1. IInv => EverythingAddsUp
  BY ClassesAddUp, StudentsAddUp, AllCardsAddUp, WindowsAddUp DEF EverythingAddsUp
<1> QED
  BY <1>1, Invariance, PTL

-----------------------------------------------------------------------------
(* The list of the worst *)

LEMMA MultiplyThrough ==
    ASSUME NEW x \in Nat, NEW y \in Nat, NEW k \in Nat, k > 0
    PROVE  (x <= y <=> x * k <= y * k) /\ (x < y <=> x * k < y * k) /\ (x = y <=> x * k = y * k)
<1>1. x < y => x * k < y * k
  <2> SUFFICES ASSUME x < y PROVE x * k < y * k
    OBVIOUS
  <2>1. PICK d \in Nat : y = x + d /\ d > 0
    <3>1. y - x \in Nat /\ y = x + (y - x) /\ y - x > 0
      OBVIOUS
    <3> QED
      BY <3>1
  <2>2. y * k = x * k + d * k /\ d * k > 0 /\ x * k \in Nat /\ d * k \in Nat
    BY <2>1
  <2> QED
    BY <2>2
<1>2. y < x => y * k < x * k
  <2> SUFFICES ASSUME y < x PROVE y * k < x * k
    OBVIOUS
  <2>1. PICK d \in Nat : x = y + d /\ d > 0
    <3>1. x - y \in Nat /\ x = y + (x - y) /\ x - y > 0
      OBVIOUS
    <3> QED
      BY <3>1
  <2>2. x * k = y * k + d * k /\ d * k > 0 /\ y * k \in Nat /\ d * k \in Nat
    BY <2>1
  <2> QED
    BY <2>2
<1>3. x * k \in Nat /\ y * k \in Nat
  OBVIOUS
<1> QED
  BY <1>1, <1>2, <1>3

(* Rates are compared by products; the comparison is an order. *)
LEMMA RatesAreOrdered ==
    ASSUME NEW p1 \in Nat, NEW n1 \in Nat, n1 > 0, NEW p2 \in Nat, NEW n2 \in Nat, n2 > 0,
           NEW p3 \in Nat, NEW n3 \in Nat, n3 > 0,
           p1 * n2 <= p2 * n1, p2 * n3 <= p3 * n2
    PROVE  /\ p1 * n3 <= p3 * n1
           /\ p1 * n3 = p3 * n1 => p1 * n2 = p2 * n1 /\ p2 * n3 = p3 * n2
<1> DEFINE a == p1 * n2
           b == p2 * n1
           c == p2 * n3
           d == p3 * n2
           x == p1 * n3
           y == p3 * n1
<1>1. a \in Nat /\ b \in Nat /\ c \in Nat /\ d \in Nat /\ x \in Nat /\ y \in Nat
  OBVIOUS
<1>2. a * n3 = x * n2 /\ b * n3 = c * n1 /\ d * n1 = y * n2
  OBVIOUS
<1>3. a <= b /\ c <= d
  OBVIOUS
<1> HIDE DEF a, b, c, d, x, y
<1>4. a * n3 <= b * n3 /\ (a = b <=> a * n3 = b * n3)
  BY <1>1, <1>3, MultiplyThrough
<1>5. c * n1 <= d * n1 /\ (c = d <=> c * n1 = d * n1)
  BY <1>1, <1>3, MultiplyThrough
<1>6. (x <= y <=> x * n2 <= y * n2) /\ (x = y <=> x * n2 = y * n2)
  BY <1>1, MultiplyThrough
<1>7. /\ a * n3 \in Nat /\ b * n3 \in Nat /\ d * n1 \in Nat
  BY <1>1
<1>8. a * n3 <= d * n1 /\ (a * n3 = d * n1 => a * n3 = b * n3 /\ b * n3 = d * n1)
  BY <1>2, <1>4, <1>5, <1>7
<1>9. x <= y /\ (x = y => a = b /\ c = d)
  BY <1>2, <1>4, <1>5, <1>6, <1>8
<1> QED
  BY <1>9 DEF a, b, c, d, x, y

(* Enrollments of a class with lessons. *)
Rated == {e \in Members \X Classes : Lessons(e[2]) > 0}

LEMMA RatedFacts ==
    ASSUME NEW e \in Rated
    PROVE  /\ Presences(e[1], e[2]) \in Nat /\ Lessons(e[2]) \in Nat /\ Lessons(e[2]) > 0
           /\ Presences(e[1], e[2]) <= Lessons(e[2])
<1>1. e[1] \in Members /\ e[2] \in Classes /\ Lessons(e[2]) > 0
  BY DEF Rated
<1> QED
  BY <1>1, CountsAreNumbers

LEMMA WorseIsAnOrder ==
    ASSUME NEW e \in Rated, NEW f \in Rated, NEW g \in Rated
    PROVE  ~Worse(e, e) /\ (Worse(e, f) /\ Worse(f, g) => Worse(e, g))
<1> DEFINE p(x) == Presences(x[1], x[2])
           n(x) == Lessons(x[2])
<1>1. \A x \in Rated : p(x) \in Nat /\ n(x) \in Nat /\ n(x) > 0 /\ p(x) <= n(x)
  BY RatedFacts
<1>2. \A x, y : Worse(x, y) <=> \/ p(x) * n(y) < p(y) * n(x)
                                \/ p(x) * n(y) = p(y) * n(x) /\ n(x) - p(x) > n(y) - p(y)
  BY DEF Worse
<1> HIDE DEF p, n
<1>3. ~Worse(e, e)
  <2>1. p(e) * n(e) \in Nat /\ n(e) - p(e) \in Int
    BY <1>1
  <2> QED
    BY <1>2, <2>1
<1>4. ASSUME Worse(e, f), Worse(f, g) PROVE Worse(e, g)
  <2>1. /\ p(e) * n(f) \in Nat /\ p(f) * n(e) \in Nat /\ p(f) * n(g) \in Nat
        /\ p(g) * n(f) \in Nat /\ p(e) * n(g) \in Nat /\ p(g) * n(e) \in Nat
        /\ n(e) - p(e) \in Int /\ n(f) - p(f) \in Int /\ n(g) - p(g) \in Int
    BY <1>1
  <2>2. p(e) * n(f) <= p(f) * n(e) /\ p(f) * n(g) <= p(g) * n(f)
    BY <1>2, <1>4, <2>1
  <2>3. /\ p(e) * n(g) <= p(g) * n(e)
        /\ p(e) * n(g) = p(g) * n(e) =>
             p(e) * n(f) = p(f) * n(e) /\ p(f) * n(g) = p(g) * n(f)
    BY <1>1, <2>2, RatesAreOrdered
  <2>4. CASE p(e) * n(g) < p(g) * n(e)
    BY <1>2, <2>4
  <2>5. CASE p(e) * n(g) = p(g) * n(e)
    <3>1. n(e) - p(e) > n(f) - p(f) /\ n(f) - p(f) > n(g) - p(g)
      BY <1>2, <1>4, <2>1, <2>3, <2>5
    <3>2. n(e) - p(e) > n(g) - p(g)
      BY <2>1, <3>1
    <3> QED
      BY <1>2, <2>5, <3>2
  <2> QED
    BY <2>1, <2>3, <2>4, <2>5
<1> QED
  BY <1>3, <1>4

LEMMA SomeoneIsLast ==
    ASSUME NEW risky \in SUBSET Rated, IsFiniteSet(risky), risky # {}
    PROVE  \E e \in risky : \A f \in risky : ~Worse(e, f)
<1> DEFINE G == {T \in SUBSET risky : T = {} \/ \E e \in T : \A f \in T : ~Worse(e, f)}
<1>1. ASSUME NEW T \in SUBSET risky, NEW x \in T, T \ {x} \in G PROVE T \in G
  <2>1. CASE T \ {x} = {}
    <3>1. T = {x}
      BY <2>1
    <3>2. ~Worse(x, x)
      BY WorseIsAnOrder
    <3> QED
      BY <3>1, <3>2
  <2>2. CASE T \ {x} # {}
    <3>1. PICK e \in T \ {x} : \A f \in T \ {x} : ~Worse(e, f)
      BY <1>1, <2>2
    <3>2. CASE ~Worse(e, x)
      BY <3>1, <3>2
    <3>3. CASE Worse(e, x)
      <4>1. \A f \in T \ {x} : ~Worse(x, f)
        BY <3>1, <3>3, WorseIsAnOrder
      <4>2. ~Worse(x, x)
        BY WorseIsAnOrder
      <4> QED
        BY <4>1, <4>2
    <3> QED
      BY <3>2, <3>3
  <2> QED
    BY <2>1, <2>2
<1>2. {} \in G
  OBVIOUS
<1>3. risky \in G
  <2> HIDE DEF G
  <2> QED
    BY <1>1, <1>2, OneByOne
<1> QED
  BY <1>3

LEMMA OrderedIs ==
    ASSUME NEW T, NEW q
    PROVE  q \in Ordered(T) <=>
             /\ q \in [1..Cardinality(T) -> T]
             /\ \A i, j \in 1..Cardinality(T) : q[i] = q[j] => i = j
             /\ \A x \in T : \E i \in 1..Cardinality(T) : q[i] = x
             /\ \A i, j \in 1..Cardinality(T) : i < j => ~Worse(q[j], q[i])
BY DEF Ordered, Bijection, Injection, Surjection, IsInjective

(* ORDER BY always has a result. *)
LEMMA SomeOrder ==
    ASSUME NEW risky \in SUBSET Rated, IsFiniteSet(risky)
    PROVE  Ordered(risky) # {}
<1> DEFINE G == {T \in SUBSET risky : Ordered(T) # {}}
<1>1. ASSUME NEW T \in SUBSET risky, \A U \in SUBSET T : U # T => U \in G PROVE T \in G
  <2>1. CASE T = {}
    <3>1. Cardinality(T) = 0 /\ 1..0 = {}
      BY <2>1, FS_EmptySet
    <3>2. [i \in {} |-> i] \in Ordered(T)
      BY <2>1, <3>1, OrderedIs
    <3> QED
      BY <3>2
  <2>2. CASE T # {}
    <3>1. IsFiniteSet(T) /\ T \in SUBSET Rated
      BY FS_Subset
    <3>2. PICK e \in T : \A f \in T : ~Worse(e, f)
      BY <2>2, <3>1, SomeoneIsLast
    <3> DEFINE n == Cardinality(T)
               rest == T \ {e}
    <3>3. n \in Nat /\ n # 0 /\ Cardinality(rest) = n - 1
      BY <2>2, <3>1, <3>2, FS_CardinalityType, FS_EmptySet, FS_RemoveElement
    <3>4. PICK q : q \in Ordered(rest)
      BY <1>1, <3>2
    <3>5. /\ q \in [1..Cardinality(rest) -> rest]
          /\ \A i, j \in 1..Cardinality(rest) : q[i] = q[j] => i = j
          /\ \A x \in rest : \E i \in 1..Cardinality(rest) : q[i] = x
          /\ \A i, j \in 1..Cardinality(rest) : i < j => ~Worse(q[j], q[i])
      <4> HIDE DEF rest
      <4> QED
        BY <3>4, OrderedIs
    <3>6. /\ rest \subseteq T /\ e \notin rest /\ T = rest \cup {e} /\ n \in 1..n
          /\ \A i \in 1..n : i # n => i \in 1..Cardinality(rest)
          /\ \A i \in 1..Cardinality(rest) : i \in 1..n /\ i # n
      BY <3>2, <3>3
    <3> DEFINE r == [i \in 1..n |-> IF i = n THEN e ELSE q[i]]
    <3> HIDE DEF rest, n
    <3>7. \A i \in 1..n : IF i = n THEN r[i] = e ELSE r[i] = q[i] /\ q[i] \in rest
      BY <3>5, <3>6
    <3>8. r \in [1..n -> T]
      BY <3>2, <3>6, <3>7
    <3>9. ASSUME NEW i \in 1..n, NEW j \in 1..n, r[i] = r[j] PROVE i = j
      BY <3>5, <3>6, <3>7, <3>9
    <3>10. ASSUME NEW x \in T PROVE \E i \in 1..n : r[i] = x
      <4>1. CASE x = e
        BY <3>6, <3>7, <4>1
      <4>2. CASE x # e
        <5>1. PICK i \in 1..Cardinality(rest) : q[i] = x
          BY <3>5, <3>6, <4>2
        <5>2. i \in 1..n /\ r[i] = x
          BY <3>6, <3>7, <5>1
        <5> QED
          BY <5>2
      <4> QED
        BY <4>1, <4>2
    <3>11. ASSUME NEW i \in 1..n, NEW j \in 1..n, i < j PROVE ~Worse(r[j], r[i])
      <4>1. i # n
        BY <3>3, <3>11
      <4>2. r[i] \in T
        BY <3>8
      <4>3. CASE j = n
        BY <3>2, <3>7, <4>2, <4>3
      <4>4. CASE j # n
        BY <3>5, <3>6, <3>7, <3>11, <4>1, <4>4
      <4> QED
        BY <4>3, <4>4
    <3> HIDE DEF r
    <3>12. r \in Ordered(T)
      BY <3>8, <3>9, <3>10, <3>11, OrderedIs DEF n
    <3> QED
      BY <3>12
  <2> QED
    BY <2>1, <2>2
<1>2. risky \in G
  <2> HIDE DEF G
  <2> QED
    BY <1>1, SmallerFirst
<1> QED
  BY <1>2

LEMMA FirstOfTheOrder ==
    ASSUME NEW risky \in SUBSET Rated, IsFiniteSet(risky), NEW q \in Ordered(risky),
           NEW top, top = {q[i] : i \in {j \in DOMAIN q : j <= TopLimit}}
    PROVE  /\ top \subseteq risky /\ (Cardinality(top) < TopLimit => top = risky)
           /\ \A e \in top, f \in risky \ top : ~Worse(f, e)
<1> DEFINE n == Cardinality(risky)
<1>1. n \in Nat /\ TopLimit \in Nat
  BY FS_CardinalityType, FiguresAssumption
<1>2. /\ q \in [1..n -> risky]
      /\ \A i, j \in 1..n : q[i] = q[j] => i = j
      /\ \A x \in risky : \E i \in 1..n : q[i] = x
      /\ \A i, j \in 1..n : i < j => ~Worse(q[j], q[i])
  BY OrderedIs
<1> HIDE DEF n
<1>3. \A e : e \in top <=> \E i \in 1..n : i <= TopLimit /\ e = q[i]
  BY <1>2
<1>4. top \in SUBSET risky
  BY <1>2, <1>3
<1>5. CASE n <= TopLimit
  <2>1. \A i \in 1..n : i <= TopLimit
    BY <1>1, <1>5
  <2> QED
    BY <1>2, <1>3, <1>4, <2>1
<1>6. CASE TopLimit < n
  <2> DEFINE first == 1..TopLimit
             f == [i \in first |-> q[i]]
  <2>1. \A i : i \in first <=> i \in 1..n /\ i <= TopLimit
    BY <1>1, <1>6
  <2>2. IsFiniteSet(top) /\ Cardinality(first) = TopLimit
    BY <1>1, <1>4, FS_Subset, FS_Interval
  <2> HIDE DEF first
  <2>3. /\ f \in [first -> top] /\ \A x, y \in first : f[x] = f[y] => x = y
        /\ \A t \in top : \E x \in first : f[x] = t
    BY <1>2, <1>3, <2>1
  <2> HIDE DEF f
  <2>4. Cardinality(top) = TopLimit
    BY <2>2, <2>3, SameNumber
  <2>5. ~(Cardinality(top) < TopLimit)
    BY <1>1, <2>4
  <2>6. ASSUME NEW e \in top, NEW g \in risky \ top PROVE ~Worse(g, e)
    <3>1. PICK i \in 1..n : i <= TopLimit /\ e = q[i]
      BY <1>3
    <3>2. PICK j \in 1..n : g = q[j]
      BY <1>2
    <3>3. ~(j <= TopLimit)
      BY <1>3, <3>2
    <3>4. i < j
      BY <1>1, <3>1, <3>3
    <3> QED
      BY <1>2, <3>1, <3>2, <3>4
  <2> QED
    BY <1>4, <2>5, <2>6
<1> QED
  BY <1>1, <1>5, <1>6

(* A rate at most 71 % does not hide behind a better one. *)
LEMMA CriticalFirst ==
    ASSUME NEW e \in Rated, NEW f \in Rated, ~Worse(f, e), Critical(f)
    PROVE  Critical(e)
<1> DEFINE p == Presences(e[1], e[2])
           n == Lessons(e[2])
           u == Presences(f[1], f[2])
           v == Lessons(f[2])
<1>1. p \in Nat /\ n \in Nat /\ n > 0 /\ u \in Nat /\ v \in Nat /\ v > 0
  BY RatedFacts
<1>2. ~(u * n < p * v) /\ 100 * u <= 71 * v
  BY DEF Worse, Critical
<1>3. (100 * p <= 71 * n) => Critical(e)
  BY DEF Critical
<1> HIDE DEF p, n, u, v
<1>4. p * v <= u * n
  <2>1. p * v \in Nat /\ u * n \in Nat
    BY <1>1
  <2> QED
    BY <1>2, <2>1
<1>5. (100 * u) * n <= (71 * v) * n
  <2>1. 100 * u \in Nat /\ 71 * v \in Nat
    BY <1>1
  <2> QED
    BY <1>1, <1>2, <2>1, MultiplyThrough
<1>6. (100 * p) * v <= (71 * n) * v
  <2>1. (100 * p) * v = 100 * (p * v) /\ (100 * u) * n = 100 * (u * n)
        /\ (71 * v) * n = (71 * n) * v
    BY <1>1
  <2>2. p * v \in Nat /\ u * n \in Nat /\ (71 * n) * v \in Nat
    BY <1>1
  <2> QED
    BY <1>4, <1>5, <2>1, <2>2
<1>7. 100 * p <= 71 * n
  <2>1. 100 * p \in Nat /\ 71 * n \in Nat
    BY <1>1
  <2> QED
    BY <1>1, <1>6, <2>1, MultiplyThrough
<1> QED
  BY <1>3, <1>7

LEMMA TheWorstAreShown ==
    ASSUME NEW classes \in SUBSET Classes
    PROVE  LET risky == AtRiskEnrollments(classes)
               lists == TopAtRisk(classes)
           IN /\ lists # {}
              /\ \A top \in lists :
                   /\ top \subseteq risky /\ (Cardinality(top) < TopLimit => top = risky)
                   /\ \A e \in top, f \in risky \ top :
                        ~Worse(f, e) /\ (Critical(f) => Critical(e))
<1> DEFINE risky == AtRiskEnrollments(classes)
           lists == TopAtRisk(classes)
<1>1. risky \in SUBSET Rated
  BY DEF AtRiskEnrollments, Rated
<1>2. IsFiniteSet(risky)
  <2>1. risky \in SUBSET (Members \X Classes)
    BY DEF AtRiskEnrollments
  <2>2. IsFiniteSet(Members \X Classes)
    BY FS_Product, FiguresAssumption
  <2> QED
    BY <2>1, <2>2, FS_Subset
<1>3. \A top : top \in lists <=>
        \E q \in Ordered(risky) : top = {q[i] : i \in {j \in DOMAIN q : j <= TopLimit}}
  BY DEF TopAtRisk
<1> HIDE DEF risky, lists
<1>4. lists # {}
  <2>1. PICK q : q \in Ordered(risky)
    BY <1>1, <1>2, SomeOrder
  <2> QED
    BY <1>3, <2>1
<1>5. ASSUME NEW top \in lists
      PROVE  /\ top \subseteq risky /\ (Cardinality(top) < TopLimit => top = risky)
             /\ \A e \in top, f \in risky \ top :
                  ~Worse(f, e) /\ (Critical(f) => Critical(e))
  <2>1. PICK q \in Ordered(risky) : top = {q[i] : i \in {j \in DOMAIN q : j <= TopLimit}}
    BY <1>3
  <2>2. /\ top \subseteq risky /\ (Cardinality(top) < TopLimit => top = risky)
        /\ \A e \in top, f \in risky \ top : ~Worse(f, e)
    BY <1>1, <1>2, <2>1, FirstOfTheOrder
  <2> QED
    BY <1>1, <2>2, CriticalFirst
<1> QED
  BY <1>4, <1>5 DEF risky, lists

-----------------------------------------------------------------------------
(* The same students at risk on every screen *)

(* A student is at risk over all classes of a scope. *)
AtRiskOver(m, scope) ==
    LET mine == ClassesOf(m, scope, None)
    IN  mine # {} /\ LessonsIn(mine) > 0 /\ Below75(PresencesIn(m, mine), LessonsIn(mine))

LEMMA ItemsMarkedAre ==
    ASSUME NEW m \in Members, NEW scope
    PROVE  LET item == StudentItem(m, scope, None, 10000)
           IN  /\ item.sessions \in Nat
               /\ item.sessions <= 5000 => (item.status = "at_risk" <=> AtRiskOver(m, scope))
               /\ item.sessions <= 50 => StudentPage(m, scope).status = item.status
<1> DEFINE item == StudentItem(m, scope, None, 10000)
           page == StudentItem(m, scope, None, 100)
           mine == ClassesOf(m, scope, None)
           n == LessonsIn(mine)
           p == PresencesIn(m, mine)
<1>1. n \in Nat /\ p \in Nat
  <2>1. mine \in SUBSET Classes
    BY ClassesOfFinite
  <2> QED
    BY <2>1, TotalsAreNumbers
<1>2. /\ item.sessions = n
      /\ item.status = IF mine = {} THEN "sem_turma"
                       ELSE IF n > 0 /\ RoundedBelow75(p, n, 10000) THEN "at_risk" ELSE "regular"
      /\ page.status = IF mine = {} THEN "sem_turma"
                       ELSE IF n > 0 /\ RoundedBelow75(p, n, 100) THEN "at_risk" ELSE "regular"
  BY ItemIs
<1>3. AtRiskOver(m, scope) <=> mine # {} /\ n > 0 /\ Below75(p, n)
  BY DEF AtRiskOver
<1>4. StudentPage(m, scope) = page
  BY DEF StudentPage
<1> HIDE DEF item, page, mine, n, p
<1>5. n > 0 => /\ n <= 5000 => (RoundedBelow75(p, n, 10000) <=> Below75(p, n))
               /\ n <= 50 => (RoundedBelow75(p, n, 100) <=> Below75(p, n))
  BY <1>1, Rounding
<1>6. n <= 50 => n <= 5000
  BY <1>1
<1> QED
  BY <1>1, <1>2, <1>3, <1>4, <1>5, <1>6 DEF item

LEMMA CardCountsTheMarked ==
    ASSUME NEW scope,
           \A item \in StudentList(scope, None, None) : item.sessions <= 5000
    PROVE  StudentsMetrics(scope).atRisk
             = Cardinality({item \in StudentList(scope, None, None) : item.status = "at_risk"})
<1> DEFINE list == StudentList(scope, None, None)
           marked == {item \in list : item.status = "at_risk"}
           risky == {m \in Students : AtRiskOver(m, scope)}
           f == [item \in marked |-> item.student]
<1>1. StudentsMetrics(scope).atRisk = Cardinality(risky)
  <2> DEFINE attending == {m \in Students : ClassesOf(m, scope, None) # {}}
             counted == {m \in attending :
                           /\ LessonsIn(ClassesOf(m, scope, None)) > 0
                           /\ Below75(PresencesIn(m, ClassesOf(m, scope, None)),
                                      LessonsIn(ClassesOf(m, scope, None)))}
  <2>1. StudentsMetrics(scope).atRisk = Cardinality(counted)
    BY DEF StudentsMetrics, LessonsIn, PresencesIn
  <2>2. counted = risky
    BY DEF AtRiskOver
  <2> HIDE DEF counted, risky
  <2> QED
    BY <2>1, <2>2
<1>2. \A m \in Students : StudentItem(m, scope, None, 10000) \in list
  BY ListItems, FiguresAssumption
<1>3. \A item \in list : item.student \in Students
        /\ item = StudentItem(item.student, scope, None, 10000)
  BY ListItems
<1>4. \A m \in Students : StudentItem(m, scope, None, 10000).student = m
  BY ItemIs
<1>5. \A m \in Students : StudentItem(m, scope, None, 10000).status = "at_risk" <=> m \in risky
  <2> SUFFICES ASSUME NEW m \in Students
               PROVE  StudentItem(m, scope, None, 10000).status = "at_risk"
                        <=> AtRiskOver(m, scope)
    OBVIOUS
  <2> DEFINE item == StudentItem(m, scope, None, 10000)
  <2>1. m \in Members /\ item \in list
    BY <1>2, ClassListsFinite
  <2>2. \A x \in list : x.sessions <= 5000
    OBVIOUS
  <2>3. item.sessions <= 5000 => (item.status = "at_risk" <=> AtRiskOver(m, scope))
    BY <2>1, ItemsMarkedAre
  <2> HIDE DEF item, list
  <2>4. item.status = "at_risk" <=> AtRiskOver(m, scope)
    BY <2>1, <2>2, <2>3
  <2> QED
    BY <2>4 DEF item
<1>6. IsFiniteSet(risky)
  <2>1. risky \in SUBSET Students
    OBVIOUS
  <2> QED
    BY <2>1, ClassListsFinite, FS_Subset
<1>7. \A m \in risky : m \in Students
  OBVIOUS
<1> HIDE DEF list, risky
<1>8. /\ f \in [marked -> risky] /\ \A x, y \in marked : f[x] = f[y] => x = y
  BY <1>3, <1>5
<1>9. ASSUME NEW m \in risky PROVE \E x \in marked : f[x] = m
  <2>1. m \in Students
    BY <1>7
  <2>2. StudentItem(m, scope, None, 10000) \in marked
    BY <1>2, <1>5, <2>1
  <2> QED
    BY <1>4, <2>1, <2>2
<1> HIDE DEF marked, f
<1>10. Cardinality(marked) = Cardinality(risky)
  BY <1>6, <1>8, <1>9, SameNumber
<1> QED
  BY <1>1, <1>10 DEF marked, list

(* Below the limit over all classes, below it in one. *)
LEMMA OneClassIsBelow ==
    ASSUME NEW m \in Members, NEW mine \in SUBSET Classes,
           Below75(PresencesIn(m, mine), LessonsIn(mine))
    PROVE  \E c \in mine : Lessons(c) > 0 /\ Below75(Presences(m, c), Lessons(c))
<1> SUFFICES ASSUME \A c \in mine : ~(4 * Presences(m, c) < 3 * Lessons(c)) PROVE FALSE
  <2>1. \A c \in mine : Below75(Presences(m, c), Lessons(c)) => Lessons(c) > 0
    BY CountsAreNumbers DEF Below75
  <2> QED
    BY <2>1 DEF Below75
<1> DEFINE f == [c \in mine |-> Lessons(c)]
           g == [c \in mine |-> Presences(m, c)]
           f3 == [c \in mine |-> 3 * Lessons(c)]
           g4 == [c \in mine |-> 4 * Presences(m, c)]
<1>1. IsFiniteSet(mine) /\ f \in [mine -> Nat] /\ g \in [mine -> Nat]
  BY TotalsAreNumbers
<1>2. f3 \in [mine -> Nat] /\ g4 \in [mine -> Nat]
  BY CountsAreNumbers
<1>3. \A c \in mine : f3[c] = 3 * f[c] /\ g4[c] = 4 * g[c]
  OBVIOUS
<1>4. \A c \in mine : f3[c] <= g4[c]
  BY CountsAreNumbers
<1>5. LessonsIn(mine) = SumFunction(f) /\ PresencesIn(m, mine) = SumFunction(g)
  BY DEF LessonsIn, PresencesIn
<1> HIDE DEF f, g, f3, g4
<1>6. SumFunction(f3) = 3 * SumFunction(f) /\ SumFunction(g4) = 4 * SumFunction(g)
  BY <1>1, <1>2, <1>3, SumScale
<1>7. SumFunction(f3) <= SumFunction(g4)
  BY <1>1, <1>2, <1>4, SumLeq
<1>8. SumFunction(f) \in Nat /\ SumFunction(g) \in Nat
  BY <1>1, SumNat
<1> QED
  BY <1>5, <1>6, <1>7, <1>8 DEF Below75

LEMMA MarkedAreOnTheDashboard ==
    ASSUME NEW scope, NEW item \in StudentList(scope, None, None), item.status = "at_risk"
    PROVE  \E e \in AtRiskEnrollments(DashboardClasses(scope, "all")) : e[1] = item.student
<1> DEFINE m == item.student
           mine == ClassesOf(m, scope, None)
           n == LessonsIn(mine)
           p == PresencesIn(m, mine)
<1>1. m \in Students /\ m \in Members /\ item = StudentItem(m, scope, None, 10000)
  BY ListItems, ClassListsFinite
<1>2. mine \in SUBSET Classes
  BY ClassesOfFinite
<1>3. item.status = IF mine = {} THEN "sem_turma"
                    ELSE IF n > 0 /\ RoundedBelow75(p, n, 10000) THEN "at_risk" ELSE "regular"
  <2>1. StudentItem(m, scope, None, 10000).status
          = IF mine = {} THEN "sem_turma"
            ELSE IF n > 0 /\ RoundedBelow75(p, n, 10000) THEN "at_risk" ELSE "regular"
    BY ItemIs
  <2> QED
    BY <1>1, <2>1
<1>4. n > 0 /\ RoundedBelow75(p, n, 10000)
  BY <1>3
<1>5. n \in Nat /\ p \in Nat
  BY <1>1, <1>2, TotalsAreNumbers
<1>6. Below75(p, n)
  <2>1. (2 * 10000 * p + n) \div (2 * n) < 7500
    BY <1>4, <1>5 DEF RoundedBelow75, Rounded
  <2>2. 2 * 10000 * p + n < (2 * n) * 7500
    BY <1>4, <1>5, <2>1, QuotientBelow
  <2> QED
    BY <1>5, <2>2 DEF Below75
<1>7. PICK c \in mine : Lessons(c) > 0 /\ Below75(Presences(m, c), Lessons(c))
  BY <1>1, <1>2, <1>6, OneClassIsBelow
<1>8. c \in InScope(scope) /\ IsEnrolled(m, c)
  BY DEF ClassesOf
<1>9. c \in DashboardClasses(scope, "all")
  BY <1>8 DEF DashboardClasses
<1>10. <<m, c>> \in AtRiskEnrollments(DashboardClasses(scope, "all"))
  BY <1>1, <1>7, <1>8, <1>9 DEF AtRiskEnrollments
<1> QED
  BY <1>10

LEMMA ScreensAgree == RiskScreensAgree
<1>1. ASSUME NEW scope
      PROVE  LET list == StudentList(scope, None, None)
                 marked == {item \in list : item.status = "at_risk"}
                 risky == AtRiskEnrollments(DashboardClasses(scope, "all"))
             IN /\ (\A item \in list : item.sessions <= 5000) =>
                     StudentsMetrics(scope).atRisk = Cardinality(marked)
                /\ \A item \in marked : \E e \in risky : e[1] = item.student
                /\ \A item \in list : item.sessions <= 50 =>
                     StudentPage(item.student, scope).status = item.status
  <2>1. \A item \in StudentList(scope, None, None) : item.sessions <= 50 =>
          StudentPage(item.student, scope).status = item.status
    <3> SUFFICES ASSUME NEW item \in StudentList(scope, None, None), item.sessions <= 50
                 PROVE  StudentPage(item.student, scope).status = item.status
      OBVIOUS
    <3>1. /\ item.student \in Members
          /\ item = StudentItem(item.student, scope, None, 10000)
      BY ListItems, ClassListsFinite
    <3>2. StudentItem(item.student, scope, None, 10000).sessions <= 50 =>
            StudentPage(item.student, scope).status
              = StudentItem(item.student, scope, None, 10000).status
      BY <3>1, ItemsMarkedAre
    <3> QED
      BY <3>1, <3>2
  <2> QED
    BY <2>1, CardCountsTheMarked, MarkedAreOnTheDashboard
<1>2. \A c \in Classes : Shown(c) /\ Lessons(c) > 0 /\ Counted(c) = SessionsIn(c) =>
        \A m \in EnrolledIn(c) : ReportRow(m, c).atRisk <=> <<m, c>> \in AtRiskEnrollments({c})
  BY ReportMarksTheDashboard
<1>3. \A m \in Students : (\A c \in Classes : Lessons(c) <= 5000) =>
        OwnMetrics(m).atRisk
          = Cardinality({e \in AtRiskEnrollments(DashboardClasses(None, "all")) : e[1] = m})
  BY OwnCardCountsTheDashboard, ClassListsFinite
<1>4. \A scope : DashboardClasses(scope, "all") \in SUBSET Classes
  BY DEF DashboardClasses, InScope
<1>5. ASSUME NEW scope
      PROVE  LET risky == AtRiskEnrollments(DashboardClasses(scope, "all"))
                 lists == TopAtRisk(DashboardClasses(scope, "all"))
             IN /\ lists # {}
                /\ \A top \in lists :
                     /\ top \subseteq risky /\ (Cardinality(top) < TopLimit => top = risky)
                     /\ \A e \in top, f \in risky \ top :
                          ~Worse(f, e) /\ (Critical(f) => Critical(e))
  BY <1>4, TheWorstAreShown
<1> QED
  BY <1>1, <1>2, <1>3, <1>5 DEF RiskScreensAgree

(* Who is at risk does not depend on the screen: list, cards, page, report and
   dashboard mark the same students up to the numbers of lessons at which
   rounding begins to matter, and the dashboard shows the worst, whatever the
   tables hold (find_students_with_metrics_paginated, get_students_metrics,
   find_student_with_metrics_by_id, GetStudentMetricsUseCase.execute,
   _build_student_report, _get_top_at_risk_students). *)
THEOREM RiskScreensAlwaysAgree == Spec => []RiskScreensAgree
BY ScreensAgree, PTL

=============================================================================
