------------------------------ MODULE Figures ------------------------------
(***************************************************************************)
(* The figures the screens show: every query that counts lessons,          *)
(* presences, students or live calls.                                      *)
(*                                                                         *)
(* The same facts are counted by some thirty hand-written queries in six   *)
(* repositories, each with its own joins: the cards of the students, the   *)
(* student's page, the class list, the dashboard, the report, the history, *)
(* the roster.  Nothing in the code makes two of them agree; this module   *)
(* keeps the tables and says where they do.                                *)
(*                                                                         *)
(* A request is one step here: what two of them do to each other is the    *)
(* subject of AttendanceSessions, AttendanceRecords and Enrollments.  Rows *)
(* are soft-deleted: enrolled holds the row that is not deleted            *)
(* (OneShownPerKey), erased remembers that there are deleted ones, and a   *)
(* user who is added again after a removal is a member of its own.  Pages, *)
(* searches, names and averages of rates are left out.                     *)
(***************************************************************************)
EXTENDS Naturals, FiniteSets, Functions

CONSTANTS Members,          \* memberships of one institution, those still to come too
          UserOf,           \* the user of a membership
          Classes,          \* classes, created or not yet
          SessionIds,       \* ids of the calls still to be opened
          None,             \* no class, no scope
          RoleAtStart,      \* members at the start: "absent", "aluno" or "professor"
          ClassAtStart,     \* classes at the start: "absent" or "active"
          EnrolledAtStart,  \* pairs of member and class enrolled at the start
          ProfessorOf,      \* the member who created a class
          Held,             \* lessons of a class closed before the window
          Attended,         \* those of them a member was present at
          Window,           \* days a figure looks back (30)
          WeekLength,       \* days of a week (7)
          TopLimit,         \* entries of the at-risk list (10)
          MaxNow,           \* bound: days that pass
          MaxChanges        \* bound: drops, reviews and other corrections

ASSUME FiguresAssumption ==
    /\ DOMAIN UserOf = Members
    /\ RoleAtStart \in [Members -> {"absent", "aluno", "professor"}]
    /\ \A m, n \in Members : UserOf[m] = UserOf[n] /\ m # n =>
         "absent" \in {RoleAtStart[m], RoleAtStart[n]}
    /\ ClassAtStart \in [Classes -> {"absent", "active"}]
    /\ EnrolledAtStart \subseteq
         {m \in Members : RoleAtStart[m] = "aluno"} \X
         {c \in Classes : ClassAtStart[c] = "active"}
    /\ ProfessorOf \in [Classes -> {m \in Members : RoleAtStart[m] = "professor"}]
    /\ Held \in [Classes -> Nat]
    /\ Attended \in [Members -> [Classes -> Nat]]
    /\ \A m \in Members, c \in Classes : Attended[m][c] <= Held[c]
    /\ \A c \in Classes : ClassAtStart[c] = "absent" => Held[c] = 0
    /\ {Window, MaxNow, MaxChanges} \subseteq Nat /\ {WeekLength, TopLimit} \subseteq Nat \ {0}
    /\ None \notin Members \union Classes \union {"regular", "sem_turma"}
    /\ IsFiniteSet(Members) /\ IsFiniteSet(Classes) /\ IsFiniteSet(SessionIds)

VARIABLES member,       \* member[m]: the role, "absent" or "removed"
          class,        \* class[c]: "absent", "active", "inactive" or "deleted"
          enrolled,     \* enrolled[m][c]: "none", "active" or "dropped"
          erased,       \* the pairs of member and class with deleted enrollments
          session,      \* session[s]: the call, see Session
          record,       \* record[s][m]: the status of m's record in s, or "none"
          now,          \* the day
          changes       \* corrections so far

vars == <<member, class, enrolled, erased, session, record, now, changes>>

Session == [class : Classes \union {None}, status : {"absent", "open", "closed", "cancelled"},
            day : 0..MaxNow]
Unopened == [class |-> None, status |-> "absent", day |-> 0]

TypeOK ==
    /\ member \in [Members -> {"absent", "aluno", "professor", "removed"}]
    /\ class \in [Classes -> {"absent", "active", "inactive", "deleted"}]
    /\ enrolled \in [Members -> [Classes -> {"none", "active", "dropped"}]]
    /\ erased \subseteq Members \X Classes
    /\ session \in [SessionIds -> Session]
    /\ record \in [SessionIds -> [Members ->
                     {"none", "regular", "irregular", "approved", "rejected"}]]
    /\ now \in 0..MaxNow /\ changes \in 0..MaxChanges

Init ==
    /\ member = RoleAtStart
    /\ class = ClassAtStart
    /\ enrolled = [m \in Members |-> [c \in Classes |->
                     IF <<m, c>> \in EnrolledAtStart THEN "active" ELSE "none"]]
    /\ erased = {}
    /\ session = [s \in SessionIds |-> Unopened]
    /\ record = [s \in SessionIds |-> [m \in Members |-> "none"]]
    /\ now = 0 /\ changes = 0

-----------------------------------------------------------------------------
(* What the requests and the task do to the tables *)

Belongs(m) == member[m] \notin {"absent", "removed"}
Shown(c) == class[c] \in {"active", "inactive"}
OpenIn(c) == {s \in SessionIds : session[s].class = c /\ session[s].status = "open"}

(* expires_at is some minutes after opened_at: a call is past it the next day. *)
Lapsed(s) == session[s].day < now
Live(s) == session[s].status = "open" /\ ~Lapsed(s)

Correct == changes < MaxChanges /\ changes' = changes + 1

CreateClass(c) ==
    /\ class[c] = "absent" /\ member[ProfessorOf[c]] = "professor"
    /\ class' = [class EXCEPT ![c] = "active"]
    /\ UNCHANGED <<member, enrolled, erased, session, record, now, changes>>

UpdateClass(c, to) ==
    /\ Shown(c) /\ class[c] # to
    /\ Correct
    /\ class' = [class EXCEPT ![c] = to]
    /\ UNCHANGED <<member, enrolled, erased, session, record, now>>

DeleteClass(c) ==
    /\ Shown(c)
    /\ Correct
    /\ class' = [class EXCEPT ![c] = "deleted"]
    /\ UNCHANGED <<member, enrolled, erased, session, record, now>>

Enroll(m, c) ==
    /\ Shown(c) /\ member[m] = "aluno" /\ enrolled[m][c] # "active"
    /\ enrolled' = [enrolled EXCEPT ![m][c] = "active"]
    /\ UNCHANGED <<member, class, erased, session, record, now, changes>>

Drop(m, c) ==
    /\ enrolled[m][c] = "active"
    /\ Correct
    /\ enrolled' = [enrolled EXCEPT ![m][c] = "dropped"]
    /\ UNCHANGED <<member, class, erased, session, record, now>>

DeleteEnrollment(m, c) ==
    /\ enrolled[m][c] # "none"
    /\ Correct
    /\ enrolled' = [enrolled EXCEPT ![m][c] = "none"]
    /\ erased' = erased \union {<<m, c>>}
    /\ UNCHANGED <<member, class, session, record, now>>

(* A new row each time: the memberships a user had before stay removed. *)
AddMember(m, role) ==
    /\ member[m] = "absent"
    /\ \A n \in Members : UserOf[n] = UserOf[m] => ~Belongs(n)
    /\ member' = [member EXCEPT ![m] = role]
    /\ UNCHANGED <<class, enrolled, erased, session, record, now, changes>>

(* A student who becomes something else loses the active enrollments. *)
ChangeRole(m, role) ==
    /\ Belongs(m) /\ member[m] # role
    /\ Correct
    /\ member' = [member EXCEPT ![m] = role]
    /\ enrolled' = [enrolled EXCEPT ![m] = [c \in Classes |->
                      IF member[m] = "aluno" /\ @[c] = "active" THEN "dropped" ELSE @[c]]]
    /\ UNCHANGED <<class, erased, session, record, now>>

(* The enrollments stay active. *)
RemoveMember(m) ==
    /\ Belongs(m)
    /\ Correct
    /\ member' = [member EXCEPT ![m] = "removed"]
    /\ UNCHANGED <<class, enrolled, erased, session, record, now>>

(* Faulty variant: an open call of the class is not looked for. *)
MayOpenBeside(c) == class[c] = "active"
(* Two open rows make the lookup of the open call raise. *)
MayOpen(c) ==
    /\ class[c] = "active"
    /\ Cardinality(OpenIn(c)) <= 1 /\ \A s \in OpenIn(c) : Lapsed(s)

Open(s, c) ==
    /\ session[s] = Unopened /\ MayOpen(c)
    /\ session' = [session EXCEPT ![s] =
                     [class |-> c, status |-> "open", day |-> now]]
    /\ UNCHANGED <<member, class, enrolled, erased, record, now, changes>>

Close(s) ==
    /\ session[s].status \in {"open", "cancelled"} /\ Shown(session[s].class)
    /\ session' = [session EXCEPT ![s].status = "closed"]
    /\ UNCHANGED <<member, class, enrolled, erased, record, now, changes>>

Cancel(s) ==
    /\ session[s].status = "open" /\ Shown(session[s].class)
    /\ Correct
    /\ session' = [session EXCEPT ![s].status = "cancelled"]
    /\ UNCHANGED <<member, class, enrolled, erased, record, now>>

(* The task closes what has expired, in deleted classes too. *)
Sweep ==
    /\ \E s \in SessionIds : session[s].status = "open" /\ Lapsed(s)
    /\ session' = [s \in SessionIds |->
                     IF session[s].status = "open" /\ Lapsed(s)
                     THEN [session[s] EXCEPT !.status = "closed"] ELSE session[s]]
    /\ UNCHANGED <<member, class, enrolled, erased, record, now, changes>>

(* The confirmation looks the user up: the query joins every membership of the
   user with every enrollment of it in the class, deleted ones too, or with
   none, and takes the first row, which any of them may be. *)
EnrollmentsOf(n, c) ==
    (IF enrolled[n][c] = "none" THEN {} ELSE {enrolled[n][c]})
    \union (IF <<n, c>> \in erased THEN {"deleted"} ELSE {})
Context(m, c) ==
    UNION {{<<n, e>> : e \in IF EnrollmentsOf(n, c) = {} THEN {"none"} ELSE EnrollmentsOf(n, c)} :
             n \in {x \in Members : UserOf[x] = UserOf[m] /\ member[x] # "absent"}}
Admits(row) == Belongs(row[1]) /\ row[2] = "active"

MayConfirm(m, s) ==
    /\ session[s].class # None /\ class[session[s].class] # "deleted"
    /\ Live(s)
    /\ \E row \in Context(m, session[s].class) : Admits(row) /\ row[1] = m
    /\ record[s][m] = "none"

Confirm(m, s, status) ==
    /\ MayConfirm(m, s)
    /\ record' = [record EXCEPT ![s][m] = status]
    /\ UNCHANGED <<member, class, enrolled, erased, session, now, changes>>

Review(m, s, decision) ==
    /\ record[s][m] \notin {"none", "regular", decision}
    /\ Shown(session[s].class)
    /\ Correct
    /\ record' = [record EXCEPT ![s][m] = decision]
    /\ UNCHANGED <<member, class, enrolled, erased, session, now>>

Tick ==
    /\ now < MaxNow
    /\ now' = now + 1
    /\ UNCHANGED <<member, class, enrolled, erased, session, record, changes>>

Next ==
    \/ \E c \in Classes : CreateClass(c) \/ DeleteClass(c)
    \/ \E c \in Classes, to \in {"active", "inactive"} : UpdateClass(c, to)
    \/ \E m \in Members, c \in Classes : Enroll(m, c) \/ Drop(m, c) \/ DeleteEnrollment(m, c)
    \/ \E m \in Members, role \in {"aluno", "professor"} :
         AddMember(m, role) \/ ChangeRole(m, role)
    \/ \E m \in Members : RemoveMember(m)
    \/ \E s \in SessionIds, c \in Classes : Open(s, c)
    \/ \E s \in SessionIds : Close(s) \/ Cancel(s)
    \/ \E m \in Members, s \in SessionIds :
         \/ \E status \in {"regular", "irregular"} : Confirm(m, s, status)
         \/ \E decision \in {"approved", "rejected"} : Review(m, s, decision)
    \/ Sweep \/ Tick

Spec == Init /\ [][Next]_vars

-----------------------------------------------------------------------------
(* What the queries are made of *)

Students == {m \in Members : member[m] = "aluno"}
IsEnrolled(m, c) == enrolled[m][c] = "active"
EnrolledIn(c) == {m \in Members : IsEnrolled(m, c)}

SessionsIn(c) == {s \in SessionIds : session[s].class = c}
Counted(c) == {s \in SessionsIn(c) : session[s].status # "cancelled"}
Valid == {"regular", "approved"}
WasPresent(m, s) == record[s][m] \in Valid

(* All lessons of a class that were not cancelled, and m's presences in them. *)
Lessons(c) == Held[c] + Cardinality(Counted(c))
Presences(m, c) == Attended[m][c] + Cardinality({s \in Counted(c) : WasPresent(m, s)})

Below75(present, lessons) == 4 * present < 3 * lessons
(* round(present / lessons, digits), in units of the last digit. *)
Rounded(present, lessons, unit) == (2 * unit * present + lessons) \div (2 * lessons)
RoundedBelow75(present, lessons, unit) == 4 * Rounded(present, lessons, unit) < 3 * unit

(* A scope is the whole institution (None) or the classes of a professor. *)
InScope(scope) ==
    {c \in Classes : Shown(c) /\ (scope = None \/ (ProfessorOf[c] = scope
                                                   /\ member[scope] # "removed"))}

-----------------------------------------------------------------------------
(* The students of the institution: list, page and cards *)

(* A professor sees what the own classes give, the others everything. *)
ScopeOf(m) == IF member[m] = "professor" THEN m ELSE None

ClassesOf(m, scope, only) ==
    {c \in InScope(scope) : only \in {None, c} /\ IsEnrolled(m, c)}

(* turmas_count, total_sessions and total_present, and the status they give. *)
StudentItem(m, scope, only, unit) ==
    LET mine == ClassesOf(m, scope, only)
        lessons == SumFunction([c \in mine |-> Lessons(c)])
        present == SumFunction([c \in mine |-> Presences(m, c)])
    IN [student |-> m, turmas |-> Cardinality(mine), sessions |-> lessons, present |-> present,
        status |-> IF mine = {} THEN "sem_turma"
                   ELSE IF lessons > 0 /\ RoundedBelow75(present, lessons, unit)
                   THEN "at_risk" ELSE "regular"]

StudentList(scope, only, status) ==
    {item \in {StudentItem(m, scope, only, 10000) : m \in Students} :
        /\ only # None => item.turmas > 0
        /\ status = "regular" => item.turmas > 0
        /\ status = "sem_turma" => item.turmas = 0}

StudentTotal(scope, only, status) ==
    Cardinality({m \in Students :
        /\ only # None => IsEnrolled(m, only)
        /\ status = "regular" => ClassesOf(m, scope, only) # {}
        /\ status = "sem_turma" => ClassesOf(m, scope, only) = {}})

StudentPage(m, scope) == StudentItem(m, scope, None, 100)

StudentsMetrics(scope) ==
    LET attending == {m \in Students : ClassesOf(m, scope, None) # {}}
        total == Cardinality(IF scope = None THEN Students ELSE attending)
        lessons(m) == SumFunction([c \in ClassesOf(m, scope, None) |-> Lessons(c)])
        present(m) == SumFunction([c \in ClassesOf(m, scope, None) |-> Presences(m, c)])
    IN [total |-> total,
        enrollments |-> SumFunction([m \in Students |-> Cardinality(ClassesOf(m, scope, None))]),
        atRisk |-> Cardinality({m \in attending : lessons(m) > 0
                                                  /\ Below75(present(m), lessons(m))}),
        noClass |-> IF total > Cardinality(attending) THEN total - Cardinality(attending) ELSE 0]

(* The page of members filtered by a class: dropped students stay on it. *)
MemberList(only) == {m \in Members : member[m] # "removed" /\ enrolled[m][only] # "none"}

(* list_summaries_by_member and the cards made of it. *)
OwnClasses(m) ==
    {[class |-> c, sessions |-> Lessons(c), present |-> Presences(m, c)] :
        c \in {d \in Classes : Shown(d) /\ IsEnrolled(m, d)}}
OwnMetrics(m) ==
    [classes |-> Cardinality(OwnClasses(m)),
     atRisk |-> Cardinality({own \in OwnClasses(m) :
                  own.sessions > 0 /\ RoundedBelow75(own.present, own.sessions, 10000)})]

-----------------------------------------------------------------------------
(* The classes: list and cards *)

(* Faulty variant: the presences are not joined with the enrollments. *)
PresentsOfAnyone(c) == SumFunction([m \in Members |-> Presences(m, c)])
ClassPresents(c) == SumFunction([m \in EnrolledIn(c) |-> Presences(m, c)])

(* The open call is the latest of those that have not expired. *)
LiveIn(c) == {s \in OpenIn(c) : ~Lapsed(s)}
LatestLive(c) == {s \in LiveIn(c) : \A t \in LiveIn(c) : session[t].day <= session[s].day}

ClassSummary(c) ==
    [class |-> c, active |-> class[c] = "active", students |-> Cardinality(EnrolledIn(c)),
     sessions |-> Lessons(c), present |-> ClassPresents(c), live |-> LiveIn(c) # {}]

Since(classes, day) ==
    {s \in UNION {Counted(c) : c \in classes} : session[s].day >= day}
PresentAt(s) == {m \in EnrolledIn(session[s].class) : WasPresent(m, s)}
PresentIn(sessions) == SumFunction([s \in sessions |-> Cardinality(PresentAt(s))])

MonthStart == IF now > Window THEN now - Window ELSE 0

TaughtBy(professor) == {c \in Classes : Shown(c) /\ professor \in {None, ProfessorOf[c]}}

(* has_active_session: "live", "idle" or not asked for. *)
ClassPage(professor, activity) ==
    {ClassSummary(c) : c \in {d \in TaughtBy(professor) :
        /\ activity = "live" => LatestLive(d) # {}
        /\ activity = "idle" => LatestLive(d) = {}}}

(* The cards rest on summaries of the window only. *)
WindowSummary(c) ==
    [class |-> c, active |-> class[c] = "active", students |-> Cardinality(EnrolledIn(c)),
     sessions |-> Cardinality(Since({c}, MonthStart)),
     present |-> PresentIn(Since({c}, MonthStart)), live |-> LatestLive(c) # {}]
ClassSummaries(professor) == {WindowSummary(c) : c \in TaughtBy(professor)}

ClassMetrics(professor) ==
    LET all == ClassSummaries(professor)
        active == {sum \in all : sum.active}
    IN [classes |-> Cardinality(all), active |-> Cardinality(active),
        students |-> SumFunction([sum \in all |-> sum.students]),
        atRisk |-> Cardinality({sum \in active :
                     sum.students * sum.sessions = 0
                     \/ RoundedBelow75(sum.present, sum.students * sum.sessions, 10000)}),
        live |-> Cardinality({sum \in all : sum.live})]

-----------------------------------------------------------------------------
(* The dashboard; only: all classes, the active ones or the inactive ones *)

DashboardClasses(scope, only) ==
    {c \in InScope(scope) : only = "all" \/ class[c] = only}

UniqueStudents(classes) == Cardinality(UNION {EnrolledIn(c) : c \in classes})

MonthRate(classes) ==
    [expected |-> SumFunction([c \in classes |->
        Cardinality(EnrolledIn(c)) * Cardinality(Since({c}, MonthStart))]),
     present |-> PresentIn(Since(classes, MonthStart))]

WeekStart == now - (now % WeekLength)
DayFrequency(held) ==
    [sessions |-> Cardinality(held),
     expected |-> SumFunction([s \in held |-> Cardinality(EnrolledIn(session[s].class))]),
     present |-> PresentIn(held)]
WeekFrequency(classes) ==
    [d \in WeekStart..(WeekStart + WeekLength - 1) |->
        DayFrequency({s \in Since(classes, WeekStart) : session[s].day = d})]

(* Faulty variant: the limit itself counts as a risk. *)
AtRiskAtTheLimit(classes) ==
    {e \in Members \X classes :
        /\ IsEnrolled(e[1], e[2]) /\ Lessons(e[2]) > 0
        /\ 4 * Presences(e[1], e[2]) <= 3 * Lessons(e[2])}
AtRiskEnrollments(classes) ==
    {e \in Members \X classes :
        /\ IsEnrolled(e[1], e[2]) /\ Lessons(e[2]) > 0
        /\ Below75(Presences(e[1], e[2]), Lessons(e[2]))}

(* The lowest rate first, then the most absences. *)
Worse(e, f) ==
    LET p(x) == Presences(x[1], x[2])
        n(x) == Lessons(x[2])
    IN \/ p(e) * n(f) < p(f) * n(e)
       \/ p(e) * n(f) = p(f) * n(e) /\ n(e) - p(e) > n(f) - p(f)
Ordered(risky) ==
    {q \in Bijection(1..Cardinality(risky), risky) :
        \A i, j \in DOMAIN q : i < j => ~Worse(q[j], q[i])}
(* What the list may show: names are left out, so rows of one rate and number of
   absences come in any order. *)
TopAtRisk(classes) ==
    {{q[i] : i \in {j \in DOMAIN q : j <= TopLimit}} : q \in Ordered(AtRiskEnrollments(classes))}
Critical(e) == 100 * Presences(e[1], e[2]) <= 71 * Lessons(e[2])

-----------------------------------------------------------------------------
(* The frequency report: dropped enrollments and cancelled calls count *)

Reported(c) == {m \in Members : enrolled[m][c] # "none"}
ReportRow(m, c) ==
    LET sessions == Held[c] + Cardinality(SessionsIn(c))
        present == Attended[m][c] + Cardinality({s \in SessionsIn(c) : WasPresent(m, s)})
        recorded == Attended[m][c] + Cardinality({s \in SessionsIn(c) : record[s][m] # "none"})
    IN [student |-> m, sessions |-> sessions, present |-> present, absent |-> sessions - recorded,
        irregular |-> Cardinality({s \in SessionsIn(c) : record[s][m] = "irregular"}),
        atRisk |-> sessions = 0 \/ Below75(present, sessions)]
ClassReport(c) ==
    LET rows == {ReportRow(m, c) : m \in Reported(c)}
    IN [students |-> Cardinality(rows), atRisk |-> Cardinality({row \in rows : row.atRisk})]

-----------------------------------------------------------------------------
(* The calls: counts, roster, history and what is live *)

SessionStats(s) ==
    [students |-> Cardinality(EnrolledIn(session[s].class)),
     confirmed |-> Cardinality({m \in Members : record[s][m] # "none"}),
     irregular |-> Cardinality({m \in Members : record[s][m] = "irregular"})]

Roster(s) == [m \in EnrolledIn(session[s].class) |-> record[s][m]]

SessionList(scope) == UNION {SessionsIn(c) : c \in InScope(scope)}
SessionMetrics(scope) ==
    LET within == {s \in SessionList(scope) : session[s].day >= MonthStart}
    IN [total |-> Cardinality(within),
        cancelled |-> Cardinality({s \in within : session[s].status = "cancelled"}),
        averaged |-> {s \in within : session[s].status # "cancelled" /\ SessionStats(s).students > 0}]

(* The calls of the classes the student is enrolled in, those of earlier days
   in Held; a page filtered by a status is a part of it. *)
History(m) == UNION {SessionsIn(c) : c \in {d \in Classes : Shown(d) /\ IsEnrolled(m, d)}}

LiveInTenant(scope) ==
    {s \in SessionIds : Live(s) /\ session[s].class \in InScope(scope)
                        /\ class[session[s].class] = "active"}
LiveForStudent(m) ==
    {s \in SessionIds : Live(s) /\ class[session[s].class] = "active"
                        /\ IsEnrolled(m, session[s].class)}

-----------------------------------------------------------------------------
(* Properties *)

Scopes == {None} \union {ScopeOf(m) : m \in Members}

(* Who is at risk does not depend on the screen.  The cards count the students
   the list marks, for the institution and for each professor; a marked student
   has an enrollment on the dashboard, although the list adds up the lessons of
   all classes and the dashboard takes each class alone; the student's own page
   counts the enrollments of the dashboard; the page of one student agrees with
   the list up to 50 lessons (it rounds the rate to two digits, the list and
   the own page to four, which is right up to 5000); the report of a class
   agrees while none of its calls was cancelled; and the dashboard always has a
   list to show and it shows the worst: nobody left out has a lower rate than
   one shown, and a critical enrollment is left out for critical ones only. *)
RiskScreensAgree ==
    /\ \A scope \in Scopes :
         LET list == StudentList(scope, None, None)
             marked == {item \in list : item.status = "at_risk"}
             risky == AtRiskEnrollments(DashboardClasses(scope, "all"))
         IN /\ (\A item \in list : item.sessions <= 5000) =>
                 StudentsMetrics(scope).atRisk = Cardinality(marked)
            /\ \A item \in marked : \E e \in risky : e[1] = item.student
            /\ \A item \in list : item.sessions <= 50 =>
                 StudentPage(item.student, scope).status = item.status
    /\ \A c \in Classes : Shown(c) /\ Lessons(c) > 0 /\ Counted(c) = SessionsIn(c) =>
         \A m \in EnrolledIn(c) : ReportRow(m, c).atRisk <=> <<m, c>> \in AtRiskEnrollments({c})
    /\ \A m \in Students : (\A c \in Classes : Lessons(c) <= 5000) =>
         OwnMetrics(m).atRisk
           = Cardinality({e \in AtRiskEnrollments(DashboardClasses(None, "all")) : e[1] = m})
    /\ \A scope \in Scopes :
         LET risky == AtRiskEnrollments(DashboardClasses(scope, "all"))
             lists == TopAtRisk(DashboardClasses(scope, "all"))
         IN /\ lists # {}
            /\ \A top \in lists :
                 /\ top \subseteq risky /\ (Cardinality(top) < TopLimit => top = risky)
                 /\ \A e \in top, f \in risky \ top :
                      ~Worse(f, e) /\ (Critical(f) => Critical(e))

(* A class counts what its students count: its presences are the sum of theirs
   and never more than students times lessons, whoever was dropped, removed or
   enrolled again since. *)
ClassAddsUp ==
    \A c \in Classes : Shown(c) =>
        LET sum == ClassSummary(c)
            own(m) == CHOOSE row \in OwnClasses(m) : row.class = c
        IN /\ sum.present = SumFunction([m \in EnrolledIn(c) |-> own(m).present])
           /\ sum.present <= sum.students * sum.sessions
           /\ StudentTotal(None, c, None) = Cardinality(StudentList(None, c, None))
           /\ ClassReport(c).students >= sum.students
           /\ {ReportRow(m, c).student : m \in Reported(c)} \ {m \in Members : member[m] = "removed"}
                = MemberList(c)

(* A student's totals are those of the own classes and of the history. *)
StudentAddsUp ==
    \A m \in Students :
        LET item == StudentItem(m, None, None, 10000)
            past(f) == SumFunction([own \in OwnClasses(m) |-> f[own.class]])
            counted == {s \in History(m) : session[s].status # "cancelled"}
        IN /\ item.turmas = OwnMetrics(m).classes
           /\ item.sessions = past(Held) + Cardinality(counted)
           /\ item.present = past(Attended[m]) + Cardinality({s \in counted : WasPresent(m, s)})
           /\ item.present <= item.sessions

(* The cards of students, classes, calls and dashboard rest on the same lists. *)
CardsAddUp ==
    \A scope \in Scopes :
        LET cards == StudentsMetrics(scope)
            classes == ClassMetrics(scope)
            calls == SessionMetrics(scope)
        IN /\ \A status \in {"regular", "sem_turma"} :
                StudentTotal(scope, None, status) = Cardinality(StudentList(scope, None, status))
           /\ scope = None => cards.noClass = StudentTotal(None, None, "sem_turma")
           /\ cards.enrollments <= classes.students
           /\ UniqueStudents(DashboardClasses(scope, "all")) <= classes.students
           /\ classes.atRisk <= classes.active /\ classes.active <= classes.classes
           /\ Cardinality(calls.averaged) + calls.cancelled <= calls.total
           /\ \A s \in SessionList(scope) :
                /\ SessionStats(s).students = Cardinality(DOMAIN Roster(s))
                /\ Cardinality(PresentAt(s)) + SessionStats(s).irregular <= SessionStats(s).confirmed

(* The rates of the month and of the days of the week lie between 0 and 1; the
   month of the dashboard has the totals of the class cards, and a week that
   reaches as far back as the window has them too. *)
WindowAddsUp ==
    \A scope \in Scopes :
        LET classes == DashboardClasses(scope, "all")
            month == MonthRate(classes)
            week == WeekFrequency(classes)
            cards == ClassSummaries(scope)
        IN /\ month.present <= month.expected
           /\ month.expected = SumFunction([sum \in cards |-> sum.students * sum.sessions])
           /\ month.present = SumFunction([sum \in cards |-> sum.present])
           /\ \A d \in DOMAIN week : week[d].present <= week[d].expected
           /\ WeekStart = MonthStart =>
                /\ month.present = SumFunction([d \in DOMAIN week |-> week[d].present])
                /\ month.expected = SumFunction([d \in DOMAIN week |-> week[d].expected])

EverythingAddsUp == ClassAddsUp /\ StudentAddsUp /\ CardsAddUp /\ WindowAddsUp

(* The student was removed and added again, or had an enrollment in the class
   deleted: the confirmation may come upon what is left of it. *)
Returned(m, c) ==
    \/ <<m, c>> \in erased
    \/ \E n \in Members : UserOf[n] = UserOf[m] /\ member[n] = "removed"

(* What is shown as live is what may be confirmed: a student sees exactly the
   calls of active classes that a confirmation may accept, next to those already
   confirmed, and one of a student who has not returned is sure to be let
   through (one who has may be refused instead: EntitledIsAdmitted).  They are
   among the calls the institution sees; and the one call a class shows is all
   of them. *)
LiveListsAgree ==
    /\ \A m \in Students, s \in SessionIds :
         /\ record[s][m] = "none" =>
              (s \in LiveForStudent(m)
                 <=> MayConfirm(m, s) /\ class[session[s].class] = "active")
         /\ s \in LiveForStudent(m) =>
              ((\A row \in Context(m, session[s].class) : Admits(row))
                 <=> ~Returned(m, session[s].class))
    /\ \A m \in Members : LiveForStudent(m) \subseteq LiveInTenant(None)
    /\ \A c \in Classes : class[c] = "active" =>
         /\ LatestLive(c) = LiveInTenant(None) \intersect SessionsIn(c)
         /\ ClassSummary(c).live <=> Cardinality(LatestLive(c)) = 1
    /\ ClassMetrics(None).live = Cardinality(ClassPage(None, "live"))
    /\ (\A c \in Classes : class[c] # "inactive") =>
         ClassMetrics(None).live = Cardinality(LiveInTenant(None))

=============================================================================
