------------------------- MODULE AttendanceSessions -------------------------
(***************************************************************************)
(* Roll calls ("attendance sessions") as the database transactions that    *)
(* open, close, cancel and expire them.                                    *)
(*                                                                         *)
(* Every HTTP request is one transaction at PostgreSQL's READ COMMITTED:   *)
(* it reads committed rows, decides on what it read, writes, publishes its *)
(* event and commits after the answer was sent (get_db).  Between any two  *)
(* of those statements other requests and the Celery task run.  rows holds *)
(* what is committed; what a transaction has written and not committed is  *)
(* in its own record and protected by the row lock its UPDATE took.        *)
(*                                                                         *)
(* Permission, room and existence checks that come before the first read   *)
(* of a session refuse a request without changing anything: a refused      *)
(* request is one that never starts here.                                  *)
(***************************************************************************)
EXTENDS Naturals, Orm

CONSTANTS Sessions,     \* the ids uuid4() hands out
          Classes,      \* subject classes
          ClassOf,      \* the class a session id is created for: never updated
          Requests,     \* requests the API serves at the same time
          Sweeps,       \* close_expired_sessions tasks that may overlap
          Nobody,       \* the owner of a row that is not locked
          NoSession,    \* the session of an idle request
          Durations,    \* duration_minutes, in clock ticks
          MaxClock,     \* bound: the last tick
          MaxFailures   \* bound: aborted transactions and failed handlers

ASSUME SessionsAssumption ==
    /\ NoSession \notin Sessions
    /\ ClassOf \in [Sessions -> Classes]
ASSUME OwnersAssumption ==
    /\ Nobody \notin Requests \union Sweeps
    /\ Requests \intersect Sweeps = {}
ASSUME TimeAssumption ==
    /\ Durations \subseteq Nat \ {0}
    /\ MaxClock \in Nat
    /\ MaxFailures \in Nat

VARIABLES clock,        \* datetime.now(timezone.utc)
          rows,         \* attendance_sessions, committed
          lock,         \* lock[s]: the transaction whose UPDATE holds row s
          req,          \* req[r]: where request r is, and what it read
          sweep,        \* sweep[t]: where task t is, and what it selected
          pushes,       \* announcements made to the devices of the class, see Publish
          failures      \* failures so far

vars == <<clock, rows, lock, req, sweep, pushes, failures>>

-----------------------------------------------------------------------------
(* Types and null records *)

Ended == {"closed", "cancelled"}
Columns == {"status", "expires", "closedAt"}

(* closedAt stands for closed_at and updated_at: only whether closed_at is
   set matters here. *)
Row == [status : {"absent", "open"} \union Ended,
        expires : Nat,
        closedAt : BOOLEAN]

(* The deadlines a call can get. *)
Deadlines == {c + d : c \in 0..MaxClock, d \in Durations}

AbsentRow == [status |-> "absent", expires |-> 0, closedAt |-> FALSE]

(* entity: the domain object in the use case's hands; cols: the columns its
   save() will write. *)
Request == [step : {"idle", "looked", "merged", "saved", "published"},
            op : {"none", "open", "close", "cancel"},
            sid : Sessions \union {NoSession},
            entity : Row,
            cols : SUBSET Columns]

IdleRequest == [step |-> "idle", op |-> "none", sid |-> NoSession,
                entity |-> AbsentRow, cols |-> {}]

(* A request that has read a row, and one that has changed what it read. *)
Looked(op, s, seen) ==
    [step |-> "looked", op |-> op, sid |-> s, entity |-> seen, cols |-> {}]
Holding(q, step, entity, cols) ==
    [q EXCEPT !.step = step, !.entity = entity, !.cols = cols]

Sweep == [step : {"idle", "found", "flushed"},
          due : SUBSET Sessions,
          told : SUBSET Sessions]

IdleSweep == [step |-> "idle", due |-> {}, told |-> {}]

Pushes == {"opened", "closed"} \X Sessions

TypeOK ==
    /\ clock \in 0..MaxClock
    /\ rows \in [Sessions -> Row]
    /\ lock \in [Sessions -> Requests \union Sweeps \union {Nobody}]
    /\ req \in [Requests -> Request]
    /\ sweep \in [Sweeps -> Sweep]
    /\ pushes \subseteq Pushes
    /\ failures \in 0..MaxFailures

Init ==
    /\ clock = 0
    /\ rows = [s \in Sessions |-> AbsentRow]
    /\ lock = [s \in Sessions |-> Nobody]
    /\ req = [r \in Requests |-> IdleRequest]
    /\ sweep = [t \in Sweeps |-> IdleSweep]
    /\ pushes = {}
    /\ failures = 0

-----------------------------------------------------------------------------
(* The domain entity *)

IsOpen(row) == row.status = "open"
IsExpired(row) == row.expires <= clock
Opened(d) == [status |-> "open", expires |-> clock + d, closedAt |-> FALSE]

(* Faulty variants, kept for mutation testing: each must break a property. *)
CancelMisspelt(row) == [row EXCEPT !.status = "canceled", !.closedAt = TRUE]
CloseReopens(row) == [row EXCEPT !.status = "open", !.closedAt = TRUE]

Close(row) == [row EXCEPT !.status = "closed", !.closedAt = TRUE]
Cancel(row) == [row EXCEPT !.status = "cancelled", !.closedAt = TRUE]

-----------------------------------------------------------------------------
(* Opening a call *)

OpenRows(c) == {s \in Sessions : ClassOf[s] = c /\ IsOpen(rows[s])}

(* An id nobody uses: uuid4() gives each new session its own. *)
Fresh(s) ==
    /\ rows[s].status = "absent"
    /\ \A r \in Requests : req[r].sid # s

(* find_open_session_by_class: the OPEN row, or none. *)
Found(c) == IF OpenRows(c) = {} THEN {AbsentRow} ELSE {rows[a] : a \in OpenRows(c)}

(* For the class of the future session s.  With two OPEN rows
   scalar_one_or_none raises and the request ends in a 500. *)
OpenLookup(r, s) ==
    /\ req[r].step = "idle"
    /\ Fresh(s)
    /\ \A a, b \in OpenRows(ClassOf[s]) : a = b
    /\ \E seen \in Found(ClassOf[s]) :
         req' = [req EXCEPT ![r] = Looked("open", s, seen)]
    /\ UNCHANGED <<clock, rows, lock, sweep, pushes, failures>>

(* Faulty variant: the guard is dropped. *)
LiveCallIgnored(r) == FALSE

LiveCallSeen(r) == IsOpen(req[r].entity) /\ ~IsExpired(req[r].entity)

OpenRefused(r) ==
    /\ req[r].step = "looked" /\ req[r].op = "open"
    /\ LiveCallSeen(r)
    /\ req' = [req EXCEPT ![r] = IdleRequest]
    /\ UNCHANGED <<clock, rows, lock, sweep, pushes, failures>>

(* The new session is INSERTed and flushed, not committed. *)
OpenInsert(r) ==
    /\ req[r].step = "looked" /\ req[r].op = "open"
    /\ ~LiveCallSeen(r)
    /\ \E d \in Durations :
         req' = [req EXCEPT ![r] = Holding(@, "saved", Opened(d), Columns)]
    /\ UNCHANGED <<clock, rows, lock, sweep, pushes, failures>>

-----------------------------------------------------------------------------
(* Closing and cancelling a call *)

(* find_by_id_and_class: the status the use case will decide on. *)
FindSession(r, s, op) ==
    /\ req[r].step = "idle"
    /\ rows[s].status # "absent"
    /\ req' = [req EXCEPT ![r] = Looked(op, s, rows[s])]
    /\ UNCHANGED <<clock, rows, lock, sweep, pushes, failures>>

CloseRefused(row) == row.status = "closed"
CancelRefused(row) == row.status \in Ended

EndRefused(r) ==
    /\ req[r].step = "looked"
    /\ \/ req[r].op = "close" /\ CloseRefused(req[r].entity)
       \/ req[r].op = "cancel" /\ CancelRefused(req[r].entity)
    /\ req' = [req EXCEPT ![r] = IdleRequest]
    /\ UNCHANGED <<clock, rows, lock, sweep, pushes, failures>>

(* The use case changes the entity it read, save() merges it with the row as
   committed now.  updated_at always differs, so closedAt is always written. *)
MergeEnded(r, ended) ==
    req' = [req EXCEPT ![r] = Holding(@, "merged", ended,
                                      Dirty(ended, rows[req[r].sid]) \union {"closedAt"})]

CloseMerge(r) ==
    /\ req[r].step = "looked" /\ req[r].op = "close"
    /\ ~CloseRefused(req[r].entity)
    /\ MergeEnded(r, Close(req[r].entity))
    /\ UNCHANGED <<clock, rows, lock, sweep, pushes, failures>>

CancelMerge(r) ==
    /\ req[r].step = "looked" /\ req[r].op = "cancel"
    /\ ~CancelRefused(req[r].entity)
    /\ MergeEnded(r, Cancel(req[r].entity))
    /\ UNCHANGED <<clock, rows, lock, sweep, pushes, failures>>

(* flush: the UPDATE waits while another transaction holds the row. *)
Update(r) ==
    /\ req[r].step = "merged"
    /\ lock[req[r].sid] = Nobody
    /\ lock' = [lock EXCEPT ![req[r].sid] = r]
    /\ req' = [req EXCEPT ![r].step = "saved"]
    /\ UNCHANGED <<clock, rows, sweep, pushes, failures>>

-----------------------------------------------------------------------------
(* The end of a request: event, then commit *)

EventOf(op) == IF op = "open" THEN "opened" ELSE "closed"

(* Opening and closing publish; the handler looks up the devices of the class
   and, if there are any, enqueues the push to them, before the transaction
   commits.  pushes holds the announcements made in this way, those of a class
   without a device included. *)
Publish(r) ==
    /\ req[r].step = "saved" /\ req[r].op # "cancel"
    /\ pushes' = pushes \union {<<EventOf(req[r].op), req[r].sid>>}
    /\ req' = [req EXCEPT ![r].step = "published"]
    /\ UNCHANGED <<clock, rows, lock, sweep, failures>>

(* A handler that raises is logged and forgotten: nothing is announced. *)
PublishLost(r) ==
    /\ req[r].step = "saved" /\ req[r].op # "cancel"
    /\ failures < MaxFailures
    /\ failures' = failures + 1
    /\ req' = [req EXCEPT ![r].step = "published"]
    /\ UNCHANGED <<clock, rows, lock, sweep, pushes>>

ReadyToCommit(r) ==
    \/ req[r].step = "published"
    \/ req[r].step = "saved" /\ req[r].op = "cancel"

Release(owner) == [s \in Sessions |-> IF lock[s] = owner THEN Nobody ELSE lock[s]]

Commit(r) ==
    /\ ReadyToCommit(r)
    /\ rows' = [rows EXCEPT ![req[r].sid] = Overwrite(@, req[r].entity, req[r].cols)]
    /\ lock' = Release(r)
    /\ req' = [req EXCEPT ![r] = IdleRequest]
    /\ UNCHANGED <<clock, sweep, pushes, failures>>

(* An exception, a lost connection or a killed process: rollback. *)
Abort(r) ==
    /\ req[r].step # "idle"
    /\ failures < MaxFailures
    /\ failures' = failures + 1
    /\ lock' = Release(r)
    /\ req' = [req EXCEPT ![r] = IdleRequest]
    /\ UNCHANGED <<clock, rows, sweep, pushes>>

-----------------------------------------------------------------------------
(* attendance.close_expired_sessions, every minute *)

(* Faulty variant: the select forgets expires_at. *)
DueEveryOpen == {s \in Sessions : IsOpen(rows[s])}

Due == {s \in Sessions : IsOpen(rows[s]) /\ IsExpired(rows[s])}

SweepFind(t) ==
    /\ sweep[t].step = "idle"
    /\ Due # {}
    /\ sweep' = [sweep EXCEPT ![t] = [step |-> "found", due |-> Due, told |-> {}]]
    /\ UNCHANGED <<clock, rows, lock, req, pushes, failures>>

(* One UPDATE per row, in primary key order.  Every other transaction touches
   a single row, so taking the locks together has the same outcomes. *)
SweepFlush(t) ==
    /\ sweep[t].step = "found"
    /\ \A s \in sweep[t].due : lock[s] = Nobody
    /\ lock' = [s \in Sessions |-> IF s \in sweep[t].due THEN t ELSE lock[s]]
    /\ sweep' = [sweep EXCEPT ![t].step = "flushed"]
    /\ UNCHANGED <<clock, rows, req, pushes, failures>>

(* Faulty variant: handler failures are swallowed, as in the dispatcher. *)
SweepNotifySwallowing(t, s) ==
    /\ sweep[t].step = "flushed"
    /\ s \in sweep[t].due \ sweep[t].told
    /\ \E told \in SUBSET {<<"closed", s>>} : pushes' = pushes \union told
    /\ sweep' = [sweep EXCEPT ![t].told = @ \union {s}]
    /\ UNCHANGED <<clock, rows, lock, req, failures>>

(* The handler is called directly: if it raises, the whole task rolls back
   (SweepAbort), and what was announced already stays announced. *)
SweepNotify(t, s) ==
    /\ sweep[t].step = "flushed"
    /\ s \in sweep[t].due \ sweep[t].told
    /\ pushes' = pushes \union {<<"closed", s>>}
    /\ sweep' = [sweep EXCEPT ![t].told = @ \union {s}]
    /\ UNCHANGED <<clock, rows, lock, req, failures>>

(* Only status is written: closed_at stays NULL. *)
SweepCommit(t) ==
    /\ sweep[t].step = "flushed"
    /\ sweep[t].told = sweep[t].due
    /\ rows' = [s \in Sessions |->
                  IF s \in sweep[t].due
                  THEN Overwrite(rows[s], Close(rows[s]), {"status"})
                  ELSE rows[s]]
    /\ lock' = Release(t)
    /\ sweep' = [sweep EXCEPT ![t] = IdleSweep]
    /\ UNCHANGED <<clock, req, pushes, failures>>

(* Faulty variant: a task that fails never runs again. *)
SweepAbortForGood(t) ==
    /\ sweep[t].step # "idle"
    /\ failures < MaxFailures
    /\ failures' = failures + 1
    /\ lock' = Release(t)
    /\ sweep' = [sweep EXCEPT ![t] = [IdleSweep EXCEPT !.step = "dead"]]
    /\ UNCHANGED <<clock, rows, req, pushes>>

SweepAbort(t) ==
    /\ sweep[t].step # "idle"
    /\ failures < MaxFailures
    /\ failures' = failures + 1
    /\ lock' = Release(t)
    /\ sweep' = [sweep EXCEPT ![t] = IdleSweep]
    /\ UNCHANGED <<clock, rows, req, pushes>>

-----------------------------------------------------------------------------

Tick ==
    /\ clock < MaxClock
    /\ clock' = clock + 1
    /\ UNCHANGED <<rows, lock, req, sweep, pushes, failures>>

RequestStep(r) ==
    \/ OpenRefused(r) \/ OpenInsert(r)
    \/ EndRefused(r) \/ CloseMerge(r) \/ CancelMerge(r) \/ Update(r)
    \/ Publish(r) \/ PublishLost(r) \/ Commit(r)

RequestNext(r) ==
    \/ \E s \in Sessions : OpenLookup(r, s)
    \/ \E s \in Sessions, op \in {"close", "cancel"} : FindSession(r, s, op)
    \/ RequestStep(r)
    \/ Abort(r)

SweepNext(t) ==
    \/ SweepFind(t) \/ SweepFlush(t) \/ SweepCommit(t) \/ SweepAbort(t)
    \/ \E s \in Sessions : SweepNotify(t, s)

Next ==
    \/ \E r \in Requests : RequestNext(r)
    \/ \E t \in Sweeps : SweepNext(t)
    \/ Tick

Spec == Init /\ [][Next]_vars

(* A request that was started runs to its end, and Celery Beat starts the
   task every minute.  Waiting for a row lock is fair because PostgreSQL
   serves the waiters of a row in order: strong fairness for the two UPDATEs.
   Nothing makes a client send a request or a transaction abort. *)
Fairness ==
    /\ \A r \in Requests : WF_vars(RequestStep(r)) /\ SF_vars(Update(r))
    /\ \A t \in Sweeps :
         /\ WF_vars(SweepFind(t)) /\ SF_vars(SweepFlush(t)) /\ WF_vars(SweepCommit(t))
         /\ WF_vars(\E s \in Sessions : SweepNotify(t, s))

FairSpec == Spec /\ Fairness

-----------------------------------------------------------------------------
(* Properties *)

(* "Uma sessao nunca volta para open": no save of a stale entity, no task
   and no reuse of an id ever puts an ended call back to open. *)
NeverReopened ==
    [][\A s \in Sessions : rows[s].status \in Ended => rows'[s].status \in Ended]_vars

(* At most one call per class accepts confirmations at any time: the 409 of
   the open use case.  Holds while the class is opened by one request at a
   time; nothing in the database enforces it. *)
AtMostOneLive ==
    \A a, b \in Sessions :
        /\ ClassOf[a] = ClassOf[b]
        /\ IsOpen(rows[a]) /\ ~IsExpired(rows[a])
        /\ IsOpen(rows[b]) /\ ~IsExpired(rows[b])
        => a = b

(* The task announces every call it closes before it commits: a CLOSED row
   without closed_at, which only the task leaves behind, was announced to
   whatever devices its class has, whatever handlers failed and however often
   the task was retried. *)
SweptIsAnnounced ==
    \A s \in Sessions :
        rows[s].status = "closed" /\ ~rows[s].closedAt => <<"closed", s>> \in pushes

(* A cancelled call carries closed_at, and an open one does not, whichever
   of close, cancel and the task wrote last. *)
ClosedAtMatchesStatus ==
    \A s \in Sessions :
        /\ rows[s].status = "cancelled" => rows[s].closedAt
        /\ IsOpen(rows[s]) => ~rows[s].closedAt

(* Before its deadline only a request that holds the row's lock ends a call:
   the task never takes a live one, however stale its selection. *)
EarlyEndIsManual ==
    [][\A s \in Sessions :
         /\ IsOpen(rows[s]) /\ ~IsExpired(rows[s])
         /\ rows'[s].status \in Ended
         => lock[s] \in Requests]_vars

(* "open -> closed: unica transicao permitida": an ended call stays as it
   ended.  The code does not keep it (a cancelled call can be closed): it is
   stated as what the plan of the module says, see README. *)
OnlyOpenMoves ==
    [][\A s \in Sessions :
         rows[s].status \in Ended => rows'[s].status = rows[s].status]_vars

(* A push that says a call was opened is about a call that exists, or that
   the publishing request is about to commit.  The code does not keep it once
   a commit fails, see README. *)
AnnouncedWasOpened ==
    \A s \in Sessions :
        <<"opened", s>> \in pushes =>
            \/ rows[s].status # "absent"
            \/ \E r \in Requests : req[r].step = "published" /\ req[r].sid = s

(* A call whose time is up does not stay open, however often the task and
   the requests around it fail (at most MaxFailures times). *)
ExpiredGetsClosed ==
    \A s \in Sessions : (IsOpen(rows[s]) /\ IsExpired(rows[s])) ~> ~IsOpen(rows[s])

(* The committed rows behave as the abstract roll calls do. *)
RC == INSTANCE RollCall WITH
        Calls <- Sessions,
        phase <- [s \in Sessions |-> rows[s].status],
        deadline <- [s \in Sessions |-> rows[s].expires],
        now <- clock

RollCallRefined == RC!RollCallSpec

=============================================================================
