---------------------- MODULE AttendanceSessionsProofs ----------------------
(***************************************************************************)
(* Proofs about AttendanceSessions for any number of sessions, requests    *)
(* and overlapping tasks.                                                  *)
(*                                                                         *)
(* Properties of the committed rows depend on what the transactions in     *)
(* flight are about to write, so each is proved from one inductive         *)
(* invariant, IInv, that ties every open transaction to the row it read.   *)
(***************************************************************************)
EXTENDS AttendanceSessions, TLAPS

EndOps == {"close", "cancel"}
Written == {"merged", "saved", "published"}

(* A step and the operation it belongs to, and the session it works on. *)
StepsInv ==
    \A r \in Requests :
        /\ req[r].step = "idle" => req[r] = IdleRequest
        /\ req[r].step # "idle" => req[r].sid \in Sessions /\ req[r].op # "none"
        /\ req[r].op = "open" => req[r].step # "merged"

(* A request that opens a call owns its id: nobody else has seen it. *)
OpenInv ==
    \A r \in Requests : req[r].op = "open" =>
        /\ rows[req[r].sid].status = "absent"
        /\ \A q \in Requests : req[q].sid = req[r].sid => q = r
        /\ req[r].step \in Written =>
             /\ req[r].entity.status = "open"
             /\ ~req[r].entity.closedAt
             /\ req[r].entity.expires \in Deadlines
             /\ req[r].cols = Columns

(* A request that ends a call works on a row that exists, will not move its
   deadline and will leave it ended, even where another transaction wrote
   the row since it was read. *)
EndInv ==
    \A r \in Requests : req[r].op \in EndOps =>
        /\ rows[req[r].sid].status # "absent"
        /\ req[r].entity.expires = rows[req[r].sid].expires
        /\ req[r].step \in Written =>
             /\ req[r].entity.status \in Ended
             /\ req[r].entity.closedAt
             /\ "closedAt" \in req[r].cols
             /\ "status" \notin req[r].cols => rows[req[r].sid].status \in Ended
        /\ req[r].step \in {"saved", "published"} => lock[req[r].sid] = r

(* What a task selected has expired; what it told the students is announced. *)
SweepInv ==
    \A t \in Sweeps :
        /\ \A s \in sweep[t].due : rows[s].status # "absent" /\ rows[s].expires <= clock
        /\ \A s \in sweep[t].told : <<"closed", s>> \in pushes

IInv ==
    /\ TypeOK
    /\ StepsInv
    /\ OpenInv
    /\ EndInv
    /\ SweepInv
    /\ SweptIsAnnounced
    /\ ClosedAtMatchesStatus

-----------------------------------------------------------------------------
(* Lemmas on what a step does to a row and to the locks *)

LEMMA OverwriteIsRow ==
    ASSUME NEW row \in Row, NEW entity \in Row, NEW cols
    PROVE  /\ Overwrite(row, entity, cols) \in Row
           /\ \A c \in Columns :
                Overwrite(row, entity, cols)[c] = IF c \in cols THEN entity[c] ELSE row[c]
<1> DEFINE new == Overwrite(row, entity, cols)
<1>1. DOMAIN row = Columns
  BY DEF Row, Columns
<1>2. new = [c \in Columns |-> IF c \in cols THEN entity[c] ELSE row[c]]
  BY <1>1 DEF Overwrite
<1>3. new.status \in {"absent", "open"} \union Ended /\ new.expires \in Nat
      /\ new.closedAt \in BOOLEAN
  BY <1>2 DEF Row, Columns
<1>4. new = [status |-> new.status, expires |-> new.expires, closedAt |-> new.closedAt]
  BY <1>2 DEF Columns
<1> QED
  BY <1>2, <1>3, <1>4 DEF Row

LEMMA EndedIsRow ==
    ASSUME NEW row \in Row
    PROVE  /\ Close(row) \in Row
           /\ Close(row).status = "closed" /\ Close(row).closedAt
           /\ Close(row).expires = row.expires
           /\ Cancel(row) \in Row
           /\ Cancel(row).status = "cancelled" /\ Cancel(row).closedAt
           /\ Cancel(row).expires = row.expires
BY DEF Close, Cancel, Row, Ended

LEMMA IdleIsRequest == IdleRequest \in Request /\ AbsentRow \in Row
BY DEF IdleRequest, AbsentRow, Request, Row, Columns

LEMMA RequestRecords ==
    /\ \A op \in {"open", "close", "cancel"}, s \in Sessions, seen \in Row :
         Looked(op, s, seen) \in Request
    /\ \A q \in Request, step \in Written, entity \in Row, cols \in SUBSET Columns :
         /\ Holding(q, step, entity, cols) \in Request
         /\ Holding(q, step, entity, cols).step = step
         /\ Holding(q, step, entity, cols).op = q.op
         /\ Holding(q, step, entity, cols).sid = q.sid
         /\ Holding(q, step, entity, cols).entity = entity
         /\ Holding(q, step, entity, cols).cols = cols
    /\ \A q \in Request, step \in Written :
         [q EXCEPT !.step = step] \in Request
<1>1. \A op \in {"open", "close", "cancel"}, s \in Sessions, seen \in Row :
        Looked(op, s, seen) \in Request
  BY DEF Looked, Request
<1>2. ASSUME NEW q \in Request, NEW step \in Written, NEW entity \in Row,
             NEW cols \in SUBSET Columns
      PROVE  /\ Holding(q, step, entity, cols) \in Request
             /\ Holding(q, step, entity, cols).step = step
             /\ Holding(q, step, entity, cols).op = q.op
             /\ Holding(q, step, entity, cols).sid = q.sid
             /\ Holding(q, step, entity, cols).entity = entity
             /\ Holding(q, step, entity, cols).cols = cols
  BY <1>2 DEF Holding, Request, Written
<1>3. ASSUME NEW q \in Request, NEW step \in Written
      PROVE  [q EXCEPT !.step = step] \in Request
  BY <1>3 DEF Request, Written
<1> QED
  BY <1>1, <1>2, <1>3

LEMMA OpenedIsRow ==
    ASSUME TypeOK, NEW d \in Durations
    PROVE  Opened(d) \in Row /\ Opened(d).expires \in Deadlines
BY TimeAssumption DEF TypeOK, Opened, Row, Deadlines

(* The entity the merge writes and the columns it marks. *)
LEMMA Merged ==
    ASSUME TypeOK, NEW r \in Requests, req[r].sid \in Sessions,
           CloseMerge(r) \/ CancelMerge(r)
    PROVE  \E ended \in Row, cols \in SUBSET Columns :
             /\ req' = [req EXCEPT ![r] = Holding(@, "merged", ended, cols)]
             /\ ended.status \in Ended /\ ended.closedAt
             /\ ended.expires = req[r].entity.expires
             /\ "closedAt" \in cols
             /\ "status" \notin cols => rows[req[r].sid].status = ended.status
<1>1. req[r].entity \in Row /\ rows[req[r].sid] \in Row
  BY DEF TypeOK, Request
<1>2. PICK ended \in Row :
        /\ MergeEnded(r, ended)
        /\ ended.status \in Ended /\ ended.closedAt
        /\ ended.expires = req[r].entity.expires
  BY <1>1, EndedIsRow DEF CloseMerge, CancelMerge, Ended
<1> DEFINE cols == Dirty(ended, rows[req[r].sid]) \union {"closedAt"}
<1>3. cols \in SUBSET Columns
  BY <1>1 DEF Dirty, Row, Columns
<1>4. "status" \notin cols => rows[req[r].sid].status = ended.status
  BY <1>1 DEF Dirty, Row
<1> QED
  BY <1>2, <1>3, <1>4 DEF MergeEnded

-----------------------------------------------------------------------------
(* Type correctness, and the shape of a request's record *)

LEMMA TypeInit == Init => TypeOK /\ StepsInv
BY IdleIsRequest, TimeAssumption
   DEF Init, TypeOK, StepsInv, AbsentRow, Row, IdleRequest, IdleSweep, Sweep, Pushes

LEMMA TypeStep == TypeOK /\ StepsInv /\ [Next]_vars => TypeOK'
<1> SUFFICES ASSUME TypeOK, StepsInv, [Next]_vars PROVE TypeOK'
  OBVIOUS
<1> USE IdleIsRequest, RequestRecords, TimeAssumption DEF TypeOK
<1>1. ASSUME NEW r \in Requests, NEW s \in Sessions, OpenLookup(r, s) PROVE TypeOK'
  <2>1. Found(ClassOf[s]) \subseteq Row
    BY DEF Found, OpenRows
  <2> QED
    BY <1>1, <2>1 DEF OpenLookup
<1>2. ASSUME NEW r \in Requests, NEW s \in Sessions, NEW op \in {"close", "cancel"},
             FindSession(r, s, op)
      PROVE  TypeOK'
  BY <1>2 DEF FindSession
<1>3. ASSUME NEW r \in Requests, OpenRefused(r) \/ EndRefused(r) PROVE TypeOK'
  BY <1>3 DEF OpenRefused, EndRefused
<1>4. ASSUME NEW r \in Requests, OpenInsert(r) PROVE TypeOK'
  BY <1>4, OpenedIsRow DEF OpenInsert, Written
<1>5. ASSUME NEW r \in Requests, CloseMerge(r) \/ CancelMerge(r) PROVE TypeOK'
  <2>1. req[r].sid \in Sessions
    BY <1>5 DEF StepsInv, CloseMerge, CancelMerge
  <2>2. UNCHANGED <<clock, rows, lock, sweep, pushes, failures>>
    BY <1>5 DEF CloseMerge, CancelMerge
  <2> QED
    BY <1>5, <2>1, <2>2, Merged DEF Written
<1>6. ASSUME NEW r \in Requests, Update(r) PROVE TypeOK'
  BY <1>6 DEF Update, Written
<1>7. ASSUME NEW r \in Requests, Publish(r) \/ PublishLost(r) PROVE TypeOK'
  <2>1. <<EventOf(req[r].op), req[r].sid>> \in Pushes
    BY <1>7 DEF Publish, PublishLost, StepsInv, EventOf, Pushes
  <2>2. req' = [req EXCEPT ![r] = [req[r] EXCEPT !.step = "published"]]
    BY <1>7 DEF Publish, PublishLost
  <2>3. req' \in [Requests -> Request]
    BY <2>2 DEF Written
  <2>4. failures' \in 0..MaxFailures /\ pushes' \subseteq Pushes
    BY <1>7, <2>1 DEF Publish, PublishLost
  <2> QED
    BY <1>7, <2>3, <2>4 DEF Publish, PublishLost
<1>8. ASSUME NEW r \in Requests, Commit(r) PROVE TypeOK'
  <2>1. req[r].sid \in Sessions /\ req[r].entity \in Row
    BY <1>8 DEF Commit, ReadyToCommit, StepsInv, Request
  <2>2. rows' \in [Sessions -> Row]
    BY <1>8, <2>1, OverwriteIsRow DEF Commit
  <2> QED
    BY <1>8, <2>2 DEF Commit, Release
<1>9. ASSUME NEW r \in Requests, Abort(r) PROVE TypeOK'
  BY <1>9 DEF Abort, Release
<1>10. ASSUME NEW t \in Sweeps, SweepNext(t) PROVE TypeOK'
  <2>1. IdleSweep \in Sweep
    BY DEF IdleSweep, Sweep
  <2>2. CASE SweepFind(t)
    BY <2>2 DEF SweepFind, Due, Sweep
  <2>3. CASE SweepFlush(t)
    BY <2>3 DEF SweepFlush, Sweep
  <2>4. ASSUME NEW s \in Sessions, SweepNotify(t, s) PROVE TypeOK'
    BY <2>4 DEF SweepNotify, Sweep, Pushes
  <2>5. CASE SweepCommit(t)
    <3>1. rows' \in [Sessions -> Row]
      BY <2>5, OverwriteIsRow, EndedIsRow DEF SweepCommit
    <3> QED
      BY <2>1, <2>5, <3>1 DEF SweepCommit, Release
  <2>6. CASE SweepAbort(t)
    BY <2>1, <2>6 DEF SweepAbort, Release
  <2> QED
    BY <1>10, <2>2, <2>3, <2>4, <2>5, <2>6 DEF SweepNext
<1>11. CASE Tick
  BY <1>11 DEF Tick
<1>12. CASE UNCHANGED vars
  BY <1>12 DEF vars
<1> QED
  BY <1>1, <1>2, <1>3, <1>4, <1>5, <1>6, <1>7, <1>8, <1>9, <1>10, <1>11, <1>12
     DEF Next, RequestNext, RequestStep

-----------------------------------------------------------------------------
(* The parts of the inductive invariant, one lemma each *)

(* Committing: the row of the request is the only one to change.  An open
   request leaves a new open row, another leaves an ended row with closed_at
   set and its deadline unmoved. *)
LEMMA CommitRows ==
    ASSUME TypeOK, StepsInv, OpenInv, EndInv, NEW r \in Requests, Commit(r)
    PROVE  /\ req[r].sid \in Sessions
           /\ req[r].op \in {"open"} \union EndOps
           /\ req' = [req EXCEPT ![r] = IdleRequest]
           /\ \A s \in Sessions : s # req[r].sid => rows'[s] = rows[s]
           /\ req[r].op = "open" =>
                /\ rows[req[r].sid].status = "absent"
                /\ rows'[req[r].sid] = req[r].entity
                /\ req[r].entity.status = "open" /\ ~req[r].entity.closedAt
           /\ req[r].op \in EndOps =>
                /\ rows[req[r].sid].status # "absent"
                /\ rows'[req[r].sid].status \in Ended
                /\ rows'[req[r].sid].closedAt
                /\ rows'[req[r].sid].expires = rows[req[r].sid].expires
                /\ lock[req[r].sid] = r
<1> DEFINE s == req[r].sid
           new == Overwrite(rows[s], req[r].entity, req[r].cols)
<1>1. s \in Sessions /\ req[r].entity \in Row /\ req[r].step \in {"saved", "published"}
      /\ req[r].op \in {"open"} \union EndOps
  BY DEF TypeOK, Request, StepsInv, Commit, ReadyToCommit, EndOps
<1>2. rows[s] \in Row
  BY <1>1 DEF TypeOK
<1>3. /\ rows' = [rows EXCEPT ![s] = new]
      /\ req' = [req EXCEPT ![r] = IdleRequest]
  BY DEF Commit
<1>4. rows'[s] = new /\ \A u \in Sessions : u # s => rows'[u] = rows[u]
  BY <1>1, <1>3 DEF TypeOK
<1>5. new \in Row /\ \A c \in Columns : new[c] = IF c \in req[r].cols THEN req[r].entity[c] ELSE rows[s][c]
  BY <1>1, <1>2, OverwriteIsRow
<1>6. ASSUME req[r].op = "open"
      PROVE  /\ rows[s].status = "absent" /\ new = req[r].entity
             /\ req[r].entity.status = "open" /\ ~req[r].entity.closedAt
  <2>1. rows[s].status = "absent" /\ req[r].cols = Columns
        /\ req[r].entity.status = "open" /\ ~req[r].entity.closedAt
    BY <1>1, <1>6 DEF OpenInv, Written
  <2>2. new.status = req[r].entity.status /\ new.expires = req[r].entity.expires
        /\ new.closedAt = req[r].entity.closedAt
    BY <1>5, <2>1 DEF Columns
  <2>3. new = req[r].entity
    BY <1>1, <1>5, <2>2 DEF Row
  <2> QED
    BY <2>1, <2>3
<1>7. ASSUME req[r].op \in EndOps
      PROVE  /\ rows[s].status # "absent" /\ new.status \in Ended /\ new.closedAt
             /\ new.expires = rows[s].expires /\ lock[s] = r
  <2>1. /\ rows[s].status # "absent" /\ lock[s] = r
        /\ req[r].entity.expires = rows[s].expires
        /\ req[r].entity.status \in Ended /\ req[r].entity.closedAt
        /\ "closedAt" \in req[r].cols
        /\ "status" \notin req[r].cols => rows[s].status \in Ended
    BY <1>1, <1>7 DEF EndInv, Written
  <2> QED
    BY <1>5, <2>1 DEF Columns
<1> QED
  BY <1>1, <1>3, <1>4, <1>6, <1>7

(* The task's commit closes what it selected and touches nothing else. *)
LEMMA SweepRows ==
    ASSUME TypeOK, NEW t \in Sweeps, SweepCommit(t)
    PROVE  \A s \in Sessions :
             /\ rows'[s].expires = rows[s].expires
             /\ rows'[s].closedAt = rows[s].closedAt
             /\ s \in sweep[t].due => rows'[s].status = "closed"
             /\ s \notin sweep[t].due => rows'[s] = rows[s]
<1>1. ASSUME NEW s \in Sessions, s \in sweep[t].due
      PROVE  /\ rows'[s].expires = rows[s].expires
             /\ rows'[s].closedAt = rows[s].closedAt
             /\ rows'[s].status = "closed"
  <2>1. rows'[s] = Overwrite(rows[s], Close(rows[s]), {"status"})
    BY <1>1 DEF SweepCommit
  <2>2. rows[s] \in Row
    BY DEF TypeOK
  <2> QED
    BY <2>1, <2>2, OverwriteIsRow, EndedIsRow DEF Columns
<1>2. ASSUME NEW s \in Sessions, s \notin sweep[t].due PROVE rows'[s] = rows[s]
  BY <1>2 DEF SweepCommit
<1> QED
  BY <1>1, <1>2

(* What a task does apart from committing leaves the table alone. *)
LEMMA SweepQuiet ==
    ASSUME NEW t \in Sweeps, SweepNext(t)
    PROVE  /\ SweepCommit(t) \/ rows' = rows
           /\ req' = req /\ clock' = clock
           /\ pushes \subseteq pushes'
<1>1. CASE \E s \in Sessions : SweepNotify(t, s)
  BY <1>1 DEF SweepNotify
<1>2. CASE ~\E s \in Sessions : SweepNotify(t, s)
  BY <1>2 DEF SweepNext, SweepFind, SweepFlush, SweepCommit, SweepAbort
<1> QED
  BY <1>1, <1>2

LEMMA StepsStep ==
    TypeOK /\ StepsInv /\ OpenInv /\ EndInv /\ SweepInv /\ [Next]_vars => StepsInv'
<1> SUFFICES ASSUME TypeOK, StepsInv, OpenInv, EndInv, SweepInv, [Next]_vars
             PROVE  StepsInv'
  OBVIOUS
<1> USE DEF TypeOK, StepsInv, StepsInv
<1>1. ASSUME NEW r \in Requests, NEW s \in Sessions, OpenLookup(r, s)
      PROVE  StepsInv'
  BY <1>1 DEF OpenLookup, IdleRequest, Looked, Written, Holding
<1>2. ASSUME NEW r \in Requests, NEW s \in Sessions, NEW op \in EndOps, FindSession(r, s, op)
      PROVE  StepsInv'
  BY <1>2 DEF FindSession, IdleRequest, Looked, EndOps
<1>3. ASSUME NEW r \in Requests, OpenRefused(r) \/ EndRefused(r)
      PROVE  StepsInv'
  <2>1. CASE OpenRefused(r)
    BY <2>1 DEF OpenRefused, IdleRequest, Looked, Written, Holding
  <2>2. CASE EndRefused(r)
    BY <2>2 DEF EndRefused, IdleRequest, Looked, Written, Holding
  <2> QED
    BY <1>3, <2>1, <2>2
<1>4. ASSUME NEW r \in Requests, OpenInsert(r)
      PROVE  StepsInv'
  BY <1>4 DEF OpenInsert, IdleRequest, Looked, Written, Holding
<1>5. ASSUME NEW r \in Requests, CloseMerge(r) \/ CancelMerge(r)
      PROVE  StepsInv'
  <2>1. req[r].sid \in Sessions
    BY <1>5 DEF CloseMerge, CancelMerge
  <2>2. UNCHANGED <<clock, rows, lock, sweep, pushes, failures>>
    BY <1>5 DEF CloseMerge, CancelMerge
  <2>3. PICK ended \in Row, cols \in SUBSET Columns :
          /\ req' = [req EXCEPT ![r] = Holding(@, "merged", ended, cols)]
          /\ ended.status \in Ended /\ ended.closedAt
          /\ ended.expires = req[r].entity.expires
          /\ "closedAt" \in cols
          /\ "status" \notin cols => rows[req[r].sid].status = ended.status
    BY <1>5, <2>1, Merged
  <2> QED
    BY <1>5, <2>1, <2>2, <2>3 DEF CloseMerge, CancelMerge, Holding, IdleRequest, Looked, Written, Holding
<1>6. ASSUME NEW r \in Requests, Update(r)
      PROVE  StepsInv'
  BY <1>6 DEF Update, IdleRequest, Looked, Written, Holding
<1>7. ASSUME NEW r \in Requests, Publish(r) \/ PublishLost(r)
      PROVE  StepsInv'
  <2>1. CASE Publish(r)
    BY <2>1 DEF Publish, IdleRequest, Looked, Written, Holding
  <2>2. CASE PublishLost(r)
    BY <2>2 DEF PublishLost, IdleRequest, Looked, Written, Holding
  <2> QED
    BY <1>7, <2>1, <2>2
<1>8. ASSUME NEW r \in Requests, Commit(r)
      PROVE  StepsInv'
  BY <1>8 DEF Commit, IdleRequest, Looked, Written, Holding
<1>9. ASSUME NEW r \in Requests, Abort(r)
      PROVE  StepsInv'
  BY <1>9 DEF Abort, Release, IdleRequest, Looked, Written, Holding
<1>10. ASSUME NEW t \in Sweeps, SweepNext(t)
      PROVE  StepsInv'
  BY <1>10 DEF SweepNext, SweepFind, SweepFlush, SweepNotify, SweepCommit, SweepAbort, IdleRequest, Looked, Written, Holding
<1>11. CASE Tick \/ UNCHANGED vars
  BY <1>11 DEF Tick, vars
<1> QED
  BY <1>1, <1>2, <1>3, <1>4, <1>5, <1>6, <1>7, <1>8, <1>9, <1>10, <1>11
     DEF Next, RequestNext, RequestStep, EndOps

LEMMA OpenStep ==
    TypeOK /\ StepsInv /\ OpenInv /\ EndInv /\ SweepInv /\ [Next]_vars => OpenInv'
<1> SUFFICES ASSUME TypeOK, StepsInv, OpenInv, EndInv, SweepInv, [Next]_vars
             PROVE  OpenInv'
  OBVIOUS
<1> USE DEF TypeOK, StepsInv, OpenInv
<1>1. ASSUME NEW r \in Requests, NEW s \in Sessions, OpenLookup(r, s)
      PROVE  OpenInv'
  BY <1>1 DEF OpenLookup, IdleRequest, Looked, Written, Holding, Fresh
<1>2. ASSUME NEW r \in Requests, NEW s \in Sessions, NEW op \in EndOps, FindSession(r, s, op)
      PROVE  OpenInv'
  BY <1>2 DEF FindSession, Looked, EndOps
<1>3. ASSUME NEW r \in Requests, OpenRefused(r) \/ EndRefused(r)
      PROVE  OpenInv'
  <2>1. req' = [req EXCEPT ![r] = IdleRequest] /\ rows' = rows
    BY <1>3 DEF OpenRefused, EndRefused
  <2> QED
    BY <2>1, SessionsAssumption DEF IdleRequest
<1>4. ASSUME NEW r \in Requests, OpenInsert(r)
      PROVE  OpenInv'
  <2>1. PICK d \in Durations : req' = [req EXCEPT ![r] = Holding(@, "saved", Opened(d), Columns)]
    BY <1>4 DEF OpenInsert
  <2>2. Opened(d).status = "open" /\ ~Opened(d).closedAt
        /\ Opened(d).expires \in Deadlines
    BY OpenedIsRow DEF Opened
  <2>3. rows' = rows
    BY <1>4 DEF OpenInsert
  <2> DEFINE h == Holding(req[r], "saved", Opened(d), Columns)
  <2>4. h.op = req[r].op /\ h.sid = req[r].sid /\ h.entity = Opened(d) /\ h.cols = Columns
    BY DEF Holding, Request
  <2> HIDE DEF h
  <2>5. req'[r] = h /\ \A q \in Requests \ {r} : req'[q] = req[q]
    BY <2>1 DEF h
  <2> QED
    BY <2>2, <2>3, <2>4, <2>5
<1>5. ASSUME NEW r \in Requests, CloseMerge(r) \/ CancelMerge(r)
      PROVE  OpenInv'
  <2>1. req[r].sid \in Sessions
    BY <1>5 DEF CloseMerge, CancelMerge
  <2>2. UNCHANGED <<clock, rows, lock, sweep, pushes, failures>>
    BY <1>5 DEF CloseMerge, CancelMerge
  <2>3. PICK ended \in Row, cols \in SUBSET Columns :
          /\ req' = [req EXCEPT ![r] = Holding(@, "merged", ended, cols)]
          /\ ended.status \in Ended /\ ended.closedAt
          /\ ended.expires = req[r].entity.expires
          /\ "closedAt" \in cols
          /\ "status" \notin cols => rows[req[r].sid].status = ended.status
    BY <1>5, <2>1, Merged
  <2> QED
    BY <1>5, <2>1, <2>2, <2>3 DEF CloseMerge, CancelMerge, Holding, IdleRequest, Looked, Written, Holding, Fresh
<1>6. ASSUME NEW r \in Requests, Update(r)
      PROVE  OpenInv'
  BY <1>6 DEF Update, IdleRequest, Looked, Written, Holding, Fresh
<1>7. ASSUME NEW r \in Requests, Publish(r) \/ PublishLost(r)
      PROVE  OpenInv'
  <2>1. CASE Publish(r)
    BY <2>1 DEF Publish, IdleRequest, Looked, Written, Holding, Fresh
  <2>2. CASE PublishLost(r)
    BY <2>2 DEF PublishLost, IdleRequest, Looked, Written, Holding, Fresh
  <2> QED
    BY <1>7, <2>1, <2>2
<1>8. ASSUME NEW r \in Requests, Commit(r)
      PROVE  OpenInv'
  <2>1. ASSUME NEW q \in Requests, req'[q].op = "open" PROVE q # r /\ req'[q] = req[q]
    BY <1>8, <2>1, CommitRows DEF IdleRequest
  <2>2. ASSUME NEW q \in Requests, req'[q].op = "open" PROVE rows'[req[q].sid] = rows[req[q].sid]
    BY <1>8, <2>1, <2>2, CommitRows
  <2>3. \A q \in Requests : req'[q].sid = req[q].sid \/ req'[q].sid = NoSession
    BY <1>8, CommitRows DEF IdleRequest
  <2> QED
    BY <2>1, <2>2, <2>3, SessionsAssumption DEF IdleRequest
<1>9. ASSUME NEW r \in Requests, Abort(r)
      PROVE  OpenInv'
  <2>1. req' = [req EXCEPT ![r] = IdleRequest] /\ rows' = rows
    BY <1>9 DEF Abort
  <2> QED
    BY <2>1, SessionsAssumption DEF IdleRequest
<1>10. ASSUME NEW t \in Sweeps, SweepNext(t)
      PROVE  OpenInv'
  <2>1. CASE rows' = rows
    BY <1>10, <2>1, SweepQuiet
  <2>2. CASE SweepCommit(t)
    <3>1. \A q \in Requests : req[q].op = "open" => req[q].sid \in Sessions \ sweep[t].due
      BY <2>2 DEF SweepInv, IdleRequest
    <3> QED
      BY <1>10, <2>2, <3>1, SweepQuiet, SweepRows
  <2> QED
    BY <1>10, <2>1, <2>2, SweepQuiet
<1>11. CASE Tick \/ UNCHANGED vars
  BY <1>11 DEF Tick, vars
<1> QED
  BY <1>1, <1>2, <1>3, <1>4, <1>5, <1>6, <1>7, <1>8, <1>9, <1>10, <1>11
     DEF Next, RequestNext, RequestStep, EndOps

LEMMA EndStep ==
    TypeOK /\ StepsInv /\ OpenInv /\ EndInv /\ SweepInv /\ [Next]_vars => EndInv'
<1> SUFFICES ASSUME TypeOK, StepsInv, OpenInv, EndInv, SweepInv, [Next]_vars
             PROVE  EndInv'
  OBVIOUS
<1> USE DEF TypeOK, StepsInv, EndInv
<1>1. ASSUME NEW r \in Requests, NEW s \in Sessions, OpenLookup(r, s)
      PROVE  EndInv'
  BY <1>1 DEF OpenLookup, IdleRequest, Looked, Written, Holding, EndOps
<1>2. ASSUME NEW r \in Requests, NEW s \in Sessions, NEW op \in EndOps, FindSession(r, s, op)
      PROVE  EndInv'
  BY <1>2 DEF FindSession, IdleRequest, Looked, Written, Holding, EndOps
<1>3. ASSUME NEW r \in Requests, OpenRefused(r) \/ EndRefused(r)
      PROVE  EndInv'
  BY <1>3 DEF OpenRefused, EndRefused, IdleRequest, Looked, Written, Holding, EndOps
<1>4. ASSUME NEW r \in Requests, OpenInsert(r)
      PROVE  EndInv'
  BY <1>4 DEF OpenInsert, IdleRequest, Looked, Written, Holding, EndOps
<1>5. ASSUME NEW r \in Requests, CloseMerge(r) \/ CancelMerge(r)
      PROVE  EndInv'
  <2>1. req[r].sid \in Sessions
    BY <1>5 DEF CloseMerge, CancelMerge
  <2>2. UNCHANGED <<clock, rows, lock, sweep, pushes, failures>>
    BY <1>5 DEF CloseMerge, CancelMerge
  <2>3. PICK ended \in Row, cols \in SUBSET Columns :
          /\ req' = [req EXCEPT ![r] = Holding(@, "merged", ended, cols)]
          /\ ended.status \in Ended /\ ended.closedAt
          /\ ended.expires = req[r].entity.expires
          /\ "closedAt" \in cols
          /\ "status" \notin cols => rows[req[r].sid].status = ended.status
    BY <1>5, <2>1, Merged
  <2> QED
    BY <1>5, <2>1, <2>2, <2>3 DEF CloseMerge, CancelMerge, Holding, IdleRequest, Looked, Written, Holding, EndOps
<1>6. ASSUME NEW r \in Requests, Update(r)
      PROVE  EndInv'
  <2>1. rows' = rows /\ req' = [req EXCEPT ![r] = [req[r] EXCEPT !.step = "saved"]]
        /\ lock[req[r].sid] = Nobody /\ lock' = [lock EXCEPT ![req[r].sid] = r]
        /\ req[r].step = "merged" /\ req[r].sid \in Sessions
    BY <1>6 DEF Update
  <2>2. lock'[req[r].sid] = r
    BY <2>1
  <2>3. ASSUME NEW q \in Requests, q # r, req[q].op \in EndOps, req[q].step \in {"saved", "published"}
        PROVE  lock'[req[q].sid] = q
    BY <2>1, <2>3, OwnersAssumption
  <2> QED
    BY <2>1, <2>2, <2>3 DEF Written, EndOps, Request
<1>7. ASSUME NEW r \in Requests, Publish(r) \/ PublishLost(r)
      PROVE  EndInv'
  <2>1. req' = [req EXCEPT ![r] = [req[r] EXCEPT !.step = "published"]]
        /\ rows' = rows /\ lock' = lock /\ req[r].step = "saved"
    BY <1>7 DEF Publish, PublishLost
  <2> QED
    BY <2>1 DEF Written, EndOps, Request
<1>8. ASSUME NEW r \in Requests, Commit(r)
      PROVE  EndInv'
  <2>1. ASSUME NEW q \in Requests, req'[q].op \in EndOps
        PROVE  q # r /\ req'[q] = req[q] /\ req[q].op \in EndOps /\ req[q].sid \in Sessions
    BY <1>8, <2>1, CommitRows DEF IdleRequest, EndOps
  <2>2. ASSUME NEW q \in Requests, req'[q].op \in EndOps
        PROVE  /\ rows'[req[q].sid].status # "absent"
               /\ rows'[req[q].sid].expires = rows[req[q].sid].expires
               /\ rows[req[q].sid].status \in Ended => rows'[req[q].sid].status \in Ended
    <3>1. q # r /\ req[q].op \in EndOps /\ req[q].sid \in Sessions
          /\ rows[req[q].sid].status # "absent"
      BY <2>1, <2>2
    <3>2. CASE req[q].sid # req[r].sid
      BY <1>8, <3>1, <3>2, CommitRows
    <3>3. CASE req[q].sid = req[r].sid
      BY <1>8, <3>1, <3>3, CommitRows DEF Ended
    <3> QED
      BY <3>2, <3>3
  <2>3. ASSUME NEW q \in Requests, NEW s \in Sessions, lock[s] = q, q # r PROVE lock'[s] = q
    BY <1>8, <2>3 DEF Commit, Release
  <2> QED
    BY <2>1, <2>2, <2>3
<1>9. ASSUME NEW r \in Requests, Abort(r)
      PROVE  EndInv'
  BY <1>9 DEF Abort, Release, IdleRequest, Looked, Written, Holding, EndOps
<1>10. ASSUME NEW t \in Sweeps, SweepNext(t)
      PROVE  EndInv'
  <2>1. req' = req
    BY <1>10, SweepQuiet
  <2>2. ASSUME NEW s \in Sessions, rows[s].status # "absent"
        PROVE  /\ rows'[s].status # "absent" /\ rows'[s].expires = rows[s].expires
               /\ rows[s].status \in Ended => rows'[s].status \in Ended
    <3>1. CASE rows' = rows
      BY <2>2, <3>1
    <3>2. CASE SweepCommit(t)
      BY <2>2, <3>2, SweepRows DEF Ended
    <3> QED
      BY <1>10, <3>1, <3>2, SweepQuiet
  <2>3. ASSUME NEW s \in Sessions, NEW q \in Requests, lock[s] = q PROVE lock'[s] = q
    BY <1>10, <2>3, OwnersAssumption
       DEF SweepNext, SweepFind, SweepFlush, SweepNotify, SweepCommit, SweepAbort, Release
  <2> QED
    BY <2>1, <2>2, <2>3 DEF IdleRequest, EndOps
<1>11. CASE Tick \/ UNCHANGED vars
  BY <1>11 DEF Tick, vars
<1> QED
  BY <1>1, <1>2, <1>3, <1>4, <1>5, <1>6, <1>7, <1>8, <1>9, <1>10, <1>11
     DEF Next, RequestNext, RequestStep, EndOps

LEMMA SweepStep ==
    TypeOK /\ StepsInv /\ OpenInv /\ EndInv /\ SweepInv /\ [Next]_vars => SweepInv'
<1> SUFFICES ASSUME TypeOK, StepsInv, OpenInv, EndInv, SweepInv, [Next]_vars
             PROVE  SweepInv'
  OBVIOUS
<1> USE DEF TypeOK, StepsInv, SweepInv
<1>1. ASSUME NEW r \in Requests, NEW s \in Sessions, OpenLookup(r, s)
      PROVE  SweepInv'
  BY <1>1 DEF OpenLookup, IdleRequest, Looked, Written, Holding
<1>2. ASSUME NEW r \in Requests, NEW s \in Sessions, NEW op \in EndOps, FindSession(r, s, op)
      PROVE  SweepInv'
  BY <1>2 DEF FindSession, IdleRequest, Looked, Written, Holding
<1>3. ASSUME NEW r \in Requests, OpenRefused(r) \/ EndRefused(r)
      PROVE  SweepInv'
  BY <1>3 DEF OpenRefused, EndRefused, IdleRequest, Looked, Written, Holding
<1>4. ASSUME NEW r \in Requests, OpenInsert(r)
      PROVE  SweepInv'
  BY <1>4 DEF OpenInsert, IdleRequest, Looked, Written, Holding
<1>5. ASSUME NEW r \in Requests, CloseMerge(r) \/ CancelMerge(r)
      PROVE  SweepInv'
  BY <1>5 DEF CloseMerge, CancelMerge, IdleRequest, Looked, Written, Holding
<1>6. ASSUME NEW r \in Requests, Update(r)
      PROVE  SweepInv'
  BY <1>6 DEF Update, IdleRequest, Looked, Written, Holding
<1>7. ASSUME NEW r \in Requests, Publish(r) \/ PublishLost(r)
      PROVE  SweepInv'
  BY <1>7 DEF Publish, PublishLost, IdleRequest, Looked, Written, Holding
<1>8. ASSUME NEW r \in Requests, Commit(r)
      PROVE  SweepInv'
  <2>1. sweep' = sweep /\ pushes' = pushes /\ clock' = clock
    BY <1>8 DEF Commit
  <2>2. ASSUME NEW s \in Sessions, rows[s].status # "absent"
        PROVE  rows'[s].status # "absent" /\ rows'[s].expires = rows[s].expires
    BY <1>8, <2>2, CommitRows DEF Ended
  <2> QED
    BY <2>1, <2>2 DEF Sweep
<1>9. ASSUME NEW r \in Requests, Abort(r)
      PROVE  SweepInv'
  BY <1>9 DEF Abort, Release, IdleRequest, Looked, Written, Holding
<1>10. ASSUME NEW t \in Sweeps, SweepNext(t)
      PROVE  SweepInv'
  <2>1. ASSUME NEW s \in Sessions, rows[s].status # "absent"
        PROVE  rows'[s].status # "absent" /\ rows'[s].expires = rows[s].expires
    BY <1>10, <2>1, SweepQuiet, SweepRows
  <2>2. pushes \subseteq pushes' /\ clock' = clock
    BY <1>10, SweepQuiet
  <2>3. \A u \in Sweeps : u # t => sweep'[u] = sweep[u]
    BY <1>10 DEF SweepNext, SweepFind, SweepFlush, SweepNotify, SweepCommit, SweepAbort
  <2>4. \A s \in sweep'[t].due : s \in Sessions /\ rows[s].status # "absent" /\ rows[s].expires <= clock
    <3>1. CASE SweepFind(t)
      BY <3>1 DEF SweepFind, Due, IsOpen, IsExpired
    <3>2. CASE ~SweepFind(t)
      <4>1. sweep'[t].due = sweep[t].due \/ sweep'[t].due = {}
        BY <1>10, <3>2 DEF SweepNext, SweepFlush, SweepNotify, SweepCommit, SweepAbort, IdleSweep, Sweep
      <4> QED
        BY <4>1 DEF Sweep
    <3> QED
      BY <3>1, <3>2
  <2>5. \A s \in sweep'[t].told : <<"closed", s>> \in pushes'
    <3>1. ASSUME NEW s \in Sessions, SweepNotify(t, s) PROVE \A u \in sweep'[t].told : <<"closed", u>> \in pushes'
      BY <3>1 DEF SweepNotify, Sweep
    <3>2. CASE ~\E s \in Sessions : SweepNotify(t, s)
      <4>1. sweep'[t].told = sweep[t].told \/ sweep'[t].told = {}
        BY <1>10, <3>2 DEF SweepNext, SweepFind, SweepFlush, SweepCommit, SweepAbort, IdleSweep, Sweep
      <4> QED
        BY <2>2, <4>1 DEF Sweep
    <3> QED
      BY <3>1, <3>2
  <2> QED
    BY <2>1, <2>2, <2>3, <2>4, <2>5 DEF Sweep
<1>11. CASE Tick \/ UNCHANGED vars
  <2>1. sweep' = sweep /\ rows' = rows /\ pushes' = pushes /\ clock <= clock'
    BY <1>11, TimeAssumption DEF Tick, vars
  <2>2. clock \in Nat /\ clock' \in Nat
    BY <1>11, TimeAssumption DEF Tick, vars
  <2>3. \A s \in Sessions : rows[s].expires \in Nat
    BY DEF Row
  <2> QED
    BY <2>1, <2>2, <2>3 DEF Sweep
<1> QED
  BY <1>1, <1>2, <1>3, <1>4, <1>5, <1>6, <1>7, <1>8, <1>9, <1>10, <1>11
     DEF Next, RequestNext, RequestStep, EndOps

(* Committed rows change at a commit, and at no other step. *)
LEMMA RowsMove ==
    [Next]_vars =>
        \/ rows' = rows /\ clock' = clock /\ pushes \subseteq pushes'
        \/ \E r \in Requests : Commit(r)
        \/ \E t \in Sweeps : SweepCommit(t)
        \/ Tick
<1> SUFFICES ASSUME [Next]_vars
             PROVE  \/ rows' = rows /\ clock' = clock /\ pushes \subseteq pushes'
                    \/ \E r \in Requests : Commit(r)
                    \/ \E t \in Sweeps : SweepCommit(t)
                    \/ Tick
  OBVIOUS
<1>1. ASSUME NEW r \in Requests, RequestNext(r)
      PROVE  Commit(r) \/ (rows' = rows /\ clock' = clock /\ pushes \subseteq pushes')
  <2>1. CASE \E s \in Sessions : OpenLookup(r, s)
    BY <2>1 DEF OpenLookup
  <2>2. CASE \E s \in Sessions, op \in {"close", "cancel"} : FindSession(r, s, op)
    BY <2>2 DEF FindSession
  <2>3. CASE RequestStep(r) \/ Abort(r)
    BY <2>3 DEF RequestStep, OpenRefused, OpenInsert, EndRefused, CloseMerge, CancelMerge,
                Update, Publish, PublishLost, Abort
  <2> QED
    BY <1>1, <2>1, <2>2, <2>3 DEF RequestNext
<1>2. ASSUME NEW t \in Sweeps, SweepNext(t)
      PROVE  SweepCommit(t) \/ (rows' = rows /\ clock' = clock /\ pushes \subseteq pushes')
  BY <1>2, SweepQuiet
<1>3. CASE UNCHANGED vars
  BY <1>3 DEF vars
<1> QED
  BY <1>1, <1>2, <1>3 DEF Next

(* The two invariants of the committed rows that close_expired_sessions and
   the requests could break together. *)
LEMMA RowsStep == IInv /\ [Next]_vars => SweptIsAnnounced' /\ ClosedAtMatchesStatus'
<1> SUFFICES ASSUME IInv, [Next]_vars PROVE SweptIsAnnounced' /\ ClosedAtMatchesStatus'
  OBVIOUS
<1>1. TypeOK /\ StepsInv /\ OpenInv /\ EndInv /\ SweepInv
      /\ SweptIsAnnounced /\ ClosedAtMatchesStatus
  BY DEF IInv
<1>2. CASE rows' = rows /\ pushes \subseteq pushes'
  BY <1>1, <1>2 DEF SweptIsAnnounced, ClosedAtMatchesStatus, IsOpen
<1>3. ASSUME NEW r \in Requests, Commit(r) PROVE SweptIsAnnounced' /\ ClosedAtMatchesStatus'
  <2>1. pushes' = pushes
    BY <1>3 DEF Commit
  <2>2. req[r].op \in {"open"} \union EndOps
    BY <1>1, <1>3, CommitRows
  <2>3. ASSUME NEW s \in Sessions
        PROVE  /\ rows'[s].status = "closed" /\ ~rows'[s].closedAt => <<"closed", s>> \in pushes
               /\ rows'[s].status = "cancelled" => rows'[s].closedAt
               /\ rows'[s].status = "open" => ~rows'[s].closedAt
    <3>1. CASE s # req[r].sid
      BY <1>1, <1>3, <3>1, CommitRows DEF SweptIsAnnounced, ClosedAtMatchesStatus, IsOpen
    <3>2. CASE s = req[r].sid
      BY <1>1, <1>3, <2>2, <3>2, CommitRows DEF Ended
    <3> QED
      BY <3>1, <3>2
  <2> QED
    BY <2>1, <2>3 DEF SweptIsAnnounced, ClosedAtMatchesStatus, IsOpen
<1>4. ASSUME NEW t \in Sweeps, SweepCommit(t) PROVE SweptIsAnnounced' /\ ClosedAtMatchesStatus'
  <2>1. pushes' = pushes /\ sweep[t].told = sweep[t].due
    BY <1>4 DEF SweepCommit
  <2>2. \A s \in sweep[t].due : <<"closed", s>> \in pushes
    BY <1>1, <2>1 DEF SweepInv
  <2>3. ASSUME NEW s \in Sessions
        PROVE  /\ rows'[s].status = "closed" /\ ~rows'[s].closedAt => <<"closed", s>> \in pushes
               /\ rows'[s].status = "cancelled" => rows'[s].closedAt
               /\ rows'[s].status = "open" => ~rows'[s].closedAt
    <3>1. CASE s \in sweep[t].due
      BY <1>1, <1>4, <2>2, <3>1, SweepRows
    <3>2. CASE s \notin sweep[t].due
      BY <1>1, <1>4, <3>2, SweepRows DEF SweptIsAnnounced, ClosedAtMatchesStatus, IsOpen
    <3> QED
      BY <3>1, <3>2
  <2> QED
    BY <2>1, <2>3 DEF SweptIsAnnounced, ClosedAtMatchesStatus, IsOpen
<1> QED
  BY <1>2, <1>3, <1>4, RowsMove DEF Tick

LEMMA IInvInit == Init => IInv
<1> SUFFICES ASSUME Init PROVE IInv
  OBVIOUS
<1>1. TypeOK /\ StepsInv
  BY TypeInit
<1>2. OpenInv /\ EndInv
  BY DEF Init, OpenInv, EndInv, IdleRequest, EndOps
<1>3. SweepInv /\ SweptIsAnnounced /\ ClosedAtMatchesStatus
  BY DEF Init, SweepInv, SweptIsAnnounced, ClosedAtMatchesStatus, IdleSweep, AbsentRow, IsOpen
<1> QED
  BY <1>1, <1>2, <1>3 DEF IInv

LEMMA IInvStep == IInv /\ [Next]_vars => IInv'
BY TypeStep, StepsStep, OpenStep, EndStep, SweepStep, RowsStep DEF IInv

-----------------------------------------------------------------------------
(* Theorems *)

(* The inductive invariant holds in every reachable state. *)
THEOREM Invariance == Spec => []IInv
BY IInvInit, IInvStep, PTL DEF Spec

(* Every variable keeps its type: in particular every row keeps one of the
   four statuses through any interleaving of saves. *)
THEOREM TypeCorrect == Spec => []TypeOK
<1>1. IInv => TypeOK
  BY DEF IInv
<1> QED
  BY <1>1, Invariance, PTL

(* close_expired_sessions never commits a closing it has not announced. *)
THEOREM SweptCallsAreAnnounced == Spec => []SweptIsAnnounced
<1>1. IInv => SweptIsAnnounced
  BY DEF IInv
<1> QED
  BY <1>1, Invariance, PTL

(* A cancelled call has closed_at, an open one has not. *)
THEOREM ClosedAtIsConsistent == Spec => []ClosedAtMatchesStatus
<1>1. IInv => ClosedAtMatchesStatus
  BY DEF IInv
<1> QED
  BY <1>1, Invariance, PTL

(* An ended call never opens again, whatever stale entity is saved over it. *)
THEOREM EndedStaysEnded == Spec => NeverReopened
<1>1. ASSUME IInv, [Next]_vars, NEW s \in Sessions, rows[s].status \in Ended
      PROVE  rows'[s].status \in Ended
  <2>1. TypeOK /\ StepsInv /\ OpenInv /\ EndInv
    BY <1>1 DEF IInv
  <2>2. ASSUME NEW r \in Requests, Commit(r) PROVE rows'[s].status \in Ended
    <3>1. CASE s # req[r].sid
      BY <1>1, <2>1, <2>2, <3>1, CommitRows
    <3>2. CASE s = req[r].sid
      BY <1>1, <2>1, <2>2, <3>2, CommitRows DEF Ended
    <3> QED
      BY <3>1, <3>2
  <2>3. ASSUME NEW t \in Sweeps, SweepCommit(t) PROVE rows'[s].status \in Ended
    BY <1>1, <2>1, <2>3, SweepRows DEF Ended
  <2> QED
    BY <1>1, <2>2, <2>3, RowsMove DEF Tick
<1>2. IInv /\ [Next]_vars =>
        [\A s \in Sessions : rows[s].status \in Ended => rows'[s].status \in Ended]_vars
  BY <1>1
<1> QED
  BY <1>2, Invariance, PTL DEF Spec, NeverReopened

(* A call that has not expired is ended by a request that locked its row. *)
THEOREM EarlyEndNeedsARequest == Spec => EarlyEndIsManual
<1>1. ASSUME IInv, [Next]_vars, NEW s \in Sessions,
             IsOpen(rows[s]), ~IsExpired(rows[s]), rows'[s].status \in Ended
      PROVE  lock[s] \in Requests
  <2>1. TypeOK /\ StepsInv /\ OpenInv /\ EndInv /\ SweepInv
    BY <1>1 DEF IInv
  <2>2. rows[s].status = "open" /\ rows[s].status \notin Ended /\ ~(rows[s].expires <= clock)
    BY <1>1 DEF IsOpen, IsExpired, Ended
  <2>3. ASSUME NEW r \in Requests, Commit(r) PROVE lock[s] \in Requests
    <3>1. s = req[r].sid
      BY <1>1, <2>1, <2>2, <2>3, CommitRows
    <3> QED
      BY <2>1, <2>2, <2>3, <3>1, CommitRows
  <2>4. ASSUME NEW t \in Sweeps, SweepCommit(t) PROVE FALSE
    <3>1. s \notin sweep[t].due
      BY <2>1, <2>2 DEF SweepInv
    <3> QED
      BY <1>1, <2>1, <2>2, <2>4, <3>1, SweepRows
  <2> QED
    BY <1>1, <2>2, <2>3, <2>4, RowsMove DEF Tick
<1>2. IInv /\ [Next]_vars =>
        [\A s \in Sessions :
           /\ IsOpen(rows[s]) /\ ~IsExpired(rows[s])
           /\ rows'[s].status \in Ended
           => lock[s] \in Requests]_vars
  BY <1>1
<1> QED
  BY <1>2, Invariance, PTL DEF Spec, EarlyEndIsManual

(* The committed rows implement the abstract roll calls. *)
THEOREM RollCallsAreImplemented == Spec => RollCallRefined
<1> DEFINE phase == [s \in Sessions |-> rows[s].status]
           deadline == [s \in Sessions |-> rows[s].expires]
<1>1. Init => RC!RollCallInit
  BY DEF Init, RC!RollCallInit, AbsentRow
<1>2. ASSUME IInv, [Next]_vars PROVE [RC!RollCallNext]_<<phase, deadline, clock>>
  <2>1. TypeOK /\ StepsInv /\ OpenInv /\ EndInv /\ SweepInv
    BY <1>2 DEF IInv
  <2>2. ASSUME NEW r \in Requests, Commit(r)
        PROVE  \E s \in Sessions : RC!Start(s) \/ RC!EndByHand(s)
    <3> DEFINE s == req[r].sid
    <3>1. s \in Sessions /\ clock' = clock /\ \A u \in Sessions : u # s => rows'[u] = rows[u]
      BY <2>1, <2>2, CommitRows DEF Commit
    <3>2. CASE req[r].op = "open"
      <4>1. /\ rows[s].status = "absent"
            /\ rows'[s].status = "open"
            /\ rows'[s].expires = req[r].entity.expires
        BY <2>1, <2>2, <3>2, CommitRows
      <4>2. req[r].entity.expires \in Deadlines
        BY <2>1, <2>2, <3>2 DEF OpenInv, Written, Commit, ReadyToCommit
      <4>3. phase' = [phase EXCEPT ![s] = "open"]
        BY <3>1, <4>1
      <4>4. deadline' = [deadline EXCEPT ![s] = req[r].entity.expires]
        BY <3>1, <4>1
      <4>5. \E d \in Deadlines :
              deadline' = [deadline EXCEPT ![s] = d]
        BY <4>2, <4>4
      <4>6. phase[s] = "absent"
        BY <3>1, <4>1
      <4> QED
        BY <3>1, <4>3, <4>5, <4>6 DEF RC!Start
    <3>3. CASE req[r].op \in EndOps
      <4>1. /\ rows[s].status # "absent"
            /\ rows'[s].status \in Ended
            /\ rows'[s].expires = rows[s].expires
        BY <2>1, <2>2, <3>3, CommitRows
      <4>2. phase' = [phase EXCEPT ![s] = rows'[s].status] /\ deadline' = deadline
        BY <3>1, <4>1
      <4> QED
        BY <3>1, <4>1, <4>2 DEF RC!EndByHand, RC!Ended, Ended
    <3> QED
      BY <2>1, <2>2, <3>2, <3>3, CommitRows
  <2>3. ASSUME NEW t \in Sweeps, SweepCommit(t) PROVE \E S \in SUBSET Sessions : RC!Expire(S)
    <3>1. sweep[t].due \in SUBSET Sessions /\ clock' = clock
      BY <2>1, <2>3 DEF TypeOK, Sweep, SweepCommit
    <3>2. \A s \in sweep[t].due : phase[s] # "absent" /\ deadline[s] <= clock
      BY <2>1, <3>1 DEF SweepInv
    <3>3. phase' = [s \in Sessions |-> IF s \in sweep[t].due THEN "closed" ELSE phase[s]]
          /\ deadline' = deadline
      BY <2>1, <2>3, SweepRows
    <3> QED
      BY <3>1, <3>2, <3>3 DEF RC!Expire
  <2>4. CASE Tick
    BY <2>4 DEF Tick, RC!RollCallNext, RC!Tick
  <2> QED
    BY <1>2, <2>2, <2>3, <2>4, RowsMove DEF RC!RollCallNext
<1>3. IInv /\ [Next]_vars => [RC!RollCallNext]_RC!rollCallVars
  BY <1>2 DEF RC!rollCallVars
<1> QED
  BY <1>1, <1>3, Invariance, PTL DEF Spec, RollCallRefined, RC!RollCallSpec

-----------------------------------------------------------------------------
(* One request at a time *)

OneRequest == \A q, r \in Requests : q = r

(* What the only request knows of the open calls of its class. *)
LookInv ==
    \A r \in Requests, a \in Sessions :
        req[r].op = "open" /\ ClassOf[a] = ClassOf[req[r].sid] /\ IsOpen(rows[a]) =>
            /\ req[r].step = "looked" =>
                 IsOpen(req[r].entity) /\ req[r].entity.expires = rows[a].expires
            /\ req[r].step \in Written => IsExpired(rows[a])

LEMMA LookStep ==
    ASSUME OneRequest, IInv, LookInv, AtMostOneLive, [Next]_vars
    PROVE  LookInv' /\ AtMostOneLive'
<1>1. TypeOK /\ StepsInv /\ OpenInv /\ EndInv /\ SweepInv /\ TypeOK'
  BY TypeStep DEF IInv
<1>2. /\ clock \in Nat /\ clock' \in Nat /\ clock <= clock'
      /\ \A s \in Sessions : rows[s].expires \in Nat
  <2>1. clock \in Nat /\ clock' \in Nat /\ \A s \in Sessions : rows[s].expires \in Nat
    BY <1>1, TimeAssumption DEF TypeOK, Row
  <2>2. clock' = clock \/ clock' = clock + 1
    BY RowsMove DEF Tick, Commit, SweepCommit
  <2> QED
    BY <2>1, <2>2
<1>3. ASSUME NEW r \in Requests, Commit(r) PROVE LookInv' /\ AtMostOneLive'
  <2>1. \A q \in Requests : req'[q].op = "none"
    BY <1>1, <1>3, CommitRows DEF OneRequest, IdleRequest, TypeOK
  <2>2. LookInv'
    BY <2>1 DEF LookInv
  <2>3. clock' = clock
    BY <1>3 DEF Commit
  <2>4. CASE req[r].op = "open"
    <3>1. req[r].step \in Written
      BY <1>3 DEF Commit, ReadyToCommit, Written
    <3>2. ASSUME NEW a \in Sessions, ClassOf[a] = ClassOf[req[r].sid],
                 IsOpen(rows'[a]), a # req[r].sid
          PROVE  rows'[a].expires <= clock
      BY <1>1, <1>3, <2>4, <3>1, <3>2, CommitRows DEF LookInv, IsOpen, IsExpired
    <3>3. ASSUME NEW a \in Sessions, a # req[r].sid PROVE rows'[a] = rows[a]
      BY <1>1, <1>3, <3>3, CommitRows
    <3> QED
      BY <2>2, <2>3, <3>2, <3>3 DEF AtMostOneLive, IsOpen, IsExpired
  <2>5. CASE req[r].op \in EndOps
    <3>1. \A a \in Sessions : IsOpen(rows'[a]) => rows'[a] = rows[a]
      BY <1>1, <1>3, <2>5, CommitRows DEF IsOpen, Ended
    <3> QED
      BY <2>2, <2>3, <3>1 DEF AtMostOneLive, IsOpen, IsExpired
  <2> QED
    BY <1>1, <1>3, <2>4, <2>5, CommitRows
<1>4. CASE \A a \in Sessions : IsOpen(rows'[a]) => rows'[a] = rows[a]
  <2>1. AtMostOneLive'
    BY <1>2, <1>4 DEF AtMostOneLive, IsOpen, IsExpired
  <2>2. ASSUME req' = req PROVE LookInv'
    <3>1. ASSUME NEW a \in Sessions, IsOpen(rows'[a])
          PROVE  /\ rows'[a] = rows[a] /\ IsOpen(rows[a])
                 /\ rows[a].expires <= clock => rows'[a].expires <= clock'
      <4>1. rows'[a] = rows[a]
        BY <1>4, <3>1
      <4> QED
        BY <1>2, <3>1, <4>1
    <3> QED
      BY <2>2, <3>1 DEF LookInv, IsExpired
  <2>3. ASSUME NEW r \in Requests, NEW s \in Sessions, OpenLookup(r, s) PROVE LookInv'
    <3>1. PICK seen \in Found(ClassOf[s]) : req' = [req EXCEPT ![r] = Looked("open", s, seen)]
      BY <2>3 DEF OpenLookup
    <3>2. rows' = rows /\ \A a, b \in OpenRows(ClassOf[s]) : a = b
      BY <2>3 DEF OpenLookup
    <3>3. ASSUME NEW a \in OpenRows(ClassOf[s]) PROVE seen = rows[a]
      BY <3>1, <3>2, <3>3 DEF Found
    <3>4. ASSUME NEW q \in Requests PROVE req'[q] = Looked("open", s, seen)
      BY <1>1, <3>1 DEF TypeOK, OneRequest
    <3>5. ASSUME NEW a \in Sessions, ClassOf[a] = ClassOf[s], IsOpen(rows[a])
          PROVE  IsOpen(seen) /\ seen.expires = rows[a].expires
      BY <3>3, <3>5 DEF OpenRows
    <3> QED
      BY <3>2, <3>4, <3>5 DEF LookInv, Looked, Written
  <2>4. ASSUME NEW r \in Requests, OpenInsert(r) PROVE LookInv'
    <3>1. /\ rows' = rows /\ clock' = clock /\ req[r].op = "open" /\ req[r].step = "looked"
          /\ ~(IsOpen(req[r].entity) /\ IsExpired(req[r].entity) = FALSE)
      BY <2>4 DEF OpenInsert, LiveCallSeen
    <3>2. req'[r].sid = req[r].sid /\ req'[r].step = "saved"
      BY <1>1, <2>4 DEF OpenInsert, Holding, TypeOK, Request
    <3>3. ASSUME NEW a \in Sessions, ClassOf[a] = ClassOf[req[r].sid], IsOpen(rows[a])
          PROVE  IsExpired(rows[a])
      BY <3>1, <3>3 DEF LookInv, IsExpired
    <3>4. \A q \in Requests : q = r
      BY DEF OneRequest
    <3> QED
      BY <3>1, <3>2, <3>3, <3>4 DEF LookInv, IsOpen, IsExpired, Written
  <2>5. ASSUME NEW r \in Requests, Publish(r) \/ PublishLost(r) PROVE LookInv'
    <3>1. /\ rows' = rows /\ clock' = clock /\ req[r].step = "saved"
          /\ req' = [req EXCEPT ![r] = [req[r] EXCEPT !.step = "published"]]
      BY <2>5 DEF Publish, PublishLost
    <3>2. req'[r].sid = req[r].sid /\ req'[r].step = "published" /\ req'[r].op = req[r].op
      BY <1>1, <3>1 DEF TypeOK, Request
    <3>3. \A q \in Requests : q = r
      BY DEF OneRequest
    <3> QED
      BY <3>1, <3>2, <3>3 DEF LookInv, IsExpired, Written
  <2>6. ASSUME NEW r \in Requests, req'[r].op # "open" PROVE LookInv'
    BY <2>6 DEF LookInv, OneRequest
  <2>7. \/ req' = req
        \/ \E r \in Requests : \/ \E s \in Sessions : OpenLookup(r, s)
                               \/ OpenInsert(r) \/ Publish(r) \/ PublishLost(r)
                               \/ req'[r].op # "open"
    <3>1. ASSUME NEW r \in Requests, RequestNext(r)
          PROVE  \/ \E s \in Sessions : OpenLookup(r, s)
                 \/ OpenInsert(r) \/ Publish(r) \/ PublishLost(r)
                 \/ req'[r].op # "open"
      <4>1. ASSUME NEW s \in Sessions, NEW op \in {"close", "cancel"}, FindSession(r, s, op)
            PROVE  req'[r].op # "open"
        BY <1>1, <4>1 DEF FindSession, Looked, TypeOK
      <4>2. CASE OpenRefused(r) \/ EndRefused(r) \/ Commit(r) \/ Abort(r)
        <5>1. req' = [req EXCEPT ![r] = IdleRequest]
          BY <4>2 DEF OpenRefused, EndRefused, Commit, Abort
        <5> QED
          BY <1>1, <5>1 DEF TypeOK, IdleRequest
      <4>3. CASE CloseMerge(r) \/ CancelMerge(r)
        BY <1>1, <4>3 DEF CloseMerge, CancelMerge, MergeEnded, Holding, TypeOK, Request
      <4>4. CASE Update(r)
        <5>1. req[r].op # "open" /\ req' = [req EXCEPT ![r] = [req[r] EXCEPT !.step = "saved"]]
          BY <1>1, <4>4 DEF Update, StepsInv
        <5> QED
          BY <1>1, <5>1 DEF TypeOK, Request
      <4> QED
        BY <3>1, <4>1, <4>2, <4>3, <4>4 DEF RequestNext, RequestStep
    <3>2. ASSUME NEW t \in Sweeps, SweepNext(t) PROVE req' = req
      BY <3>2, SweepQuiet
    <3>3. CASE Tick \/ UNCHANGED vars
      BY <3>3 DEF Tick, vars
    <3> QED
      BY <3>1, <3>2, <3>3 DEF Next
  <2> QED
    BY <2>1, <2>2, <2>3, <2>4, <2>5, <2>6, <2>7
<1>5. CASE \E t \in Sweeps : SweepCommit(t)
  <2>1. \A a \in Sessions : IsOpen(rows'[a]) => rows'[a] = rows[a]
    BY <1>1, <1>5, SweepRows DEF IsOpen
  <2> QED
    BY <1>4, <2>1
<1> QED
  BY <1>3, <1>4, <1>5, RowsMove DEF Tick

(* While one request at a time opens calls, a class never has two calls that
   accept confirmations, whatever the task closes in between and however many
   opens and closes failed before.  With two requests it may: see the run
   SessionsTwoLive. *)
THEOREM OneRequestOneLiveCall ==
    ASSUME OneRequest
    PROVE  Spec => []AtMostOneLive
<1>1. Init => LookInv /\ AtMostOneLive
  BY DEF Init, LookInv, AtMostOneLive, AbsentRow, IsOpen
<1>2. IInv /\ LookInv /\ AtMostOneLive /\ [Next]_vars => LookInv' /\ AtMostOneLive'
  BY LookStep
<1> QED
  BY <1>1, <1>2, Invariance, PTL DEF Spec

=============================================================================
