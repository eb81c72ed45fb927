------------------------------ MODULE Delivery ------------------------------
(***************************************************************************)
(* A push from the event of a roll call to the devices: the handler that   *)
(* reads the registered tokens on a second pooled connection while the     *)
(* request keeps its own, the task that sends them in batches, its retries *)
(* and redeliveries, and the registry that devices and the task both       *)
(* write.                                                                  *)
(*                                                                         *)
(* The students of the class do not change here (module Enrollments); one  *)
(* who was removed and added again may hold two active enrollments.  A     *)
(* token is a device and the generation of its installation: the service   *)
(* that delivers knows the newest generation only.                         *)
(***************************************************************************)
EXTENDS Naturals, FiniteSets, SequencesExt

CONSTANTS Keys,         \* (user, device) pairs
          Device,       \* Device[k]: the device of a key
          Entries,      \* an active enrollment of the class with a key of its user
          KeyOf,        \* KeyOf[e]: the key of an entry
          Requests,     \* requests that open or close a roll call
          PoolSize,     \* pool_size + max_overflow
          BatchSize,    \* FCM_MAX_TOKENS_PER_BATCH
          MaxRetries,   \* max_retries of the task
          MaxJobs,      \* bound: tasks that are followed, the first ones
          MaxGen,       \* bound: tokens of one device
          MaxFaults     \* bound: failures of every kind

ASSUME DeliveryAssumption ==
    /\ {PoolSize, BatchSize, MaxGen} \subseteq Nat \ {0}
    /\ {MaxRetries, MaxJobs, MaxFaults} \subseteq Nat
    /\ IsFiniteSet(Keys) /\ DOMAIN Device = Keys
    /\ IsFiniteSet(Entries) /\ KeyOf \in [Entries -> Keys]

VARIABLES newest,   \* the generation of the token a device has now
          row,      \* user_fcm_tokens: the generation registered for a key, 0: no row
          known,    \* keys whose present token was registered and not withdrawn
          req,      \* req[r]: where a request is
          jobs,     \* send_push_notification tasks, in the order of their enqueuing
          faults    \* failures so far

vars == <<newest, row, known, req, jobs, faults>>

Devices == {Device[k] : k \in Keys}
Token == [device : Devices, gen : 1..MaxGen]
TokenOf(k) == [device |-> Device[k], gen |-> row[k]]

Job == [tokens : Seq(Token),
        sent : Seq(Nat),            \* how often each of them was delivered
        passed : SUBSET Nat,        \* failed since the last start, and only logged
        stale : SUBSET Token,       \* refused in the batch at hand
        next : Nat \ {0},           \* the first token of the next batch
        state : {"queued", "running", "cleaning", "done", "failed"},
        tries : 0..MaxRetries, starts : Nat,
        swallowed : BOOLEAN]        \* a clean-up failed

TypeOK ==
    /\ newest \in [Devices -> 1..MaxGen]
    /\ row \in [Keys -> 0..MaxGen]
    /\ known \subseteq Keys
    /\ req \in [Requests -> {"idle", "waiting", "reading", "told"}]
    /\ jobs \in Seq(Job) /\ Len(jobs) <= MaxJobs
    /\ faults \in 0..MaxFaults

Init ==
    /\ newest = [d \in Devices |-> 1]
    /\ row = [k \in Keys |-> 0]
    /\ known = {}
    /\ req = [r \in Requests |-> "idle"]
    /\ jobs = <<>>
    /\ faults = 0

-----------------------------------------------------------------------------
(* The pool and the requests that publish an event *)

Held(r) == IF req[r] = "idle" THEN 0 ELSE IF req[r] = "reading" THEN 2 ELSE 1
InUse == SumFunction([r \in Requests |-> Held(r)])
ConnectionFree == InUse < PoolSize

Goto(r, place) == req' = [req EXCEPT ![r] = place]
Fault == faults < MaxFaults /\ faults' = faults + 1
registryVars == <<newest, row, known>>

(* The first query of the request takes a connection, which it keeps while its
   event is published. *)
Publish(r) ==
    /\ req[r] = "idle" /\ ConnectionFree
    /\ Goto(r, "waiting")
    /\ UNCHANGED <<registryVars, jobs, faults>>

Connect(r) ==
    /\ req[r] = "waiting" /\ ConnectionFree
    /\ Goto(r, "reading")
    /\ UNCHANGED <<registryVars, jobs, faults>>

(* pool_timeout: the handler fails, and the dispatcher passes over it.  Faulty
   variant: the handler waits for as long as it takes. *)
NeverTimesOut == FALSE
TimesOut == ~ConnectionFree

PoolTimeout(r) ==
    /\ req[r] = "waiting" /\ TimesOut
    /\ Goto(r, "told")
    /\ UNCHANGED <<registryVars, jobs, faults>>

NewJob(tokens) ==
    [tokens |-> tokens, sent |-> [i \in DOMAIN tokens |-> 0], passed |-> {}, stale |-> {},
     next |-> 1, state |-> "queued", tries |-> 0, starts |-> 0, swallowed |-> FALSE]

(* find_active_fcm_tokens: a row for every enrollment and registration, in no
   particular order and without DISTINCT; nothing is enqueued for none. *)
Enqueue(r) ==
    /\ req[r] = "reading"
    /\ LET listed == {e \in Entries : row[KeyOf[e]] # 0} IN
       IF listed = {} \/ Len(jobs) = MaxJobs THEN UNCHANGED jobs
       ELSE \E order \in SetToSeqs(listed) :
              jobs' = Append(jobs, NewJob([i \in DOMAIN order |-> TokenOf(KeyOf[order[i]])]))
    /\ Goto(r, "told")
    /\ UNCHANGED <<registryVars, faults>>

(* The read or the broker fails: passed over as well. *)
EnqueueFails(r) ==
    /\ req[r] = "reading" /\ Fault
    /\ Goto(r, "told")
    /\ UNCHANGED <<registryVars, jobs>>

Finish(r) ==
    /\ req[r] = "told"
    /\ Goto(r, "idle")
    /\ UNCHANGED <<registryVars, jobs, faults>>

-----------------------------------------------------------------------------
(* The devices *)

Upserted(k) == [row EXCEPT ![k] = newest[Device[k]]]
Removed(k) == [row EXCEPT ![k] = 0]

(* Each in a transaction of its own. *)
Register(k) ==
    /\ ConnectionFree
    /\ row' = Upserted(k)
    /\ known' = known \cup {k}
    /\ UNCHANGED <<newest, req, jobs, faults>>

Withdraw(k) ==
    /\ ConnectionFree /\ row[k] # 0
    /\ row' = Removed(k)
    /\ known' = known \ {k}
    /\ UNCHANGED <<newest, req, jobs, faults>>

(* A new installation, or a token that the service renewed. *)
Renew(d) ==
    /\ newest[d] < MaxGen
    /\ newest' = [newest EXCEPT ![d] = @ + 1]
    /\ known' = {k \in known : Device[k] # d}
    /\ UNCHANGED <<row, req, jobs, faults>>

-----------------------------------------------------------------------------
(* The task *)

Update(j, job) == jobs' = [jobs EXCEPT ![j] = job]

Start(j) ==
    /\ jobs[j].state = "queued"
    /\ Update(j, [jobs[j] EXCEPT !.state = "running", !.next = 1, !.starts = @ + 1,
                       !.passed = {}])
    /\ UNCHANGED <<registryVars, req, faults>>

(* _chunk.  Faulty variant: the bounds of a batch overlap. *)
BatchOverlapping(job) == job.next..Min({job.next + BatchSize, Len(job.tokens)})
Batch(job) == job.next..Min({job.next + BatchSize - 1, Len(job.tokens)})

Delivers(token) == newest[token.device] = token.gen

(* Which tokens of the batch the answers name.  Faulty variant: the index in
   the answer is taken for an index in the whole list. *)
NamedInList(job, i) == job.tokens[i - job.next + 1]
Named(job, i) == job.tokens[i]

After(job) == IF job.next + BatchSize > Len(job.tokens) THEN "done" ELSE "running"

(* What the task makes of the answers: a token refused with a code of its list
   is removed next, any other failure is logged. *)
Answer(job, delivered, refused) ==
    [job EXCEPT
        !.sent = [i \in DOMAIN job.tokens |-> IF i \in delivered THEN @[i] + 1 ELSE @[i]],
        !.passed = @ \cup (Batch(job) \ (delivered \cup refused)),
        !.stale = {Named(job, i) : i \in refused},
        !.state = IF refused = {} THEN After(job) ELSE "cleaning",
        !.next = IF refused = {} THEN @ + BatchSize ELSE @]

(* The service delivers to the newest token of a device and refuses with those
   codes only a token that is past; either may fail for another reason. *)
SendBatch(j) ==
    /\ jobs[j].state = "running"
    /\ \E delivered, refused \in SUBSET Batch(jobs[j]) :
        /\ \A i \in delivered : Delivers(jobs[j].tokens[i])
        /\ \A i \in refused : ~Delivers(jobs[j].tokens[i])
        /\ Update(j, Answer(jobs[j], delivered, refused))
    /\ UNCHANGED <<registryVars, req, faults>>

(* remove_by_tokens.  Faulty variant: what is removed is the row of the device. *)
HeldByDevice(k, stale) == Device[k] \in {token.device : token \in stale}
HeldStale(k, stale) == TokenOf(k) \in stale

Cleaned(job) == [job EXCEPT !.stale = {}, !.state = After(job), !.next = @ + BatchSize]

Clean(j) ==
    /\ jobs[j].state = "cleaning"
    /\ row' = [k \in Keys |-> IF HeldStale(k, jobs[j].stale) THEN 0 ELSE row[k]]
    /\ Update(j, Cleaned(jobs[j]))
    /\ UNCHANGED <<newest, known, req, faults>>

(* The failure of a clean-up is logged. *)
CleanFails(j) ==
    /\ jobs[j].state = "cleaning" /\ Fault
    /\ Update(j, [Cleaned(jobs[j]) EXCEPT !.swallowed = TRUE])
    /\ UNCHANGED <<registryVars, req>>

(* Faulty variant: the last retry is not made. *)
GivenUpEarly(job) == job.tries + 1 >= MaxRetries
GivenUp(job) == job.tries >= MaxRetries

(* The service fails for a batch: the task starts over, from the first batch. *)
BatchFails(j) ==
    /\ jobs[j].state = "running" /\ Fault
    /\ LET job == jobs[j] IN
       IF GivenUp(job)
       THEN Update(j, [job EXCEPT !.state = "failed"])
       ELSE Update(j, [job EXCEPT !.state = "queued", !.tries = @ + 1])
    /\ UNCHANGED <<registryVars, req>>

(* task_acks_late, task_reject_on_worker_lost: the broker delivers it again. *)
WorkerLost(j) ==
    /\ jobs[j].state \in {"running", "cleaning"} /\ Fault
    /\ Update(j, [jobs[j] EXCEPT !.state = "queued", !.stale = {}])
    /\ UNCHANGED <<registryVars, req>>

-----------------------------------------------------------------------------
RequestStep(r) ==
    Connect(r) \/ PoolTimeout(r) \/ Enqueue(r) \/ EnqueueFails(r) \/ Finish(r)
TaskStep(j) == Start(j) \/ SendBatch(j) \/ Clean(j)
TaskFault(j) == CleanFails(j) \/ BatchFails(j) \/ WorkerLost(j)
DeviceStep == \/ \E k \in Keys : Register(k) \/ Withdraw(k)
              \/ \E d \in Devices : Renew(d)

Next ==
    \/ \E r \in Requests : Publish(r) \/ RequestStep(r)
    \/ \E j \in DOMAIN jobs : TaskStep(j) \/ TaskFault(j)
    \/ DeviceStep

(* A request is executed to its end, and a worker takes every task. *)
Fairness ==
    /\ \A r \in Requests : WF_vars(RequestStep(r))
    /\ \A j \in 1..MaxJobs : WF_vars(j \in DOMAIN jobs /\ TaskStep(j))

Spec == Init /\ [][Next]_vars /\ Fairness

-----------------------------------------------------------------------------
(* Properties *)

(* A device that was told its present token is registered keeps the row until
   it withdraws it, whatever tasks with older tokens clean up meanwhile. *)
KnownStays ==
    \A k \in known : row[k] = newest[Device[k]]

(* When a task is done, each token of its list was delivered, or failed in the
   last start for a reason that is only logged, or is registered for nobody;
   unless a clean-up failed. *)
DeliveredOrGone ==
    \A j \in DOMAIN jobs : jobs[j].state = "done" /\ ~jobs[j].swallowed =>
        \A i \in DOMAIN jobs[j].tokens :
            \/ jobs[j].sent[i] > 0
            \/ i \in jobs[j].passed
            \/ \A k \in Keys : TokenOf(k) # jobs[j].tokens[i]

(* How many rows of the list may name a device, and how many copies of a push
   it got. *)
Registrations(d) == Cardinality({e \in Entries : Device[KeyOf[e]] = d})
PlacesOf(job, d) == {i \in DOMAIN job.tokens : job.tokens[i].device = d}
Copies(job, d) == SumFunction([i \in PlacesOf(job, d) |-> job.sent[i]])

(* A device gets the push once for each registration that an enrolled user has
   on it (a phone that two students share rings twice), and all of them again
   only because the task was started again. *)
CopiesAreRestarts ==
    \A j \in DOMAIN jobs : \A d \in Devices :
        Copies(jobs[j], d) <= jobs[j].starts * Registrations(d)

(* A task that fails no more often than it is retried is done in the end. *)
DoneInTheEnd ==
    \A j \in 1..MaxJobs : j \in DOMAIN jobs ~> j \in DOMAIN jobs /\ jobs[j].state = "done"

(* A request that published its event is answered, also when every connection
   is held by a request that waits for another one. *)
Answered ==
    \A r \in Requests : req[r] = "waiting" ~> req[r] = "idle"

=============================================================================
