--------------------------- MODULE DeliveryProofs ---------------------------
(***************************************************************************)
(* Proofs about Delivery for any number of users, devices, requests and    *)
(* tasks, any sizes of the pool and of a batch, and any failures.          *)
(*                                                                         *)
(* What a task may remove was refused some time ago, so the inductive      *)
(* invariant says of every task what it knows: that the tokens it holds    *)
(* are no newer than those of the devices, that the refused ones are       *)
(* older, how far its list is settled, how often it was delivered and how  *)
(* often it names a device.                                                *)
(***************************************************************************)
EXTENDS Delivery, SumLemmas, SequenceTheorems

(* A token that was delivered, or failed and was passed over, or is past and
   registered for nobody. *)
Settled(job, i, n, rw) ==
    \/ job.sent[i] > 0
    \/ i \in job.passed
    \/ /\ job.tokens[i].gen < n[job.tokens[i].device]
       /\ \A k \in Keys : [device |-> Device[k], gen |-> rw[k]] # job.tokens[i]

(* The list of a task against the devices (n) and the registry (rw). *)
TokensOK(job, n) ==
    /\ DOMAIN job.sent = DOMAIN job.tokens
    /\ \A i \in DOMAIN job.tokens : job.tokens[i].gen <= n[job.tokens[i].device]
    /\ \A t \in job.stale : t.gen < n[t.device]

CopiesOK(job) ==
    /\ \A i \in DOMAIN job.tokens : job.sent[i] <= job.starts
    /\ job.state = "running" =>
         \A i \in DOMAIN job.tokens : i >= job.next => job.sent[i] < job.starts
    /\ job.state = "cleaning" =>
         \A i \in DOMAIN job.tokens : i >= job.next + BatchSize => job.sent[i] < job.starts

SettledOK(job, n, rw) ==
    /\ job.state \in {"running", "cleaning"} /\ ~job.swallowed =>
         \A i \in DOMAIN job.tokens : i < job.next => Settled(job, i, n, rw)
    /\ job.state = "cleaning" =>
         \A i \in DOMAIN job.tokens : i \in job.next..(job.next + BatchSize - 1) =>
             job.sent[i] > 0 \/ i \in job.passed \/ job.tokens[i] \in job.stale
    /\ job.state = "done" /\ ~job.swallowed =>
         \A i \in DOMAIN job.tokens : Settled(job, i, n, rw)

(* No list names a device more often than enrollments and registrations do. *)
PlacesOK(job) ==
    \A d \in Devices : /\ IsFiniteSet(PlacesOf(job, d))
                        /\ Cardinality(PlacesOf(job, d)) <= Registrations(d)

JobOK(job, n, rw) ==
    /\ job \in Job /\ TokensOK(job, n) /\ PlacesOK(job)
    /\ CopiesOK(job) /\ SettledOK(job, n, rw)

IInv ==
    /\ TypeOK
    /\ \A k \in Keys : row[k] <= newest[Device[k]]
    /\ KnownStays
    /\ \A j \in DOMAIN jobs : JobOK(jobs[j], newest, row)

-----------------------------------------------------------------------------
(* Tasks beside which devices and registry change *)

(* What a task knows outlives newer tokens, registrations of the newest token
   and removals: nothing registers an old token again. *)
LEMMA JobKept ==
    ASSUME NEW n \in [Devices -> 1..MaxGen], NEW m \in [Devices -> 1..MaxGen],
           NEW rw \in [Keys -> 0..MaxGen], NEW sw \in [Keys -> 0..MaxGen],
           \A d \in Devices : n[d] <= m[d],
           \A k \in Keys : sw[k] \in {rw[k], 0, m[Device[k]]},
           NEW job, JobOK(job, n, rw)
    PROVE  JobOK(job, m, sw)
<1> MaxGen \in Nat BY DeliveryAssumption
<1>1. /\ job \in Job /\ TokensOK(job, n) /\ PlacesOK(job)
      /\ CopiesOK(job) /\ SettledOK(job, n, rw)
  BY DEF JobOK
<1>2. \A i \in DOMAIN job.tokens : job.tokens[i] \in Token
  BY <1>1 DEF Job
<1>3. job.stale \subseteq Token
  BY <1>1 DEF Job
<1>4. \A t \in Token : t.device \in Devices /\ t.gen \in 1..MaxGen
                       /\ t = [device |-> t.device, gen |-> t.gen]
  BY DEF Token
<1>5. TokensOK(job, m)
  <2>1. \A t \in Token : n[t.device] \in Nat /\ m[t.device] \in Nat /\ t.gen \in Nat
                         /\ n[t.device] <= m[t.device]
    BY <1>4
  <2> QED BY <1>1, <1>2, <1>3, <2>1 DEF TokensOK
<1>6. ASSUME NEW i \in DOMAIN job.tokens, Settled(job, i, n, rw)
      PROVE  Settled(job, i, m, sw)
  <2> DEFINE t == job.tokens[i]
  <2>1. CASE job.sent[i] > 0 \/ i \in job.passed
    BY <2>1 DEF Settled
  <2>2. CASE /\ t.gen < n[t.device]
             /\ \A k \in Keys : [device |-> Device[k], gen |-> rw[k]] # t
    <3>1. t \in Token /\ t.device \in Devices /\ t.gen \in 1..MaxGen
      BY <1>2, <1>4
    <3>2. t.gen < m[t.device]
      BY <2>2, <3>1
    <3>3. ASSUME NEW k \in Keys, [device |-> Device[k], gen |-> sw[k]] = t
          PROVE  FALSE
      <4>1. t.device = Device[k] /\ t.gen = sw[k]
        BY <3>3
      <4>2. sw[k] # 0 /\ sw[k] # m[Device[k]]
        BY <4>1, <3>1, <3>2
      <4>3. sw[k] = rw[k]
        BY <4>2
      <4> QED BY <4>3, <3>3, <2>2
    <3> QED BY <3>2, <3>3 DEF Settled
  <2> QED BY <1>6, <2>1, <2>2 DEF Settled
<1>7. SettledOK(job, m, sw)
  BY <1>1, <1>6 DEF SettledOK
<1> QED BY <1>1, <1>5, <1>7 DEF JobOK

-----------------------------------------------------------------------------
(* The steps of one task *)

LEMMA QueuedIsOK ==
    ASSUME NEW n, NEW rw, NEW job, JobOK(job, n, rw),
           NEW new \in Job, new.state \in {"queued", "failed"},
           new.tokens = job.tokens, new.sent = job.sent, new.starts = job.starts,
           new.stale \subseteq job.stale
    PROVE  JobOK(new, n, rw)
BY DEF JobOK, TokensOK, PlacesOK, PlacesOf, CopiesOK, SettledOK

LEMMA StartIsOK ==
    ASSUME NEW n, NEW rw, NEW job, JobOK(job, n, rw)
    PROVE  JobOK([job EXCEPT !.state = "running", !.next = 1, !.starts = @ + 1,
                              !.passed = {}], n, rw)
<1> DEFINE new == [job EXCEPT !.state = "running", !.next = 1, !.starts = @ + 1,
                                !.passed = {}]
<1>1. job \in Job /\ TokensOK(job, n) /\ PlacesOK(job) /\ CopiesOK(job)
  BY DEF JobOK
<1>2. /\ new \in Job /\ new.tokens = job.tokens /\ new.sent = job.sent /\ new.stale = job.stale
      /\ new.state = "running" /\ new.next = 1 /\ new.starts = job.starts + 1
  <2>1. job.starts + 1 \in Nat
    BY <1>1 DEF Job
  <2>2. 1 \in Nat \ {0}
    OBVIOUS
  <2>4. {} \in SUBSET Nat
    OBVIOUS
  <2>3. new \in Job
    BY <1>1, <2>1, <2>2, <2>4, Zenon DEF Job
  <2> QED BY <1>1, <2>3 DEF Job
<1> HIDE DEF new
<1>3. job.starts \in Nat /\ \A i \in DOMAIN job.tokens : job.sent[i] \in Nat /\ i \in Nat /\ i >= 1
  BY <1>1 DEF Job, TokensOK
<1>4. TokensOK(new, n)
  BY <1>1, <1>2 DEF TokensOK
<1>5. CopiesOK(new)
  BY <1>1, <1>2, <1>3 DEF CopiesOK
<1>6. SettledOK(new, n, rw)
  BY <1>2, <1>3 DEF SettledOK
<1>7. PlacesOK(new)
  BY <1>1, <1>2 DEF PlacesOK, PlacesOf
<1>8. JobOK(new, n, rw)
  BY <1>2, <1>4, <1>5, <1>6, <1>7 DEF JobOK
<1> QED BY <1>8 DEF new

(* A batch is the part of the list that BatchSize allows from next on. *)
LEMMA BatchIs ==
    ASSUME NEW job \in Job
    PROVE  \A i : i \in Batch(job) <=> i \in DOMAIN job.tokens
                                       /\ i \in job.next..(job.next + BatchSize - 1)
<1> DEFINE a == job.next + BatchSize - 1
           b == Len(job.tokens)
<1>1. a \in Nat /\ b \in Nat /\ job.next \in Nat /\ job.next >= 1 /\ DOMAIN job.tokens = 1..b
  BY DeliveryAssumption DEF Job
<1> HIDE DEF a, b
<1>2. Min({a, b}) \in {a, b} /\ \A y \in {a, b} : Min({a, b}) <= y
  <2>1. \E x \in {a, b} : \A y \in {a, b} : x =< y
    BY <1>1
  <2> QED BY <2>1 DEF Min
<1>3. Batch(job) = job.next..Min({a, b})
  BY DEF Batch, a, b
<1>4. \A i : i \in job.next..Min({a, b}) <=> i \in 1..b /\ i \in job.next..a
  BY <1>1, <1>2
<1> QED BY <1>1, <1>3, <1>4 DEF a

(* What the answers for a batch do to the counts. *)
SentBy(job, delivered) ==
    [i \in DOMAIN job.tokens |-> IF i \in delivered THEN job.sent[i] + 1 ELSE job.sent[i]]

LEMMA CountsAfter ==
    ASSUME NEW job \in Job, DOMAIN job.sent = DOMAIN job.tokens, CopiesOK(job),
           job.state = "running", NEW delivered \in SUBSET Batch(job)
    PROVE  LET sent == SentBy(job, delivered) IN
           /\ sent \in Seq(Nat) /\ DOMAIN sent = DOMAIN job.tokens
           /\ \A i \in DOMAIN job.tokens :
                /\ sent[i] <= job.starts
                /\ job.sent[i] > 0 => sent[i] > 0
                /\ i \in delivered => sent[i] > 0
                /\ i >= job.next + BatchSize => sent[i] < job.starts
<1> DEFINE sent == SentBy(job, delivered)
<1>1. \A i \in DOMAIN job.tokens : job.sent[i] \in Nat /\ i \in Nat
  BY DEF Job
<1>2. job.starts \in Nat /\ job.next \in Nat /\ DOMAIN job.tokens = 1..Len(job.tokens)
      /\ Len(job.tokens) \in Nat /\ BatchSize \in Nat
  BY DeliveryAssumption DEF Job
<1>3. DOMAIN sent = DOMAIN job.tokens /\ \A i \in DOMAIN job.tokens : sent[i] \in Nat
  BY <1>1 DEF SentBy
<1>4. sent \in Seq(Nat)
  <2>1. sent \in [1..Len(job.tokens) -> Nat]
    BY <1>2, <1>3 DEF SentBy
  <2> QED BY <1>2, <2>1, SeqDef
<1>5. \A i \in DOMAIN job.tokens : i >= job.next => job.sent[i] < job.starts
  BY DEF CopiesOK
<1>6. \A i \in Batch(job) : i \in job.next..(job.next + BatchSize - 1)
  BY BatchIs
<1>7. ASSUME NEW i \in DOMAIN job.tokens
      PROVE  /\ sent[i] <= job.starts
             /\ job.sent[i] > 0 => sent[i] > 0
             /\ i \in delivered => sent[i] > 0
             /\ i >= job.next + BatchSize => sent[i] < job.starts
  <2>1. CASE i \in delivered
    <3>1. i >= job.next /\ i < job.next + BatchSize /\ sent[i] = job.sent[i] + 1
      BY <1>6, <1>1, <1>2, <2>1 DEF SentBy
    <3> QED BY <3>1, <1>1, <1>2, <1>5
  <2>2. CASE i \notin delivered
    <3>1. sent[i] = job.sent[i]
      BY <2>2 DEF SentBy
    <3>2. i >= job.next + BatchSize => i >= job.next
      BY <1>1, <1>2
    <3>3. sent[i] <= job.starts
      BY <3>1 DEF CopiesOK
    <3> QED BY <3>1, <3>2, <3>3, <1>5, <2>2
  <2> QED BY <2>1, <2>2
<1> QED BY <1>3, <1>4, <1>7

(* What a task knows after a batch, refusals or not. *)
AnsweredTo(new, job, delivered, refused) ==
    /\ new \in Job /\ new.tokens = job.tokens /\ new.starts = job.starts
    /\ new.swallowed = job.swallowed /\ new.sent = SentBy(job, delivered)
    /\ new.passed = job.passed \cup (Batch(job) \ (delivered \cup refused))
    /\ new.stale = {job.tokens[i] : i \in refused}

LEMMA AnsweredIsOK ==
    ASSUME NEW n \in [Devices -> 1..MaxGen], NEW rw, NEW job, JobOK(job, n, rw),
           job.state = "running",
           NEW delivered \in SUBSET Batch(job), NEW refused \in SUBSET Batch(job),
           \A i \in refused : n[job.tokens[i].device] # job.tokens[i].gen,
           NEW new, AnsweredTo(new, job, delivered, refused)
    PROVE  /\ TokensOK(new, n) /\ PlacesOK(new)
           /\ \A i \in DOMAIN job.tokens :
                /\ new.sent[i] <= job.starts
                /\ i >= job.next + BatchSize => new.sent[i] < job.starts
                /\ Settled(job, i, n, rw) => Settled(new, i, n, rw)
                /\ i \in job.next..(job.next + BatchSize - 1) =>
                     new.sent[i] > 0 \/ i \in new.passed \/ i \in refused
<1> MaxGen \in Nat BY DeliveryAssumption
<1>1. job \in Job /\ TokensOK(job, n) /\ PlacesOK(job) /\ CopiesOK(job)
  BY DEF JobOK
<1>2. DOMAIN job.sent = DOMAIN job.tokens
  BY <1>1 DEF TokensOK
<1>3. /\ DOMAIN new.sent = DOMAIN job.tokens
      /\ \A i \in DOMAIN job.tokens :
           /\ new.sent[i] <= job.starts
           /\ job.sent[i] > 0 => new.sent[i] > 0
           /\ i \in delivered => new.sent[i] > 0
           /\ i >= job.next + BatchSize => new.sent[i] < job.starts
  BY <1>1, <1>2, CountsAfter DEF AnsweredTo
<1>4. ASSUME NEW i \in refused
      PROVE  job.tokens[i].gen < n[job.tokens[i].device]
  <2>1. i \in DOMAIN job.tokens /\ n[job.tokens[i].device] # job.tokens[i].gen
    BY <1>1, BatchIs
  <2>2. job.tokens[i] \in Token
    BY <1>1, <2>1 DEF Job
  <2>3. job.tokens[i].gen \in Nat /\ n[job.tokens[i].device] \in Nat
    BY <2>2 DEF Token
  <2>4. job.tokens[i].gen <= n[job.tokens[i].device]
    BY <1>1, <2>1 DEF TokensOK
  <2> QED BY <2>1, <2>3, <2>4
<1>5. TokensOK(new, n)
  BY <1>1, <1>3, <1>4 DEF TokensOK, AnsweredTo
<1>6. PlacesOK(new)
  BY <1>1 DEF PlacesOK, PlacesOf, AnsweredTo
<1>7. \A i \in DOMAIN job.tokens : i \in job.next..(job.next + BatchSize - 1) =>
        new.sent[i] > 0 \/ i \in new.passed \/ i \in refused
  <2>1. \A i \in DOMAIN job.tokens : i \in job.next..(job.next + BatchSize - 1) =>
            i \in Batch(job)
    BY <1>1, BatchIs
  <2> QED BY <1>3, <2>1 DEF AnsweredTo
<1>8. \A i \in DOMAIN job.tokens : Settled(job, i, n, rw) => Settled(new, i, n, rw)
  BY <1>3 DEF Settled, AnsweredTo
<1> QED BY <1>3, <1>5, <1>6, <1>7, <1>8

(* A batch of which no token was refused. *)
LEMMA SentIsOK ==
    ASSUME NEW n \in [Devices -> 1..MaxGen], NEW rw, NEW job, JobOK(job, n, rw),
           job.state = "running", NEW delivered \in SUBSET Batch(job),
           NEW refused, refused = {}, NEW new, AnsweredTo(new, job, delivered, refused),
           new.state = After(job), new.next = job.next + BatchSize
    PROVE  JobOK(new, n, rw)
<1>1. job \in Job /\ SettledOK(job, n, rw)
      /\ new \in Job /\ new.tokens = job.tokens /\ new.starts = job.starts
      /\ new.swallowed = job.swallowed
  BY DEF JobOK, AnsweredTo
<1>2. /\ refused \in SUBSET Batch(job)
      /\ \A i \in refused : n[job.tokens[i].device] # job.tokens[i].gen
  OBVIOUS
<1>3. /\ TokensOK(new, n) /\ PlacesOK(new)
      /\ \A i \in DOMAIN job.tokens :
           /\ new.sent[i] <= job.starts
           /\ i >= job.next + BatchSize => new.sent[i] < job.starts
           /\ Settled(job, i, n, rw) => Settled(new, i, n, rw)
           /\ i \in job.next..(job.next + BatchSize - 1) =>
                new.sent[i] > 0 \/ i \in new.passed \/ i \in refused
  BY <1>2, AnsweredIsOK
<1>4. new.state \in {"running", "done"}
      /\ (new.state = "done" => \A i \in DOMAIN job.tokens : i < job.next + BatchSize)
  BY <1>1, DeliveryAssumption DEF After, Job
<1>5. CopiesOK(new)
  BY <1>1, <1>3, <1>4 DEF CopiesOK
<1>6. ASSUME NEW i \in DOMAIN job.tokens, i < job.next + BatchSize, ~job.swallowed
      PROVE  Settled(new, i, n, rw)
  <2>1. CASE i < job.next
    BY <1>1, <1>3, <1>6, <2>1 DEF SettledOK
  <2>2. CASE ~(i < job.next)
    <3>1. i \in job.next..(job.next + BatchSize - 1)
      BY <1>1, <1>6, <2>2, DeliveryAssumption DEF Job
    <3> QED BY <1>3, <3>1 DEF Settled
  <2> QED BY <2>1, <2>2
<1>7. SettledOK(new, n, rw)
  BY <1>1, <1>4, <1>6 DEF SettledOK
<1> QED BY <1>1, <1>3, <1>5, <1>7 DEF JobOK

(* A batch of which some tokens were refused. *)
LEMMA RefusedIsOK ==
    ASSUME NEW n \in [Devices -> 1..MaxGen], NEW rw, NEW job, JobOK(job, n, rw),
           job.state = "running",
           NEW delivered \in SUBSET Batch(job), NEW refused \in SUBSET Batch(job),
           \A i \in refused : n[job.tokens[i].device] # job.tokens[i].gen,
           NEW new, AnsweredTo(new, job, delivered, refused),
           new.state = "cleaning", new.next = job.next
    PROVE  JobOK(new, n, rw)
<1>1. job \in Job /\ SettledOK(job, n, rw)
      /\ new \in Job /\ new.tokens = job.tokens /\ new.starts = job.starts
      /\ new.swallowed = job.swallowed /\ new.stale = {job.tokens[i] : i \in refused}
  BY DEF JobOK, AnsweredTo
<1>2. /\ TokensOK(new, n) /\ PlacesOK(new)
      /\ \A i \in DOMAIN job.tokens :
           /\ new.sent[i] <= job.starts
           /\ i >= job.next + BatchSize => new.sent[i] < job.starts
           /\ Settled(job, i, n, rw) => Settled(new, i, n, rw)
           /\ i \in job.next..(job.next + BatchSize - 1) =>
                new.sent[i] > 0 \/ i \in new.passed \/ i \in refused
  BY AnsweredIsOK
<1>3. CopiesOK(new)
  BY <1>1, <1>2 DEF CopiesOK
<1>4. \A i \in DOMAIN job.tokens : i \in job.next..(job.next + BatchSize - 1) =>
        new.sent[i] > 0 \/ i \in new.passed \/ job.tokens[i] \in new.stale
  BY <1>1, <1>2
<1>5. SettledOK(new, n, rw)
  BY <1>1, <1>2, <1>4 DEF SettledOK
<1> QED BY <1>1, <1>2, <1>3, <1>5 DEF JobOK

(* The next batch after a clean-up, or after one that failed and is noted. *)
LEMMA CleanedIsOK ==
    ASSUME NEW n, NEW rw, NEW job, JobOK(job, n, rw), job.state = "cleaning",
           NEW new \in Job, new.tokens = job.tokens, new.sent = job.sent, new.stale = {},
           new.passed = job.passed,
           new.starts = job.starts, new.state = After(job), new.next = job.next + BatchSize,
           \/ new.swallowed
           \/ /\ new.swallowed = job.swallowed
              /\ \A k \in Keys : [device |-> Device[k], gen |-> rw[k]] \notin job.stale
    PROVE  JobOK(new, n, rw)
<1>1. /\ job \in Job /\ TokensOK(job, n) /\ PlacesOK(job)
      /\ CopiesOK(job) /\ SettledOK(job, n, rw)
  BY DEF JobOK
<1>2. TokensOK(new, n) /\ PlacesOK(new)
  BY <1>1 DEF TokensOK, PlacesOK, PlacesOf
<1>3. new.state \in {"running", "done"}
      /\ (new.state = "done" => \A i \in DOMAIN job.tokens : i < job.next + BatchSize)
  BY <1>1, DeliveryAssumption DEF After, Job
<1>4. CopiesOK(new)
  BY <1>1, <1>3 DEF CopiesOK
<1>5. ASSUME NEW i \in DOMAIN job.tokens, i < job.next + BatchSize, ~new.swallowed
      PROVE  Settled(new, i, n, rw)
  <2>1. CASE i < job.next
    BY <1>1, <1>5, <2>1 DEF SettledOK, Settled
  <2>2. CASE ~(i < job.next)
    <3>1. i \in job.next..(job.next + BatchSize - 1)
      BY <1>1, <1>5, <2>2, DeliveryAssumption DEF Job
    <3>2. job.sent[i] > 0 \/ i \in job.passed \/ job.tokens[i] \in job.stale
      BY <1>1, <3>1 DEF SettledOK
    <3> QED BY <1>1, <1>5, <3>2 DEF Settled, TokensOK
  <2> QED BY <2>1, <2>2
<1>6. SettledOK(new, n, rw)
  BY <1>3, <1>5 DEF SettledOK
<1> QED BY <1>2, <1>4, <1>6 DEF JobOK

-----------------------------------------------------------------------------
(* The table of tasks *)

LEMMA JobsKept ==
    ASSUME IInv, newest' \in [Devices -> 1..MaxGen], row' \in [Keys -> 0..MaxGen],
           \A d \in Devices : newest[d] <= newest'[d],
           \A k \in Keys : row'[k] \in {row[k], 0, newest'[Device[k]]}
    PROVE  \A j \in DOMAIN jobs : JobOK(jobs[j], newest', row')
<1>1. newest \in [Devices -> 1..MaxGen] /\ row \in [Keys -> 0..MaxGen]
      /\ \A j \in DOMAIN jobs : JobOK(jobs[j], newest, row)
  BY DEF IInv, TypeOK
<1> QED BY <1>1, JobKept

LEMMA JobReplaced ==
    ASSUME jobs \in Seq(Job), Len(jobs) <= MaxJobs, NEW j \in DOMAIN jobs, NEW new,
           jobs' = [jobs EXCEPT ![j] = new], JobOK(new, newest', row'),
           \A i \in DOMAIN jobs : JobOK(jobs[i], newest', row')
    PROVE  /\ jobs' \in Seq(Job) /\ Len(jobs') <= MaxJobs
           /\ \A i \in DOMAIN jobs' : JobOK(jobs'[i], newest', row')
<1>1. new \in Job
  BY DEF JobOK
<1>2. jobs' \in Seq(Job) /\ Len(jobs') = Len(jobs) /\ DOMAIN jobs' = DOMAIN jobs
  BY <1>1
<1>3. \A i \in DOMAIN jobs : jobs'[i] = IF i = j THEN new ELSE jobs[i]
  BY <1>2
<1> QED BY <1>2, <1>3

(* The entries of which a task is made, and the tokens its list names. *)
Listed == {e \in Entries : row[KeyOf[e]] # 0}
TokensOf(order) == [i \in DOMAIN order |-> TokenOf(KeyOf[order[i]])]

LEMMA OrderIs ==
    ASSUME NEW order \in SetToSeqs(Listed)
    PROVE  /\ Cardinality(Listed) \in Nat
           /\ order \in [1..Cardinality(Listed) -> Listed]
           /\ \A i, h \in DOMAIN order : order[i] = order[h] => i = h
<1>1. Cardinality(Listed) \in Nat
  BY DeliveryAssumption, FS_Subset, FS_CardinalityType DEF Listed
<1> HIDE DEF Listed
<1>2. /\ order \in [1..Cardinality(Listed) -> Listed]
      /\ \A i, h \in 1..Cardinality(Listed) : i # h => order[i] # order[h]
  BY DEF SetToSeqs
<1> QED BY <1>1, <1>2

(* A device has a place for each of its entries at most. *)
LEMMA PlacesOfNew ==
    ASSUME NEW order \in SetToSeqs(Listed), NEW new, new.tokens = TokensOf(order), NEW d
    PROVE  /\ IsFiniteSet(PlacesOf(new, d))
           /\ Cardinality(PlacesOf(new, d)) <= Registrations(d)
<1> DEFINE P == PlacesOf(new, d)
           E == {e \in Entries : Device[KeyOf[e]] = d}
           f == [i \in P |-> order[i]]
<1>1. /\ Cardinality(Listed) \in Nat /\ order \in [1..Cardinality(Listed) -> Listed]
      /\ \A i, h \in DOMAIN order : order[i] = order[h] => i = h
  BY OrderIs
<1>2. DOMAIN new.tokens = DOMAIN order
      /\ \A i \in DOMAIN order : new.tokens[i].device = Device[KeyOf[order[i]]]
  BY DEF TokensOf, TokenOf
<1>3. \A i \in P : i \in DOMAIN order /\ order[i] \in E
  BY <1>1, <1>2 DEF PlacesOf, Listed
<1>4. IsFiniteSet(E)
  BY DeliveryAssumption, FS_Subset
<1>5. f \in Injection(P, E)
  <2> HIDE DEF P, E
  <2> QED BY <1>1, <1>3 DEF Injection, IsInjective
<1>6. IsFiniteSet(P) /\ Cardinality(P) <= Cardinality(E)
  <2> HIDE DEF P, E, f
  <2> QED BY <1>4, <1>5, FS_Injection DEF ExistsInjection
<1> QED BY <1>6 DEF Registrations

LEMMA NewJobIsOK ==
    ASSUME IInv, NEW order \in SetToSeqs(Listed)
    PROVE  JobOK(NewJob(TokensOf(order)), newest, row)
<1> DEFINE tokens == TokensOf(order)
           new == NewJob(tokens)
<1> MaxGen \in Nat BY DeliveryAssumption
<1>1. Cardinality(Listed) \in Nat /\ order \in [1..Cardinality(Listed) -> Listed]
  BY OrderIs
<1>2. \A e \in Listed : /\ TokenOf(KeyOf[e]) \in Token
                        /\ TokenOf(KeyOf[e]).gen <= newest[TokenOf(KeyOf[e]).device]
  <2>1. \A e \in Listed : KeyOf[e] \in Keys /\ row[KeyOf[e]] # 0
    BY DeliveryAssumption DEF Listed
  <2> QED BY <2>1 DEF TokenOf, Token, Devices, IInv, TypeOK
<1>3. /\ tokens \in [1..Cardinality(Listed) -> Token]
      /\ \A i \in DOMAIN tokens : tokens[i].gen <= newest[tokens[i].device]
  BY <1>1, <1>2 DEF TokensOf
<1>4. tokens \in Seq(Token)
  BY <1>1, <1>3, SeqDef
<1> HIDE DEF tokens
<1>5. [i \in DOMAIN tokens |-> 0] \in Seq(Nat)
  <2>1. [i \in DOMAIN tokens |-> 0] \in [1..Cardinality(Listed) -> Nat]
    BY <1>3
  <2> QED BY <1>1, <2>1, SeqDef
<1>6. new \in Job
  BY <1>4, <1>5, DeliveryAssumption DEF NewJob, Job
<1>7. /\ new.tokens = tokens /\ new.sent = [i \in DOMAIN tokens |-> 0] /\ new.stale = {}
      /\ new.state = "queued" /\ new.starts = 0
  BY DEF NewJob
<1> HIDE DEF new
<1>8. TokensOK(new, newest) /\ CopiesOK(new) /\ SettledOK(new, newest, row)
  BY <1>3, <1>7 DEF TokensOK, CopiesOK, SettledOK
<1>9. PlacesOK(new)
  BY <1>7, PlacesOfNew DEF PlacesOK, tokens
<1>10. JobOK(new, newest, row)
  BY <1>6, <1>8, <1>9 DEF JobOK
<1> QED BY <1>10 DEF new, tokens

(* What the tasks leave alone. *)
LEMMA TaskOnly ==
    ASSUME IInv, NEW j \in DOMAIN jobs, NEW new, Update(j, new), JobOK(new, newest, row),
           UNCHANGED <<registryVars, req>>, faults' \in 0..MaxFaults
    PROVE  IInv'
<1>1. UNCHANGED <<newest, row, known, req>> /\ jobs' = [jobs EXCEPT ![j] = new]
  BY DEF registryVars, Update
<1>2. /\ jobs' \in Seq(Job) /\ Len(jobs') <= MaxJobs
      /\ \A i \in DOMAIN jobs' : JobOK(jobs'[i], newest', row')
  <2>1. JobOK(new, newest', row') /\ \A i \in DOMAIN jobs : JobOK(jobs[i], newest', row')
    BY <1>1 DEF IInv
  <2> QED BY <1>1, <2>1, JobReplaced DEF IInv, TypeOK
<1>3. TypeOK'
  BY <1>1, <1>2 DEF IInv, TypeOK
<1>4. KnownStays' /\ \A k \in Keys : row'[k] <= newest'[Device[k]]
  BY <1>1 DEF IInv, KnownStays
<1> QED BY <1>2, <1>3, <1>4 DEF IInv

LEMMA FaultIsBounded == ASSUME IInv, Fault PROVE faults' \in 0..MaxFaults
BY DeliveryAssumption DEF Fault, IInv, TypeOK
-----------------------------------------------------------------------------
(* The steps *)

LEMMA InitIsOK == Init => IInv
<1>1. 0 \in Nat /\ MaxGen \in Nat \ {0} /\ MaxJobs \in Nat /\ MaxFaults \in Nat
  BY DeliveryAssumption
<1>2. SUFFICES ASSUME Init PROVE IInv
  OBVIOUS
<1>3. TypeOK
  BY <1>1, <1>2 DEF Init, TypeOK
<1>4. \A k \in Keys : row[k] <= newest[Device[k]]
  BY <1>2 DEF Init, Devices
<1>5. KnownStays /\ DOMAIN jobs = {}
  BY <1>2 DEF Init, KnownStays
<1> QED BY <1>3, <1>4, <1>5 DEF IInv

(* What the requests change beside their tasks. *)
LEMMA RequestOnly ==
    ASSUME IInv, NEW r \in Requests, NEW place \in {"idle", "waiting", "reading", "told"},
           Goto(r, place), UNCHANGED <<registryVars, jobs>>, faults' \in 0..MaxFaults
    PROVE  IInv'
<1>1. UNCHANGED <<newest, row, known, jobs>>
  BY DEF registryVars
<1>2. TypeOK'
  BY <1>1 DEF IInv, TypeOK, Goto
<1> QED BY <1>1, <1>2 DEF IInv, KnownStays

LEMMA EnqueueStep == ASSUME IInv, NEW r \in Requests, Enqueue(r) PROVE IInv'
<1>1. UNCHANGED <<newest, row, known, faults>> /\ Goto(r, "told")
  BY DEF Enqueue, registryVars
<1>2. faults' \in 0..MaxFaults
  BY <1>1 DEF IInv, TypeOK
<1>3. CASE UNCHANGED jobs
  BY <1>1, <1>2, <1>3, RequestOnly DEF registryVars
<1>4. CASE jobs' # jobs
  <2>1. PICK order \in SetToSeqs(Listed) : jobs' = Append(jobs, NewJob(TokensOf(order)))
    BY <1>4 DEF Enqueue, Listed, TokensOf
  <2>2. Len(jobs) # MaxJobs
    BY <1>4 DEF Enqueue
  <2> DEFINE new == NewJob(TokensOf(order))
  <2>3. JobOK(new, newest, row)
    BY NewJobIsOK
  <2> HIDE DEF new
  <2>4. new \in Job /\ jobs \in Seq(Job) /\ Len(jobs) <= MaxJobs /\ MaxJobs \in Nat
    BY <2>3, DeliveryAssumption DEF JobOK, IInv, TypeOK
  <2>5. jobs' = Append(jobs, new)
    BY <2>1 DEF new
  <2>6. jobs' \in Seq(Job) /\ Len(jobs') = Len(jobs) + 1
    BY <2>4, <2>5
  <2>7. \A i \in DOMAIN jobs' : IF i = Len(jobs) + 1 THEN jobs'[i] = new
                                 ELSE i \in DOMAIN jobs /\ jobs'[i] = jobs[i]
    BY <2>4, <2>5
  <2>8. \A i \in DOMAIN jobs' : JobOK(jobs'[i], newest', row')
    BY <1>1, <2>3, <2>7 DEF IInv
  <2>9. TypeOK'
    BY <1>1, <2>2, <2>4, <2>6 DEF IInv, TypeOK, Goto
  <2> QED BY <1>1, <2>8, <2>9 DEF IInv, KnownStays
<1> QED BY <1>3, <1>4

LEMMA RequestSteps ==
    ASSUME IInv, NEW r \in Requests, Publish(r) \/ RequestStep(r)
    PROVE  IInv'
<1>1. CASE Enqueue(r)
  BY <1>1, EnqueueStep
<1>2. CASE EnqueueFails(r)
  BY <1>2, RequestOnly, FaultIsBounded DEF EnqueueFails
<1>3. faults \in 0..MaxFaults
  BY DEF IInv, TypeOK
<1>4. CASE Publish(r) \/ Connect(r) \/ PoolTimeout(r) \/ Finish(r)
  BY <1>3, <1>4, RequestOnly DEF Publish, Connect, PoolTimeout, Finish
<1> QED BY <1>1, <1>2, <1>4 DEF RequestStep

LEMMA DeviceSteps == ASSUME IInv, DeviceStep PROVE IInv'
<1> MaxGen \in Nat \ {0} BY DeliveryAssumption
<1>1. /\ newest \in [Devices -> 1..MaxGen] /\ row \in [Keys -> 0..MaxGen] /\ known \subseteq Keys
      /\ \A k \in Keys : row[k] <= newest[Device[k]] /\ Device[k] \in Devices
  BY DEF IInv, TypeOK, Devices
<1>2. UNCHANGED <<req, jobs, faults>>
  BY DEF DeviceStep, Register, Withdraw, Renew
<1>3. /\ newest' \in [Devices -> 1..MaxGen] /\ row' \in [Keys -> 0..MaxGen] /\ known' \subseteq Keys
      /\ \A d \in Devices : newest[d] <= newest'[d]
      /\ \A k \in Keys : row'[k] \in {row[k], 0, newest'[Device[k]]}
      /\ \A k \in Keys : row'[k] <= newest'[Device[k]]
      /\ KnownStays'
  <2>1. ASSUME NEW k \in Keys, Register(k) PROVE <1>3!:
    <3>1. UNCHANGED newest /\ row' = [row EXCEPT ![k] = newest[Device[k]]] /\ known' = known \cup {k}
      BY <2>1 DEF Register, Upserted
    <3> QED BY <1>1, <3>1 DEF IInv, KnownStays
  <2>2. ASSUME NEW k \in Keys, Withdraw(k) PROVE <1>3!:
    <3>1. UNCHANGED newest /\ row' = [row EXCEPT ![k] = 0] /\ known' = known \ {k}
      BY <2>2 DEF Withdraw, Removed
    <3> QED BY <1>1, <3>1 DEF IInv, KnownStays
  <2>3. ASSUME NEW d \in Devices, Renew(d) PROVE <1>3!:
    <3>1. /\ newest[d] < MaxGen /\ newest' = [newest EXCEPT ![d] = newest[d] + 1]
          /\ UNCHANGED row /\ known' = {k \in known : Device[k] # d}
      BY <2>3 DEF Renew, registryVars
    <3>2. /\ newest' \in [Devices -> 1..MaxGen]
          /\ \A e \in Devices : newest'[e] = IF e = d THEN newest[d] + 1 ELSE newest[e]
      BY <1>1, <3>1
    <3>3. \A e \in Devices : newest[e] <= newest'[e]
      BY <1>1, <3>2
    <3>4. \A k \in Keys : row'[k] <= newest'[Device[k]]
      BY <1>1, <3>1, <3>2
    <3>5. KnownStays'
      BY <1>1, <3>1, <3>2 DEF IInv, KnownStays
    <3> QED BY <1>1, <3>1, <3>2, <3>3, <3>4, <3>5
  <2> QED BY <2>1, <2>2, <2>3 DEF DeviceStep
<1>4. \A j \in DOMAIN jobs : JobOK(jobs[j], newest', row')
  BY <1>3, JobsKept
<1>5. TypeOK'
  BY <1>2, <1>3 DEF IInv, TypeOK
<1> QED BY <1>2, <1>3, <1>4, <1>5 DEF IInv

LEMMA SendStep == ASSUME IInv, NEW j \in DOMAIN jobs, SendBatch(j) PROVE IInv'
<1> DEFINE job == jobs[j]
<1>1. job \in Job /\ job.state = "running" /\ JobOK(job, newest, row)
  BY DEF SendBatch, IInv, JobOK
<1>2. UNCHANGED <<registryVars, req>> /\ faults' \in 0..MaxFaults
  BY DEF SendBatch, IInv, TypeOK
<1>3. PICK delivered \in SUBSET Batch(job), refused \in SUBSET Batch(job) :
        /\ \A i \in refused : ~Delivers(job.tokens[i])
        /\ Update(j, Answer(job, delivered, refused))
  BY DEF SendBatch
<1> DEFINE new == Answer(job, delivered, refused)
<1>4. SentBy(job, delivered) \in Seq(Nat)
  BY <1>1, CountsAfter DEF JobOK, TokensOK
<1>5. {Named(job, i) : i \in refused} \in SUBSET Token
      /\ job.passed \cup (Batch(job) \ (delivered \cup refused)) \in SUBSET Nat
  BY <1>1, BatchIs DEF Named, Job
<1>6. job.next + BatchSize \in Nat \ {0} /\ job.next \in Nat \ {0}
      /\ After(job) \in {"running", "done"}
  BY <1>1, DeliveryAssumption DEF Job, After
<1>7. /\ new.tokens = job.tokens /\ new.starts = job.starts /\ new.swallowed = job.swallowed
      /\ new.sent = SentBy(job, delivered)
      /\ new.passed = job.passed \cup (Batch(job) \ (delivered \cup refused))
      /\ new.stale = {Named(job, i) : i \in refused}
      /\ new.state = IF refused = {} THEN After(job) ELSE "cleaning"
      /\ new.next = IF refused = {} THEN job.next + BatchSize ELSE job.next
      /\ new.tries = job.tries
  BY <1>1 DEF Job, Answer, SentBy
<1>8. new \in Job
  <2>1. (IF refused = {} THEN After(job) ELSE "cleaning")
            \in {"queued", "running", "cleaning", "done", "failed"}
    BY <1>6
  <2>2. (IF refused = {} THEN job.next + BatchSize ELSE job.next) \in Nat \ {0}
    BY <1>6
  <2> QED BY <1>1, <1>4, <1>5, <2>1, <2>2, Zenon DEF Job, Answer, SentBy
<1>9. newest \in [Devices -> 1..MaxGen]
  BY DEF IInv, TypeOK
<1>10. AnsweredTo(new, job, delivered, refused)
  BY <1>7, <1>8, Zenon DEF AnsweredTo, Named
<1>11. \A i \in refused : newest[job.tokens[i].device] # job.tokens[i].gen
  BY <1>3 DEF Delivers
<1>12. JobOK(new, newest, row)
  <2> HIDE DEF new, job
  <2>1. CASE refused = {}
    BY <1>1, <1>7, <1>9, <1>10, <2>1, SentIsOK
  <2>2. CASE refused # {}
    BY <1>1, <1>7, <1>9, <1>10, <1>11, <2>2, RefusedIsOK
  <2> QED BY <2>1, <2>2
<1> QED BY <1>2, <1>3, <1>12, TaskOnly

(* The job after a clean-up, or after one that failed. *)
LEMMA CleanedIs ==
    ASSUME NEW job \in Job, NEW new \in {Cleaned(job), [Cleaned(job) EXCEPT !.swallowed = TRUE]}
    PROVE  /\ new \in Job /\ new.tokens = job.tokens /\ new.sent = job.sent /\ new.stale = {}
           /\ new.passed = job.passed /\ new.starts = job.starts /\ new.state = After(job)
           /\ new.next = job.next + BatchSize
           /\ new = Cleaned(job) => new.swallowed = job.swallowed
           /\ new # Cleaned(job) => new.swallowed
<1>1. job.next + BatchSize \in Nat \ {0} /\ After(job) \in {"running", "done"}
      /\ {} \subseteq Token /\ TRUE \in BOOLEAN
  BY DeliveryAssumption DEF Job, After
<1>2. Cleaned(job) \in Job
  BY <1>1, Zenon DEF Job, Cleaned
<1>3. [Cleaned(job) EXCEPT !.swallowed = TRUE] \in Job
  BY <1>1, <1>2, Zenon DEF Job
<1>4. CASE new = Cleaned(job)
  BY <1>2, <1>4 DEF Job, Cleaned
<1>5. CASE new = [Cleaned(job) EXCEPT !.swallowed = TRUE] /\ new # Cleaned(job)
  <2>1. /\ new.tokens = Cleaned(job).tokens /\ new.sent = Cleaned(job).sent
        /\ new.stale = Cleaned(job).stale /\ new.passed = Cleaned(job).passed
        /\ new.starts = Cleaned(job).starts
        /\ new.state = Cleaned(job).state /\ new.next = Cleaned(job).next /\ new.swallowed
    BY <1>2, <1>5 DEF Job
  <2>2. /\ Cleaned(job).tokens = job.tokens /\ Cleaned(job).sent = job.sent
        /\ Cleaned(job).stale = {} /\ Cleaned(job).passed = job.passed
        /\ Cleaned(job).starts = job.starts
        /\ Cleaned(job).state = After(job) /\ Cleaned(job).next = job.next + BatchSize
    BY DEF Job, Cleaned
  <2> QED BY <1>3, <1>5, <2>1, <2>2
<1> QED BY <1>4, <1>5

LEMMA CleanStep == ASSUME IInv, NEW j \in DOMAIN jobs, Clean(j) PROVE IInv'
<1> DEFINE job == jobs[j]
           new == Cleaned(job)
<1>1. /\ job.state = "cleaning" /\ jobs' = [jobs EXCEPT ![j] = new]
      /\ row' = [k \in Keys |-> IF HeldStale(k, job.stale) THEN 0 ELSE row[k]]
      /\ UNCHANGED <<newest, known, req, faults>>
  BY DEF Clean, Update
<1>2. job \in Job /\ JobOK(job, newest, row)
  BY DEF IInv, JobOK
<1>3. /\ newest \in [Devices -> 1..MaxGen] /\ row \in [Keys -> 0..MaxGen] /\ known \subseteq Keys
      /\ \A k \in Keys : row[k] <= newest[Device[k]] /\ Device[k] \in Devices
      /\ MaxGen \in Nat \ {0}
  BY DeliveryAssumption DEF IInv, TypeOK, Devices
<1>4. /\ row' \in [Keys -> 0..MaxGen]
      /\ \A k \in Keys : row'[k] \in {row[k], 0, newest'[Device[k]]} /\ row'[k] <= newest'[Device[k]]
  BY <1>1, <1>3
<1>5. \A d \in Devices : newest[d] <= newest'[d]
  BY <1>1, <1>3
<1>6. \A i \in DOMAIN jobs : JobOK(jobs[i], newest', row')
  BY <1>1, <1>3, <1>4, <1>5, JobsKept
<1>7. \A t \in job.stale : t.gen \in Nat \ {0} /\ t.gen < newest[t.device]
  BY <1>2, <1>3 DEF JobOK, TokensOK, Job, Token
<1>8. \A k \in Keys : [device |-> Device[k], gen |-> row'[k]] \notin job.stale
  BY <1>1, <1>3, <1>7 DEF HeldStale, TokenOf
<1>9. KnownStays'
  <2>1. ASSUME NEW k \in known PROVE row'[k] = newest[Device[k]]
    <3>1. k \in Keys /\ row[k] = newest[Device[k]]
      BY <1>3 DEF IInv, KnownStays
    <3>2. ~HeldStale(k, job.stale)
      BY <1>3, <1>7, <3>1 DEF HeldStale, TokenOf
    <3> QED BY <1>1, <3>1, <3>2
  <2> QED BY <1>1, <2>1 DEF KnownStays
<1>10. JobOK(new, newest', row')
  <2>1. JobOK(job, newest', row')
    BY <1>6
  <2> HIDE DEF job
  <2> QED BY <1>1, <1>2, <1>8, <2>1, CleanedIs, CleanedIsOK
<1>11. /\ jobs' \in Seq(Job) /\ Len(jobs') <= MaxJobs
       /\ \A i \in DOMAIN jobs' : JobOK(jobs'[i], newest', row')
  <2> HIDE DEF new
  <2> QED BY <1>1, <1>6, <1>10, JobReplaced DEF IInv, TypeOK
<1>12. TypeOK'
  BY <1>1, <1>4, <1>11 DEF IInv, TypeOK
<1> QED BY <1>4, <1>9, <1>11, <1>12 DEF IInv

LEMMA TaskSteps ==
    ASSUME IInv, NEW j \in DOMAIN jobs, TaskStep(j) \/ TaskFault(j)
    PROVE  IInv'
<1> DEFINE job == jobs[j]
<1>1. job \in Job /\ JobOK(job, newest, row) /\ faults \in 0..MaxFaults
  BY DEF IInv, TypeOK, JobOK
<1>2. CASE Start(j)
  BY <1>1, <1>2, StartIsOK, TaskOnly DEF Start
<1>3. CASE SendBatch(j)
  BY <1>3, SendStep
<1>4. CASE Clean(j)
  BY <1>4, CleanStep
<1>5. CASE CleanFails(j)
  <2> DEFINE new == [Cleaned(job) EXCEPT !.swallowed = TRUE]
  <2>1. /\ job.state = "cleaning" /\ Fault /\ Update(j, new) /\ UNCHANGED <<registryVars, req>>
    BY <1>5 DEF CleanFails
  <2>2. /\ new \in Job /\ new.tokens = job.tokens /\ new.sent = job.sent /\ new.stale = {}
        /\ new.passed = job.passed /\ new.starts = job.starts /\ new.state = After(job)
        /\ new.next = job.next + BatchSize
    BY <1>1, CleanedIs
  <2>4. new.swallowed
    BY <1>1, CleanedIs, Zenon DEF Job, Cleaned
  <2> HIDE DEF new, job
  <2>3. JobOK(new, newest, row)
    BY <1>1, <2>1, <2>2, <2>4, CleanedIsOK
  <2> QED BY <2>1, <2>3, FaultIsBounded, TaskOnly
<1>6. CASE BatchFails(j)
  <2> DEFINE new == IF GivenUp(job) THEN [job EXCEPT !.state = "failed"]
                    ELSE [job EXCEPT !.state = "queued", !.tries = @ + 1]
  <2>1. Fault /\ Update(j, new) /\ UNCHANGED <<registryVars, req>>
    BY <1>6 DEF BatchFails
  <2>2. ~GivenUp(job) => job.tries + 1 \in 0..MaxRetries
    BY <1>1, DeliveryAssumption DEF GivenUp, Job
  <2>3. new \in Job
    BY <1>1, <2>2, Zenon DEF Job
  <2>4. /\ new.state \in {"queued", "failed"} /\ new.tokens = job.tokens /\ new.sent = job.sent
        /\ new.starts = job.starts /\ new.stale = job.stale
    BY <1>1 DEF Job
  <2> HIDE DEF new, job
  <2>5. JobOK(new, newest, row)
    BY <1>1, <2>3, <2>4, QueuedIsOK
  <2> QED BY <2>1, <2>5, FaultIsBounded, TaskOnly
<1>7. CASE WorkerLost(j)
  <2> DEFINE new == [job EXCEPT !.state = "queued", !.stale = {}]
  <2>1. Fault /\ Update(j, new) /\ UNCHANGED <<registryVars, req>>
    BY <1>7 DEF WorkerLost
  <2>2. new \in Job
    BY <1>1, Zenon DEF Job
  <2>3. /\ new.state = "queued" /\ new.tokens = job.tokens /\ new.sent = job.sent
        /\ new.starts = job.starts /\ new.stale = {}
    BY <1>1 DEF Job
  <2> HIDE DEF new, job
  <2>4. JobOK(new, newest, row)
    BY <1>1, <2>2, <2>3, QueuedIsOK
  <2> QED BY <2>1, <2>4, FaultIsBounded, TaskOnly
<1> QED BY <1>2, <1>3, <1>4, <1>5, <1>6, <1>7 DEF TaskStep, TaskFault

LEMMA NextKeepsIt == IInv /\ [Next]_vars => IInv'
<1>1. SUFFICES ASSUME IInv, [Next]_vars PROVE IInv'
  OBVIOUS
<1>2. CASE Next
  BY <1>1, <1>2, RequestSteps, TaskSteps, DeviceSteps DEF Next
<1>3. CASE UNCHANGED vars
  BY <1>1, <1>3 DEF vars, IInv, TypeOK, KnownStays
<1> QED BY <1>1, <1>2, <1>3

LEMMA IInvHolds == Spec => []IInv
BY InitIsOK, NextKeepsIt, PTL DEF Spec

-----------------------------------------------------------------------------
(* Theorems *)

(* Requests, tasks, devices and the registry have their types: counts are
   never negative, no task is retried more often than it may be, and no list
   of refused tokens holds anything else. *)
THEOREM TypeCorrect == Spec => []TypeOK
<1>1. IInv => TypeOK
  BY DEF IInv
<1> QED BY <1>1, IInvHolds, PTL

(* The clean-ups of tasks, delayed, retried or redelivered, never take the row
   of a device that registered its present token (remove_by_tokens removes by
   token). *)
THEOREM KnownRowsStay == Spec => []KnownStays
<1>1. IInv => KnownStays
  BY DEF IInv
<1> QED BY <1>1, IInvHolds, PTL

(* Over all batches and retries no device gets more copies of a push than one
   for each start of its task and each registration of an enrolled user on it:
   the list names a device no more often, no start sends to a place of the list
   twice. *)
THEOREM CopiesNeedRestarts == Spec => []CopiesAreRestarts
<1>1. IInv => CopiesAreRestarts
  <2> SUFFICES ASSUME IInv, NEW j \in DOMAIN jobs, NEW d \in Devices
               PROVE  Copies(jobs[j], d) <= jobs[j].starts * Registrations(d)
    BY DEF CopiesAreRestarts
  <2> DEFINE job == jobs[j]
             P == PlacesOf(job, d)
             f == [i \in P |-> job.sent[i]]
             g == [i \in P |-> job.starts]
  <2>1. job \in Job /\ TokensOK(job, newest) /\ PlacesOK(job) /\ CopiesOK(job)
    BY DEF IInv, JobOK
  <2>2. IsFiniteSet(P) /\ Cardinality(P) <= Registrations(d)
    BY <2>1 DEF PlacesOK
  <2>3. Cardinality(P) \in Nat /\ Registrations(d) \in Nat /\ job.starts \in Nat
    BY <2>1, <2>2, DeliveryAssumption, FS_Subset, FS_CardinalityType DEF Registrations, Job
  <2>4. \A i \in P : job.sent[i] \in Nat /\ job.sent[i] <= job.starts
    BY <2>1 DEF PlacesOf, Job, TokensOK, CopiesOK
  <2>5. Copies(job, d) = SumFunction(f)
    BY DEF Copies
  <2>6. /\ f \in [P -> Nat] /\ g \in [P -> Nat] /\ \A i \in P : f[i] <= g[i]
        /\ \A i \in P : g[i] = job.starts
    BY <2>3, <2>4
  <2> HIDE DEF f, g, P, job
  <2>7. SumFunction(f) <= SumFunction(g)
    BY <2>2, <2>6, SumLeq
  <2>8. SumFunction(g) = job.starts * Cardinality(P)
    BY <2>2, <2>3, <2>6, SumConst
  <2>9. job.starts * Cardinality(P) <= job.starts * Registrations(d)
    <3>1. \A s, a, b \in Nat : a <= b => s * a <= s * b
      OBVIOUS
    <3> QED BY <2>2, <2>3, <3>1
  <2>10. SumFunction(f) \in Nat
    BY <2>2, <2>6, SumNat
  <2>11. job.starts * Cardinality(P) \in Nat /\ job.starts * Registrations(d) \in Nat
    BY <2>3
  <2>12. Copies(job, d) <= job.starts * Registrations(d)
    BY <2>5, <2>7, <2>8, <2>9, <2>10, <2>11
  <2> QED BY <2>12 DEF job
<1> QED BY <1>1, IInvHolds, PTL

(* A task that is done without a failed clean-up sent to every token of its
   list, or was answered in its last start with a failure it only logs, or
   left nobody registered with the token, whatever was registered and renewed
   between its batches. *)
THEOREM DoneIsSettled == Spec => []DeliveredOrGone
<1>1. IInv => DeliveredOrGone
  BY DEF IInv, JobOK, SettledOK, Settled, DeliveredOrGone, TokenOf
<1> QED BY <1>1, IInvHolds, PTL
=============================================================================
