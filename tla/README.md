# classroom-api in TLA+

TLA+ models of classroom-api (FastAPI, SQLAlchemy, PostgreSQL, Celery, Redis),
the configurations TLC checks them with, and theorems about them that TLAPS
checks. Paths below are relative to `src/` of the repository's copy beside this
directory. `A/` stands for `src/modules/attendance/`.

    tlasany M.tla                     parse
    tlc -config X.cfg MCM.tla         check a run (PROJECT.json lists the runs)
    tlapm MProofs.tla                 check the proofs

## 1. Inventory

All state that outlives a request is in PostgreSQL and Redis. The API is one
asyncio process or several; every `await` is a point where another request
runs. A request is one transaction (`get_db`): READ COMMITTED, autoflush off,
committed after the endpoint has returned. Repositories return plain domain
objects and save them with `session.merge`, which re-reads the row and UPDATEs
only the columns that differ, without a version check: that single mechanism is
behind most of the hard behaviour, and is `Orm.tla`.

| component | state | operations | interacts with | hard behaviour | what makes it correct |
|---|---|---|---|---|---|
| Attendance sessions | `attendance_sessions` | open, close, cancel | event bus, expiry task | check-then-insert, stale saves, expired rows that still say open | one live call per class, an ended call stays ended, `closed_at` agrees with the status |
| Expiry task | the same rows | select due, update, push, commit, every minute | sessions, broker | partial failure, retries, overlap with requests | takes only expired calls, announces what it closes, every expired call is closed |
| Event bus and push handler | none | publish, enqueue a push | sessions, broker | published before the commit, failures swallowed | a push speaks of something that happened |
| Presence records | `attendance_records` | confirm, review | sessions (status, deadline), enrollment | decisions on one snapshot, unique index, torn reviews | one record per student, flags and status agree, evidence is not rewritten, decisions are final |
| Enrollment | `subject_class_enrollments` | enroll, reactivate, drop, delete, mass drop | members, invites, records | stale saves, partial unique index | one visible row per student and class, only students are active |
| Tenant members | `tenant_members` | add, change role, remove | enrollment, invites | last-admin check, stale saves | an institution keeps an admin |
| Invites | `tenant_invites` | send, resend, revoke, accept | members, enrollment, e-mail | overlapping saves, swallowed failures, deadlocks between acceptances | an acceptance is final and complete, a revoked invite admits nobody, every token was mailed |
| Password reset | Redis codes, JTI blacklist | forgot, verify, reset | users, e-mail | read-modify-write of a counter, check-then-set, commit last | five attempts, one change of password per code |
| Login, refresh, logout, switch | JWTs, Redis blacklist | login, refresh, logout, switch tenant | users, members | keys that expire, rotation is check-then-set | one refresh token per login, what is refused stays refused |
| Push delivery | `user_fcm_tokens` | register, withdraw, send in batches of 500, drop stale tokens | broker, FCM, connection pool | a retry repeats batches, tokens renewed meanwhile, one phone listed twice | every token is delivered, logged or gone, present ones stay |
| Connection pool | SQLAlchemy's pool | take, return, time out | requests, push handler | the handler takes a second connection | nobody waits for ever |
| Subject classes | `subject_classes` | create, update, delete | gate sessions and enrollments | what was counted before a deletion | the figures below |
| Figures: lists, cards, roster, history, dashboard, report | none | some thirty queries in six repositories | all tables | the same fact counted in several ways, limits, rounding | the screens agree and add up |
| Rooms, tenants, users | one table each | create, update, delete | gate the others | none of their own | |
| Rate limiter, permissions, pagination, e-mail tasks | counters | | | | |

PROJECT.json repeats this list with what is modelled, and lists under "hazards"
each place where the code can go wrong in a way a test would hardly reach.

## 2. Modules

    Orm                    what merge and flush write
    RollCall               abstract: the life of a call            <- refined by AttendanceSessions
    PresenceSheet          abstract: the sheet of a call           <- refined by AttendanceRecords
    AttendanceSessions     open, close, cancel, expiry task, pushes
    AttendanceRecords      confirm and review, over RollCall's actions
    Enrollments            members of an institution and their enrollments
    Invites                invites and their acceptance
    Credentials            tokens, their revocation, and the password reset
    Delivery               a push from the event to the devices, and the pool
    Figures                what the queries count
    MC*                    instances for TLC
    *Proofs                theorems about the module they are named after
    SumLemmas              theorems about sums, counts and least numbers, for the proofs

AttendanceRecords does not run beside AttendanceSessions' transactions but over
`RollCall`, which AttendanceSessions is shown to implement (checked by TLC,
proved by TLAPS): whatever a call can do to a confirmation in the code, it does
there in one step. This keeps both state spaces small and both proofs apart.

### AttendanceSessions

| variable | code |
|---|---|
| `clock` | `datetime.now(timezone.utc)` |
| `rows[s]` | the committed row: `status`, `expires_at`, whether `closed_at` is set |
| `lock[s]` | the transaction whose UPDATE holds the row |
| `req[r]` | a request: the step it is at, the entity it read, the columns its save will write |
| `sweep[t]` | a run of `close_expired_sessions`: the rows it selected, those it announced |
| `pushes` | announcements made: the devices of the class looked up, and `send_push_notification.delay` called if there are any |
| `failures` | rollbacks and failed handlers, bounded |

A request to open is `OpenLookup` (`find_open_session_by_class`), then
`OpenRefused` or `OpenInsert`, `Publish` or `PublishLost`, `Commit`. Close and
cancel are `FindSession`, then `EndRefused`, or `CloseMerge`/`CancelMerge`
(`save` up to `merge`), `Update` (`flush`: it takes the row lock), `Publish`
for close, `Commit`. `Abort` may come anywhere. The task is `SweepFind`,
`SweepFlush`, one `SweepNotify` per session, `SweepCommit` or `SweepAbort`.
A request refused before it read a session changes nothing and is not a step.

### AttendanceRecords

`records` are the committed rows with their status, flags, device, reviewer and
note; `lock` and `req` are as above. A confirmation is `ConfirmLookup`
(`find_confirmation_context`, one query), `ConfirmLate` or `ConfirmCheck` (the
clock is read here), `ConfirmInsert` or `ConfirmDuplicate` (the unique index:
an uncommitted row with the same key is waited for), `Commit`. A review is
`ReviewFind`, `ReviewRefused` or `ReviewMerge`, `ReviewUpdate`, `Commit`. The
three flags that depend only on what the client sent are one value `"client"`;
a note is known by who wrote it and for which decision. ConfirmedInTime says
of the near-expiry flag that it is there exactly if less than `NearWindow` was
left: in the run a confirmation falls on the window itself too. Calls start, end and
expire as `RollCall` says, and time passes, between any two steps.
The legacy path of the confirmation (`_execute_legacy`) is reached in
production only when the context query returns no row, which means the tenant,
the class or the session does not exist, and then ends in its own 404.

### Enrollments

Enrollments and members are saved by the same mechanism and their tables have
the same partial unique index, so `rows` holds both: the state (status or role),
the reason of a drop, and `deleted`. What never changes of a row (its class,
member, user) is a constant. `tokens` are the users with a registered device.
Enrolling is `EnrollAdmit` (the member and the role), `EnrollLookup` (the
enrollments of the key), then `EnrollRefused`, `EnrollReactivate` or `Insert`;
drop and delete are `EnrollmentFind`, `DropRefused`, `DropMerge`,
`DeleteMerge`; members are added by `AddLookup` and `Insert`, changed and
removed by `MemberFind`, the count of administrators (`MemberRefused`,
`MemberCleared`), `RoleMerge` or `RemoveMerge`, `Update`, and then
`DropAllFind`/`DropAllUpdate` or `RemoveTokens`. `Update` and `Insert` wait on
rows and keys, and `Duplicate` is the IntegrityError. `Context` is the join a
confirmation reads: it ties this module to AttendanceRecords, which takes the
students it lets through as given (`Members`).

### Invites

`invites` are the rows; a token is drawn together with its `expires_at`, so
`expired` is a set of tokens. `members` and `enrolled` are the memberships and
the enrollments of each (a user who is removed and added again has a second
membership), `mailed` the tokens given to `send_invite_email_task`. Sending is
`SendAdmit` (not a member), `SendRefused` or `SendInsert`, `Mail`, `Commit`;
resend and revoke are `ResendFind`/`RevokeFind`, `SaveMerge`, `SaveFlush`, `Mail`
for a resend, `Commit`. Acceptance is `AcceptFind`, `AcceptMember`, for a new
member `AcceptJoin` or `AcceptDuplicate`, the loop `EnrollLookup` with
`EnrollWrite` or `EnrollFails` per class, the save of the invite, `Commit`. For
a user who is a member already the invite is saved before the loop and once more
after it (`SaveAgain`), for a new one after it. The `except` in the loop swallows the exception, but the failed
flush has rolled the transaction back: the request is `"broken"` and whatever it
does next raises (`AfterFailure`). `Deadlocked` is PostgreSQL ending one of the
acceptances that wait in a circle (`InCircle`, of any length). `Add`, `Remove` and `Drop` stand for the
requests of administrators, which module Enrollments has in full.

Two clocks judge expiry. The entity compares `now > expires_at` by the clock of
the program: `expired` are the tokens of which that holds, and `Status` and
`IsPending` look there. The list by status and the counts compare
`expires_at <= now()` by the clock of the database: `Listed` and `Counts` take the
set of tokens of which this holds (`lapsed`) as an argument, and
StatusesPartition lets it be any set.

### Credentials

One user. `tokens` are the claims issued, their index the jti; `gone` and `ended`
are the Redis keys `blacklist:<jti>` and `user_revoked_before` with their
expiries, `code` the key `password_reset:<email>`. Each step of a request is one
Redis command or the commit: `RefreshCheck`, then `RefreshReused` or
`RefreshRotate`; `LogoutAccess`, `LogoutRefresh`; `SwitchCheck`, `Switch`;
`VerifyRead`, then `VerifyRight`, `VerifyLastWrong` or `VerifyTtl` and
`VerifyCount`; `ResetCheck`, `ResetSpend`, `ResetRevoke`, `ResetCommit`. `Abort`
leaves in Redis what was written and nothing in the database. A reset keeps the
mark in `ended` for the life of a refresh token, the refusal of a reused one for
the default of seven days (`ReuseLife`; `src/security/blacklist.py:26`), whatever
the settings say; that this is no shorter than the life of an access token is
part of the module's assumption. `wrong` and
`changes` are histories for the properties.

### Delivery

`newest[d]` is the installation a device has now, `row[k]` the one registered for
a user and device, `known` the keys whose present token was registered and not
withdrawn. A request holds one connection while its event is published
(`Publish`), takes a second for the handler (`Connect`, or `PoolTimeout`), reads
the tokens and enqueues a task (`Enqueue`). The query joins enrollments with
registrations and has no DISTINCT, so `Entries` are the rows it may return: a
phone two students share is in the list twice, and so is that of a student who
was removed, added and enrolled again. The task is `Start`, `SendBatch` for
each batch, and `Clean` or `CleanFails` when FCM refused tokens with a code of
the task's list. A token that fails in another way is only logged (`passed`), and
any token of a batch may. `BatchFails` is the retry of the whole task, `WorkerLost` the
redelivery. Devices register, withdraw and renew their tokens between any two
steps. The codes listed in `infra/tasks/notification_tasks.py:117-121` are taken to
be given for past tokens only.

### Figures

The tables as the queries read them, changed by one step per request, and every
query that counts as an operator over them: student list, page and cards,
`OwnClasses`, class list and cards, dashboard, report, statistics, roster,
history and the lists of live calls. The query of the worst orders by rate and
leaves ties open, so `TopAtRisk` is the set of the lists it may show. What was held and attended before the
window is a constant (`Held`, `Attended`), so that a rate near 75 % needs a
few steps only. Memberships and enrollments that were deleted stay in the tables
(`"removed"`, `erased`), a user may have several members (`UserOf`), and `Context`
is the join of a confirmation over all of them, of which it takes any row
(`Admits` is its test). What two requests do to each other is left to the other modules.

### Faulty variants

Each module keeps, before some definitions, a variant with a plausible bug (a
dropped guard, a swapped comparison, a missing reset). They are used nowhere in
the specification: PROJECT.json pairs each with a property that must fail when
the variant takes the definition's place.

## 3. Runs

| run | bounds | shows |
|---|---|---|
| sessions_concurrent | 2 sessions, 2 requests, 1 task, 1 failure | safety and the refinement of RollCall under every interleaving |
| sessions_serial | 2 sessions, 1 request, 1 task, 2 failures | one live call per class when requests do not overlap, and every expired call is closed |
| records_concurrent | 1 student, 1 reviewer, 2 records, 2 requests, deadline 2 | safety, the refinement of PresenceSheet, and every request is answered |
| records_serial | 2 students, 1 device, 2 reviewers, 1 request | the shared-device flag, and notes that match decisions |
| enrollments_concurrent | 1 student, 2 enrollments, 2 requests, roles aluno and professor | one visible row per key, and every request is answered |
| enrollments_serial | 2 administrators, a student with 2 membership ids, 2 enrollments, 1 request | only students are active, an administrator remains, pushes go to members |
| enrollments_entitled | 2 enrollments, 1 request | violated: an old deleted enrollment shadows the active one in a confirmation |
| invites_serial | 2 invites, 2 spellings of 1 address, a known and an unknown class, 2 tokens, 2 memberships, 1 request | an acceptance is final and complete, a revoked invite admits nobody, lists and counts share out the invites and agree with the status up to the clocks |
| invites_concurrent | 2 invites naming 2 classes in opposite orders, 2 tokens, 2 requests | every committed token was mailed, and acceptances do not block each other for ever |
| credentials_serial | 5 tokens, 2 codes, 3 attempts, 4 seconds, lives of 2 and 3 seconds, a reuse mark of 2, 1 failed write, 1 request | refusals last, one refresh token per login, one change per code, a change ends the access tokens before it |
| delivery_faulty | 2 users of 1 phone, the first enrolled twice, 2 requests, a pool of 2, batches of 2, 2 retries, 2 failures, 2 generations | registrations survive clean-ups, tokens are delivered, logged or gone, copies come from registrations and restarts, the task ends, nobody waits for ever |
| figures | 2 students, 1 professor with 2 membership ids, 2 classes, 2 calls after 47 lessons, 2 days, 1 correction | the screens agree on who is at risk and on every sum; what is shown as live is what a confirmation may accept, and surely accepts unless the student has returned |

Two requests and a task are enough: every hazard here is between two writers of
one row or one key, and for sessions, records and deliveries the proofs cover
any number. One student and class with two enrollment ids are enough for a
stale save to meet the row that took its place, and two membership ids for a
user who is removed and added again. Two invites to one user let an acceptance
meet a resend, a revocation and another acceptance. Three attempts instead of
five, and lives of a few seconds, keep the order of the settings (access not
longer than refresh). Three places of a list in batches of two make a second batch that
is not full, and two requests on two connections exhaust the pool. One
correction removes the professor, who may be added again as a student, or deletes
an enrollment that is then made again. Figures
looks back over the day itself (`Window` 0) and over a week of two days, so that
a call of yesterday is in the week and out of the month; with 36 of 47 lessons
attended, two more lessons put a student at the limit of 75 % (36 of 48), below
it (36 of 49) and above it (37 of 49). Devices are registered in the serial run of
Enrollments only (`Equipped`). Clocks stop at `MaxClock` or `MaxNow` and failures
at `MaxFailures`, `MaxFaults` or `MaxLapses`; the abstract modules have no bound.
Symmetry is used in safety runs only. `CHECK_DEADLOCK FALSE`: with the clock at
its bound, all ids used and no client sending anything, nothing is left to do.

`enrollments_entitled` shows where the code does something a document excludes,
without any overlap; PROJECT.json quotes the document under "findings".

### Where the code keeps less than its documents say

No run claims these: the code keeps the first two groups only while requests
come one at a time, and the others not at all. Each falls to TLC within seconds
or a few minutes in the configuration named.

- `AtMostOneLive` with a second request (SessionsSerial.cfg with
  `Requests = {r1, r2}`): two opens of one class overlap;
  `.tasks/6-attendance.md:744` has one open session per class.
- The other properties of the serial runs, the liveness one aside, with a second
  request: of two students who confirm on one device at the same time neither is
  flagged, and of two reviews one leaves the note of the other
  (RecordsSerial.cfg); an enrollment overlaps a change of role, the
  last two administrators change role at once, a device registers beside the
  removal of its user (EnrollmentsSerial.cfg); a revocation overlaps an
  acceptance, or a removal the acceptance of a member (InvitesSerial.cfg); two entries of a code, two resets, a login
  beside a reset (CredentialsSerial.cfg), and a refresh beside a change of
  institution, both of which draw a new refresh token (there with
  `MaxTokens = 6`: each request reserves two tokens). RefusedForGood is
  proved for any number of requests.
- `OnlyOpenMoves` (an action property, SessionsSerial.cfg): a cancelled call can
  be closed (`A/application/use_cases/close_session.py:79` refuses closed ones
  only); `.tasks/6-attendance.md:147` makes both final.
- `AnnouncedWasOpened` (an invariant, SessionsSerial.cfg): the push of an opened
  call leaves before a commit that may fail.
- `OnePending` (an invariant, InvitesSerial.cfg with `MaxTokens = 3`): a send, its
  expiry, a second send and a resend of the first leave two pending invites;
  `.tasks/2-invite-member.md:599` has one.

Remarks from the reading, without a property:

- A save of an enrollment or a member that overlaps its deletion clears
  `deleted` again; OneShownPerKey holds in spite of it. A review accepts a
  record that was already reviewed (`A/application/use_cases/review_record.py:83`
  refuses regular ones only).
- A professor who accepts an invite for students is enrolled: the loop looks at
  the role of the invite, not of the member. A failed class in that loop ends
  the whole acceptance in an error although the comment at
  `src/modules/tenant/application/use_cases/accept_invite.py:89` means to pass
  over it. Two expired invites of one address make the next send raise.
- A refresh token is held against its own key only, not against
  `user_revoked_before`; ChangeEndsSessions therefore speaks of access tokens. A
  login in the very second of a change of password is refused, as `iat` has
  whole seconds.
- A push that was retried can come after the one that says the call is closed.
  Two users of one phone keep two rows with one token, and as the list of tokens
  has no DISTINCT (`src/modules/enrollment/infra/repositories/enrollment_sqlalchemy_repository.py:267`)
  each push comes to it twice; so it does to a student with two active
  enrollments from two memberships. CopiesAreRestarts counts these.
- A token FCM refuses with a code that is not listed stays registered and is
  only logged, however often (`src/infra/tasks/notification_tasks.py:113-122`).
- An invite may be listed as expired and shown as pending, at the very moment of
  its expiry or with the clocks of program and database apart
  (`src/modules/tenant/domain/entities/tenant_invite.py:36`).
- The page of one student rounds a rate to two digits, the list to four, the
  cards not at all: 38 of 51 lessons is at risk on the list and regular on the
  page (RiskScreensAgree holds the page equal to the list up to 50 lessons, the cards
  up to 5000). The report counts
  cancelled calls, dropped enrollments, and a student without lessons as at
  risk. A list of students filtered by a class outside a professor's scope
  counts them and shows none. A removed member's enrollment stays active in the
  counts of classes and dashboard. The statistics of a call count the records
  of students who are no longer enrolled, so their rate can exceed 1. The count
  of live calls on the class cards includes inactive classes, the list of live
  calls does not. `assigned_classes` on the member page counts inactive classes.

## 4. Fairness

A request that was started is run to its end by the event loop: weak fairness
of its steps. Celery Beat starts the task every minute and `acks_late` with
`reject_on_worker_lost` hands a lost task out again: weak fairness of its
steps. PostgreSQL serves those who wait for a row or a key in order: strong
fairness of the UPDATEs and of the INSERT under the unique index (`Flush` in
Enrollments and Invites, which includes its refusal), and it ends one of the
transactions that wait for each other in a circle (`Deadlocked`, among the weakly fair
steps). In Delivery the steps of a request and of a task are weakly fair: the
pool raises after `pool_timeout`, and a worker takes every task. Faults, devices,
expiry of invites and the clock of Credentials are never forced. Nothing
makes a client send a request, a professor close a call, or a transaction fail.

## 5. Proofs

`AttendanceSessionsProofs` proves, for any sets of sessions, classes, requests
and tasks and any bounds, the type invariant, NeverReopened, SweptIsAnnounced,
ClosedAtMatchesStatus, EarlyEndIsManual, the refinement RollCallRefined, and
AtMostOneLive under the extra assumption that there is one request
(`OneRequest`). `IInv` adds what a step in the middle of a transaction knows:
the shape of a request at each step (`StepsInv`), that an id being opened is
absent from the table and from every other request (`OpenInv`), that the
entity a close or a cancel holds was read from a row that still exists with the
same deadline and will be written with `closed_at` (`EndInv`), and that a task
holds the locks of the rows it flushed and has announced what it says it has
(`SweepInv`). Without them a commit may write anything. AtMostOneLive also
needs `LookInv`: what the single request saw of its class is still true when it
inserts.

`AttendanceRecordsProofs` proves the type invariant, OneRecordPerMember,
RegularIffUnflagged, ConfirmedInTime, EvidenceStands and the refinement
PresenceSheetRefined. `IInv` consists of the type invariant, `RecordOK` (each
committed record belongs to a started call, was checked in time, is flagged as
near the deadline exactly if it was, and has flags that agree with its status), OneRecordPerMember, `RequestOK` (what a request at
each step holds, and how its entity relates to the committed row it came from)
and `Apart` (two requests never insert under one id, nor past the unique index
under one key). `CommitAddsOrDecides` reduces every commit to one of two
shapes, a new record or a decision on a reviewable one, and both the invariant
and the refinement follow from those two shapes.

`DeliveryProofs` proves, for any users, devices, requests, tasks and sizes of
pool and batch, and any number of failures, the type invariant, KnownStays,
CopiesAreRestarts and DeliveredOrGone. `IInv` says of every task what it knows
while devices and registry change beside it (`JobOK`): the tokens it holds are
no newer than those of the devices and the refused ones older (`TokensOK`, which
is why a clean-up cannot reach a present row), a device has no more places in the
list than registrations (`PlacesOK`), no token ahead of the next batch
was sent since the last start (`CopiesOK`), and those behind it were delivered,
are passed over or are past and registered for nobody (`SettledOK`). `JobKept` shows that this
outlives every registration, withdrawal and renewal: nothing registers an old
token again.

`EnrollmentsProofs` proves, for any numbers of members, classes and requests,
the type invariant and OneShownPerKey. A stale save can make a deleted row
visible again, so inserts are not the only steps to watch, and the proof rests
on `KeyOK`: whoever is about to make a row visible has its key to itself, among
the committed rows and among the requests. `RequestOK` ties each request to rows
of the table its step belongs to. Under `OneRequest` it proves ActiveIsStudent,
AdminRemains and ToldAreMembers, which only hold together: `SerialInv` adds that
what the request has read is still so (`Current`) and that registered devices
belong to members (`TokensHaveMembers`).

It also says what the violated run leaves open. `OnlyTheBuriedKeepOut`:
EntitledIsAdmitted holds in exactly those states where no student who is entitled
to confirm has an earlier enrollment, or an earlier membership, that was
deleted (`Buried`), so the finding has this cause and no other; only OneShownPerKey
and the shape of the join are needed. `NoCircleOfWaiting`: at any number of
requests, whoever waits for a row or a key waits for another request, and a chain of
waiting has two links at most and ends with one that may go on (`ChainsEnd`).
Its `LockInv` says who holds a row: the one that wrote it, and a change of role
that has finished its member and goes on to the enrollments is the only one that
waits while it holds something. `Answered` rests on this, and why nothing like
`Deadlocked` is in this module.

`InvitesProofs` proves the type invariant and TokensAreMailed for any number of
overlapping and failing requests: `RequestsOK` says that every request but a
send works on a row that exists and that one past its e-mail, a revocation and
an acceptance hold a token that was mailed, and `TokenRoom` that one is left for
each request that will draw one. While no two requests hold one invite
(`InvitesApart`) what a request read of its invite is still so (`ApartInv`),
whence StatusesPartition (for any clock of the database), AcceptedStands and
RevokedKeepsOut.
AcceptanceIsComplete needs one request (`OneRequest`), as a removal, a drop or
another acceptance may come between two of its steps; `AcceptInv` is the
invariant of the loop: every class is behind it and enrolled, or still ahead.
`EveryCircleIsBroken`: at any number of requests, wherever requests wait for
each other with no way out, there is a circle of acceptances among them that
`Deadlocked` breaks. Its `HoldInv` says why nothing else can close a circle: who is
still joining holds nothing, a new member updates the invite last, and its
membership is one nobody else can be enrolling into.

`CredentialsProofs` proves, for any lives of tokens and keys and any number of
overlapping requests, the type invariant and RefusedForGood: a key in Redis ends
no earlier than the tokens it stands against (`GoneOK`, `EndedOK`), and a second
write never moves its end back before that of a token it refuses. The others are
proved each from the absence of the one overlap that breaks it: WrongEntriesEndCode from `EntriesApart` (two
entries of one code read the same count), OneChangePerCode from that and
`ResetsApart`, OneRefreshPerLogin from `RenewalsApart` (two renewals of one
cookie both find it good), ChangeEndsSessions from `NothingIssuedMeanwhile` (a
pair issued between the mark in Redis and the commit). `NothingOverlaps` shows
that one request at a time meets all four hypotheses. The invariants they add
say how many entries a code has seen against its count (`EntriesCounted`), that
a code has one reset token and a reset token one change (`OneTokenPerCode`,
`OneChangePerToken`), that nobody is in between revocation and commit
(`SessionsAreEnded`), and that a login has no more good refresh tokens, beside
its newest and the one being given up, than writes to Redis failed (`FewGood`,
`RenewalsFit`).

`AttendanceRecordsProofs` has two results of the same kind:
SharedDeviceIsFlagged from `ConfirmationsApart` (no two confirmations of one
call from one device at once) and NoteMatchesDecision from `ReviewsApart` (no
two reviews of one record at once), both for any number of requests.

`FiguresProofs` proves, for any numbers of members, classes and calls and any
past, the type invariant, LiveListsAgree, EverythingAddsUp and RiskScreensAgree.
`IInv` adds to the type invariant what the operations owe the queries: a class
has one live call at most, which Open's look at the open calls gives and time
and the task keep, calls have a class, none begins in the future, and a user has
one membership that is not removed (`OneMembership`), so that of the rows of
`Context` one at most can admit. Deleted rows are no part of any invariant:
LiveListsAgree says that a student's confirmation is sure exactly if there are none
(`Returned`). Every list
and card of live calls then counts the classes with one (`LiveClasses`), by
bijections. The sums follow three patterns: a total is regrouped by class, by
student or by day (`SumFibres`), a list has one row for each member of a set
(`SumReindex`), pairs are counted by their first half (`CountPairs`). For
the screens of risk, rounding to four digits keeps a rate on its side of 75 % up
to 5000 lessons and rounding to two up to 50 (`RoundingKeepsTheLimit`; 3752 of
5003 lessons and 38 of 51 are the first to cross); a student below the limit over
all classes is below it in one (`OneClassIsBelow`), hence on the dashboard; and as
`Worse` is an order, a list of the worst exists and leaves out nobody who is
worse than one it shows (`SomeOrder`, `TheWorstAreShown`).

`SumLemmas` has what these proofs need of sums over finite sets of any size. A
sum is a recursive function on the subsets of its set; that it is what its
recursion says, for whatever element is taken first, is proved by least
counterexample, from the well-foundedness of < on the cardinalities, since
the library's induction theorems cannot be instantiated here.

Hypotheses such as `InvitesApart` say of the requests under way what a client or
a lock would have to ensure: no transaction of the code does. Each is true of
every behaviour with one request at a time, and TLC shows what the property
loses without it (section 3).

Assumptions: the named ASSUMEs of each module (null values distinct from the
rest, deadlines and durations natural numbers, sizes positive; the members and
ids of Enrollments, the requests of Invites and Credentials, the members, classes
and calls of Figures are finite sets, as a table and a process hold no others),
which TLC evaluates on every run. ClosedAtMatchesStatus, RegularIffUnflagged and
the type invariants of Invites, Credentials, Delivery and Figures are theorems
that no run repeats.

Not proved and left to TLC: the liveness properties (ExpiredGetsClosed, Answered,
DoneInTheEnd), as fairness is out of the prover's reach. Every other property of a
passing run is a theorem.

## 6. State of the plan

Done: the ten modules of section 2, checked, and theorems about the seven of them
that have a behaviour of their own, which cover every safety property and every
refinement of a passing run. Not begun: an abstract membership that
Invites and Enrollments would both refine, and the geographic figures of the
report against a reference definition.

## 7. Not modelled

E-mail tasks, rooms, tenants and users, the rate limiter, pagination, error
handling, settings and migrations: single rows or no state at all that two
actors contend for. Of the reports, the distances, the parallel strategies
(which compute one function) and the log of reports; of the queries, paging,
sorting, searches, averages of rates and the last call. GPS distances and day
codes are pure functions of one request. Names, messages and the scope a token
carries are left out everywhere. A hazard that no property covers yet carries
the reason in PROJECT.json.
