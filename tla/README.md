# A verification project for ctf-recruit

ctf-recruit is a platform for a recruiting CTF: a Go API over PostgreSQL, Redis
and Docker, with a React frontend. Players register, read challenges, start a
private container of a dynamic challenge, submit flags and climb a scoreboard;
administrators run the contest, the challenges and the instances. This
directory holds TLA+ models of the parts of the backend whose correctness
depends on interleavings, failures and time, TLC configurations that check
small instances of them, and proofs that TLAPS checks for all instances.

## 1. Inventory

Paths are relative to `src/backend/internal` unless they start with `src/`.

| Component | State | Operations | Hard behaviour |
|---|---|---|---|
| Instance runtime service (`runtime/service.go`) | one mutex | StartInstance, RenewInstance, DeleteInstance, GetInstance, SweepExpired, Reconcile | each operation is 3 to 10 calls to two systems that fail independently |
| Instance rows (`store/runtime_repository.go`) | table `challenge_instances` with a partial unique index | reads and writes of the service | limits are read several statements before the INSERT they protect |
| Docker manager (`runtime/docker.go`) | containers labelled `ctf.platform=recruit`, host ports | create/start/inspect, stop, exists, list | replies get lost, ports collide, containers die by themselves |
| Background goroutine (`app/server.go:150`) | its ticker | Reconcile at start; SweepExpired, then Reconcile on each tick | an error skips the rest of the tick |
| Administrator's termination (`admin/service.go:236`) | the same rows and containers | TerminateInstance | takes no mutex |
| Flag submission (`game/service.go`, `store/game_repository.go`) | tables `submissions`, `solves` | SubmitFlag | check-then-insert by concurrent requests of one user, a contest that is frozen meanwhile |
| Contest phase (`contest/types.go`, `store/contest_repository.go`) | one row of `contests` | Current, Phase, Update | read once per request, then trusted |
| Scoreboard (`store/game_repository.go:274`, `store/db.go`) | pool of 10 connections | ListScoreboard | a nested query per row holds two connections; two reads, no snapshot |
| Rate limiters (`app/rate_limiter.go`, `app/submission_limiter.go`) | buckets in memory, counters in Redis | Allow | INCR and PEXPIRE are not atomic; fallback counts elsewhere |
| Authentication (`auth`, `store/user_repository.go`) | table `users`, signed tokens | Register, Login, Authenticate, Me | a token outlives changes of role and status |
| Challenge administration (`admin`, `store/admin_repository.go`) | challenges, runtime configurations, authors, users, announcements, audit log | create, update, authors, users | ownership checked in one statement and used in another; two transactions that replace the same authors; audit entries written after the commit |
| Templates (`challengeimport/importer.go`) | none: a text becomes a specification | parseSpec, NormalizeSpec | a parser of its own that goes from line to line with a section, a nested section and two keys for one field |
| Attachments and import (`challengeimport`, `app/admin_import_challenges.go`, `admin/service.go:149`) | files and rows | CreateAttachment, ImportSpec, by a request or by the command | files and rows change in separate steps, one inside an uncommitted transaction; imports meet administrators and each other |
| HTTP plumbing, metrics, logging, configuration, image build, scripts | none that decides anything | | |
| Frontend, deployment, load tests | | | out of scope |

The request handlers are goroutines of one API process. They share the mutex of
the runtime service, the database and Docker; nothing else coordinates them.
When the process dies, every handler dies with it, and the database, Docker and
Redis stay as they are. The background goroutine is another goroutine of the
same process; administrators' requests meet it and the players only in the
database and in Docker.

What makes each component correct:

* Instances: a row marked terminated has no container left; one active instance
  per user and challenge; distinct host ports; the limits on active instances,
  cooldown, renewals and lifetime hold although they are checked early; what a
  failure or a crash leaves behind is found and removed.
* Submissions: one solve per user and challenge, backed by a correct submission
  of the same user, never changed afterwards; a correct submission that was
  answered has its solve.
* Scoreboard: sorted, scores of one moment that the listed solves explain, no
  lower later unless negative points were awarded, never blocks the pool.
* Rate limiters: at most `max` requests per window, and a window that ends.
* Authentication: permissions follow the role in force when the token was made,
  and no longer than its lifetime.
* Administration and import: an author reaches only owned challenges; the
  authors of a challenge are the ones asked for; a challenge and its runtime
  configuration are stored together as one request or template declares them; a
  row names a file that exists; a failed import changes nothing.

## 2. Plan

In the order of importance. *Done* means modelled, checked and, where it says
so, proved.

1. `InstanceRuntime` (done): runtime service, rows, Docker, background
   goroutine, administrator. Safety under every failure, limits under
   concurrency, liveness of the background jobs. `InstanceRuntimeProofs`: type
   correctness, every safety invariant, the three limits and the refinement of
   `InstanceLease` (done).
2. `FlagSubmission` with `ContestPhase` (done, and every safety property proved
   in `FlagSubmissionProofs`), and the abstract specification `SolveLedger` that
   it implements (checked and proved).
3. `ScoreboardPool` (done): nested queries on the pool, what a board shows.
   `ScoreboardPoolProofs`: the pool always has a connection left, a board
   explains its scores and drops none without negative points (done).
4. `RateLimiter` (done): memory window, Redis counter, fallback.
   `RateLimiterProofs`: what any window admits (done).
5. `ChallengeAdmin` with `Permissions` and `ChallengeTemplate` (done):
   ownership, authors, roles, audit, the parser of templates and imports beside
   the requests. `ChallengeTemplateProofs`: the parser reads what every text
   declares (done). `ChallengeAdminProofs`: who writes and is bound, what a
   replacement leaves, what is stored, the audit log (done).
6. `AttachmentImport` (done): files against rows, rollback and crash.
   `AttachmentImportProofs`: what was promised is kept, the directory is rebuilt
   (done).
7. `AuthSession` (done): registration, login, the life of a token and of the
   role in it. `AuthSessionProofs`: type correctness and `EmailsDistinct` (done).
8. `InstanceLease` (done): an abstract specification of an instance as its user
   sees it (none, open, ended), implemented by `InstanceRuntime` (checked and
   proved).

## 3. InstanceRuntime

### State and actions

`rows` is the table (ids in insertion order), `conts` the containers Docker
knows, `cfg` the saved configuration of each challenge, `mu` the mutex, `pc` and
`loc` the next call and the local variables of each goroutine: `Reqs` run the
players' handlers, `Admins` the administrator's, `Bg` the background
goroutine. One action is one SQL statement or one Docker request, in the order
of the code; taking the mutex is folded into the first call under it, releasing
it into the last. So a mutex holder interleaves with administrators, the clock,
dying containers, configuration changes and crashes at every call.

| Code | Actions |
|---|---|
| `StartInstance`, `startContainer`, `DockerManager.Start` | `StartInstance`, `StartActive`, `StartCapacity`, `StartCooldown`, `ListActiveHostPorts`, `CreateContainer`, `CreateFails`, `StartContainer`, `StartPortTaken`, `StartFails`, `InspectContainer`, `InspectFails`, `CreateInstance`, `CreateInstanceFails`, `UndoStart` |
| `RenewInstance` | `RenewInstance`, `RenewDecide`, `RenewUpdate` |
| `DeleteInstance` | `DeleteInstance`, `DeleteFind`, `DeleteStop`, `DeleteTerminate` |
| `SweepExpired` | `SweepExpired`, `SweepStop`, `SweepStopFails`, `SweepTerminate`, `SweepDone` |
| `Reconcile` | `Reconcile`, `ListManagedContainers`, `CheckExists`, `CheckTerminate`, `CheckDone`, `StopExtra`, `StopExtraFails`, `ReconcileDone` |
| `admin.TerminateInstance` | `AdminRead`, `AdminStop`, `AdminTerminate` |
| any call that returns an error | `CallFails` |
| process restart, saved configuration, time, container exit | `Crash`, `UpdateConfig`, `Tick`, `ContainerExits` |

Abstractions: an image, a command, an access URL and a time stamp that no
decision reads are left out (`terminated_at` is one: an administrator who
terminates a terminated row rewrites it). `GetInstance` only reads. The status
`creating` of the schema is never written. A container that Docker is removing
counts as gone. A container is created with AutoRemove, so stopping it removes
it; one that was created and never started is not removed by a stop request. A
reply that is lost after an UPDATE took effect is the update followed by the
failure of the call, which has the same effect on every variable. The Docker
list is not ordered, so which container `managedByKey` keeps is any.

### Runs

| Run | Instance | Shows |
|---|---|---|
| `instance_failures` | 2 users, 1 challenge, 1 request and 1 administrator goroutine, 2 rows, 3 containers, 2 ports, every failure, 1 crash | `TypeOK`, `StoppedBeforeTerminated`, `DistinctActivePorts`, `ContainersOwnedOnce` |
| `instance_limits` | 2 users, 2 request goroutines, 1 administrator, a strict and a loose configuration swapped at will, time 0..2 | `InsertNeverConflicts`, `ImplementsLease`, `CapacityRespected`, `CooldownRespected`, `RenewalsWithinLimit` |
| `instance_liveness` | 1 user, challenge withdrawn and published again, 2 rows, 2 containers, failures of every call of the background goroutine, 1 crash | `ExpiredReclaimed`, `DeadRowTerminated`, `OrphanReclaimed` |
| `instance_sweep_blocked` | 2 users, container 1 cannot be stopped | violates `ExpiredAlwaysReclaimed` |

The bounds: two rows of one key are enough for a cooldown, a port conflict and a
renewal against a termination; a third container is one that a failed start left
behind while two others run; a crash and every failure may each come at any
call. Two users of one challenge share its limit of one active instance. A third
request goroutine would wait at the same mutex as the second. `Users` and `Reqs`
are symmetric in the safety runs; the liveness run uses no symmetry.

Fairness (`FairSpec`): a handler that has begun runs on, since every call has an
answer or times out (the Docker client after 15 s). The background goroutine
ticks for ever, gets the mutex (a Go mutex goes to the longest waiter after 1 ms)
and does not meet the same failing call for ever: strong fairness of each of its
calls that succeeds. Nothing is assumed of administrators, of the clock or of
new requests.

`InstanceLease` is what all of this promises a player, without goroutines, mutex
or failures: a lease is granted when its user has no other of the challenge, on
a container no other lease ever had; it is renewed from the later of its end and
now by at most one time to live, and the renewal is counted; it ends only when
its container is gone, and never changes after that. `ImplementsLease` maps a
row to a lease (`none`, `open`, `ended`), its container, its expiry and its
count of renewals. It excludes, among others, a renewal that read an active row
and writes it after a termination, a second row for a container, and a row that
is marked terminated while its container runs.

### What the documentation says and the code does not do

* `docs/requirements.md:67`: expired instances are reclaimed by the background
  job. One expired container that cannot be stopped ends each sweep before the
  others, and the Reconcile of that tick with it (`instance_sweep_blocked`).
* `docs/dynamic-instances.md:49` and `docs/development-baseline.md:242`:
  reconciliation removes managed containers without a record. Two exceptions are
  in the model, and `OrphanReclaimed` names them: Reconcile keeps one container
  for each user and challenge in a map, so a second one of the same key is not
  seen; and a container that was created and never started answers a stop
  request with 304, is taken as removed, stays, and can hide another of its key.

### Proved

`InstanceRuntimeProofs` proves `TypeCorrect == Spec => []TypeOK` for every value
of the constants that satisfies the three named assumptions of the module. The
last conjunct of `TypeOK` ties the control point of a goroutine to its locals (a
goroutine about to use a container or a row has one): without it the writes
`rows'[loc[p].row]` and `conts'[loc[p].cont]` would not keep their types, so
`TypeOK` is inductive as it stands. The proof has one lemma per kind of step
(entering under the mutex, moving on, returning, stopping, terminating a row),
and one per operation that combines them.

The module also proves the other safety invariants, the limits and the refinement
from one invariant, `IInv`. None of the properties is inductive: each
of them is about a row when it is written, and rests on what the goroutine read
several calls before.

* `MutexHeld`: whoever is inside an operation of the service holds its mutex, so
  only the administrator, the clock, Docker and the configuration can have
  changed anything since.
* `RowsIssued`: a row that exists names a container that was started for its
  user and challenge, and a row that does not is blank.
* `StartKnows`, `StartOwns`: from each check of `StartInstance` to the INSERT the
  check stays true (no active row of the key; fewer active rows than the limit; no
  row within the cooldown; every active port is in the list of used ports), and
  the container that was created is in no row. Administrators only end rows,
  which makes none of these false; this is why they need no mutex.
* `RenewKnows`: the count and the expiry that a renewal writes are still those of
  the row.
* `RowsHeld`: who is about to terminate a row has seen its container go.

`Effect` sums up what a step may do to the tables (create, start or stop
containers, insert, renew or terminate one row, let time pass), and the lemma
`StepEffect` says that every step of `Next` is one of these. The
properties of steps and the refinement are proved for each kind of effect, not
for each action: a step grants, renews or ends one lease, lets containers stop,
or changes none.

## 4. FlagSubmission, ContestPhase, SolveLedger

`status` and `chals` are what administrators change at any time: the status of
the contest and the saved form of each challenge. `subs` and `solves` are the two
tables, `pc` and `loc` the next statement and the locals of each request
goroutine, `replies` a history of the replies to correct flags, `faults` the
failures so far.

| Code | Actions |
|---|---|
| `handleSubmitFlag`, `requireContestPhase` | `Admit`: the phase is read once and then trusted |
| `SubmitFlag`: `GetChallenge`, `evaluateFlag` | `GetChallenge` |
| `CreateSubmission` | `CreateSubmission` (answers a wrong flag) |
| `HasSolved` | `HasSolved` (answers a flag that was solved before) |
| `CreateSolve`, `ON CONFLICT DO NOTHING` | `CreateSolve`, answered as a solve in either case |
| a failing statement, a lost reply, death of the process | `CallFails`, `ReplyLost`, `Crash` |
| `contest.Update`, `UpdateChallenge` | `UpdateContest`, `UpdateChallenge` |

A flag strategy with its stored value is the set of inputs it accepts, and time
stamps are the order of insertion. `SolveLedger` is what the component promises:
points of a user and challenge are credited once and for good, and confirmed
only after they were credited. The refinement maps a key to the points of its
solve and `accepted` to the keys of the replies.

| Run | Instance | Shows |
|---|---|---|
| `submission_ledger` | 2 users, 1 challenge in 3 forms (another flag and other points, withdrawn), 2 requests, 2 submissions, contest running or frozen, 1 failure of any kind | `TypeOK`, `SolveBacked`, `SolvedOnce`, `AcceptedIsRecorded`, `WinnerToldPoints`, `ImplementsLedger`, `CorrectIsSolved` |

Two submissions are what a race of one key, a retry after a failure and two
users at once need; a third would find the state that the first two left. The
other statuses of the contest admit no submission, as `frozen` does.
`CorrectIsSolved` is checked under weak fairness of each handler: a statement has
an answer. It says that a correct submission leads to its solve unless a
statement fails after it, also when an earlier submission failed.

`docs/api.md:595` says that the reply tells whether this is the first solve. Two
correct submissions that both pass `HasSolved` are both answered as solved with
points, although one solve exists: the INSERT of the second changes nothing and
`CreateSolve` reports no error. `WinnerToldPoints` therefore speaks of the
request whose INSERT took effect.

Proved in `FlagSubmissionProofs`, for any number of users, challenges, requests
and submissions: type correctness, the four safety invariants and the
refinement. The invariants are not inductive: that a new solve is backed needs to
know that the submission a handler remembers is its own, correct, and remembered
by no other handler (`OwnSubmission`), and `WinnerToldPoints` needs to know that
a reply that says "solved" has the number of an earlier submission
(`RepliesNumbered`). `IInv` is `TypeOK` with these two and the properties. The
step proof has one lemma per way to change a table (insert a submission, insert
a solve or meet a conflict, change nothing), used by one step per action. The
refinement adds that each step is a `Credit`, a `Confirm` or a stutter of the
ledger.

## 5. RateLimiter

One key of the limiters in `newAppLimiters`: `counter` is the Redis counter,
`bucket` the window in memory that answers when Redis does not, `recent` a
history: for each limiter and age below `Window`, how many requests it admitted
since that many ticks ago. `Allow`
begins a request; `Incr` and `PExpire` are the two Redis commands, on two
connections; `PrimaryFails` is any error of either, with or without effect, and
leads to `MemoryAllow`. `Crash`, `RedisRestarts` and `Tick` are the environment.

| Run | Instance | Shows |
|---|---|---|
| `limiter_bursts` | 3 requests, 2 per window of 3 ticks, every failure, one crash and one Redis restart | `TypeOK`, `AdmissionBounded` |
| `limiter_stuck` | 2 requests, 1 crash, no failing command | violates `WindowEnds` |

`AdmissionBounded`: in any `Window` consecutive ticks a limiter admits at most the
requests of the two windows that may overlap them, and of one more each time it
lost its count. More requests than `Max` at once are needed to see one refused,
so three are enough for `Max = 2`.

A counter whose PEXPIRE never came has no expiry. Nothing resets it, and once
above the limit it refuses its key for ever (`limiter_stuck`; the fairness there
is that time passes and that a command is answered). `submission_limiter.go`
repeats the window in memory and is not used by the server.

Proved in `RateLimiterProofs`, for any limit, window, number of requests and of
restarts: type correctness and `AdmissionBounded`. The bound on a whole window is
not inductive. `IInv` says for each age what was admitted since then: within the
present window it is counted (`Bound`, second line), and what is older adds at
most one window more, and one for each time the count was lost. A request that
counted 1 is admitted only after its PEXPIRE, perhaps when its key is gone, so
the requests between the two commands are added to what was admitted; there is
at most one of them for each restart of Redis and one while the key has no expiry
(`PendingOK`).

## 6. ScoreboardPool

`free` counts the connections of the pool (`MaxOpenConns`); a request for the
scoreboard (`Scoreboard`, `ContestPhase`, `ListScoreboard`,
`ListScoreboardSolves` for each row, `Reply`, `Fails`) holds one while it waits
for another. Any other request uses one connection for one statement
(`CreateSolve`, `UpdateChallenge`, `UpdateUser`) and is one action that needs a
free one. `BoardQuery` is the first query with its `ORDER BY`.

| Run | Instance | Shows |
|---|---|---|
| `scoreboard_answers` | 2 boards, 3 connections, 2 users, 1 challenge worth -1, 0 or 2, 1 solve, failing queries | `TypeOK`, `PoolNeverExhausted`, `SolvesExplainScore`, `ScoresNeverDrop`, `BoardAnswered` |
| `scoreboard_exhausted` | 2 boards, 2 connections | violates `BoardAnswered` |

What matters is whether the boards that are requested at once are fewer than
the connections, not how many there are: 2 against 3 and 2 against 2 stand for
9 and 10 against 10. One solve is enough for every order of a solve, a change of
points, an earlier answer and the two queries of a board; sums of several rows are
left to the proof. Fairness is strong for each request: `database/sql` gives a
free connection to some waiter, so one that waits again and again gets one.

`docs/requirements.md:64-65` puts the scoreboard among the paths that come first.
As many boards as connections block each other, and everything else, until the
clients hang up (`scoreboard_exhausted`).

Proved in `ScoreboardPoolProofs`, for any number of users, challenges, solves,
boards and connections: type correctness and the three invariants. For
`PoolNeverExhausted` the inductive invariant (`PoolConserved`) says that the free
connections and the requests that hold one add up to the pool; the step proof
needs only how each action changes the set of the holders.

`Points` is any set of integers: `CreateChallenge` and `UpdateChallenge` of the
administration (`admin/service.go:55-119`) and the schema (`points INT NOT NULL`)
check no sign, only the importer asks for positive points (`importer.go:249`).
`SolvesExplainScore` does not depend on the sign: all scores of a board are those
of one moment since its request began, and the solves of each entry are those of
that moment or a later one, so an entry may list a solve that its score does not
count yet, and a score may be above the sum of the solves when that solve was
awarded negative points. `ScoresNeverDrop` does: lowering what a challenge is worth
never lowers a score that was shown, but a solve that is awarded negative points
does, and the property says so (`Penalized`). No document promises more, so the
drop is no finding.

Both compare what a request has read with what was read before or is read later.
`IInv` says that every score on its way to an answer is the user's score after so
many rows of the table, the same number for the whole board, that what was shown
before is a score after fewer rows, and it is kept because the rows that there
were stay (`ScoreAtKept`). Two facts about sums are behind that: zeros that are
added change nothing (`SumPadded`), and rows that are not negative never make a
sum less (`SumGrows`). They are proved by induction over the rows, with the set of
the numbers for which they hold instead of a predicate (`Induction`, from the
library's well-founded minimum).

## 7. ChallengeAdmin, Permissions, ChallengeTemplate

`role`, `row`, `config` and `authors` are the tables users, challenges,
challenge_runtime_configs and challenge_authors, `audit` is the audit log,
`commits` a history of the changes that were committed, `held` the roles a token
of each user may still carry. A request (`Begins`, `ImportRequest`) acts with any
role its user has held; the command `import-challenges` has no token.

| Code | Actions |
|---|---|
| `CreateChallenge` | `CreateChallenge`: one transaction with the author's binding |
| `UpdateChallenge` | `GetChallenge` (for the audit entry), `UpdateChallenge` (the EXISTS), `LockChallenge` (the row lock), `CommitChallenge` |
| `UpdateChallengeAuthors`, `SetChallengeAuthors` | `Candidate` for each user, `ClearAuthors` (the snapshot of the DELETE), `DeleteAuthors` (its row locks), `BindAuthor` for each user, `AuthorsBound`, `CommitAuthors` |
| `handleAdminImportChallenges`, `ImportFile`, `ImportSpec` | `ImportRequest` or `ImportCommand`, then for each file `ImportFile`, `UpsertChallenge`, the steps of `SetChallengeAuthors` if the template names owners, `CommitImport`; at the end `ImportDone` |
| `UpdateUser`, announcements, `contest.Update` | `UpdateUser`, `Announce`, `UpdateContest` |
| `CreateAuditLog`, error ignored | `CreateAuditLog` |
| an error, death of the process, the deadlock detector | `Fails`, `Crash`, `DeadlockDetected` |

Statements are at READ COMMITTED: a statement sees what is committed when it
starts, then waits for locked rows. `WaitsFor` says which goroutines the next
statement waits for: for the row of the challenge, for a binding that another
transaction deletes, for one that another has inserted. `Commit` also does what
a commit does to the transactions that wait for it: a binding that was deleted
and inserted anew is another row, which a DELETE that started before does not
see. Two replacements with the same users in another order wait for each other,
until Postgres ends one.

`ChallengeTemplate` has no state: `Parsed` folds `ReadLine` over the lines of a
text as the loop of `parseSpec` does, `LoadSpecFile` checks and normalizes the
outcome. A text is a sequence of lines that are already split at their colon;
quotes, comments, blank lines and the split itself are not modelled. `Declared`
is the reference: it says what a text declares by looking at the text as a whole
(the last line of a key under a heading, the lines below an entry).
`ChallengeTemplateProofs` proves that the two agree.

| Run | Instance | Shows |
|---|---|---|
| `admin_requests` | an administrator and a user who is author or player, 1 challenge, 2 goroutines, 2 requests or imports of 1 file each, 226 template texts, 1 failure | `TypeOK`, `AuthorsWriteOwned`, `AuthorsAreStaff`, `AuthorsAskedFor`, `WritesAreWhole`, `AuditIsTrue`, `ChangesAudited`, `RequestsEnd` |

Every property relates at most two requests, and the initial state is any
state of the tables, so two requests from it meet every pair of operations. The
next file of an import is a transaction of its own, as another import is. The
texts are every sequence of up to three lines that set the number of renewals,
every order of the environment, the command and an entry between them, and up to
two lines about owners and status; nine different specifications come out of
them, and texts that are refused. `RequestsEnd` assumes that a statement is
answered and that a lock is given up by a transaction that ends. The run stops
after `MaxRequests`.

`WritesAreWhole` joins the two parts: what is stored is what the text declares,
not what the parser made of it, and configuration and challenge belong to one
request although other requests write the same rows. `AuthorsAskedFor` bounds
what two replacements of one challenge's authors may leave: the union of what
they asked for, and nothing that was there before.

Proved in `ChallengeAdminProofs`, for any users, roles, challenges, texts and
numbers of requests, imports, failures and crashes: type correctness, the four
safety invariants, `AuthorsAskedFor` and `WritesAreWhole`. A request reads in one statement what it
uses in a later one, so `IInv` ties the locals to the tables. `Shape` says what
the locals of each kind of request are at each statement. `Truthful` says what
stays true of them while others commit: an author who passed a check was bound at
some time; whoever is to be bound was staff at some time; each binding of the
challenge is either in the snapshot that the DELETE took or was committed since
(this makes `AuthorsAskedFor` inductive); a request that is about to write its
entry has committed it. A lemma for each kind of step (moving on, returning,
committing one table) keeps `Truthful` for all other goroutines at once.

`WritesAreWhole` rests on a second invariant, `Faithful`: what a goroutine is
about to write is what its request or its template asked for. A step keeps both
of these locals, resets both, or sets them to a file that was read; for that last
case it needs the parser.

`ChallengeTemplateProofs` proves `LoadedAsDeclared`: for a text of any number of
lines that is not refused, `LoadSpecFile` gives `Declared`. It is an induction
over the lines. The invariant, `Holds`, says of each local of `parseSpec` what it
is after n lines, in the terms of the reference restricted to the first n lines:
the scalars given, the environment, the command, the attachments, the number of
renewals, the present section and the nested one. Then there is one lemma for
each kind of line (a heading; a scalar, an attachment or a nested list below it;
an item, a variable or a field of an attachment below that), and under it one for
each local that the line changes. Because the library's induction rule takes an
operator as its parameter, the induction is done with the set of the numbers of
lines up to which the parser is right: if it were not all of them there would be
a least one missing. The proof assumes nothing of the words: how a numeral, a
duration or a truth value is read is a constant. What it found in the model: the
arms of the CASE in `ReadLine` overlapped for a text that was already refused,
where TLA+ leaves the choice open, so `ReadLine` now asks for that first, as the
code returns at the first error.

The code falls short of its documents in two places that the model has and
`ChangesAudited` leaves out. `docs/requirements.md:59` asks that key operations of
the administration be audited ("关键后台操作应记录审计日志"), and
`docs/data-model.md:57` says that `audit_logs` stores them. But a change of the
contest is never audited (`handleAdminUpdateContest` calls `contest.Update`, which
has no audit log), and an import that fails at its second file has stored the
first without an entry. `ChangesAudited` therefore speaks of the changes of
challenges, authors, users and announcements through the API only; no property
covers the two gaps, since the code has no entry there that could be lost.

The model also has behaviour that no document speaks about, so no property
forbids it: the old status in an audit entry may never have been replaced by that
update; a template whose owners are all unknown leaves its challenge without
authors; a time to live below a second is stored as 0.

## 8. AttachmentImport

`rows` is challenge_attachments, `files` the attachment directories, `chal` the
id of the challenge (0 before it exists; a rolled-back insert burns an id),
`promised` a history of the rows that a client was told of and that no import
has begun to replace. An import is `ImportSpec` (normalize, copy the sources),
`UpsertChallenge` (takes the row lock), `ClearAttachments`, `ReadDir`,
`RemoveAll`, then `Rename` or `CopyFile` and `InsertAttachment` for each
attachment, `CommitImport`. An upload is `CreateFile`, `WriteFile`,
`CreateAttachment`, or `AttachmentRefused` and `RemoveFile`. `ImportFails`,
`UploadFails` and `Crash` may come at any step: they undo the rows and never the
files.

| Run | Instance | Shows |
|---|---|---|
| `attachment_sync` | 2 imports of any of 3 specs (none, two files, two of one name), 1 upload goroutine with 2 uploads, 1 failure or crash | `TypeOK`, `PromisedKept`, `DirectoryRebuilt` |

`PromisedKept` holds because imports of one challenge wait for each other and
because an upload's name is its own. It ends where an import begins to remove
files: from there to its commit, and after a rollback, rows name files that are
gone until another import commits. An upload whose file is listed by a running
import and whose row comes after the DELETE is answered and has lost its file.
`DirectoryRebuilt` is what makes the next import repair the directory.

An open transaction is assumed to last until its goroutine ends it or dies; a
connection that the server drops while the goroutine goes on to remove files is
outside the model. So are temporary files that a failed staging leaves behind.

Proved in `AttachmentImportProofs`, for any specifications and numbers of imports,
uploads, failures and crashes: type correctness, `PromisedKept` and
`DirectoryRebuilt`. A promise is made at a commit, but what is promised was put in
place long before, so `IInv` follows it: at most one import is inside its
transaction (`Control`); a name of an upload carries a stamp that was taken and is
its own (`Stamped`); an import that has listed the directory deletes and removes
nothing that is promised (`ImportSpares`), has stored what it is about to promise
(`ImportStores`), and has every old file on its list or removed
(`ImportRebuilds`); the file of an upload whose row is not yet inserted is there
unless an import lists it (`UploadOK`).

## 9. AuthSession

`users` is the table, `tokens` the tokens that have not expired, each with the
user and the role that were signed and the ticks it has left. A request or a
command is a goroutine:

| Code | Actions |
|---|---|
| `handleRegister`, `auth.Register`, `CreateUser` | `Register`, `CreateUser` or `CreateRefused`, `IssueToken` |
| `bootstrap-admin` | `BootstrapAdmin`, `CheckEmail`, `CheckUsername`, `CreateUser` or `CreateRefused` |
| `handleLogin`, `auth.Login`, `issueToken` | `Login`, `GetUser`, `IssueToken` |
| `authenticated`, `requirePermission`, `admin.UpdateUser` | `AdminUpdateUser` (needs a valid token with the permission), `UpdateUser` |
| `TokenManager.Verify` | a token is refused when it is no longer in `tokens`; `Tick` |
| an error, death of the process | `Fails` |

Texts are members of a set with `Fold`, their lower-case form: `CreateUser`'s
callers fold the address, `GetUserByIdentifier` folds both sides, the UNIQUE
constraints fold nothing. The rate limiters and the phase of the contest can only
withhold a request, which no property assumes, so they are left out.

| Run | Instance | Shows |
|---|---|---|
| `auth_tokens` | 2 goroutines, 2 accounts, 2 names, 3 addresses of which two differ in case, roles player and admin and an unknown one, tokens of one tick | `TypeOK`, `EmailsDistinct`, `UpdatesTakeEffect` |

Two goroutines are a login and the update that overtakes it, or two commands that
create the same account; a token of one tick may already outlast both.

`UpdatesTakeEffect` is checked under weak fairness of `Tick` and of every handler
that has begun (its statements have an answer or an error, after which it ends).
It says that nothing but expiry and the check of the status at login is needed
for a demotion to take effect, and by its shape also that it may take that long.

Proved in `AuthSessionProofs`, from `AuthAssumption` (folding is idempotent and
keeps addresses addresses): type correctness, and `EmailsDistinct`. The latter is
not inductive: the UNIQUE constraint compares with regard to case, so the
invariant needs that every stored address, and every address a command is about
to store, is folded already (`Folded`).

## 10. Only model-checked, and not modelled

Liveness, fairness and `ENABLED` stay with TLC: TLAPS has no rule for them here.
These are `ExpiredReclaimed`, `DeadRowTerminated` and `OrphanReclaimed` of the
instances, `CorrectIsSolved` of the submissions, `BoardAnswered` of the
scoreboard, `RequestsEnd` of the administration and `UpdatesTakeEffect` of the
tokens. Every other property of a passing run is proved.

Not modelled: how a line of a template is split into its words; the image build,
which runs a script and returns its output; the in-memory runtime store, which
no production code constructs; HTTP plumbing, metrics, configuration, scripts,
frontend and deployment. `PROJECT.json` gives the reason for each.
