# Verification of the Grainlify backend's event and payout logic

Grainlify's backend runs hackathons ("GrainHacks") on GitHub projects: it takes
applications, draws winners for issues, judges merged pull requests, divides a
prize pool and pays it on one of three rails. This directory holds TLA+ models of
that code, the TLC configurations that check them on small instances, and proofs
that TLAPS checks for every instance. `PROJECT.json` lists the components, the
runs, the source lines behind every definition, the hazards and the theorems.

Contents: 1 the system; 2 the modules; 3 the runs; 4 the proofs; 5 where the code
and its comments disagree; 6 what is not modelled; 7 what is left.

To check: `tlc -workers 2 -config X.cfg MCModule.tla`, `tlapm ModuleProofs.tla`.
The longest run takes two and a half minutes, the longest proof module twenty.

## 1. The system

One Go process (`cmd/api`) serves HTTP and runs the background loops; a second
(`cmd/worker`) may consume webhooks from NATS. All state that matters is in
PostgreSQL at READ COMMITTED; several processes may run at once, so nothing is
protected by a Go mutex. What holds the system together is row locks, advisory
locks, conditional UPDATEs, unique indexes and triggers (the cache of the leaderboards is the exception: each process has its
own, under its own mutex), and a call that stops
half-way leaves whatever its earlier statements wrote. That is the world the
modules model: **one action is one statement or one transaction**, and between
two of them anybody else may act and the caller may die.

### Inventory

About 56 400 lines of non-test Go. For each part: the state it keeps, its operations, what
is hard, and what would make it correct. The last column is the module ("-": not
modelled, section 6); `PROJECT.json` says for each component what its modules leave out.

| part (lines) | state | operations | what is hard | what makes it correct | module |
|---|---|---|---|---|---|
| KeeperHub rail (`keeperhubrail`, `keeperhub`; 3 500) | runs, legs, dispatch attempts, attempt legs | plan, preview, simulate, claim, dispatch, three mark writes, read-back, resolution | the webhook times out or executes late, results are partial or wrong, the process dies between claim and mark, releases and read-backs race | nobody is paid twice; confirmed means paid; no leg waits for nothing | `KeeperHubRail` |
| rail exclusion (triggers of three tables, `settlement/rail_exclusion.go`) | an event pool's rows in three tables | plan, persist, issue | checks read committed rows only; trigger order decides what the lock covers | one rail per event pool | `PayoutRails` |
| GrainHack statements (`grainhack`; 1 600) | signed statements, lines, notices | issue, supersede, report payment, remind | revisions, recipients locked once paid, reports out of order | an account gets what was first signed for it; it is told once | `GrainHackStatements` |
| event lifecycle (`hackathon/phase.go`, `appeals.go`, `judging_policy.go`, `settlement_producer.go`, admin handlers) | phase, publication time, verdicts, appeals, payout run | transition, override, appeal, decide, recompute, grant, release gate | two admins, stale calls, failures after the commit of the phase | the pool is divided once, after the window, from one run | `EventLifecycle` |
| settlement and payout tree (`settlement`, `payout`, `cmd/payout`; 2 400) | settlement lines, root, leaves, holds | apportion, persist, report, build | people change between report and build, two builders, crashes | the tree pays what was read and loses nobody | `SettlementTree`, `Apportionment`, `MerkleTree` |
| salts (`eventsalt`) | one wrapped salt or tombstone per settlement | create, use, destroy, rotate | rotation meets creation and dies half-way | a salt never changes under its settlement and never comes back | `EventSalt` |
| pool division (`judging_payout.go`, `chain_payout.go`) | verdict units | compute | floors, curves, rounding | the parts never exceed the pool | `PrizeDivision` |
| maintainer pool, clarity and holdbacks (`maintainer_pool.go`, `clarity.go`, `runner.go`) | ratings, payouts, holdbacks | rate, settle, measure, decide | settles that run together or die, several processes deciding from what they measured | a holdback is decided once, on the amount that was read | `MaintainerPool` |
| assignments and draws (`draw.go`, `assignment.go`, `runner.go`, `publication.go`, `judging_intake.go`) | applications, assignments, slots, windows, entries, verdict rows | apply, draw, merge, release, sweep, close, publish | draws that run together, the close of an event, retries of empty windows | slots and caps hold; one holder per issue; nobody is left assigned | `Assignments` |
| judging pipeline (`judging_pipeline.go`, `prefilter.go`) | verdict rows, stages | pre-filter, judge, escalate, override | runs that overlap, re-runs and human decisions | a person's decision is never overwritten; nothing confirms itself on less than two reviews | `VerdictPipeline` |
| sync jobs (`syncjobs`, `syncqueue`; 1 450) | one row per job; lease; attempts | enqueue, claim, heartbeat, finish, requeue, reap, wake | lease lost while running, siblings, shutdown, rate limits | no request is dropped or run twice at once; every job ends | `SyncJobs` |
| issue applications (`issue_applications.go`, sync of assignees) | applications, out-of-band counts | apply, withdraw, assign, reject, reconcile | stale listings, GitHub used directly, a sync that lost its lease | records settle on what GitHub says | `IssueApplications` |
| webhooks and projects (`github_webhooks.go`, `ingest`, `worker`, `projects.go`) | pull requests, projects, installations | receive, ingest, sync, verify, install | lost and reordered deliveries, syncs that fail to write or lost their lease, stale verification | the newest state wins; only a maintainer's project is verified | `RepositoryMirror` |
| identity verification (`handlers/kyc*.go`, `didit_webhook.go`) | status, decision, session | start, webhook, poll, reconcile, reset | five writers, late answers | the row settles on what Didit says | `IdentityVerification` |
| account erasure (`erasure`; 2 100) | one request per person, attempts, step results | schedule, cancel, execute, hold, postpone | external calls, money in flight, late writers | it ends, and no session is lost | `AccountErasure` |
| retention (`retention`) | reset records, payout records | two passes | several processes, starts that replace sessions, records that refer to each other | nothing is forgotten that another service still has | `Retention` |
| claims (`payout/serve.go`, `reconciler`, `chainops`) | roots, leaves | publish, serve proof | re-registrations, drifted rows | a leaf is shown to its owner and proves | `Claims`, `MerkleTree` |
| sponsored claims and reminders (`sponsor`, `payout_sponsor.go`, `claim_deadline_notifier.go`) | one row per submission or reminder | simulate, limit, submit, record, tick | check before and record after the effect | the cap holds; told once | `Claims` |
| founding programme (`founding`; 1 100) | members, shares, frozen boundaries | approve, assign wave, grant shares, settle | one allocator, conditions that change while waiting | seats in announced waves, caps, shares that add up | `FoundingPool`, `FoundingSettlement` |
| sign-in (`auth`, GitHub callback, payout addresses) | nonces, wallets, users | issue, consume, register, link | single use, first sign-ins that race | a nonce buys one thing; an address is never lost | `SignIn` |
| leaderboards (`ranking`, `leaderboard.go`) | a cache per board | refresh, serve, badge | stale answers, ceiling of the cache | no board of one process goes back in time | `Leaderboard` |
| event settings (`eventconfig`, sponsor split) | overrides, audit | edit, reset, divide | statements without a transaction | what is in force was audited; the split adds up | `EventSettings` |
| support (`support.go`) | reports with stamps | submit, fan out, stamp | lost answers, fallback, deaths | a stamp means it was seen | `SupportRequests` |
| bounties (`bounty*.go`) | wallets, challenges, reports | relay, link, notify | roles and accounts that change meanwhile, queries that fail | the agent acts for whom it thinks; no report goes unheard unnoticed | `BountyRelay` |
| start and migrations (`cmd/api`, `migrate.go`) | schema version, lock | gate, migrate, serve | two builds start together and die | a migration runs once; nobody serves a schema he does not know | `SchemaStart` |
| anti-abuse signals, KeeperHub views, points, email, public reads, terms, servers, chain access | see `PROJECT.json` | | scores, single-row writes, pure I/O | | - |

### How the parts interact

A project's webhooks and sync jobs bring issues and pull requests in. The runner draws
holders for the issues of a *live* event. When the event is *closed* the intake
turns merged pull requests into verdicts; people override them; publication opens the
appeals window; *settled* closes appeals, recomputes the units once and grants
shares. The settlement producer turns the units into weights. A division of these
weights leaves on exactly one rail: a KeeperHub run on Base, a settlement and its
Merkle tree on Aptos, or a signed statement on Solana. Erasure, identity verification and
address registration change the people under all of this at any time.

## 2. The modules

`X`: component. `MCX` gives its constants values and its runs their bounds; `XProofs` holds
the theorems of a group.

| module | models |
|---|---|
| `PayOnce` | abstract: a person is paid by one receipt at most, and is recorded as paid after it |
| `KeeperHubRail` | one run of one event pool: releases, read-backs, resolutions, external executions; implements `PayOnce` |
| `PayoutRails` | the triggers and the lock through which three kinds of transaction exclude each other |
| `GrainHackStatements` | statements, reports and notices, extending `PayoutRails`: each step is one of its steps or leaves the rails alone |
| `EventLifecycle` | one event from draft to settled, its verdicts, appeals, recompute and release gate |
| `Apportionment`, `SettlementTree` | largest remainders; the recording of a division, the report and the build of the tree |
| `WorkQueue` | abstract: a request is kept until a run that starts after it |
| `SyncJobs` | jobs of one (project, type), workers with leases, the reaper; implements `WorkQueue` |
| `Assignments` | issues of one organisation: windows, draws, releases, merges, close, sweep, intake |
| `IdentityVerification`, `AccountErasure` | the five writers of one account's verification; the executor that erases it, extending the former |
| `IssueApplications` | one labelled issue at GitHub, its applications and the sync |
| `FoundingPool`, `FoundingSettlement`, `VerdictPipeline`, `PrizeDivision`, `MaintainerPool`, `SignIn`, `Claims`, `MerkleTree`, `RepositoryMirror`, `SupportRequests`, `Retention`, `EventSalt`, `SchemaStart`, `Leaderboard`, `EventSettings`, `BountyRelay` | the services beside the payout, one module each |
| `MCServices` | the composition of those sixteen |

### KeeperHubRail

`run`, `status`, `last`, `attempt` and `attLegs` are the columns of the four tables. `rpc`,
`rlegs`, `ratt` are a call of `Release` under way: it previews the sendable legs, simulates
them, claims them in one transaction under the run's row lock, calls KeeperHub, and
writes what the answer proves. `DispatchClass` is `dispatch_error.go`: an
acknowledgement, a provable refusal, or "it may have run". `GiveUp` is the process
dying anywhere. `wpc`, `watt`, `pend`, `wsees` are a transaction of `Intake` or
`ResolveLeg`: its uncommitted leg updates are locks (`Locked`) that others wait on, and `setRunState`
computes the state from the snapshot its statement started with
(`TakeSnapshot` before `Commit`). `exec`, `transfers`, `report` are outside the code:
KeeperHub may refuse, lose or delay a request, execute part of it, and report it in any
way that `Truthful` allows: an iteration whose report names exactly one transaction on
the run's chain and full success was paid; a failed one without a transaction was not;
anything else proves nothing. Amounts, addresses and encodings are left out: no decision of the rail
depends on them beyond what `Refused` and `SameLegSet` keep.

Assumption: `ResolveUpdate` is a person who looked at the chain and waited until no
request of the leg could still run. Nothing in the code can enforce this.

### PayoutRails and GrainHackStatements

One event pool. A transaction (`pc`) passes, in order, the look in Go before it opens, the trigger
that looks without a lock, the trigger that takes `grainhack_rail_lock` and looks, the
second look of the statement's trigger, and its commit. PostgreSQL fires triggers of
one event in the order of their names, which is why the unlocked look comes first.
`rows` holds committed rows only: that is all a READ COMMITTED trigger of
another transaction can see. Unique indexes are `Duplicate`.

`GrainHackStatements` adds what is in a statement: accounts, verification and amounts change
while statements supersede each other; the agent, another program, pays from a statement it was
served, each account once, and reports; notices are claimed, sent and lost, and an insert whose answer is lost gives its
claim back although the person has the notice (`unanswered` counts these). One
recompute per event; logins, positive amounts and the broadcast are left out, identical concurrent
notice tasks are one, and a GitHub account belongs to one person (`AccountsAssumption`).

### EventLifecycle

`call` is a call of `Transition`: `LoadEvent` reads the row, `CheckBlockers` reads the rest,
`WritePhase` is the transaction, whose UPDATE names only the id, and then `closed` runs
`CloseEvent` and `settled` runs `Reload` ... `SettleMaintainers`, which is
`CloseAppealsAndRecompute` and `SettleMaintainerPool` statement by statement. `filing` is a call of
`SubmitAppeal` between its check and its insert. `CallFails` is any error or crash.
`Release` is a rail that passes `GuardPayoutRelease` and reads its weights.
Left out: dates, shadow mode, the count of published issues (refusals that change
nothing), and the per-person curve (`PrizeDivision`): each verdict belongs to another contributor,
for whom the curve is 1. `work` and `due` are one issue's assignment, enough for the close
of the event; draws proper are `Assignments`.

### Apportionment and SettlementTree

`Apportion` is the largest-remainder division as a function of weights and pool. `Persist` is
`StartRecording`, `RecordLine`, `StopRecording`, since the header and the lines are
statements of their own. `LoadReport`/`ReadReport` are `DryRun`: lines first, people after.
`Load`, `Resolve`, `CheckRoot`, `CreateSalt`, `Commit` are `Build`, whose resolve must agree with
the digest and the total that the operator typed. `known` is what is known about
people: logins, live addresses (unique over all accounts) and verification, all of which change at any time.
Digests are their inputs (no collisions); the order of leaves and the Merkle hashing are in `MerkleTree`.

### SyncJobs

`status`, `attempts`, `owner`, `due` and `stale` are a row; a worker's `pc` is its loop: wake what expired
(`Wake`), reap, claim. A claim looks (`ClaimLook`) and locks (`ClaimLock`) separately, because its
statement reads a snapshot before it waits for the row; the conditional UPDATE and the unique index decide
between two that saw the same row. `hold` is a requeue between its lock and its write.
`LeaseLapses` is the clock. Abstracted: the order of `run_at`, the idle backoff and the wake-up
channel, which only shorten a wait.

### Assignments

`rows[i]` is the history of an issue's assignments, oldest first; `run[r]` is a tick of a
runner, statement by statement; `closing` says who is inside `CloseEventAssignments`, and where. A draw takes an
advisory lock per winner, recounts (`CommitLock`) and inserts (`CommitInsert`), and that is what the caps
rest on. A voluntary release (`userReq`) finds a row and writes it by id later. `merged`, `sync` and
`verdict` are the pull requests, the intake's candidates and what it wrote. Left out: `pr_submitted`, which
nothing enters (`RecordQualifyingPR` has no caller), the seed
commitment (`WithChains` is never called, so `CheckDrawCommit` always passes), and weights: any
applicant may win.

### IdentityVerification, AccountErasure, IssueApplications

The users row (`status`, `session`), the sessions at Didit, and writers that read, ask Didit
and write what they were told later. `AccountErasure` adds the request and the executor that
asks three services, which refuse, fail, succeed or, as Didit, may not be configured (`unconfigured`, which is no failure and
keeps no id), and then erases the row; its theorem is about the
sessions. `IssueApplications` is one issue at GitHub (assignees, label) beside the
applications, with a sync whose listing is stale by the time it writes. One job of a project has the lease (`Leased`); one whose
heartbeats do not get through is given to another by the reaper (`TakenForDead`) and may run on beside it (`Stray`).

### The services

`MCServices` picks a `part` first; then only that part moves, because in the code they share no state that
any of their properties is about. `VIEW` keeps the states of the others out of the
fingerprint. Each module says in its header what its actions stand for and what it leaves
out. Sums, folds and trees are operators there (`ComputePayout`, `BuildMerkleTree`, `Apportion`), compared
with reference definitions in `PlanFitsPool`, `SplitAddsUp`, `OnlyLeavesProve`. What the code lets run together runs together:

- `VerdictPipeline`: nothing keeps two runs of one verdict apart (`Judging`). Each asks, stores its evidence over the other's, and acts
  on its own answers; `evidenceOf` and `orphaned` remember when the evidence stored is not that of the run that acted last.
- `MaintainerPool`: every `Transition` that read the phase before the first committed (`ReadPhase`) settles the pool, and its upsert replaces
  the amounts of a row whatever was decided of it; a decision is on the amount its process read (`release[k].held`).
- `RepositoryMirror`: an upsert that fails is logged and the job succeeds (`syncPRs(FALSE)`); a worker taken for dead runs on
  (`strayRun`); `lastWrite` says who wrote the row last.
- `Retention`: a start creates its session at Didit before it stores it, over whatever session is there by then, and may die between
  (`CreateSession`, `StoreSession`, `StartDies`). Which status protects a session is `IdentityVerification`'s.
- `PrizeDivision`: the four `units_*` settings are an administrator's (`UnitSettings`), the units of the rejected among them.
- `BountyRelay`: a failed query for the recipient is answered as nobody, a failed insert as told (`failedOn`). What contributors
  propose and answer about their own assignment goes through the apply channel, as applications do.
- `Leaderboard`: the cache of one process; two processes may show boards of different age. `BadgeAgrees` compares two definitions
  (a position computed alone, and a row of the whole ranking), so it says that the two queries of `ranking.go` are one ranking,
  and nothing about time. A badge whose query fails shows no rank (`rankPositionOrNil`).

## 3. The runs

All twelve pass. Every property has a mutant in `PROJECT.json`: a bug of the kind the code guards
against (a lock not taken, a guard dropped, a digest not compared, a stale answer accepted), under which TLC finds that property
violated. `CHECK_DEADLOCK FALSE` everywhere: runs, pools, events and requests end. Symmetry is
used for interchangeable actors only, and in no run with a liveness property.

| run | checks | instance |
|---|---|---|
| `keeperhub` | `PaidOnce`, `NoLegStranded`, and `PaysOnce`, the refinement of `PayOnce` | 2 people, 2 attempts, 2 releasers, 2 writers, every kind of report |
| `payout_rails` | `StatementExcludesOthers`, `WaitersServed` | 3 transactions on any rails |
| `statements` | `PaidAsSigned`, `ToldOnce` | 2 transactions, 2 people, 3 accounts, 2 moves, 1 upset |
| `lifecycle` | `DividedOnce`, `WindowHonoured` | 2 admins, 1 verdict, 2 buckets, 2 configurations, 1 day, 1 upset |
| `settlement_tree` | `ClosestDivision`, `BuiltFromReport`, `PaidOrHeldOnce` | 3 people, 4 units, 2 builders, 2 moves |
| `sync_jobs` | `KeepsRequests` (the refinement of `WorkQueue`), `EveryJobEnds` | 2 workers, 2 jobs of one key, 2 attempts, 1 upset |
| `assignment_draws` | `WinsWithinCaps` | 2 issues, 1 contributor, 2 runners, 1 slot and 1 to earn, 1 merge |
| `assignment_close` | `StragglersReleased` | 1 issue, 1 contributor, 1 runner, 2 assignments, 1 merge, 1 mishap |
| `identity` | `StatusSettles` | 2 sessions, 4 writers, 2 moves at Didit, 1 upset |
| `erasure` | `SessionsAccounted`, `RequestsEnd` | 1 session, 2 writers, 2 attempts, 1 move, 1 upset |
| `applications` | `OccurrencesAreReal`, `StatusesSettle` | 2 contributors, 2 requests, 1 sync with the lease and 1 without, 4 moves, 1 failure |
| `services` | `SeatsSound`, `CapsHold`, `ConfirmedByTwo`, `HumanBucketStands`, `DivisionsAddUp`, `HoldbackDecidedOnce`, `DoneOnce`, `DestinationKept`, `NewcomersOnly`, `MirrorSettles`, `VerifiedOwnerProved`, `RecordsHonest`, `RetentionSound`, `ClaimsProve`, `StartsSound`, `BoardsHonest`, `RelayedFaithfully` | below |

Some of `services`' properties are conjunctions of what one family of services promises: `SeatsSound` (`NobodyStranded`,
`WavesAsAnnounced`, `GrantsReachAll`), `CapsHold` (`ApprovalsCapped`, `ReferralsCapped`, `SponsorBounded`), `DivisionsAddUp`
(`PlanFitsPool`, `UnitlessChangeNothing`, `SplitAddsUp`, `FoundingAddsUp`), `DoneOnce` (`SpentOnce`, `RemindedOnce`),
`RecordsHonest` (`DeliveredAsStamped`, `SettingsAudited`), `RetentionSound` (`SessionsNamed`, `RecordsGoTogether`, `SaltsStand`),
`StartsSound` (`MigratedOnce`, `ServesItsSchema`, `BackgroundRuns`), `BoardsHonest` (`BoardsAdvance`, `BoardsBounded`, `BadgeAgrees`),
`RelayedFaithfully` (`ActedForAdmins`, `LinkedAsAsked`, `ReportsAnswered`).

Why these bounds are enough for the interesting cases. The proofs of section 4 remove them for
every property proved there.

- KeeperHub: two attempts are needed for a double payment, two releasers for a race to
  the claim, two people for a partial execution, two
  writers for overlapping transactions. `EveryKind` has one report for each branch of
  `classify` and the chain check.
- Rails: three transactions let all three kinds meet, and a fourth repeats a kind.
- Statements: two moves let a statement be superseded after one of its accounts was
  paid and another changed; three accounts let a person change to a free one.
- Lifecycle: two admins race; a second failure only repeats the first. Two configurations
  differ in units and in the window, so a change of either shows.
- Tree: four units over weights 2, 2, 1 leave two units to give out, one of them over a tie,
  and two equal amounts, so that two people may change places without the total noticing;
  two moves because a swap is two changes. `ClosestDivision` compares `Apportion` with all divisions
  for every weight up to `MaxWeight` and pool up to `MaxPool`.
- Jobs: two jobs of a key are the running one and its successor; a lease that lapses needs two workers.
- Draws: two runners draw one contributor on two issues: the race that the winner's lock decides. The slot that is
  earned by a merge lets the second draw win too. `VIEW` leaves out the verdicts, which no draw reads. Close: a second
  assignment of an issue lets a straggler follow a release; the sweep repeats the close that a mishap cut short.
- Identity: two sessions let a late answer about the old one meet the new; four writers are all there are
  beside the reset, which is an admin's. Erasure keeps the two writers that create and re-attach a session.
- Applications: four moves let an assignment at GitHub be seen, undone and made again while somebody applies; one sync without
  its lease beside the one that has it is what a second worker makes of a failed heartbeat.
- Services: 2 approvals' cap among 3 contributors with early boundary frozen and 4 moves; 2 runs of one verdict, a re-run and an override; 3 pull
  requests of 2 people over pools that divide and do not, with units as they come and with units for the rejected; 2 repositories, 1 rating of
  five stars, 2 settles, 2 release processes; 2 nonces, 2 wallets,
  3 users, 2 calls each; 2 claimants, 1 escrow, cap 1 and 2 requests; 1 notifier over 2 deadlines and 5 days; 2 ingestors
  and 3 changes of a pull request or workers taken for dead; 2 accounts, 1 installer; 2 reports with cap 1; 2 people, 2 sessions, 2 reset records and 2 passes; 6 tables of payout
  records; trees of up to 5 leaves with one drifted row; 2 builds started 3 times each, one in production; 3 pull requests, 2 visitors, cache of 1 board; 2 editors with 2 edits each;
  2 trees, 2 keys, one rotation; 3 founding members, 1 grant run that dies and is repeated; 2 users, 2 GitHub accounts,
  1 wallet, 2 events one of which the code does not know. In each the count is one
  more than what fits the cap or what runs at once without a race.

### Fairness

- `PayoutRails`: statements are executed (`WF` of a transaction's steps), and PostgreSQL queues the waiters of a lock, so a
  lock that is free again and again is granted (`SF` of `TakeLock`). Nobody has to begin, or to commit rather than abort.
- `SyncJobs`: time passes (`FallDue`, and `LeaseLapses` of a job whose worker is gone), the workers' loops go on
  (`WF Loop(w)`), and a waking worker that finds expired leases returns them (`SF`): the loop wakes every minute at most. Crashes, shutdowns and
  cleanups have no fairness.
- `Assignments`: the runner's ticker and the statements of a close (`WF RunnerStep`, `CloserStep`); people do nothing they need not.
- `IdentityVerification`: the reconciler (start and 5-minute ticker). `AccountErasure`: clocks, the
  executor (15-minute ticker) and the reconciler. `IssueApplications`: the sync, which `hackathon.Reconciler` enqueues every
  five minutes for events in preparation or live.
- `EventLifecycle`: a call that started goes on, admins repeat what is left to do, reviewers decide, the runner
  ticks. It serves the two liveness disagreements of section 5, which therefore are not a system that merely stopped.
- `MCServices` has no fairness: `MirrorSettles` is about states in which nothing is under way.

## 4. The proofs

All theorems hold for every value of the constants that the named `ASSUME`s of the modules allow. They state 32
of the 38 properties the runs check. What the eight modules prove, and the argument of each:

- **`KeeperHubRailProofs`**: `TypeCorrect`, `NobodyPaidTwice` (`PaidOnce`), `ConfirmedMeansPaid`, `ConfirmationsAreFinal`,
  `NothingStranded` (`NoLegStranded`) and `ImplementsPayOnce` (`PaysOnce`, step by step). `PaidOnce` alone is not
  inductive: a new claim is safe only because all older attempts that ever carried
  the leg are *spent* (did not pay it and cannot any more). So `IInv` says who may
  still pay (`Superseded`, `PaidByExecution`, `AbsentIsClean`, `OneCaller`), what an uncommitted update
  stands on (`LockedIsBlocking`, `PendingIsTrue`, `ReadsSent`) and what reports prove
  (`ReportsAreTrue`). Spent is stable, sendable implies spent, hence the next payment is the first.
- **`GrainHackStatementsProofs`**: first the rails, for any number of transactions: `OneRailWithStatement`
  (`StatementExcludesOthers`) and `AloneInside`. The lock is held by whoever is past it (`LockHeld`), so what it saw
  still holds at its commit (`ChecksHold`). Every step of the statements is one of theirs or leaves them alone, so the former
  carry over (`StatementsAlone`); `PaysWhatWasSigned` (`PaidAsSigned`) from the agreement of all
  statements of a chain about what is paid (`ChainAgrees`, `PaidLater`, and `Signing` for those under way);
  `NobodyToldTwice` (`ToldOnce`) from what each notice task has claimed and what each claim that was given back may have left behind (`NoticeInv`).
- **`EventLifecycleProofs`**: `TypeCorrect`, `PoolDividedOnce` (`DividedOnce`), `AppealsHaveTheirTime` (`WindowHonoured`), `NothingPaidEarly`,
  `PaidFromOneRun`. `IInv` adds what every call under way stands
  on (`CallInv`): publication, the passed window and the closing of appeals never come undone,
  so what a call checked long ago is still true when it writes. That is why the phase,
  which does go back, is not part of the argument.
- **`SettlementTreeProofs`**: `TreeFromReport` (`BuiltFromReport`), `PaidOrHeld` (`PaidOrHeldOnce`), `TreeStays`,
  `TreeTypeCorrect`, `NothingIsLost`, and `ClosestAlways` (`ClosestDivision`): largest remainders give the closest
  whole division for all weights and pools (`DividesTheWhole` of `MoneyProofs`). A build past its resolve carries facts
  equal to the acknowledged report and holds that add up to its total (`BuildsCarryReport`).
- **`BackgroundProofs`**: `QueueKeepsRequests` (`KeepsRequests`) and `OneRunOfAKey` from `QInv`, which
  says what an old snapshot, a lock that is held and a lost lease still allow; `NoSightingCountedTwice`
  (`OccurrencesAreReal`) from what the listing and the reads of the sync with the lease are (`Present`, `Read`, `Returned`, `RemovalStands`), and a count of the
  writes of those without;
  `AutoConfirmedIsEarned` (`ConfirmedByTwo`): evidence is stored before its run acts, so if the run whose evidence is stored acted last, the two
  agree, whatever other runs did between; `DecisionStands` (`HumanBucketStands`), `StartsAreSound` (`StartsSound`), `MirrorDoesSettle`
  (`MirrorSettles`): a mirror that is stale has a delivery, a job or a listing under way behind it, or one of the writers it names was
  last; `OwnersAreProved` (`VerifiedOwnerProved`).
- **`PeopleProofs`**: `DrawsKeepTheCaps` (`WinsWithinCaps`): a runner about to insert is counted under the lock of its winner (`Reserved`,
  `LocksApart`); completed rows are merged work on distinct issues, so the slots in force are at most those
  earned by merged work; every other statement only frees rows. `AssignmentTypesCorrect` carries the invariants of the rows it needs: an issue has one
  unreleased row at most, and holds its slot exactly while its work is under way. `NoSessionForgotten`
  (`SessionsAccounted`): what the executor read, what failed and what it keeps cover each session it knew of, unless Didit was not configured.
- **`MoneyProofs`**: first the sums. They are folds over finite sets, so they need induction over sets (`NatBySets`, `SubsetsBySets`), stated
  over a set of subsets and not over an operator, from the fact that inclusion is well-founded; largest remainders
  divide the whole (`DividesTheWhole`). Then the services about money, each of its own specification: the caps of the founding programme and of
  sponsored claims, the grants, one reminder per deadline, the settings, and `HoldbacksAreDecidedOnce` (`HoldbackDecidedOnce`): a row is decided over a pending one only, and its amounts are those a decision read
  unless a second settle wrote between. Of the judged
  pool: at the floor, what is left and what was paid add up to the pool after each
  payment (`FloorFits`, from the fold taken apart in `PaidInSteps`); above it every rounding adds half a cent at most (`UnitValueFits`);
  work whose bucket is worth no units has no position and no place in the order, so two lists that differ in it alone are paid alike (`PaymentsAgree`).
  Of the founding members: who is eligible was approved at some moment of the run and whoever was approved throughout is eligible once
  checked (`DryRunTells`), and what `Apportion` then gives is the whole pool, each within a unit (`MembersWithinAUnit`).
  Last the Merkle tree, for any list of leaves (`OnlyLeavesHaveClaims`). Every digest in it is a leaf or a pair of digests of the level below
  (`LevelsAreATree`), so whatever a verifier computes on its way to the root stands in the tree and it can only have started
  from a leaf: no proof of any length or content takes anything else there (`NothingElseProves`). How often a leaf occurs
  below a digest is a function of the digest (`SameDigestSameCopies`, by induction over the levels of two trees at once), and sorting depends on
  those counts only (`SameCopiesSortTheSame`); so equal roots have equal leaves, in any order, and conversely (`RootCommits`). The siblings
  verify level by level (`EveryLeafHasAProof`). Rows that rebuild the published root are therefore the leaves it was built
  from, and what is served is one of them (`TreeInv`).
- **`ServicesProofs`**: `EveryServiceKeepsItsOwn`: a behaviour of the composition is a behaviour of each service, so that what is proved
  of a service alone, here or in `MoneyProofs`, holds in the run: `DivisionsAreExact` (`DivisionsAddUp`), `SeatsAreSound`, `CapsAreKept`,
  `DoneOnceHolds`, `RecordsAreHonest`, `RelaysAreFaithful`, `BoardsAreHonest`, `ClaimsAreProved` (`ClaimsProve`), `RetentionIsSound` (a session at Didit is an account's, a record's, a start's or among those written over; a pass executes its plan: by
  induction over the fold of its steps). `DestinationIsKept` and `NewcomersAlone` are action properties of signing in.

All 23 invariants of the runs are proved, and all their action properties. Only model-checked is liveness: `WaitersServed`,
`EveryJobEnds`, `StragglersReleased`, `StatusSettles`, `RequestsEnd`, `StatusesSettle`. Fairness and `ENABLED` are out of
the prover's reach.

## 5. Where the code and its comments disagree

Each of these is a definition beside the model which the code violates. None of the
twelve runs checks it; to see the counterexample, add the definition to the named configuration as
an `INVARIANT` or, where it is marked *P*, a `PROPERTY` (in `Lifecycle` without its `SYMMETRY`). Line numbers are of the file that is named.

| definition | configuration | the code | says |
|---|---|---|---|
| `UnreadableLegsAreUnknown` | `KeeperHub` | a release that dies between claim and mark leaves legs `dispatched` under an attempt without execution id, which no read-back can move (`ResolveLeg`, `intake.go:341`) | `intake.go:73-74` |
| `ConfirmedRunIsComplete` | `KeeperHub` | two transactions that confirm the last two legs each compute the state without the other's, and the run stays `dispatching` (`intake.go:272`) | `keeperhubrail_test.go:404-405` |
| `BaseOrAptos` | `PayoutRails` | a KeeperHub plan and a settlement both look before either holds the lock (`20260916090700_…up.sql:49`) | `:1` of that file |
| `AppealsAnsweredFirst` | `Lifecycle` | an appeal that passed the window check is inserted after the division (`appeals.go:140`) | `appeals.go:299` |
| `SettledIsDivided` *P* | `Lifecycle` | the phase commits before the recompute; if that fails no call reaches it again, as no phase follows `settled` (`phase.go:352`) | `phase.go:349-350` |
| `SnapshotGoverns` | `Lifecycle` | the recompute reads the live configuration, not the event's snapshot (`appeals.go:302`) | `phase.go:259-261` |
| `ReleasedAreTold` *P* | `Lifecycle` | `Transition` throws away what `CloseEventAssignments` released (`phase.go:340`) | `assignment.go:237-238` |
| `ResetHolds` *P* | `Identity` | the reconciler's write after a reset undoes it (`kyc_status_reconciler.go:250`) | `:52-62` of that file |
| `FinishedIsFinal` *P* | `AssignmentClose` | a release that found its row active writes it by id after the merge completed it (`publication.go:108`) | `assignment.go:118` |
| `CancelledIsUntouched` | `Erasure` | a deletion cancelled while the executor runs was already erased at the services (`executor.go:241`) | `account_deletion.go:150` |
| `ToldOnceAtAll` | `Statements` | an insert that was committed but not answered gives its claim back, and the next statement tells again (`notifications/service.go:114`) | `issue.go:710-711`, `:746` |
| `UnfinishedAreKept` *P* | `Erasure` | the ids of sessions that nobody asked Didit about, because it was not configured, are wiped with those of the steps that did not fail (`executor.go:246`) | `executor.go:244-245` |
| `OneOccurrenceEach` | `Applications` | two syncs, one of which lost its lease, count one assignment twice (`syncjobs/queue.go:283`) | `oob.go:76-84` |
| `RejectedEarnNothing` | `Services` | an administrator may set `units_rejected`, and rejected work is then paid (`judging_payout.go:26`, `config.go:163`) | `judging_payout.go:136-138`, `:192` |
| `DecidedInFull` | `Services` | a second settle rewrites gross and holdback of a row that is decided, or between the read and the decision (`maintainer_pool.go:517`) | `maintainer_pool.go:436-438` |
| `NobodyMissed` | `Services` | a query for the recipient that fails is answered as nobody, and an insert that fails as told (`bounty_events.go:281`, `notifications/service.go:50`) | `bounty_events.go:282-283` |
| `RunsWithoutDatabase` | `Services` | without a database the process dies at `expiry.New(database.Pool…)` (`main.go:335`) | `main.go:106` |

`FinishedIsFinal` has a consequence for the caps: a release that lands between a draw's recount and its insert takes a completed
row back, so a contributor may hold one issue more than the slots *then* in force, although `draw.go:470-472` says
the lock prevents it. It needs three issues. `WinsWithinCaps` is therefore stated with the slots earned by merged work.

Noted while modelling, without a definition that states it:

- Lifecycle: the phase can be written backwards by a stalled call (`phase.go:292`); shares are never granted when the
  process dies after the recompute; a comment near `phase.go:357` says that an admin can repeat the maintainer
  settle, but no route does.
- KeeperHub: a second transaction in a leg's report hides it from the chain check (`intake.go:125`).
- Settlement: a `Persist` that dies between lines leaves a settlement that nobody can complete (`settlement.go:248`, one settlement per event); the digest does not
  commit to the verification (`digest.go:52`).
- Statements: a crash between claim and notify loses the notice; a stale `Issue` holds a verified winner again or signs an unverified
  one (`issue.go:288`).
- Assignments: an empty window's draw (`runner.go:198`) tells the winner nothing; the close releases work in flight, so that a merge in
  the grace period joins no assignment (`judging_intake.go:130`), though `assignment.go:231` says that it counts; `MaybePublish`
  checks no phase.
- Jobs: a reaper that stalls for more than five minutes may take a job one attempt beyond the maximum (`queue.go:372`); a worker that cannot
  heartbeat runs on beside its successor (`queue.go:289`), as the models of what it syncs have it.
- Identity and erasure: a late webhook, poll or start gives an erased row a status or a session; the poll notifies nobody; the alert
  of the reconciler is refused by a CHECK (migration `000067:27`); money in flight is checked before the external calls (`executor.go:178`). Of two starts at once, or one that
  dies before it stores its session (`kyc.go:399-431`), Didit keeps a session that neither an account nor a record names, so no erasure and no retention finds it.
- Applications: two concurrent `Assign` make two assignees; an upsert overwrites a withdrawal; `Reject` changes an assigned row.
- Founding: a resubmission frees an approval's slot, so there may be more members than the cap of approvals; the gate is read before the lock
  (`waves.go:159`); `cmd/payout` passes only part of the gate's configuration (`main.go:175`), so payment requires approval where entry does not, though `gate.go`
  says one switch governs both.
- Judging: an escalated re-run leaves the earlier bucket; of two runs at once one may confirm its bucket over the other's
  evidence (`judging_pipeline.go:66`); `RunJudgingPipeline`, `ComputePayoutsPerChain` and the reconciler
  of claims have no caller outside tests. Division: the floor strategy goes on after a pull request it cannot afford (`judging_payout.go`, near 298).
- Maintainer pool: a failed query of activity counts as none and can withhold, though `runner.go`, near 403, says that missing evidence never does; a re-rating after
  publication removes the timely one (`clarity.go:87`); a settle may die between payouts (`maintainer_pool.go:510`), and a second one moves the due date of a holdback (`:517`).
- Sign-in: a race of two re-links leaves `users.github_user_id` and `github_accounts` apart; a death between the two inserts locks the login out.
- Claims: an address registered twice with another between lists a leaf twice; a freed address registered by another shows one claim to both, though migration 000086 says
  that cannot be. `ClaimFor` compares the stored digest and recomputes none (`serve.go:53`).
- Mirror: a running sync overwrites the invalidation of a comment; `removed` and `added` out of order are repaired by nobody; the upsert of a sync that fails is logged, its job succeeds and nothing asks for
  another (`worker.go:742`); a lost delivery was
  answered 200; `recordProjectError` writes a stale verification (`projects.go:622`).
- Settings: no transaction holds a value and its audit entry, so concurrent edits may record old values in an order that never was, and a reset that changes nothing
  is not audited, against its comment. Salts: one created during a rotation stays under the old key; a rotation that died half-way cannot be resumed.
- Start: an error whose text has "lock" in it is retried as a lock error; a dirty version is refused until somebody forces it. Boards: `ranking.go` says badge
  and board cannot disagree, but the board may be a minute old, ten when its refresh fails.
- Support: a lost answer of a topic post also posts to General; the index of undelivered reports has no reader. Bounties: a lost answer doubles a
  notification; a failed query of the project is relayed as "unregistered".

## 6. What is not modelled

Components with status `not_modelled`: scores of fit, association and anti-abuse; KeeperHub's admin views and clients; points (frozen); email and the wording of
notifications; profiles, ratings and public reads; terms; servers, configuration and storage; access to chains and language models. They
are single statements, read-only, or pure I/O.

Everywhere: cryptography is ideal (digests do not collide, signatures are inputs), encodings and wording are
left out, and time appears only where an action of the clock decides (windows, leases, deadlines). PostgreSQL is assumed to
do what its manual says of READ COMMITTED, row locks, advisory locks, unique indexes and trigger order. KeeperHub, GitHub, Didit, Discord, Telegram, the agent and golang-migrate
are external and modelled from how the code uses them. What a modelled component leaves out is in its
`note` in `PROJECT.json`.

## 7. What is left

- Proofs: of what the runs check, the six liveness properties, which no installed prover can reach.
- Model: the settlement's publication, funding and claims after the tree; the claims reconciler, once something calls it; the seed commitment of
  draws, once the servers attach chains; holdbacks within `Assignments`.
- The composition of `Assignments` with `EventLifecycle`'s later phases; they share the phase and the verdicts.
