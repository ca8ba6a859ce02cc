# Owoore: specifications, model checking and proofs

Owoore is the backend of a church-giving product: members pay into funds
through virtual bank accounts at Nomba, administrators pay out of them, and
the server keeps one ledger row per fund and month. This directory holds TLA+
modules for the parts of it where statements, HTTP requests, queue consumers,
nightly jobs and a payment provider interleave, the TLC runs that check them on
small instances, and TLAPS proofs for instances of any size. Paths below are
relative to the repository's `src/` (its `src/` folder) unless they start with
`docs/` or `README.md`.

## 1. The system

### Components

| Component | State it keeps | Operations | Module |
|---|---|---|---|
| Fund ledger (`modules/transactions/ledger.service.ts`) | `fund_ledger`: one row per fund and month: collected, fees, paid out, soft lock, givers | credit, debit, lock, release, balance | `FundLedger`; the count of givers in `Inflows` |
| Payout state machine (`payout-state.machine.ts`, `payout.repository.ts`) | `payout_requests.status` | the transition table, compare-and-set and plain updates | `PayoutLifecycle` (abstract), `Payouts` |
| Payout routing, manual path (`payout.service.ts`, `maunal-payout.service.ts`) | the payout row and its reservation | initiate, cancel, execute | `Payouts` |
| Approvals (`approvals/*.ts`) | `payout_approvals`, one token per signatory | send links, record a vote, count the quorum, fire | `Payouts` |
| Transfers (`nomba-transfer.service.ts`) | `nomba_transfer_ref` | POST the transfer, handle its success, failure and refund webhooks | `Payouts` |
| Sweep and expiry (`sweep.service.ts`, `jobs/expiry.job.ts`, `jobs/scheduler.ts`) | – | sweep 23:00, expiry every hour | `Payouts` |
| Inflow pipeline (`webhooks/*`, `queue/webhook.queue.ts`) | `pgboss.job`, `webhook_log`, the transaction tables | acknowledge and enqueue, process with retries, credit | `GiftBook` (abstract), `Inflows` |
| Reconciliation and replay (`jobs/reconciliation.job.ts`, `scripts/reconcile-replay.ts`) | orphans in `audit_log` | nightly comparison with Nomba's list, operator's replay | `Inflows` |
| Circuit breaker and Nomba client (`utils/circuit-breaker.ts`, `config/nomba.ts`) | breaker state, cached token | admit, record, trip, probe | `CircuitBreaker` |
| Virtual accounts, giving page, funds (`virtual-accounts/*`, `fund/*`) | `member_fund_accounts`, `org_shared_fund_accounts`, `fund_types` | get or create a number; create, change, close funds | `VirtualAccounts` |
| Admin team and sessions (`admin-users/*`, `auth/admin-auth.service.ts`, `middleware/authenticate.ts`, `utils/cacheAside.ts`) | `admin_users`, the version cache in Redis | login, invite, accept, (de)activate, log out, authenticate | `Team` |
| Codes by e-mail, member sign-in (`auth/otp.service.ts`, `auth/auth.service.ts`) | `otp_tokens`, Redis, `members` | send, check, consume, register | `SignIn` |
| Refresh tokens (`auth/refresh-token.service.ts`, `auth/auth.service.ts`) | `member_refresh_tokens` | issue, rotate, detect reuse, revoke all | `RefreshTokens` |
| Signatories and policy (`signatories/*`) | `signatories`, `payout_policies` | create, change, deactivate, set the policy | `Payouts` |
| Organisations (`organisations/*`, `utils/slug.ts`, `config/cloudinary.ts`) | `organisations`, files at Cloudinary | register under a free slug; upload, replace, clean up logos | `Organisations` |
| Payment classification (`reconciliation.service.ts`) | – | status, variance, progress, deficit of payments | `Pledges` |
| Bank lookup, audit log, notifications, reminder job, dashboard, reports, health, HTTP shell, database set-up, clean-up script | – | reads, e-mail, layout, wiring | not modelled (section 7) |

### How they interact

* A payment reaches a virtual account; Nomba posts a webhook; the controller
  enqueues it durably and only then acknowledges; a consumer runs
  `webhookProcessor.process`, which logs the event under its request id, finds
  the account by its reference, and writes the transaction and the ledger
  credit in one transaction.
* A payout locks its amount on a ledger row in the same transaction that
  creates it. Below the policy's threshold it is fired at once, otherwise after
  enough signatories clicked their link. The transfer's outcome comes back
  through the same queue as the payments and debits or unlocks the row.
* The expiry job, the sweep and cancellation act on the same payout rows as the
  clicks and the webhooks. Nothing but conditions in `UPDATE ... WHERE status`
  orders them; some writes have no such condition.
* Every call to Nomba passes one circuit breaker per process.
* The policy and the panel of signatories change while links are out; a click
  reads the policy anew, but not the panel.
* A member's code (`SignIn`) opens a session, which refresh tokens (`RefreshTokens`)
  carry on from request to request.
* Admin sessions carry a `token_version`, compared on each request with the
  database through a Redis cache that one request rebuilds while others wait.

### What is hard

Several executors act between each other's awaits; reads are used after the row
has moved on; a provider may act although its answer is lost, or answer before
the caller has stored what the answer is matched by; jobs are retried after
half of their effects; two stores (Redis and PostgreSQL) are written one after
the other; month boundaries separate a reservation from its debit. The hazards
of `PROJECT.json` list these with their lines.

### What makes each component correct

* Payouts: the status follows the table; money is asked for once and, above the
  threshold, behind a quorum that stays within reach while the links last;
  reservations cover what is live and come back; the fund promises no more than
  it has; the ledger's outflow is the sum of the settled payouts; each payout
  ends.
* Inflows: a payment is credited once, in one step with its row and in no month
  before its own, or leaves a trace; closed events and reported replays are in
  the books; givers are counted once; each webhook settles.
* Breaker: probes are bounded, outages back off, recovery resumes by itself.
* Accounts: a number that was handed out leads back to who it was handed to.
* Team: an ended session stays ended, in time everywhere; somebody can always
  sign in as admin.
* Sign-in: once a sign-in was answered its code is refused; member numbers have
  no doubles and no gaps; persistence is rewarded.
* Sessions: a spent token obtains nothing, and only its own member's mishaps end
  a session.
* Churches: a logo in use is there, files do not pile up, everybody gets a slug.

## 2. The modules

One action is one statement between two awaits, or a group of them of which the
module's header or the notes below say why nothing can come between. Every
executor (an HTTP request, a consumer, a job run) has a program counter `pc`
and the few locals that survive an await. Bounds are constants named `Max...`;
failures and crashes are counted in `used` against `MaxFaults`.

* **FundLedger** is a library: the rows of one fund as a function from months to
  records, and each statement of `ledger.service.ts` as an operator on it.
  `FloorZero` is the `GREATEST(0, ...)` of `releaseLock`; `DebitLedger` keeps
  the row the lock was taken on (`locked_period_month`) although the current
  month may be a later one. Transactions run at READ COMMITTED, and each write
  commits as a whole, so it is one step even where it is two statements. The one
  reader that can see part of a commit is the `SELECT ... FOR UPDATE` of
  `checkAndLock`: it finds its rows when it starts, waits for their locks and
  then reads each as last committed, but never one inserted meanwhile. So
  `CanLock` and `LatestPeriod` are told the rows that were found, and
  `RowsFoundSince` says which these may be. The counters shown on dashboards are
  left out, and that a `softLock` or a `releaseLock` without a month picks its
  row in a snapshot too.
* **PayoutLifecycle** is the abstract specification of one payout: the status
  moves along `VALID_TRANSITIONS` (and the manual path's documented shortcut
  past approval), the bank is asked at most once and only while TRANSFERRING,
  terminal states are final.
* **Payouts** extends `FundLedger` and implements `PayoutLifecycle`
  (`ImplementsLifecycle`, `Lifecycle == INSTANCE PayoutLifecycle WITH ...`).
  Requests initiate, click links and cancel; `Expirers`, `Sweepers` and
  `Workers` are job runs and queue consumers. `panel` is who is active and may
  approve; `Initiator` is the signatory with the address of the administrator
  who asks, who gets no link; `phones` is who has a number on file, without which
  a link is refused. `Initiate` goes as far as the eligibility gate; what it has
  found (`ask`: the amount, the list, the rows of the fund there were) is carried
  to `CheckAndLock`, the transaction that locks and creates the row, or to
  `RefuseLock`. A vote is `"due"` while the request that will write its row has it
  on its list, then `"sent"`, then what was clicked, or `"lapsed"` once the link
  has expired unused (`LapseLink`, where `LinksLapse` is set). Votes and the
  policy are read and counted statement by statement as in `processAction`.
  `overlooked` is a history: what `checkAndLock` granted with a row unseen.
  `Stop` is an uncaught exception or the end of the process, of one executor or
  of all. `EarlyOutcome`, `LostAnswers` and `CancelInFlight` switch on what Nomba
  and users may do; amounts are in units of the fee. No more requests may be on
  their way to the lock than there are free members of `PayoutIds`. Fused: the
  reads of the balance, the policy and the eligible signatories in `initiate`,
  which share nothing with each other; `recordAction` and `markUsed`; the check
  and the update of `deactivate`, as the module says.
* **GiftBook** is the abstract specification of the money that comes in: what
  Nomba received is booked at most once, by one step that writes the payment's
  row and adds the gift and its charge to the ledger, into a month between the
  payment's and the current one. The month may be a later one because
  `currentPeriod()` is read when the event is processed, after any redelivery,
  retry or replay.
* **Inflows** extends `FundLedger` and implements `GiftBook`
  (`ImplementsGiftBook`, `Book == INSTANCE GiftBook WITH ...`). A payment is
  known by Nomba's transaction id, its event by the request id of the webhook or
  of the replay. `job` has pg-boss's states; `log` is `webhook_log`; `recorded`
  the row with the UNIQUE `nomba_tx_ref`. Which payments have an account
  reference the database knows is chosen in `Init` (`attributed`). The
  transaction of the inflow handler is two steps: `Insert`, which takes the
  unique key and looks for an earlier gift of the month, and `Credit`, which
  commits; `tx` is what it carries from one to the other, and `raced` remembers
  the months in which two transactions of one member were open at a time. It is
  assumed that the webhook's `transactionId` and the `merchantTxRef` of Nomba's
  list are the same, as the job does.
* **Pledges** has the pure functions of `reconciliation.service.ts` as operators,
  and the three relations between them the portal, the reports and the mails
  rely on.
* **CircuitBreaker** has the breaker as a record and its methods as functions on
  it; requests pass the interceptor, fetch a token if the cached one is stale,
  call, and record. Time is in ticks.
* **VirtualAccounts** has one church's funds, the two account tables as one map
  from (holder, fund) to a reference, and what Nomba holds. `given` remembers
  every answer. A `PATCH` changes one field and is two steps; `CreateFund`'s
  check of the list is folded into the UNIQUE name it relies on. Renaming the
  giving fund and the accounts' end date at Nomba are left out.
* **Team** has the admin accounts, what was signed for them, the Redis cache with
  its rebuild lock, and requests that are authenticated through it and may then
  log out, invite or (de)activate. A cache miss and its `SET NX`, and setting
  the entry and deleting the lock, are one step each. All accounts have the role
  ADMIN.
* **SignIn** has, per person, the rows of `otp_tokens`, the Redis key, the last
  code that arrived, and the member number. A person enters the last code or a
  wrong one, as a member or for an admin account of the same address
  (`verifyEmail`, `resetPassword` spend the same codes). Others are only
  counted, because people share nothing but the numbering. `kept` marks a key
  that Redis kept although it was told to delete it.
* **RefreshTokens** has the rows of `member_refresh_tokens`, the token each device
  keeps, and one request per browser tab, whose `SELECT`, `UPDATE` and `INSERT`
  are steps of their own because `verify` runs without a transaction. The client
  is external. `spent`, `late`, `alarmed` and `glitched` are histories: tokens
  already exchanged, requests that presented one, members for whom a reuse was
  seen, and members with a request that failed, went unanswered or overlapped
  another of the same device.
* **Organisations** has the slug and the logo of each church and what Cloudinary
  stores. Registration probes one candidate slug per step and inserts later; a
  new logo is uploaded, the row updated, the old file deleted. A write may be
  applied and reported as failed (`unanswered`), and any call may fail before or
  after it was executed.

`MC*.tla` instantiate the modules for TLC; `*.cfg` give the constants of each run.
`*Proofs.tla` hold the proofs about the module they are named after; those about
`Pledges` are at the end of `InflowsProofs`.

## 3. The runs

Each run takes from seconds to about three minutes with two workers.

| Run | Instance | What it shows |
|---|---|---|
| `approvals` | 1 payout, 4 signatories of whom one asks for it, 2 requests, expiry, lost answers, links that lapse; policy, panel (or a phone) and one stop may change once each | No vote is forgotten, the quorum stays within reach of the links that last, money leaves only behind one, the lifecycle is implemented. Two eligible signatories and a quorum of two are the smallest case in which the last two approvers race; the fourth joins or replaces one of them meanwhile. |
| `ledger` | 2 payouts (manual and approved), 2 requests, 2 months, 1 inflow, 1 stop | Locks are conserved and cover what is live, the fund is overcommitted only by what was granted with a row unseen, debits match settled payouts, outcomes agree with the bank. Two requests whose checks overlap for amounts that do not both fit make the locks matter; two months separate lock and debit, and let a debit insert a row under a waiting check. |
| `outcomes` | 2 payouts, 2 signatories who must both approve, 1 request, sweep, expiry, lost answers, 1 month | The unconditional writes stay exclusive, every payout concludes and every lock comes back. With two payouts the sweep reads a balance that a request is about to lock, and both locks are on one row. |
| `dropped_success` | 1 manual payout, webhooks may come early and answers be lost | Violated: see section 6. |
| `inflows` | 2 payments of one member (one with an account that may be unknown), 2 jobs, 1 consumer, 1 operator, 1 retry, 2 months, 1 fault | The book of gifts is implemented, so that a payment is credited once; givers counted, processed means recorded, a reported replay too, nothing acknowledged is lost without a trace, webhooks settle. Two payments, a consumer and an operator let two transactions of one member overlap; two jobs allow a duplicate delivery beside the first; two months let a gift be booked after the month of its payment. |
| `acked_lost` | the same, 2 faults | Violated: see section 6. |
| `sessions` | 2 members, a phone with two tabs and a laptop of either, 6 tokens, 1 glitch, 1 expiry | Spent tokens obtain nothing, alarms and stray sessions have a cause, one device comes to rest. The glitch is what lets two tabs overlap, which is what reuse detection is about. |
| `churches` | 3 churches whose slugs collide, 4 requests, 7 files, 2 faults | A logo breaks only after a write reported as failed, strays are paid for, everybody registers. Two churches of one name race for a slug and a third is called what the loser falls back to; two requests replace one logo side by side. |
| `breaker` | 3 requests, thresholds 2, 2 probes, cooldown 2 to 5, timeout 2 | Probes are bounded, outages back off and trip, recovery resumes. Three requests let an old answer arrive among two probes; 2, 4, 5 is a doubling that meets its cap. |
| `accounts` | 1 member, the visitor, 2 funds, 2 requests, 2 days, 2 changes, 1 lost answer or failure | Numbers resolve, tapping and the giving page succeed. |
| `team` | 2 admins, 2 requests of which one changes the team, versions 0 and 1 | The last admin stays, nothing is ahead of the database, revocation settles. |
| `signin` | 1 person, others who join, 2 requests of which one sends codes, 2 codes per 15 minutes, 1 wrong entry allowed, 2 faults | Numbers have no doubles or gaps, the code of an answered sign-in is refused, everybody gets in. The limits 3 and 5 of the code are lowered to 2 and 1, which reaches both with few steps. |

`MCInflows` also has TLC evaluate the relations of `Pledges` for amounts up to 60.

Each property is refuted on its run by a plausible bug of the code (`mutants` in
`PROJECT.json`); the mutated definitions stand before the real ones in the
modules and are marked as such. `CHECK_DEADLOCK FALSE` stands where the system
may rest or where the bounds end a behaviour: no work, no faults left. The
breaker never rests and is checked for deadlock.

Conditions under which a property is claimed, and what happens without them:

* `NoVoteForgotten` and `QuorumReachable` while the policy is unchanged and
  nothing was stopped: a lowered policy is not applied until the next click, a
  raised one may ask for more than the links that are out, and a stop may leave
  some of them unsent. Changes of the panel need no such condition.
* `QuorumReachable` while no link of the payout has lapsed and no holder of one
  has lost the phone number. Links last 48 h by default and the payout 72 h, and
  no link is sent again: in between a quorum that is short stays short, and only
  cancellation or the expiry job ends the payout. A signatory whose phone was
  taken off gets it back only with a change by an administrator.
* `LinksLapse` is TRUE in `approvals` only. A link that lapses forbids a click
  and nothing else, and no other run requires a click to be made, so a behaviour
  with lapses is one of theirs in which nobody clicks any more.
* `NotOvercommitted` adds what was `overlooked`: `checkAndLock` may miss a row
  that a debit inserts while it waits, section 6. Sweeps take a reservation
  without a check, and the run has none.
* `LockConservation` without stops: a stop between a final status and
  `releaseLock` strands the reservation, for which no job looks.
  `LocksCoverLive` is checked with stops.
* `CancelInFlight = FALSE`: a payout is cancelled only after the request that
  created it has ended, as an administrator who sees it in a list does. With
  TRUE a cancellation between the manual path's commit and its compare-and-set
  makes both release the lock.
* One queue consumer: with the embedded worker of `server.ts` and `worker.ts`
  both running, `payout_failed` and `payout_refund` of one transfer may be
  handled at once and release twice.
* `LastAdminStays` with one request at a time changing the team: two admins who
  deactivate each other in the same instant both pass the count.
* `SpentStaysSpent` with one send at a time: two overlapping ones may leave two
  codes in force, of which a sign-in closes only the latest. A key Redis kept is
  excepted by name, and nothing is said of entries that are under way together.
  All three are behaviours of the code, section 6.
* `GiversCounted` is exact except for a month in which two payments of one member
  were open at the same time: each looks for the other in vain, and the member
  is counted twice.
* `ReplayedIsCredited` excepts a replay after one that failed, `BrokenOnlyUnanswered`
  a write that was applied and reported as failed: in both cases the code does
  what the property would forbid, and the property shows that nothing else does.
* `SettlesOnOne` for a member who keeps to one device from some time on: two
  devices may end each other's sessions for ever, because a token `revokeAll`
  revoked counts as reused when its own device presents it for the first time.
* `RecoveryResumes` under `PromptSpec`: `fetchNombaToken` has no timeout, and a
  probe whose token fetch hangs for ever never gives its slot back.
* A fund made shared by a `PATCH` between a member's read of it and the insert
  of the personal account gets a row that the migration says is never made; it
  still resolves (`GivenNumbersResolve`).

## 4. Fairness

Weak fairness of an executor's own steps: Node continues a request, a job run or
a consumer that has started. The consumers poll; pg-boss expires abandoned jobs;
Redis expires keys and locks it was given a time for; Nomba concludes what it
accepted and delivers a webhook or gives up. In `RefreshTokens` only requests
that nothing fails are fair; that the device is used is a premise of
`SettlesOnOne`. In `Organisations` a church that could not register tries again. Nothing
that users, failures or
crashes do is fair, with these exceptions, each an assumption on the
environment: the hourly expiry job runs for ever and so selects each overdue
payout (strong fairness, because the payout may be in a later selection only);
people who got an error tap or visit again (`VirtualAccounts`); and people who
want in ask for codes, enter the one in force, and, what an entry is for being
chosen when it is looked up, now and then join with a name and get in as a
member (`SignIn`). That is strong fairness, as doing so at the right moment
cannot be weakly fair: a code expires.

## 5. The proofs

The theorems hold for every value of the constants that satisfies the `ASSUME`
of the component's module (what kind of thing each constant is), and for the
specification without fairness. They need no further assumption unless it is
named here. TLC evaluates those assumptions on each run.

**`PayoutsProofs`**, for any number of payouts, signatories, requests, faults,
lost answers and early webhooks. Two assumptions beside the module's: one queue
consumer at a time (`OneWorker`; section 3 says what two would do), and no
cancellation of a sweep's payout in the instant before the sweep approves it
(`SweepsUndisturbed`). What counts signatories or adds up payouts needs finitely
many of them, as any database has.

* `FiringDisciplineHolds`: `Spec => []FiringDiscipline`. Whoever is about to
  write a status without a condition, or to ask the bank, is the only one at that
  stage and the status is what it last wrote or read. This is not inductive: a
  compare-and-set excludes a rival only if nobody else could have reached the
  status another way. `FiringInv` adds where each executor may be (`Placement`),
  what a click has found out (`Clicks`), and what a status says of the transfer
  (`Stages`: no call before TRANSFERRING, a reference only after one).
* `PayoutsImplementLifecycle`: every step of `Payouts` is a step of
  `PayoutLifecycle` or leaves it as it is, from the same invariant.
* `QuorumIsBehindTransfers`: `Spec => []QuorumBehindTransfer`, from
  `QuorumInv`, which follows a quorum from the count to the compare-and-set: the
  policy read was at least the lowest there has been, and approvers are never
  taken back.
* `QuorumStaysReachable`: `Spec => []QuorumReachable`, from `ReachInv`: the list a
  request has passed the gate with, to which the links then go, sufficed for the
  policy, leaves the initiator out, and never shrinks. As long as none of its
  links lapsed and their holders have phones, all on it can vote or have
  approved. A change of the policy between the gate and the lock counts as one.
* `VotesNotForgotten`: `Spec => []NoVoteForgotten`. The property looks at states
  without a click in flight; `VotesInv` says who is on the way otherwise: a
  recorded decline has a click that will kill the payout, and enough approvals
  have a click that will count them again. The last of two racing approvers finds
  the other's vote because each writes its own before it counts.
* `PayoutTypes`: `Spec => []TypeOK`, from `FiringInv` and `BooksTypeOK`.
* `DebitedOnce`: `Spec => []DebitsMatchTransfers`. Only `Settle` makes a payout
  TRANSFERRED, and by `FiringInv` it finds it TRANSFERRING, so that the amount
  enters both sums together.
* `OutcomesAgree`: `Spec => []OutcomeAgrees`, while answers are not lost
  (`~LostAnswers`; with lost ones the code is wrong, section 6). `OutcomeInv`
  adds what each executor and each webhook in the inbox believes.
* `LocksConserved`, `LivePayoutsCovered` and `FundNotOvercommitted`:
  `[]LockConservation`, `[]LocksCoverLive` and `[]NotOvercommitted`. They assume
  `LocksUndisturbed`: no cancellation of a payout whose creator is still at work
  on it, and no sweep, the two cases in which the code is known to lose track of
  a reservation (sections 3 and 6) or takes one without a check. That the fund
  is not overcommitted is proved up to `overlooked`, the sum of what was granted
  with a row unseen; `Granted` says that any other lock fitted into what was free
  at the moment it was taken, however long ago the request had looked. `Custody`
  says that whoever gives a reservation back is alone in it and the payout is
  dead; `LocksInv` that a row's soft lock is at least what live payouts and such
  releases hold of it, and equal to it until somebody stops half-way, so that the
  `GREATEST(0, ...)` of a release never cuts anything off. Rows of different
  months are kept apart by the month each payout has stored.
* `SweepsCovered`: what is left of that with sweeps, which do not store the month
  and lock only after the row is approved. `~CancelInFlight` is assumed, any
  number of sweeps and months is not excluded. `Custody` holds as before, so that
  each reservation is given back by one executor alone. A single row may now be
  short (section 6), so `FundInv` adds up all rows of the fund: until somebody
  stops half-way they hold together at least what payouts have reserved and
  neither used nor given back (`FundCovers`), and in a single month just that
  (`FundExact`). `Claim` counts a sweep's payout from the step that locks
  (`SweepLock`), and the ledger lemma `ReleaseAtMost` says that a release takes no
  more than the payout's amount, whichever row it ends on. What a release on the
  wrong row costs is hence a reservation too many, never one too few. No run has
  these two as properties; TLC found them on the `ledger` instance with a sweep
  before they were proved, and `FundExact` false there once there are two months.

The sums are the community modules' folds. The library's induction theorems take
an operator as parameter, which the provers cannot instantiate, but that a
well-founded relation has minimal elements (`WFMin`) is stated about sets. So the
lemmas argue from the least size of sets without a recursive sum (`AddsSmall`)
and from a minimal set for which the order of adding matters (`MinimalSubset`).
`SumRemove`, `SumSame`, `SumChange` and `SumMonotone` are what the proofs use.

**`InflowsProofs`**, for any number of payments, jobs, consumers, operators,
retries and faults; several consumers may run at once. `QueueShape` says a
consumer holds its job alone, `StepShape` what an executor has done by its step,
`OneWriter` that the unique key lets one transaction per payment be open,
`FlagsAgree` that of two open transactions of one member the later one makes the
month a raced one, `Traces` that an acknowledged event has a job and a job that
is through a log row. `PaymentsAreCreditedOnce` (`CreditedOnce`, which the run
checks by the refinement that implies it), `GiversAreCounted`,
`ProcessedCanBeTrusted`, `ReplaysAreCredited` and `NothingIsLostSilently` follow,
that is, every invariant of the `inflows` run. `InflowsImplementGiftBook`
(`ImplementsGiftBook`): with `NotBefore`, no payment is from a later month than
the current one and no transaction is for a month before its payment, which
holds since the month is read when the payment is already there; then `Pay`,
`Credit` and `NextMonth` are steps of the book and every other action leaves it
alone, a crash, a rollback or a second delivery of the same payment included.

**`RefreshTokensProofs`**, for any number of members, devices, tabs and tokens.
A token stays with one device from its insertion (`Owners`, `Apart`), and while a
member has had no glitch, a revoked token is held only as long as its successor
is on its way (`Orderly`, `Underway`). `SpentTokensStaySpent`,
`NobodyIsAccused` and `NoStrays` follow.

**`OrganisationsProofs`**, for any number of churches, requests and files:
`LogosStand` (`BrokenOnlyUnanswered`). A file is written into a row once, by the
request that uploaded it (`Written`, `Apart`), and by the time a request deletes
what it read as the previous logo, its own write has replaced it (`Replaced`).
`StraysArePaidFor` (`StraysPaidFor`), for finitely many requests: counting what
is stray is not inductive, as an overlapping replacement is paid for at its start
and strands its file at its end. `PaidFor` counts from the start what each
request under way may still strand, but for the present logo of a church, which
one of the requests that read it as the previous one will delete (`Matched`).

**`VirtualAccountsProofs`**, for any number of members, funds, requests, days,
changes and faults: `NumbersResolve` (`GivenNumbersResolve`). A reference depends
on its pair alone, so a row holds nothing else (`RowsByPair`), and it is there
before its number is answered (`Stored`). That a pair never gets two numbers is
a consequence and not stated again.

**Amounts** (at the end of `InflowsProofs`): the stored row of a payment is consistent in every
column, and progress and deficit agree up to half a per cent, which is what
`Math.round` hides.

**`CircuitBreakerProofs`**, for any number of requests and any thresholds,
cooldowns and timeout. `BreakerInv` adds to the types what the counters mean:
closed implies the base cooldown and too few failures (`BackoffOf`), half-open
implies that admitted requests are covered by those in flight and the successes
(`Counted`), although answers of older requests are taken off the same counter.
`BreakerTypeCorrect`, `HalfOpenIsGentle` (`ProbesBounded`) and
`OutagesBackOff` (`BacksOff`) follow.

**`TeamProofs`**, for any number of accounts and requests, all of which may change
the team at once. `TeamInv` adds to `NothingAhead` that a login carries a version
the database had (`Signing`) and that requests have the account they need
(`Subjects`). `TeamTypeCorrect` and `RevokedStaysRevoked` (`NothingAhead`)
follow: versions only grow. `LastAdminKept` (`LastAdminStays`), for finitely many
accounts and while one request at a time changes the team (`OneAtATime`, the
property's own condition, section 3): `SomebodyStays` says that between the count
and the deactivation another admin with a password stays active, whoever else
signs in or accepts an invitation meanwhile.

**`SignInProofs`**, for any number of people, requests and failures.
`MembersNumbered` (`MembersAreNumbered`): a count that was read is never more
than the members there are, so that the insert of a number that nobody has
inserts the next one (`NumberInv`). `SpentCodesStaySpent` (`SpentStaysSpent`),
while one request at a time sends codes (`OneSender`, the property's own
condition): `CodeInv` says that a code belongs to its sender until it is
delivered and that whoever enters it withdraws it from Redis before its row is
closed (`Own`), that a person has one code in force at most (`Single`), and that
one that was spent is nowhere any more (`Gone`). `NewCodeIsNew`: the codes of the model
are more than what can be about at
one time, for which `SignInAssumption` says that requests are finitely many.

The type invariants of the other components are part of these invariants. With
these theorems every safety property and action property that a passing run
checks is also proved for instances of any size, under the assumptions named.

Only model-checked: liveness (all `...Concludes`, `...Settles`, `...Succeeds`
and so on), which is out of the prover's reach, that all reservations come back
(`LocksComeBack`) among it; and what the `MC` modules assert by evaluation.

## 6. Where code and documents disagree

* `dropped_success`: `handleTransferSuccess` looks the payout up by
  `nomba_transfer_ref`, which is stored only after Nomba answered, and never if
  the answer was lost: then the payout is FAILED and its money unlocked although
  Nomba may have taken the transfer. A success webhook that finds no such row is
  an orphan, and marked processed. The manual service's header says the webhook
  completes the status; migration 013 says of FAILED "funds unlocked, retry
  available".
* `acked_lost`: `process` logs an event before it handles it; the retry of a
  failed try finds that row and takes itself for a duplicate, so five retries
  and the dead-letter queue of `docs/ARCHITECTURE-SECURITY.md` are not reached.
  `NothingLostSilently` shows what remains: the `webhook_log` row stays
  unprocessed.

Differences that the models have as the code does, of which no run of its own
was made:

* `checkAndLock` (`ledger.service.ts:142-147`, and `maunal-payout.service.ts:46-50`)
  promises that of two payouts initiated at once the second "waits, sees the first
  one's soft_lock, and fails the balance gate instead of both passing and
  over-committing the fund". At a month's end it may pass. With 7 in the fund and
  a fee of 1, requests for 5 and for 3 both pass the first look at the balance
  (`payout.service.ts:68`). The 3 are locked on the old month's row, transferred,
  and settle in the new month: `debitLedger` inserts that month's row with 3 paid
  out and then takes the lock off the old row. The request for 5 started its
  `SELECT ... FOR UPDATE` before that commit and waited for the old row. It now
  reads that row without the lock, does not see the new one (READ COMMITTED), finds
  7 and locks 5: 3 paid and 5 promised out of 7. `overlooked` counts such grants;
  without it TLC finds this trace in the `ledger` run in 12 steps.
* Links expire after `token_expiry_hours` (48), payouts after
  `auto_decline_hours` (72); `token.service.ts:88` refuses a link in between, and
  `processAction` still counts the payout as awaiting approval. The migration only
  asks that the second is not the smaller. A payout short of its quorum holds its
  reservation for that day although nobody can vote.
* Migration 015 says `used_at` "prevents OTP reuse even if Redis TTL hasn't
  expired". `checkValid` (`otp.service.ts:83-90`) accepts the code in Redis without
  a look at the row, so that a key whose deletion failed, which is only logged, is
  good until its time is over. Two entries of one code that overlap both pass
  `checkValid`, which consumes nothing, and both sign in.
* Migration 015 also says "Only one active OTP per phone at a time". Retiring the
  old codes and inserting the new one are two statements, and the index is not
  unique: two overlapping sends leave two active rows, of which `consume` marks
  only the latest as used.
* The breaker's option `halfOpenMaxProbes` is "concurrent test requests allowed"
  (`circuit-breaker.ts:32`, `:96`), and a late success is ignored because "only a
  half-open probe may close the circuit". Both hold while the circuit is open, but
  in the half-open state the answer of a request from before the trip is taken for
  a probe's: it frees a slot while the probe is still out, so that more than the
  maximum are, and it counts towards closing. `ProbesBounded` is what is left of
  the bound: admitted are at most the maximum and what was answered.
* `docs/ARCHITECTURE-SECURITY.md:44-46` calls running the embedded worker and the
  worker process both at once safe, because jobs are fetched with SKIP LOCKED. That
  keeps one job from two consumers, not two events of one transfer: the handlers
  write without a condition and release the lock twice (section 3).
* A cancellation between the manual path's commit and its compare-and-set: both
  believe they ended the payout and both release its reservation (section 3).
* Migration 031 wants "release/debit always target that exact row" the lock was
  applied to, and keeps a fallback for older payouts. The sweep creates payouts
  without `locked_period_month`. If the month ends while one is under way and
  another payout locks the new month's row, the sweep's release takes that row's
  lock down to 0, and its own stays on the old row for ever (`SweepsCovered` in
  section 5 bounds the damage). `outcomes` has one month for this reason.
* The security table of `README.md` says reuse of a rotated token "revokes the
  whole family". The table has no families: every session of the member ends, on
  other devices too, and those count as reused in turn (section 3).
* `ledger.service.ts` says `member_count_paid` tracks UNIQUE givers; two
  first gifts whose transactions overlap are both counted.
* The replay script reports "ledger credited" for a replay that was dropped as a
  duplicate of one that had failed.

## 7. Not modelled

* `resend`, `requeryTransfer`, `getUnprocessed` and `isProcessed` have no
  caller. The retry from FAILED to PENDING that the repository's `README.md`
  lists has no code path.
* Bank lookup, bank accounts, audit log, notifications, reminder job, dashboard,
  reports, health: queries, e-mail after the fact and layout. No decision reads
  them, except orphans in the audit log, which `Inflows` has.
* In `Organisations`, a registration that was applied and reported as failed; the
  next try meets the church's own row.
* The HTTP shell: what passes validation, signature checks and rate limits is the
  models' input.
* The demo account, roles other than ADMIN, and what becomes of an admin account
  after its code was accepted.
* Names, formatting, what a phone number is (only that there is one), the
  conversions of `kobo.ts`, the counter `total_transactions`.

Hazards without a property of their own, each with its reason in `PROJECT.json`:

* a campaign that is extended keeps the accounts' old end date at Nomba (the end
  dates there are not modelled);
* the nightly job never lists the last evening of a month, so that a payment of
  that evening whose webhook Nomba gave up on is seen by nothing
  (`NothingLostSilently` is about acknowledged ones);
* a cancellation that meets the creating request, two consumers, a sweep over a
  month's end, two changes of the team at once, and a key Redis did not delete:
  the code does what a property would forbid, so the runs and theorems about these
  components exclude the case by a constant or by name, as section 3 says.

The sweep reads the balance without a lock, so that a request in between may be
promised the same money, and the fee headroom is checked per payout and may be
promised to two of them (`NotOvercommitted` is about amounts, and its run has no
sweep).

## 8. Plan

Done: `FundLedger`, `PayoutLifecycle` and `Payouts` with the panel of
signatories, `GiftBook`, `Inflows`, `Pledges`, `CircuitBreaker`, `VirtualAccounts`, `Team`,
`SignIn`, `RefreshTokens` and `Organisations`, each with its runs, and the proofs
of section 5. Left: the end dates of accounts at Nomba in `VirtualAccounts`.
