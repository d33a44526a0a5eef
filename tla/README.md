# Vault API in TLA+

A model of the Vault API (NestJS, TypeORM, PostgreSQL): TLA+ modules translated
from `src/src`, TLC instances that check them, and TLAPS proofs of the safety
properties for every value of the constants. Paths below are relative to
`src/src` unless they say otherwise.

## The system

One Node process serves HTTP requests, each an asynchronous function whose steps
interleave at every `await`. All durable state is in PostgreSQL, reached through
a pool of 20 connections (`app.module.ts:87`, no timeout). Money is moved inside
a database transaction of a *query runner*; everything else runs in autocommit
through repositories. A few services keep state in memory: the fee rule cache
and the PIN attempt counters.

| Component | State | Operations | Talks to | Hard behaviour | What makes it correct |
|---|---|---|---|---|---|
| transactions | table `transactions` | transfer, deposit, withdraw, lookups | accounts, fees, audit, event bus | interleaved statements, rollback, a second connection in the catch block, lost acknowledgements | the record and the balances move together; answers, records and events agree; a reference is used once |
| accounts | table `accounts` | create, freeze, unfreeze, debit, credit | transactions | read, modify, write at READ COMMITTED; `save()` writes back stale columns | no overdraft, the two balances agree, status changes only by freeze and unfreeze |
| idempotency guard | none (reads `transactions`) | canActivate | transactions | check, then act much later | one record per key in 24 hours |
| webhooks | none | Paystack and Flutterwave callbacks, behind the global `JwtAuthGuard` | transactions | who may call, redelivery, order of checks | one lasting record per reference; a paid charge is credited |
| scheduler, admin | none | hourly expiry, two purges, statistics | transactions, notifications, audit | races with the money paths and with readers | nothing running is expired; what is old goes at last |
| fees | table `fee_configs`, a cache for 5 minutes | calculate, upsert, deactivate, seedDefaults | transactions | cache refilled between invalidation and write, rounding and bounds | the fee charged is that of the rules in force |
| transaction PIN | attempts in memory, hash in `users` | set, change, verify | users | check before `await`, count after it; lock that expires before the count; restart | wrong attempts per lockout are bounded |
| wallets | table `wallets` | create, validate limit, record spend, upgrade tier, get limits | kyc | check and count by separate calls, monthly reset, saves of wallets loaded before | what is spent in a month stays within the limit |
| kyc | `kyc_submissions`, `users.kycStatus` | submit, review | wallets, users | several writes without a transaction, over rows others save as a whole | verified means approved; an approval is final and audited when complete |
| auth, users | `users`, refresh token hash | register, login, refresh, logout, activate, deactivate | JWT | check then create, columns that an update skips, stale saves over the token hash | one user per email; a logout ends the session |
| notifications, audit | two tables | event handlers, mark read, purge; log with retry | event bus | fire and forget, retries, purge against reader | customers are told what is booked; retries end |
| beneficiaries | table `beneficiaries` | add, update, remove, count transfers, list | none | check then insert, soft delete, a body that may set any column, stale saves | one row per number |
| statements | none | CSV of a period | transactions | none | totals agree with the ledger |
| health, bootstrap, HTTP plumbing | none | probes, filters, interceptors, validators | all | none | not modelled: no state |

The hazards of each component, at the line where they bite, are in
`PROJECT.json` under `hazards`.

## Modules

| Module | Models | Against |
|---|---|---|
| `Transactions` | the money paths, statement by statement, with locks, pool and faults | `transactions.service.ts`, `accounts.service.ts`, `idempotency.guard.ts` |
| `AtomicLedger` | what those paths promise: booking in one indivisible step | the same, seen from outside |
| `MCTransactions` | small instances, symmetry | |
| `TransactionsProofs` | theorems about `Transactions` that hold however clients contend | |
| `LedgerProofs` | theorems about when balances move, what they add up to, and the refinement of `AtomicLedger` | |
| `Webhooks` | reports of the payment gateway, the guard before them, the hourly expiry | `jwt-auth.guard.ts`, `webhooks.service.ts`, `webhooks.controller.ts`, `scheduler.service.ts` |
| `Notifications` | notifications of the money paths, reading, the nightly purge | `notifications.service.ts`, `scheduler.service.ts` |
| `Backend` | `Transactions`, `Webhooks` and `Notifications` in one process, the refinement mapping to `IdealPayment` | |
| `BackendProofs` | theorems about `Backend`, over those about `Transactions` | |
| `IdealPayment` | what the ledger promises to whoever names a payment by its reference | the same, seen from outside |
| `MCBackend` | small instances | |
| `Requests` | requests about customers: kinds, place, arrival, failure | the controllers |
| `Users` | registration, sessions, activation | `auth.service.ts`, `users.service.ts`, `jwt.strategy.ts` |
| `Wallets` | tiers, limits, the monthly counter | `wallets.service.ts` |
| `Kyc` | submission and review, over `Users`, `Wallets`, `Audit` | `kyc.service.ts` |
| `Audit` | entries saved in the background, retries, purge | `audit.service.ts`, `scheduler.service.ts` |
| `TransactionPin` | PINs, attempts, locks | `transaction-pin.service.ts` |
| `Beneficiaries` | saved recipients | `beneficiaries.service.ts` |
| `Identity` | `Requests` to `Beneficiaries` in one process | |
| `MCIdentity` | small instances | |
| `IdentityProofs` | types, control, and what holds however requests about a customer overlap | |
| `BeneficiariesProofs`, `WalletsProofs`, `KycProofs` | theorems about these parts, over `IdentityProofs` | |
| `Fees` | the fee calculation, the rule table and its cache | `fees.service.ts`, `fees.controller.ts`, `fee-config.entity.ts` |
| `MCFees` | small instances | |
| `FeesProofs` | theorems about `Fees` | |

### Transactions

A request is an element of `Request`; `job[r]` is its endpoint and body, `pc[r]`
the statement it awaits next.

| Steps of `pc` | Code |
|---|---|
| `guard` | `IdempotencyGuard.canActivate`, transfers and withdrawals only |
| `validate`, `begin` | what precedes the query runner: lookups, checks, fee; `connect`, `startTransaction` |
| `insert`, `complete`, `commit` | the two `qr.manager.save(tx)` and `commitTransaction` |
| `debitRead`, `debitSave`, `debitUpdate` (`credit...`) | `debitAccount` and `creditAccount`: the SELECT, and the two statements of `save()` |
| `committed` | the commit has happened, the process does not know yet |
| `rollback`, `rolledBack`, `saveFailed` | the catch block; the FAILED record on a connection of its own |
| `recorded` | that record is committed, the process does not know yet: event, answer and release follow |
| `statusRead`, `statusSave`, `statusUpdate` | freeze and unfreeze |
| `open` | account creation |

`acct`, `row` and `recent` are the committed database; `pending` and `draft` are
what open database transactions have written. Row locks and index locks are
derived from the latter two, connections from `pc`.

External code is modelled from how the repository uses it. PostgreSQL runs at
READ COMMITTED (nothing sets another level): a SELECT sees committed rows, an
UPDATE waits for the row's lock and holds it to the end, an INSERT of a unique
value waits for a transaction in progress that inserted it, and a cycle of lock
waits is broken by aborting one transaction. TypeORM's `save(entity)` reloads
the row and updates, with absolute values, the columns that differ; balances
that were assigned JavaScript numbers always differ from the decimal strings of
the reload, the status differs only if somebody changed it in between. A pool
without timeout makes a request wait for a connection as long as it takes.

Abstractions, by name:

- amounts are integers in minor units; the fee is any member of `Fee`;
- lookups that precede the query runner read only what never changes (owner,
  currency, existence), so one step stands for them;
- a generated reference is unique; an account number may collide (`Open`);
- the audit log, descriptions and failure reasons are left out;
- when a connection or the process dies PostgreSQL drops the open transaction at
  once; a commit that was sent may or may not have happened;
- 24 hours pass only while no request is in flight.

`Discipline` says what clients refrain from. `"none"` is the real world;
`"perKey"` clients repeat a key only once the earlier request is answered or
lost; `"perAccount"` clients do not contend for an account. `Fault` says whether
the process crashes and connections are lost.

### Fees

`Quotes` is `FeesService.calculate` on a list of rules: the rules that apply, one
of the highest priority among them, `FeeOf` of it (percentage rounded half up or
flat, then floor, then cap). `table` is `fee_configs`; `cached`, `cache` and
`fresh` are the two fields of the cache. A calculation answers from a usable
list in one step (`CalculateCached`), or sends `find()`, which the database
executes (`Select`) and the process receives (`Receive`). An `upsert` or
`deactivate` drops the cache and then writes; `seedDefaults` counts, then
inserts. Statements may fail and the process may restart.

The table is empty at the start or holds some rules (`InitialTables`); on an
empty one `seedDefaults` inserts the three defaults.

Abstractions: the value of a rule and the fee charged are integers in units of
`1/Unit` of a kobo. The column is `decimal(10,4)`, so `Unit` is 10000 there; the
instances use 10, enough for 1.5% and for a flat fee with a fraction of a kobo,
which `UpsertFeeConfigDto` accepts. Arithmetic is exact where JavaScript rounds
in binary; rules of one priority come from the database in any order, so each of
them may decide; `findAll` only reads. `Discipline = "quiet"` says that
administrators change rules while nothing else runs, `"none"` is the real world.

`Transactions` takes quoted fees from its constant `Fee`, whole numbers of minor
units, which a percentage is always rounded to. A flat fee with a fraction is
left out there: the columns `fee` and `balance` are `decimal(18,2)`, so the
database rounds the fee and the new balance each by itself, and the two may
differ by a minor unit.

### Webhooks, Notifications, Backend

`report[c]` is where the report of a charge `c` is: not paid, `due` (the gateway
is about to send it), `refused` (it was answered with an error and is sent
again), at `findByReference` (`lookup`), acknowledged with 200. `JwtAuthGuard` is
a global guard (`app.module.ts:131`) that lets a request without an access token
pass only on a `@Public()` route (`auth/guards/jwt-auth.guard.ts:12`), and the
routes of `WebhookController` are not public: `Refuse` is what a gateway gets.
The handler is reached by a caller with a token of any user and a right
signature: somebody who repeats a report by hand, for the charges in `ByHand`.
There `findByReference` throws `NotFoundException` for an unknown reference
(`transactions.service.ts:303`) and the handler returns for a known one, so
`Receive` and `Respond` are the whole handler: what the code goes on to do, the
verification of the charge and `deposit`, cannot be reached, in neither handler.
A record of the charge therefore comes from an administrator's deposit with the
same reference. `ExpireStuckTransactions` may fail any set of committed PENDING
rows, whatever their age: `OnlyFinalRows` says there are none, and
`NotifiedAsBooked` and `PaymentPromise` what would go wrong if there were.

`note[r]` is the row of the notification of request `r` (a request emits one
event at most), `reader` the entities `markAsRead` has loaded, `old` what is
older than 90 days. Nobody awaits the handlers of events, so an INSERT may fail
silently, or die with the process. The events of users and KYC that
`NotificationsService` subscribes to are never emitted. `Backend` interleaves
the three parts on one pool and crashes them together.

### Requests, Users, Wallets, Kyc, TransactionPin, Beneficiaries, Audit, Identity

One process and one database again, this time without the money. `job[r]` is
what request `r` asks for, `pc[r]` the statement it awaits; a customer's request
is authenticated first. Each service is a module with its table, what a request
holds in memory, and one action per statement:

| Module | Variables | Steps of `pc` |
|---|---|---|
| `Users` | `user`, `entity` | `authenticate`; `registerFind`, `create`, `tokenUpdate`; `loginFind`; `refreshFind`; `logoutUpdate`; `activeFind`, `activeSave` |
| `Wallets` | `wallet`, `loaded`, `todo`; `inMonth`, `spent` (history) | `createWallet`; `spendFind`, `spendReset`, `record`; `upgradeFind`, `upgradeSave` |
| `Kyc` | `submission` | `submitFind`, `submitInsert`, `submitSave`; `reviewFind`, `reviewSave`, `userUpdate`, `accountsFind`, `nextFind`, `nextSave` |
| `TransactionPin` | `pin`, `seen`, `count`, `locked`; `misses` (history) | `pinFind`, `pinCheck`, `pinSelect`, `pinCompare`, `pinUpdate` |
| `Beneficiaries` | `beneficiary`, `target`, `copy` | `addFind`, `addInsert`; `changeFind`, `useFind`, `changeSave` |
| `Audit` | `entry` | beside the requests: saving, waiting, stored, given up |

A failing statement makes the handler throw, except in the loop that upgrades a
customer's accounts, which swallows it (`UpgradeFails`). A crash drops what is in
memory: loaded entities, PIN attempts and locks, audit timers.

Abstractions, by name:

- `save(entity)` reloads and updates in one step here (`Transactions` separates
  the two): it writes back every column that changed since the entity was
  loaded;
- a refresh token is `session`, whether the row has a hash: bcrypt reads 72
  bytes, which the tokens of one user have in common, so any of them matches;
- the code that validates and records spends, creates wallets and records
  transfers to a beneficiary has no caller yet; it is modelled as called by the
  payment it is written for (`spend`, `use`);
- limits are small numbers; the daily limit is stored and never compared;
- a spend belongs to the month in which its validation read the clock
  (`inMonth`); a reset computed before midnight is stored after it as one that is
  due again;
- a month passes at any time (`MonthPasses`), a lock expires at any time, the
  year after which audit entries are purged only while nothing is in flight;
- `count` stops at three, which stands for more;
- the body of a PATCH of a beneficiary is declared as a `Partial`, for which the
  `ValidationPipe` has no rules, so it may set any column of the row, its owner,
  `isActive` and id included (`Changed`, `Targets`); of the columns the rows of the
  model have owner, number and `isActive`, not the names and the count of
  transfers, which only orders the listing;
- `activate` and `deactivate` load a user with the list of its accounts; an
  account opened before the save would be detached from its owner, which the
  column does not allow, so that save may fail (`ActiveSave`);
- `Together` says which requests about one customer may overlap: sessions from
  several devices, PINs, everything about beneficiaries. Others (reviews,
  activation, spends) follow each other per customer; see
  "Noticed" for what they do otherwise.

## What is checked

| Run | Shows |
|---|---|
| `endpoints` | every kind of request, refused ones included, in pairs, with faults, from `"perKey"` clients: types, no PENDING row visible, answers, records and events agree, equal balances, one record per key |
| `concurrent` | three contending movements with faults: no overdraft, references once, balances move only with a record, and the inductive invariant of the proofs |
| `serial` | with `"perAccount"` clients and faults: `Transactions` implements `AtomicLedger`, balances are the sum of the records, only an unfreeze thaws an account |
| `gateway` | money paths, reports, notifications and jobs together, with crashes and a connection to spare: every received request is answered, every failure recorded; money paths, reports and expiry implement `IdealPayment`; customers are told what is booked; old read notifications go, even those a reader brings back |
| `identity` | triples of requests about customers, with faults: one user per email, verified means approved, approvals are final and audited when complete, monthly limits hold, wrong PIN attempts are bounded, one row per beneficiary whatever an update sets, audit retries end |
| `fees_quiet` | with `"quiet"` administration, from an empty table and from one with a rule: a usable cached list holds the rules in force, the defaults are inserted once, and the inductive invariant of the proof |
| `fees_concurrent` | under any interleaving: floor, cap, monotone charges, the default rule as described, and a stale list is at last replaced |

Five runs end in a counterexample, each a statement of the repository that the
code does not keep (`PROJECT.json`, `findings`):

| Run | Statement | What happens |
|---|---|---|
| `lost_update` | atomic money movement (`src/README.md:51`) | two transactions read one balance; the second write erases the first |
| `duplicate_key` | duplicate keys are rejected (`src/README.md:55`) | two withdrawals in flight with one key both pass the guard; both are COMPLETED and debited |
| `pool_stall` | a failed record is persisted (`src/README.md:51`) | as many failing operations as connections wait for each other for ever |
| `paid_not_credited` | the callbacks are "inbound events" (`src/src/main.ts:81`) that credit an account (`transactions.controller.ts:65`) | the gateway, which has no access token, reports a paid charge for ever and is answered with 401 |
| `logout` | a logout invalidates the refresh token (`auth.controller.ts:50`, `src/test/unit/auth.service.spec.ts:165`) | it passes `null ?? undefined` to `update()`, which skips the column (`users.service.ts:30`): the session continues |

Noticed on the way, without a run of their own. Each needs no more than the
steps named, and the runs above are kept from it by `Discipline` or `Together`,
or do not state it:

- a freeze or unfreeze saves an account read outside any transaction, and writes
  the balances it read over those of a transfer that commits in between
  (`accounts.service.ts:69`);
- a transfer in flight writes the status `active` over a freeze
  (`accounts.service.ts:96`), though only an administrator is to unfreeze
  (`src/test/e2e/accounts.e2e-spec.ts:213`);
- two seedings of the fee rules that overlap both count none and both insert
  (`fees.service.ts:139`; "idempotent", `fees.controller.ts:86`): `SeededOnce` is
  stated of seedings that run alone;
- `withdraw` books a fee of 0 (`transactions.service.ts:243`) although a
  withdrawal rule is seeded; `upsert` of a fee rule always inserts although
  `fees.controller.ts:74` calls it "create or update"; a rule of type `tiered` is
  computed as a percentage;
- a refresh does not look at `isActive`, and an older token of a user is as good
  as the newest;
- a report repeated with an access token is answered with 404 if its reference is
  unknown (`transactions.service.ts:303`), so making the routes of the callbacks
  public would not credit a charge either;
- a PATCH of a beneficiary, "Update nickname or bank details"
  (`beneficiaries.controller.ts:46`), may set any column: revive a
  removed one, set its count, give it to another customer
  (`beneficiaries.service.ts:84`);
- `activate` or `deactivate` beside a login, a refresh or a review writes the
  token hash or the KYC status back that it loaded (`users.service.ts:52`);
- an approval whose update of the user fails leaves the submission approved and
  the user unverified; a second review is refused as "Already approved"
  (`kyc.service.ts:82`). An approval and a rejection at the same time may leave
  a verified user with a rejected submission;
- an approval sets the tier of every wallet to standard, lowering a premium one;
- the audit warning speaks of three attempts after four (`audit.service.ts:47`);
  an attempt whose row was written but not acknowledged is repeated;
- `setPin` ("first time", `transaction-pin.controller.ts:29`) replaces a PIN
  without asking for the old one; after a lock has expired one wrong attempt
  locks again; attempts in flight when it locks are still evaluated;
- two spends validated together may exceed the monthly limit together;
- a statement reads the balance and the rows by separate SELECTs, and counts the
  fee a sender paid among the recipient's total fees (`statements.service.ts:66`);
- a beneficiary that was removed cannot be added again (the check and the index
  count inactive rows, `beneficiaries.service.ts:51`); an update or a recorded
  transfer beside a removal undoes it, and of two transfers recorded together one
  is counted.

Bounds. Two requests suffice for every race of two statements (the
counterexamples need no more); three add a bystander that waits for a lock or a
reference, and a cycle of lock waits broken while somebody else waits. A key is
used once or twice, with a failure, a crash or a lost answer in between;
`Idempotency` proves the rest. Accounts are two in one currency and a third in another, or not open
yet; balances of a few units let some debits fail and some succeed. The pool has
one connection more than there are requests except in `pool_stall`, where the
two are equal: the threshold in question. There are no other bounds: a request
is finite, so is every behaviour. For `gateway` two requests, one of them perhaps the deposit of the
charge, opposite transfers or failures, and one charge whose report is repeated
without bound, by the gateway and by hand; a pool with a connection for each. For `identity` three requests from one of seven groups that
meet in the same rows: two that race and a third that comes before, between or
after them; verifications of a PIN are repeated without bound, months pass and
locks expire without bound; an entry has its four attempts. `MissesBounded` needs
three: three wrong attempts lock, and two more may be in flight. For fees, three requests put a calculation
between the two halves of a change while another is in flight; amounts are one
that rounds to nothing, one on a rule's bound, one that rounds up at the half
and one above the cap; a rule has its floor above its cap and another a negative
cap and a fraction of a kobo. Calculations repeat without bound, changes of the rules happen once each.

Fairness. `FairSpec` assumes that the process serves each request it has
received (weak fairness of `Serve(r)`: an `await` whose statement can complete
does complete, PostgreSQL's deadlock detection included). Nobody has to send a
request, and no fault has to happen. The liveness of the money paths is checked
in `gateway`, whose process may crash (a request that dies with it counts as
`lost`) but whose connections hold: after a lost connection the code records
nothing, by design of its catch block. For the reports: the gateway repeats one
that was not answered with 200, and the process answers it, with 401 or after a
lookup; the nightly job runs. For fees: statements sent to the database are
answered, and five minutes pass. For `identity`: timers fire and the database
answers their saves, if only with an error.

## What is proved

Every safety property the passing runs check is also a theorem, for all values of the constants that satisfy the named
assumptions beside their declarations: any number of requests, accounts,
customers, any workload, balance, rule and fault. Where a theorem needs a
discipline of the callers it is a hypothesis of the theorem, the one the run
assumes: without it the code does not keep the property (see the runs that end
in a counterexample, and "Noticed").

### The money

| Theorem | Says | Hypothesis |
|---|---|---|
| `TypeCorrect` | `TypeOK` | |
| `Solvency` | no overdraft | |
| `TwoBalances` | the two balances of an account agree | |
| `Answers` | answers, events and records agree | |
| `NothingPending` | no PENDING row is visible | |
| `References` | a reference is recorded once; locks exclude | |
| `Inductive` | `Inv`, the four parts below | |
| `Keys`, `Idempotency` | one request per key past the guard, one record per key in 24 hours | clients wait before they repeat a key |
| `MoneyMoves` | a balance moves only with a record that becomes COMPLETED | nobody freezes or unfreezes |
| `MoneyMovesApart` | the same | `"perAccount"` |
| `Atomic` | `Transactions` implements `AtomicLedger` | `"perAccount"` |
| `Books` | a balance is what its completed records add up to, `BalancesMatchRows` | `"perAccount"` |
| `Thaws` | only an unfreeze thaws an account | `"perAccount"` |
| `Undisturbed` | `BackendSpec => Spec`: reports, notifications and jobs leave the money paths alone | |
| `BackendTypeCorrect` | `BackendTypeOK` | |
| `Notified` | nobody is told of what is not booked | |
| `Promised` | `Backend` implements `IdealPayment`: a reference gets one record, whose outcome stays | |

The assumptions (in `Transactions`): jobs well typed, fees and opening balances
not negative, the two opening balances equal, generated references distinct from
supplied ones.

The invariants are not inductive as they stand; `Inv` (in `Transactions`,
checked by `concurrent`) strengthens them in four parts. `MoneyInv`: everything
that may yet be written, entities in memory and uncommitted rows, is sound too,
and the two balance columns are written together or not at all, which is why a
freeze that writes back old balances, and a lost update, still leave a balance
the checks allowed. `ControlInv` ties drafts, records and events to the place of
the request. `LockInv` says that locks exclude, `RefInv` that a drafted
reference is not committed yet. `KeyInv` (checked by `endpoints`) does the same
for keys: one request per key is in flight, and past the guard only if no recent
record has its key.

`LedgerProofs` adds four parts. `KindInv`: a request is only at statements of
its kind. `ExistInv`: past validation the accounts of a request exist, belong to
whom they should and have the currency they should, and an account that does not
exist is empty. `ApartInv`: two requests in flight share no account. `FreshInv`:
what a request has read, and written without committing, is what the committed
accounts give with its own debit and credit applied, at every place between the
two. From the last one a commit is a `Book` of the ledger with one of the fees;
every other step leaves accounts and records alone, or is a `Refuse`, a
`SetStatus` or an `Open`. `BooksInv` adds to it that only finitely many records
are completed, so that their sum exists; a commit adds its request to them and
its effect to the balance (`CommitEffect`), and no fee changes once there is a
record (`FeesStay`). What the fold of the community modules computes follows
without an induction theorem, from a minimal counterexample among the subsets of
a finite set (`MinimalSubset`, `SumsExist`, `SumIsSums`); `SumAdd` and `SumSame`
are what the proof cites. In `BackendProofs` the expiry job has nothing to fail
because of `NothingPending`, which gives `Undisturbed`, and with it everything
above holds of the whole process; `NoteInv` says that a notification stems from
an event, `ControlInv` that an event stems from a record. `Promised` maps a
reference to the one record that has it, by `References`.

### The fees

| Theorem | Says | Hypothesis |
|---|---|---|
| `TypeCorrect` | `TypeOK`; a fee is a natural number, in units of `1/Unit` kobo, whatever value, floor and cap are entered | |
| `ChargedByTheRule` | a fee is that of a rule that applies, within its floor and cap | |
| `FairCharges` | a larger amount pays no less by one rule | |
| `Description` | the seeded transfer rule charges what its description says | `Unit` even, so that 1.5 is a value |
| `Quiet`, `CacheCoherent` | a usable cached list is the rules in force, or the empty one read before an empty table was seeded | `"quiet"` |
| `Seeding` | a default rule is seeded once | `"quiet"`, nobody enters one by hand |

`ChargedByTheRule`, `FairCharges` and `Description` follow from `QuoteInv` (a
quote is `FeeOf` of a rule that applies) and lemmas about `FeeOf`. `QuietInv`: a
change runs alone, has dropped the list before it writes, a seeding about to
insert has found the table empty, and what a calculation has fetched is in force.
`SeedInv`: who is about to insert the defaults is alone and has found none.

### The customers

`Queued(kinds)` says that requests of these kinds wait for the customer's others
and those for them. It is a condition on the constant `Together`; the groups of
`identity` satisfy every one below.

| Theorem | Says | Hypothesis |
|---|---|---|
| `IdentityTypeCorrect` | `IdentityTypeOK`; audit attempts end | |
| `OnePerEmail` | one user per email | |
| `Misses` | wrong PINs per lockout are bounded | finitely many requests |
| `OnePerNumber` | one beneficiary row per number, whatever an update sets | |
| `MonthlyLimits` | monthly limits hold | `Queued({"spend", "upgrade", "approve"})` |
| `Verifications`, `Approvals`, `Audits` | verified means approved; approvals are final, and audited when complete | `Queued({"submit", "approve", "reject"})` |

All rest on `CoreInv`: types, `ControlInv` (a request is only at statements of
its kind), `ApartInv` (of what is in flight together about one customer each two
are of one group; hence `QueuedAlone`), `TodoInv` (the accounts an approval has
yet to upgrade are the customer's). The lemmas `UsersActor` to `OtherActor` say
of every step who moves, and that it leads into statements of its own service
only; with them a proof about one service treats the steps of the others in one
case. On top of it, one invariant per property, each of the same shape, what is
in memory still agrees with the row it was read from:

- `RegisteredInv`: a row that is there stays there, also when saved as a whole;
- `TryInv`: while a PIN is not locked its misses are counted; once it is, each
  further miss takes an attempt that had passed the check before;
- `SpendInv`: a wallet counts at least what was recorded this month, and who is
  about to record relies on a wallet that has not changed since;
- `KycInv`: a submission is that of a registered user, a verified one is
  approved, and at each statement of a review the two rows are what the
  statements before it made of them, an activation in between included.

`OnePerNumber` needs no more than the types: whoever writes a row, with whatever
it sets, is held to the unique index in the statement that writes (`Writes`).

The proofs corrected the model: which rows a table may hold at the start (a
submission has a user, an unregistered user no session), and to which month a
spend belongs that was validated just before midnight.

### Only model-checked

`EveryRequestAnswered`, `FailureRecorded`, `OldReadIsPurged`, `AuditSettles` and
`CacheCatchesUp` are liveness properties under fairness, out of the prover's
reach. What the code does not keep, the runs that end in a counterexample and the
hazards without a property, is shown or noted, not proved.

## Not modelled

- `statements`, the dashboard of `admin.service.ts`, `hasPin`, `getLimits` and
  the listings only read. What a statement adds up are the rows of
  `BalancesMatchRows`.
- The verification and the deposit in the callbacks (see above), and
  `updateRole`, cannot be reached from any endpoint.
- Fees with a fraction of a minor unit in the money paths, and how PostgreSQL
  rounds them (see "Fees"); the count of transfers to a beneficiary.
- Filters, interceptors, pipes, validators, health probes, bootstrap,
  configuration and DTO decorators keep no state; roles and passwords are taken
  to be right, and so are signatures.
- `.pnp.cjs` and `.pnp.loader.mjs`, four fifths of the repository's lines, are
  generated by the package manager.

## Plan

1. Weaker hypotheses: which of the `Queued` conditions can be narrowed to the
   pairs of kinds that really disturb each other.
2. What the callers may rely on and no run states yet: that a request that was
   answered with an error left the tables as they were, for the services that
   write once.
