# BRICS Pay: specifications and proofs

TLA+ models of the Go server in `src/`, the TLC runs that check them on small
instances, and the theorems about them that TLAPS proves for every instance.
`PROJECT.json` lists every component, run, finding, hazard and theorem, and maps
each definition to the lines it was translated from.

## 1. The system

A Go HTTP server over PostgreSQL, a Next.js fragment that decides where a user
goes after login, and static pages. Requests are served by goroutines that share
no memory except where the table says so; they meet in the database.

| Component | State | Operations | Meets | Hard behaviour | Correct when |
| --- | --- | --- | --- | --- | --- |
| Ledger (`internal/ledger`) | `wallets.balance`, `transactions` | `Transfer` | other transfers, in row and key locks | crossing transfers, SERIALIZABLE snapshots taken before waiting for locks, failures between statements, COMMIT acknowledged or not | transfers look indivisible, a key moves money once, nobody waits for ever |
| Wallet sign-in (`wallet_handlers.go`, `wallet_auth.go`) | `wallet_challenges`, `wallet_accounts`, `users` | challenge, verify | races for one challenge, for the first login of one wallet | read, check and consume are separate; expiry against two readings of the clock; user and account in one transaction | a challenge gives one login, to its signer, with a clock reading inside its time; a wallet has one user |
| Bank cards (`card_handlers.go`, `cards_schema.go`) | `bank_cards`, row locks | add, prefer, rename, remove, list | triggers of concurrent statements; KYC for eligibility | COUNT in a trigger, rows locked inside a trigger | at most 3 cards, one preferred, own cards only |
| KYC verification (`kyc_handlers.go`, `kyc_upload.go`) | `kyc_verifications`, `kyc_document_blobs` | submit, status, list, review, upload | reviewers act on old lists | resubmission against review, lost answers | decisions reach the right person; the newest form stays |
| Registration and login (`auth_registration.go`, `auth_login.go`) | `bricspay_users`; `schemaOnce`, `schemaErr` in memory | register, login | `sync.Once`; unique address | the table is created by the first request, whose failure is remembered; restarts | one account per address; answers true after a restart |
| Tokens (`internal/auth/auth.go`) | `jwtSecret` in memory | issue, validate, middleware | every protected route | a secret that is missing or changes at a restart; ids that are UUIDs here and integers there | only who logged in is let in, and everybody who did |
| Rate limit (`middleware.go`) | a map of windows under a mutex | count a request | all requests of a client | the clock is read before the mutex is taken | nobody refused without cause, bursts bounded |
| Schema and boot (`db.go`, `*_schema.go`, `main.go`, `migrations/`) | the tables, types and triggers; `database`, which may be nil | open, ping, six Execs | every handler; other processes that start; migrations run by hand | two schemas for one database; failing half-way leaves a server without database; triggers dropped and created while others serve | who serves with a database finds what its handlers of verification, cards and wallets need; a start that worked once works again |
| Continue after login (`app/`, `lib/verification.ts`) | the session cookie, the `returnTo` in the URL | read the state, choose a redirect | the status endpoint, the login page | session and status change between two redirects; a `returnTo` inside a `returnTo` | redirects end, and end where the user wanted to go |
| Browser scripts (`static/js`) | `localStorage` | save and clear the session | the API | loaded by no page | not modelled |

`main.go` routes health, register, login and the KYC handlers only. The ledger,
the cards, the wallet handlers and the rate limiter are complete, and are
modelled as they are written, but nothing calls them yet. `kyc/submit` and
`kyc/status` are routed without the middleware that provides their principal.

### Not modelled

* `js/auth.js`, `app.js`, `kyc.js` and `admin.js`: no page loads them, and `auth.js`
  names identifiers that nothing declares. The scripts that the pages do load send
  one request and store its answer.
* Routing: `kyc/submit` and `kyc/status` have no principal and answer 401 to
  everybody, and `card_handlers.go` reads `kyc_profiles`, which nothing writes, so a
  module that composed login, verification and cards would have nothing that
  reaches from one to the other. `PasswordAuth` has the one route where they
  meet, as far as its principal.
* The status endpoint of the Next.js fragment is not `HandleKYCStatus`: that one
  needs a token and not a cookie, says nothing of `authenticated`, and has other
  names for the statuses. `AuthContinue` takes it from `README_FA.md`.
* Static pages and landing scripts, header and panic middleware, the handlers of
  accounts and transactions (they read columns no schema has), the log line of
  `audit.go`, and the older copies `internal/auth/auth` and `internal/db/db` that
  nothing imports.

## 2. The plan

All modules exist, and each has its theorems in a module of its own.

| Module | Models | Abstract specification | Theorems |
| --- | --- | --- | --- |
| `LedgerTransfer` | `Transfer` | `AtomicLedger` | `LedgerTransferProofs`: invariants, refinement, no deadlock, balances are the log's |
| `WalletAuth` | challenge, verify | `WalletLogin` | `WalletAuthProofs`: invariants, refinement |
| `BankCards` | cards and triggers | | `BankCardsProofs`: how far the limit is passed, whose cards change |
| `KYCVerification` | submit, upload, status, list, review | | `KYCVerificationProofs`: invariants |
| `PasswordAuth` | registration, login, tokens, restarts | | `PasswordAuthProofs`: invariants, who is let in |
| `RateLimit` | the limiter | | `RateLimitProofs`: bursts, refusals |
| `Boot` | `InitSchema` and the migrations, failures half-way | | `BootProofs`: any number of processes |
| `AuthContinue` | `route.ts`, `page.tsx`, `verification.ts` | | `AuthContinueProofs`: any pages and links |

What remains open is listed at the end of section 5.

Each `X` is checked through an `MCX` module that EXTENDS it and adds the values
TLC needs (symmetry, inputs); a mutated form of a definition (a plausible bug)
stands directly before the definition, under a name that says what is wrong
with it, and is used by nothing. Where the code relies on PostgreSQL for a
property (`StaleNever`), the mutated form is what
asking it for less would give, such as a lower isolation level.

## 3. The models

### LedgerTransfer

One action per statement of `Transfer`: `Transfer` (the call and its checks),
`Begin`, `LockFirst`, `LockSecond`, `CheckKey`, `CheckFunds`, `Debit`, `Credit`,
`Record`, `Commit` and the deferred `Rollback`; `CommitUnacknowledged` and `Fail`
are the failures. Committed state is `balance`, `transactions`, `rowLock` and
`keyLock`; each call has the `view` of its own transaction, the set `missed` of
wallets that changed after its snapshot, and the keys it has `seen`. PostgreSQL is
modelled as SERIALIZABLE requires at least: `SELECT ... FOR UPDATE` of a row that
changed since the snapshot fails (`Stale`), an INSERT waits for a concurrent one
with the same key. The schema is that of `migrations/0001_init.sql`, the one
the code is written for. The reference and the currency are stored and never
read, and left out.

`AtomicLedger` has the committed tables and one action, `Apply`; the mapping is
the identity on `balance` and `transactions`.

### WalletAuth

`Challenge` and `InsertChallenge` are the first handler; `Verify`,
`SelectChallenge`, `CheckChallenge`, `ReadClock`, `Consume`, `Lookup`,
`LookupTx`, `InsertUser`, `InsertAccount`, `LookupAgain`, `CommitUser`,
`IssueToken` the second. READ COMMITTED: only the row of `wallet_accounts`
under its unique index can make a request wait (`adding`). The clock ticks in
parts of a second, so that `Truncate(time.Second)` matters. A message is the
record of what `BuildEIP191Message` prints, and a signature the pair of the
message signed and the account that signed; recovering the signer from any other
message gives an address nobody has. `WalletLogin` states what this promises in terms of
challenges (none, open, burned), grants and owners.

### BankCards

A statement with triggers is several steps: `LimitTrigger` counts,
`LockTarget` locks the row of an UPDATE before its trigger, `PreferredTrigger`
finds the rows to clear, `ClearRow` waits for and locks one, `Commit` makes all
visible. `BreakDeadlock` is PostgreSQL's `deadlock_detected`. Listing changes
nothing. `Approved` is a constant: what `requireApprovedKYC` reads is written
by no code.

### KYCVerification

Every handler sends one statement, and what it does before depends on nothing but
its request, so `Upload`, `Status`, `Pending` and `Review` are one step each. A
submission is two, `ReceiveSubmit` and `Submit`, because the order in which
statements run may not be the one in which requests arrived: the history variable
`settled` holds the form of a user whose submission was answered 200 while no
other one of that user was under way. `receipts` holds the uploads answered 201.
Neither guards anything. `screen` is the list a reviewer looks at, of any age.

### PasswordAuth

`Start` is `main`: a blank secret panics, a missing one does not, a failing
database leaves it nil. `Crash` forgets `schemaOnce`, `schemaErr` and the
requests, and keeps the tables. `EnterOnce` is `sync.Once`: one request runs
`CreateTable`, the others wait. A typed address is a name and whether it is in
upper case; `ToLower` is what the code does to it. A token records the user, the
secret and the login it came from; `Upload` is the protected route as far as its
principal.

### Boot

A statement is a record of what makes PostgreSQL skip it, what it needs, what it
clashes with and what it drops and makes; `migrateCore`, `MigrateKYC` and the
others are sequences of them, translated line by line. `Exec` runs one of the
six scripts of `InitSchema` as one transaction, `ExecFailed` is any failure of it
(rolled back, or committed and reported as failed), after which `main` serves
without a database. `Migrate` is somebody who runs any statement of
`migrations/*.sql` at any time. The database is the set of the names it has.

### AuthContinue

A URL is the sequence of its route and those in its nested `returnTo`s, so that
`route.ts` and `page.tsx` take the `Tail` as `returnTo` and put a route in
front of it. `GetVerificationState` and the redirect that follows from its answer
are two steps; in between and before, `Elsewhere` ends the session, starts one
(which requests under way do not carry) or changes the verification. `wanted` and
`lost` are history.

### RateLimit

`ReadClock` and `Count` are separate: the first is before the mutex. `admitted`
is history: for each client the ticks of real time at which a request of it was
let through, in their order.

## 4. The runs

| Run | Instance | Shows |
| --- | --- | --- |
| `ledger_pairs` | 2 callers, 9 inputs, 4 wallets, fair | `IInv`, `AnswersMatchLog`, refinement of `AtomicLedger`; every call returns |
| `ledger_cycle` | 3 callers around 3 wallets | balances are the log's, one use per key, no deadlock, no refusal for an old balance |
| `ledger_retry` | violation | a retry is answered `ErrDuplicate`; the comment promises the first result |
| `wallet` | 4 requests, 2 wallets, 2 nonces, a clock that passes the expiry | who signed what, and that the clock reading sent with the UPDATE was inside the challenge's time; one login per challenge, one user per wallet, nobody waits for a row whose request has ended; refinement of `WalletLogin` |
| `cards` | 2 requests, 2 users of whom one is approved, limit 2, fair | the limit is passed by one card at most, own cards only, the preference is not lost; deadlocks are broken and every request is answered |
| `cards_preferred` | violation | two concurrent changes of the preference leave two preferred cards |
| `password` | 3 requests, 2 starts, 2 secrets or none | one account per address, true answers, `schemaOnce`, who is let in |
| `password_uuid` | violation | a password login's token is refused where a principal is needed |
| `rate` | 2 clients, 2 requests, quota 2, windows of 2 ticks | a bound on any window of real time; a refusal has its own client's cause |
| `verification` | 2 users, a reviewer, 2 submissions at a time, 3 ids, 2 documents | right person, answered forms and documents on file, notes of this verdict |
| `boot` | 2 processes, any number of starts, failures and ends | handlers of verification, cards and wallets find tables and triggers; who created the wallets decides who can start; server and ledger never share a database |
| `continue` | one tab, 11 links up to 3 routes deep, fair | the wanted page is kept, redirects end, a verified user gets through, the verification page has a text |

### Bounds

* Two callers show every pairwise race. Three are needed for a cycle of waits and
  for two calls that each wait for a third: `ledger_cycle` uses three. The theorems
  of section 5 hold for every number of callers, requests, clients and processes,
  and so remove these bounds, here and below, from every safety property.
* `MaxBalance` 3 lets a credit overflow and balances reach 0; `MaxId` 9 exists so
  that an input can name a wallet that does not exist.
* The wallet needs two requests for one challenge, and two for one wallet with two
  challenges, each with its own challenge request: four. Issue, expiry and one
  tick between are `Lifetime` 2, `Second` 2 (a lifetime of one whole second),
  `MaxNow` 3. There is one host, so nothing is checked of a message shown for
  another host, and the process has its secret (`SecretSets`).
* Cards: two requests, and `Limit` 2 leaves room for a user with a preferred card
  and another; `MaxCards` is one beyond what the property allows. The finding
  uses the limit of the code, 3. With two requests at a time no more
  than one addition too many can happen, which is what `LimitOvershoot` says.
* Verification: three ids are two first submissions and a resubmission, two
  documents an upload and its repetition.
* Boot needs no bound: names and processes are finite, and starts are not counted.
  Two processes are one that serves and one that starts.
* Continue: three routes deep is every order of two routes before a page; a
  deeper `returnTo` is taken apart the same way. One tab is enough because tabs
  share only the session and the status, and those change at any time.
* Passwords: register, login and upload are three requests; two starts are a
  restart. The UUIDs are as many as the requests. One address in two spellings
  and one right password are enough for two registrations to meet.
* Rate limit: a quota of 2 is the least with which an open window both admits and
  refuses, and `MaxCount` 3 lets a client be refused. 4 ticks hold two whole
  windows and the start of a third, in which the bound of `BurstBound` is attained.
  At the last tick with every window full the model stops, so `CHECK_DEADLOCK FALSE`.
* Where each request is served once (wallet, passwords), the end of all requests
  is not a deadlock either.

Symmetry is used for sets of model values that no constant orders, and never with
a liveness property.

### Fairness

`LedgerTransfer`, `BankCards` and `AuthContinue` have a `FairSpec`: in the first two
requests wait for each other's locks, and in the third redirects follow each other,
in ways that could go wrong for ever:

* `SF` of the steps of each call or request: Go schedules runnable goroutines,
  PostgreSQL finishes statements, and it queues waiters, so that whoever waits for a
  lock that becomes free again and again gets it. Failures and the arrival
  of requests are never fair.
* `WF` of `Serve` in `AuthContinue`: the server handles the request it has, and
  `fetch` has timeouts of its own, so an endpoint that hangs is one that fails. Logins,
  reloads and all that happens elsewhere are not fair.
* `BreakDeadlock` is part of the fair steps of `BankCards`: PostgreSQL looks for
  deadlocks after a timeout.

Elsewhere a request waits at one place only, and a safety property says that
what it waits for is about to happen: `WaitsForCommitter` (the uncommitted
row of a wallet) and `TableBeforeInsert` (`schemaOnce`). Both need no fairness.

## 5. What is proved

Every safety invariant, every action property and both refinements of the passing
runs are theorems, for every value of the constants that satisfies the named
assumptions of the module. Those say that a placeholder (`None`, `Nobody`,
`NoCall`) is no value, that a bound, limit or length of time is a natural number,
positive where the code has a positive constant, and, where sizes are counted,
that a set is finite. In `AuthContinue` they also say which names are pages and that
a link is a URL. TLC evaluates them in the runs of the module. Each proofs module has the same shape: `Invariance`
states `Spec => []IInv` from `InitIInv` and one lemma per action, which has one
step per part of `IInv` the action can disturb; `NextIInv` collects them; the other
theorems follow from `IInv`, those about steps together with `[Next]_vars`. The
`IInv` of the ledger is checked by the run `ledger_pairs`, and that of
`AuthContinue` is what `continue` checks. The others are inductive
strengthenings that were model-checked on the instances of the runs before they
were proved.

### The ledger: `LedgerTransferProofs`

For any set of wallets (integers), inputs, callers (finite or not) and balances.

| Theorem | States |
| --- | --- |
| `Invariance` | `Spec => []IInv` |
| `TypeCorrectness` | `Spec => []TypeOK`: no balance, committed or in a transaction's view, leaves its range |
| `KeyMovesMoneyOnce` | `Spec => []AtMostOncePerKey` |
| `AnswersAreTrue` | `Spec => []AnswersMatchLog` |
| `RefusalIsCurrent` | `Spec => InsufficientIsCurrent` |
| `Refinement` | `Spec => Atomic!Spec` |
| `DeadlockFreedom` | `Spec => []NoDeadlock` |
| `BalancesFollowLog` | `Spec => []BalancesMatchLog` |

`AtMostOncePerKey` is not inductive: nothing in it forbids a call that is about
to commit a key another call recorded in the meantime. `IInv` adds

* `LocksFollowCode`: a call owns exactly the row and key locks its place in
  `Transfer` implies, so two calls at the same place are on different rows;
* `ViewsAreFresh`: of a row it has locked a call has missed no change, so its view is
  the committed balance and its own updates;
* `ReadyToCommit`: past `CheckFunds` the money is there, and at `commit` the key
  is not recorded;
* `RunningIsValid`: who runs has an argument that passed the checks.

`PublishApplies` and `StepRefines` map steps to `AtomicLedger`: COMMIT is `Apply`,
everything else a stutter. `DeadlockFreedom` takes, of calls that all wait, the one
that wants the row with the largest id (a least element of a well-founded order):
whoever holds that row waits for a larger one, or for a key, whose holder is
committing and waits for nobody.

`BalancesFollowLog` is about a sum over the log, so it needs induction over finite
sets. `SubsetInduction` is that induction for a set `Good` of sets instead of an
operator (a smallest set outside `Good` loses an element and still is outside);
`TotalsExist` shows that the recursive fold of the sum is well defined,
`TotalOfOneMore` that one more transfer adds its amount, and `ApplyMatches` that an
`Apply` of the abstract ledger keeps the balances those of the log. The refinement
carries it to `Transfer`. It alone uses `FiniteInputsAssumption`: ids and amounts
are 64-bit numbers and a key is a text of bounded length, so there are finitely
many inputs.

### Wallet sign-in: `WalletAuthProofs`

For any requests, addresses, nonces, hosts and lifetime.

| Theorem | States |
| --- | --- |
| `TypeCorrectness` | `Spec => []TypeOK` |
| `ChallengeLogsInOnce` | `Spec => []SingleUse` |
| `LoginsAreSignedInTime` | `Spec => []SignedInTime` |
| `WalletsHaveOneUser` | `Spec => []OneUserPerWallet` |
| `WaitsEnd` | `Spec => []WaitsForCommitter` |
| `Refinement` | `Spec => ImplementsWalletLogin` |

The handler reads a challenge, checks it, reads the clock and consumes it in four
steps, and the properties speak of the end. `ReadsLast` says that what was read
stays true but for `consumed`; `ChecksLast` that who passed the checks signed the
message of that very challenge, and who passed the UPDATE sent a clock reading inside
its time (nothing is said of the time at which the UPDATE ran, see section 6);
`BurnedByOne` that the UPDATE lets one request pass. `HolderCommits` and
`UsersOfWallets` pair users and wallets, the user ids of open transactions
included: without it two first logins of one wallet could each end with its own
user. For the refinement, `InsertIssues`, `ConsumeBurns`, `TokenGrants` and
`CommitLinks` are the four steps that are visible in `WalletLogin`.

### Cards: `BankCardsProofs`

For any requests (finitely many, `RequestsAssumption`), users, cards and limit.

| Theorem | States |
| --- | --- |
| `TypeCorrectness` | `Spec => []TypeOK` |
| `LimitExceededByConcurrency` | `Spec => []LimitOvershoot` |
| `RequestsKeepToTheirUser` | `Spec => OwnCardsOnly` |
| `PreferenceOnlyMoves` | `Spec => NeverLosesPreferred` |

`LimitOvershoot` counts cards that are in the table, and the trigger counted them
some time before its INSERT commits. `LimitWithAdding` therefore counts with the
cards of a user those that are past the trigger, and is inductive: whoever passes it
saw a count below the limit, and at most all other requests are past it too.
`TriggersOnOwnRow`, `FindsOwnRows` and `ClearsOwnRows` say whose rows a trigger
holds, found and changed although other statements remove and change rows between
its steps; `CommitWrites` turns them into what a COMMIT does to the table, from
which the two action properties follow. `NoRowsAhead` and `IdsSuffice` are about the
sequence of ids: the bound `MaxCards` in the guard of the arrival is enough for
every INSERT under way.

### KYC: `KYCVerificationProofs`

For any users, reviewers, forms and documents.

| Theorem | States |
| --- | --- |
| `TypeCorrectness` | `Spec => []TypeOK` |
| `DecisionsReachTheirUser` | `Spec => []ScreensNameTheirUser` |
| `AnsweredStaysOnFile` | `Spec => []AnsweredIsOnFile` |
| `NotesFollowVerdicts` | `Spec => []NotesOfVerdict` |

`IdsDiffer` and `ScreensShowSubmitted` make an id on an old list still that of one
row; `SettledAlone` says that a form counts as answered for good only while no
other submission of its user is under way, which is what a late INSERT would break.

### Passwords: `PasswordAuthProofs`

For any requests, addresses, passwords, ids and secrets, and any number of restarts.

| Theorem | States |
| --- | --- |
| `TypeCorrectness` | `Spec => []TypeOK` |
| `AddressesHaveOneAccount` | `Spec => []OneAccountPerAddress` |
| `AnswersAreTrue` | `Spec => []AnswersMatchTable` |
| `TableIsThere` | `Spec => []TableBeforeInsert` |
| `OnlyLoginsGetIn` | `Spec => LetInByLogin` |

`RowsDiffer` says that all stored addresses are in lower case (two spellings
meet in the unique index only then) and that the id of a registration under way is
nobody else's. `OnceTellsTable` relates the memory of a process, `schemaOnce` and
`schemaErr`, to the table, which outlives it. `LoginsFindRows` and `TokensFromLogins`
lead from a token back to the login, and from the login to the row it compared.

### Rate limit: `RateLimitProofs`

For any clients, quota and window, and any requests (finitely many,
`RequestsAssumption`).

| Theorem | States |
| --- | --- |
| `TypeCorrectness` | `Spec => []TypeOK` |
| `BurstsAreBounded` | `Spec => []BurstBound` |
| `RefusalsAreEarned` | `Spec => RefusedOverQuota` |

`BurstBound` looks back on a stretch of real time, while the limiter knows only the
window a client has now, and counts requests whose time may be older than that
window. `SpareInStretch` says it while the stretch is running: what was let through
in it, who still waits for the mutex with a time before it, and what the map leaves
to be let through (`Left`: the rest of a window that started before the stretch and
one more, or, when that window is over, two), are in the bound together. A
late request that opens a new window with its old time uses up itself and one of the
quota of that window, which is where `- 1` comes from. `QuotaAdmitted` says that
what a window counts was really let through since it started, and gives
`RefusedOverQuota`.

### Schema and boot: `BootProofs`

For any number of processes.

| Theorem | States |
| --- | --- |
| `TypeCorrectness` | `Spec => []TypeOK` |
| `SchemaIsThere` | `Spec => []HandlersFindInitSchema`: what handlers of verification, cards and wallets use |
| `LedgerHasNoTables` | `Spec => []LedgerWithoutTables` |
| `CreatorDecides` | `Spec => []CreatorOfWalletsDecides` |

`ExecsCommitted` says that a process past an Exec finds what that script provides
(`Provided`) whatever others did since: another process that replaces a trigger
has the old one back, or the new one, when its transaction ends. `OneCreator` says
that tables refer only to tables that are there, and that the columns of `db.go` and
those of the migration exclude each other. One lemma per script computes what it
needs and leaves on any database; `Scripts` and `LaterScripts` put them together.
`ThroughDef` shows, by a least counterexample, that the recursive function that
runs the statements of a script is well defined. `SchemaIsThere` covers what
`InitSchema` makes and nothing else: `bricspay_users`, which login reads, is made by
the first registration (`TableIsThere` of `PasswordAuthProofs` is about that one),
and the columns that the handlers of accounts and transactions read by nobody.

### Continue: `AuthContinueProofs`

For any pages and links of any depth.

| Theorem | States |
| --- | --- |
| `TypeCorrectness` | `Spec => []TypeOK` |
| `ReturnToIsKept` | `Spec => []ReturnToKept` |

The run's two invariants are inductive together. What has to be proved is about
URLs: `Prepend`, `TailOfURL`, `SafeReturn` and `ReplaceHead` say that putting a route
in front of a `returnTo`, taking it off, and refusing a bad one leave a URL, and
which page it leads to.

### Only model-checked

* Liveness (`EveryCallReturns`, `EveryRequestAnswered`, `EveryNavigationEnds`,
  `VerifiedGetsThrough`): it rests on fairness, and so on ENABLED, which the prover
  does not handle.
* The three findings: each is one behaviour, which TLC shows.
* That the guards that bound a model (`MaxNow`, `MaxCount`, `MaxCards`, `MaxStarts`,
  the ids of `KYCVerification`) leave every interesting case is a matter of
  section 4. The theorems hold for any value of them.

Induction over data is possible where a first-order form of it is enough: a least
number (`NatMin`) or a smallest set (`SubsetInduction`) with a property.

## 6. Findings

* `ledger.go:65` promises the same result to a retry; the code answers
  `ErrDuplicate` (`ledger_retry`).
* `enforce_single_preferred_card` clears only flags that are committed
  (`cards_preferred`).
* `auth.go:26` says UUID ids are supported; `principalUserID64` refuses them
  (`password_uuid`).

Known from the same models, without a run of their own:

* `enforce_bank_card_limit` counts committed rows and locks nothing, so concurrent
  additions pass the limit of 3; `LimitOvershoot` says by how much at most.
* `src/README.md:22` gives `JWT_SECRET` a default; there is none, and without it
  `IssueToken` of `PasswordAuth` refuses every login.
* A database on which `migrations/0001_init.sql` was run first never serves the
  server, and any other never serves the ledger (`CreatorOfWalletsDecides`,
  `LedgerWithoutTables`).
* On a database that has just been booted a login is answered "database error" until
  a first registration, of anybody, has created `bricspay_users`
  (`auth_login.go:55`, `auth_registration.go:42`; `SelectUser` of `PasswordAuth`).
* The UPDATE that burns a challenge compares its expiry with a clock reading taken
  before it was sent (`wallet_handlers.go:196`), so a challenge that expires after
  that reading still logs in. `SignedInTime` claims no more than the reading.
* `page.tsx:39` sends a user without a session to a login that returns to the page
  itself: the `returnTo` is gone, which is the exception in `ReturnToKept`: that property would not catch it.

## 7. What the models leave out

The text of messages, bodies and errors; headers and status codes beyond what
tells the outcomes apart; the pool of database connections; statements of a
process that crashed and that PostgreSQL still runs after its successor started;
time zones and leap seconds; what the URL parser does to a `returnTo` in
`new URL(returnTo, ...)` (links of the model are in the form the parser leaves
them in, and no property is about any other); clients that are served by several processes at
once. Amounts have no currency, because `Transfer` compares none.
