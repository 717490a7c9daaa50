# A verification project for the x402 Canton facilitator

The facilitator is the server a merchant calls to get paid on a Canton ledger.
The payer's agent signs one *prepared transaction*; the merchant posts it to
`/settle`; the facilitator relays it to a Canton participant, waits for the
ledger to sequence it and answers whether the merchant was paid. Around this
money path stand a wallet relay, a faucet, a preapproval service, an
attribution worker and a worker that mints *activity markers* from the
validator's traffic.

This directory holds TLA+ models of the parts whose correctness depends on the
order of things, the TLC configurations that check them, and theorems checked
by TLAPS. Paths below are relative to `src/packages/facilitator/src` unless
they begin with `core/` or `ledger/` (siblings of `facilitator`) or `docs/`.

Contents: [1 Inventory](#1-inventory) - [2 Modules](#2-modules) -
[3 Runs](#3-runs) - [4 Where code and promise disagree](#4-where-code-and-promise-disagree) -
[5 Fairness](#5-fairness) - [6 Proofs](#6-proofs) -
[7 What is not modelled](#7-what-is-not-modelled) - [8 Plan](#8-plan)

## 1. Inventory

| component | state | operations | with whom | hard part | correct when |
|---|---|---|---|---|---|
| settle money path: `routes/settle.ts`, `db/inline-settle-store.ts`, `canton/transfer-factory.ts` | table `inline_settles` (one row per transaction hash: dispatched or settled, offset, participant); the locals of each request | receive, validate, look up, resolve an open submission, capture the ledger end, insert the mark, submit, poll the completion, confirm the update, upsert the record, clear the mark, wait for a sibling; 24h sweep | participants (HTTP), Postgres, router, breaker, limiter | two requests for one transaction; answers lost after acceptance; a crash between mark and answer; a completion that belongs to another submission | success means paid; a doubt is never relayed again; a refusal is final; a doubt is resolved in the end |
| paid marker worker: `workers/paid-marker-worker.ts`, `db/marker-store.ts` | table `marker_rounds` (status, traffic edge, submission id, deduplication offset) | tick, reconcile unknown rows, expire, process the current round, retry the round before | Scan (rounds, traffic), participant (submit, completions) | crash between submit and write; lost answers; retry after a later round was priced; lagging reads | one marker per round; every byte claimed at most once; lost answers found |
| agent faucet: `db/faucet-store.ts`, `canton/faucet.ts`, claim route and starter grant in `routes/wallet.ts` | table `faucet_claims` (one row per party), the payout chain | claim, pay out, retry, mark paid, release | wallet routes, participant, Postgres | concurrent claims against one budget and one cap; a payout whose answer is lost | never over a budget; a party is paid once in its life; the chain never wedges |
| rate limiter, penalty box, circuit breaker: `rate-limit.ts` | times per key and for the global budget; strikes and bans; the breaker's unforgiven failures, window of outcomes and deadline | allow, peek, sweep, strike, ban, record a failure or a success | every route | budgets charged apart, by overlapping requests; looked at before an await and charged after it; outcomes that come after a trip; bans that decay only when a sweep runs | no window over its budget; forgetting what has aged; a ban is earned; opens on evidence, stays open for its cooldown |
| attribution store and retry worker: `server.ts`, `db/attribution-store.ts` | table `payment_burns` (status, attempts) | record at settle and fetch in the background; retry tick; give up | settle, Scan | an outage must not spend the attempts; the background fetch and the tick over one row, ending in any order | a row reports what the ledger made of the payment; given up only after answers |
| inline payment validation: `routes/inline-transfer.ts` | none | decode, recompute the hash, check every field against the requirements | settle, verify | numeric edges of times and amounts | accepts only what pays the merchant |
| prepared transaction verification (verify before sign): `core/prepared-transfer.ts` | none | decode a prepared transaction; verify it against the wallet's intent: transfer, accept, two preapprovals, six Tradecraft transactions | wallets, validation | two parsers of the same bytes: repeated and unknown members, labels against positions, tags of over 32 bits, values hidden where no check looks | the honest transaction is signed; what is signed runs the intent on its terms and names and pays nobody else |
| participant router: `participant-router.ts` | cache party -> participant; the pause of a participant that did not answer | look up, fall back, expire | settle, faucet, wallet | stale entry while a party moves; a lookup that fails half way | a request goes where the ledger said; a blip moves no party; an offset is used with the participant it was read from |
| ledger client: `ledger/client.ts` | none | submit, completions, updates, ACS | all | streams cut anywhere | see the modules that use it |
| preapproval service: `canton/preapproval.ts` | none of its own (the contracts of the ledger) | create for a party, prepare and execute a party's own | validation, wallet | a cached round whose contract was archived; an outcome that cannot be read | a retry only after a refusal; no refusal told of what may commit |
| wallet relay: `routes/wallet.ts` | per-IP caps and bans, allocation budgets, waste budget, grants | onboard, prepare, submit, starter grant | faucet, participants | 3,437 lines of routes over the same stores; lost answers; completions that cannot be read | budgets hold however callers interleave; a wallet that believes its answers pays once |
| token provider: `auth/token.ts` | token, refresh in flight | get, refresh | all participant calls | one refresh for many callers; a failed one must not stick | no expired token is handed out |
| Scan client: `ledger/scan.ts` | TTL caches, plain and keyed, with one fetch in flight | get, invalidate, evict, fail over | validation, worker, attribution | a load in flight across an invalidation or an eviction; readings that go backwards after a fail-over | a failed fetch is not cached; what is served is within its life |
| shutdown, readiness, traffic monitor | drain state; last probe | stop, drain, force | process | second signal, deadline | in-flight settles get the drain time |
| nonce guard, redeemed and consumed stores | bounded FIFO sets | reserve, commit, release | (nonce guard: no caller at this commit) | eviction at the limit | no replay inside the window |
| merchant registry, configuration, metrics, HTTP surface, encodings | little or none | - | - | - | - |

The list of hazards, each at its line with the properties that would catch it,
is in `PROJECT.json`.

How the components of the core interact. A settle request passes the breaker
and the limiter (shared by every request), then lives alone: validation, one
row lookup, the mark, the submission, the poll, the confirm, one row write.
Requests for the *same* transaction meet in two places only, the row (keyed by
the recomputed hash, so an envelope cannot choose its own key) and the
participant (which knows them by a `submissionId` derived from that hash).
Requests for different transactions share nothing but early refusals. That is
why `Settle` models one transaction and as many requests for it as one likes.
The marker worker shares no row with the money path, and the faucet neither:
its requests meet in the claim table, where an advisory lock makes them take
turns, and in the promise chain that lets one payout run at a time.

A wallet meets the relay's doors (the limiters and the penalty box, by address),
asks it to prepare a transaction, verifies what it gets with
`core/prepared-transfer.ts` before it signs, and hands the signature back to be
submitted. The relay in turn asks the router for the party's participant, Scan
through its caches and the participant with the provider's token. These parts
call each other and share no state: each is modelled alone, with the others as
the answers they may give.

## 2. Modules

| module | what it is |
|---|---|
| `Settle` | the money path for one transaction: rows, requests, participants, ledger, clock, crashes; its properties |
| `SettleInv` | the inductive invariants behind the safety properties |
| `SettleModes` | refinement: `observe` implements `off` once marks are hidden |
| `SettleProofs` | types, "success means paid", the three guarantees of `enforce` and the refinement of `off` by `observe`, for all handlers and participants |
| `MarkerWorker` | the marker worker, its table, the participant's deduplication, traffic and rounds; its properties |
| `MarkerWorkerProofs` | its safety properties, for any number of rounds, bytes and attempts |
| `Grants` | what the faucet promises to whoever funds it |
| `Faucet` | the faucet: requests, claim table, payout chain, submissions, clock, crashes; its properties, `Grants` among them |
| `FaucetInv` | the inductive invariant behind them |
| `FaucetProofs` | types, the window's budget and the refinement of `Grants`, for all constants |
| `Limits` | the sliding-window limiter and the circuit breaker, as operators |
| `LimitsProofs` | what these operators return, as lemmas for every budget kept with them |
| `SettleGuards` | what `/settle` does with them: admission, budgets, outcomes, over overlapping requests; its properties |
| `SettleGuardsProofs` | all of them, for any requests, payers, budgets and windows |
| `PreparedValue` | the bytes of a Daml value as the validator reads them and as the participant does |
| `PreparedDecode` | `decodePrepared`: nodes, metadata and input contracts |
| `PreparedTree` | what every arm demands: one root exercise, the signed metadata, the search for strangers |
| `PreparedTransfer` | the arms of transfers, accepts and preapprovals |
| `PreparedTradecraft` | the six Tradecraft arms |
| `PreparedIntent` | sixteen intents and the honest transaction of each |
| `PreparedSigning` | a wallet is handed an edited message, verifies and signs; the participant executes; its properties |
| `RelayDoors` | the wallet routes' limiters, the penalty box, the allocation budgets; its properties |
| `PrepareBudget` | the waste budget of `pay/prepare`, looked at before an await and charged after; its property |
| `ParticipantRouter` | the router with overlapping lookups, pauses and moving parties; its property |
| `SingleFlight` | the caches of Scan and the token provider; its property |
| `Attribution` | the row of a payment from its insert to its verdict; its property |
| `RelayAnswers` | what a wallet is told of what it submits; its property |
| `WalletRelayProofs` | the properties of `RelayAnswers`, `ParticipantRouter`, `PrepareBudget` and `RelayDoors`, for all constants |
| `SingleFlightProofs`, `AttributionProofs` | these two properties, for all constants |
| `MCSettle`, `MCSettleModes`, `MCMarkerWorker`, `MCFaucet`, `MCSettleGuards`, `MCPrepared`, `MCWalletRelay` | small instances for TLC |

### Settle and the code

A request is a `Handlers` element; a step is the code between two awaits of
`routes/settle.ts:197-880`, `pc` the await it is at, `begin` and `host` the two
locals that say where completions are read from and whose offset that is.

- `mark` is the row of `inline_settles`. `Lookup` is `getRecord` and the
  decision on it, `RecordDispatched` is `INSERT ... ON CONFLICT DO NOTHING`,
  `RecordSettled` the upsert, `ClearDispatched` the delete, which is by hash
  and therefore deletes *whoever's* mark it finds. `DbMayFail` lets each call
  fail, and all of them fail open: a failed lookup says "no row", a failed
  insert counts as the first.
- `stream[r]` lists the completions participant `r` published for this
  submission id, and an offset is a position in it. `FirstCompletion` is
  `findCompletion`: the first match past the offset, whichever submission it
  belongs to. `inflight` are the participants that accepted and have not yet
  sequenced; `outcome` is what the ledger did.
- `SubmitAccepted`, `SubmitRefused`, `SubmitDeduped` and `SubmitLost` are the
  four fates of `POST /execute`: accepted, refused with a code, "already in
  flight", and no answer (accepted or not). `Refused` is the classification
  of the catch arm, `NeverAnswered` its "we cannot tell" branch.
- `clock` is the age of the transaction in the four phases the code tells
  apart: before the validator's margin, in the margin, past `executeBefore`,
  past the store's retention.
- `Crash` loses every request and keeps the table.
- `MarkMode` is `settleDispatchMark`. The three modes are one set of actions
  with the code's own conditions on the mode.
- `Transient` is the set of refusals after which the *same bytes* may still
  commit when submitted again. `{}` is a ledger whose refusals are final; a
  lock conflict, for one, is not final.
- `TurnAway` and the refusing branch of `Charge` stand for breaker and
  limiter: they may refuse at any time. `SettleGuards` has them in full.

### MarkerWorker and the code

One tick is a chain of awaits: `Tick` (`processAllRounds`), one `ReconcileRow`
per unknown row, `Expire`, `Current`, the processing of one round (`Price`,
`KeepEdge` or `RecordAttempt`, `Send`, `Answered...`), then `CatchUp` with the
same processing for the round before. `Abandon` ends it anywhere: a crash or a
call that throws; the table stays as it is.

A byte of traffic is a unit of `traffic`; an attempt claims the bytes
`lo + 1 .. hi`. The price in USD and the ledger's weight floor become
`MinBytes`. `Register`, `Drop` and `Complete` are the participant: it refuses a
second submission for the round's command id while one is pending, or when one
was accepted past the deduplication offset, and a submission may arrive after
its sender gave up. `RejectionMayLie` lets a definite-looking 4xx answer a
submission that still lands; `MaxLag` lets a traffic read lag; `SnapshotMayFail`
lets a round be left without its traffic snapshot. `Init` includes the row an
older version of the worker left behind (`Legacy`).

### Faucet and the code

A request is a `Requests` element at the await `pc`: a call of the claim route
(`check` is `hasClaimed` and the two in-process caps), or the background payout
of a new wallet's starter grant, which begins at the reservation.

- `rows` is `faucet_claims`: a party's `claimed_at`, or no row. `TakesLock` is
  `pg_advisory_xact_lock`; `snap` is the snapshot the claim statement begins
  with, taken under the lock (READ COMMITTED), and `Claim` the `INSERT` with its
  three conditions and the `COMMIT`. A release by another request may fall
  between the two. The time of a claim, `now`, was read *before* the lock.
- `chain` is `payoutTail` (`canton/faucet.ts:128`): `Enqueue` appends, every way
  out of `claim()` lets the next one in. `SelectAgain` is the one re-selection
  of inputs after a contention, `PayAgain` the starter grant's retry
  (`STARTER_GRANT_PROPAGATION_RETRIES`), which goes to the back of the chain.
- `subs` are the transfers that left, with what became of each. `AnsweredPaid`,
  `AnsweredRefused` and `AnswerLost` are the three endings
  `payReservedFaucetGrant` tells apart: mark, release, keep the reservation. A
  transfer whose answer was lost may still land. Which 4xx a refusal is does not
  matter to any property, so `AnsweredRefused` may take any of the three
  branches, and a refused transfer is refused for good.
- The configured amount is the same for every grant, so budgets are counted in
  grants. `StoreMayFail` lets a store call fail, or its effect stand without
  its answer. The burst and per-IP caps may refuse at any time.

### SettleGuards and the code

The other view of `/settle`: any number of payments, and of each request its
stretches of awaits: the validation, what lies between the charge and the
submission, the submission. `Arrive` is the breaker's `isOpen` and the admission
caps (payment and merchant IP, without the global budget), `Charge` the payer's
bucket and then the global one. After it the code reads the ledger end, writes the
row and, in `execute`, finds the participant and may read the end again, so `Send`
is a step of its own, any time later, and a request may end before it (`Fail`,
`Unrelated`). `Fail`, `Succeed` and `Unrelated` are what its outcome tells the
breaker. A payer refused by the global budget has been charged all the same, as
in the code. `clock` is the `Date.now()` each step reads, in ticks; `charged` and
`sends` are history: the charges that requests hold, and the submissions of the
window with the times of both.

`Limits` has the state of `rate-limit.ts` as records: the map of times, the
global times and the last sweep of a limiter; `countArm` (the failures that no
success has forgiven), `failures`, `successes` and `openUntil` of a breaker.
`failureRate` is a fraction of two integers. The breaker has no half-open state:
once its deadline has passed it is closed, with the window's outcomes still
counted by the rate arm. The keys given to one call of `allowKeys` are distinct.

### The Prepared modules and the code

`core/prepared-transfer.ts` is 4,432 lines of pure functions; the state machine
around them is a wallet's: the message it is handed goes through edits, then the
wallet verifies it, once, and signs or refuses.

- Bytes are abstracted to what two parsers can disagree about. A field that is
  not repeated is the *sequence of its occurrences*: the code's reader and
  protobuf's own both see all of them, and each has its rule for which counts. A
  oneof is the sequence of its members, known or not, each with `wide`, a tag
  of over 32 bits. Whatever else could make a varint or a string undecodable is
  `Undecodable`.
- `PreparedValue` has both readings of a value: the operators the arms use are
  the code's, and those that begin with `Executed` are the participant's
  (protobuf: last occurrence wins, unknown members are skipped; the engine binds
  record fields by position). `At` is the code's lookup: it reads by position,
  as the engine does, and a label, where there is one, must be that position's.
- An Identifier is the occurrences of its package and of its name, and `text`, what
  the same bytes are when read as `package:module:entity`. Some encodings are such
  a text; and where a field occurs twice, the accessor throws, its caller catches,
  and the code reads the bytes as text (`QualifiedName`, `PackageId`; section 4).
- `PreparedDecode` is `decodePrepared` with its caps, `PreparedTree` the checks
  every arm shares, down to the backstop that searches every value for a party
  the caller has not named. `PreparedTransfer` and `PreparedTradecraft` have one
  operator per arm, and each condition of an arm is a conjunct; a thrown error
  and a returned one are both refusals. Their texts are left out.
- `PreparedIntent` gives each arm's arguments (`Expect`) and an honest message
  for it, in the shape of the recorded transactions of the tests.
- `PreparedSigning` edits the honest message: another value at any path of any
  node's or input's argument, a second member, an unknown one, a wide tag
  (`EditValue`); a field that occurs twice, is relabelled, unlabelled or swapped
  (`EditField`); an Identifier that is text, of another package, of another name, or
  with either twice and a text beside (`IdentifierEdits`); nodes added, dropped,
  duplicated or given another body, roots, and metadata. `harmless` remembers
  whether each edit kept the meaning: a label removed, an Identifier as text or of
  another package, a synchronizer named with its version, one more fetch. `Verify`
  ends the behaviour.

### The relay's modules and the code

- `RelayDoors`: `Prepare`, `Finalize` and `Submit` are the admission parts of the
  wallet routes: the ban, the cap per route and address, the pair of party and
  address, then (for `onboard/finalize`) the minute's and the day's allocation
  budgets, in the order of `routes/wallet.ts`. Only a refusal by a cap of the
  address's own is a strike, not one by the cap of a party behind it. `Struck`,
  `SweepBox`, `BanMs` and `Escalation` (the powers of the multiplier, up to as many
  as there were bans) are the penalty box; its sweep runs from a strike that counts,
  once per strike window. `refused`, `served` and `allocated` are history; an
  allocation is noted when it begins, which is where its slots are charged.
- `PrepareBudget`: `Ask` is the `peek` at the top of `pay/prepare`, `Refuse` and
  `Done` the end of its awaits: insufficient or fragmented holdings charge the
  pair of party and address, everything else does not.
- `ParticipantRouter`: `Resolve` is `forParty` and `hosts`, `Yes`, `No` and
  `Fails` what the participant then asked answers, `Remember` the bounded map.
  What is used after a failure is the entry as it was when the request *came*.
  `Move` changes who hosts a party, at any time.
- `SingleFlight`: `Get` and `Refresh` (invalidate, then get), `Read` (the source
  reads the value), `Land` and `Fail`. The token provider has one key, a margin
  (`SkewMs`) and serves the token it holds when a refresh fails; the keyed cache
  drops a slot with its load when it is invalidated (`DropsSlots`), and evicts.
- `Attribution`: a fetcher is the background fetch of a settle (named by its
  update) or the `Worker`; it asks the clients in turn (`Tells`, `HasNone`,
  `Errs`), then `Store` or `Nothing` writes. `Tick` takes the oldest rows, up to
  `Limit`, unless a tick runs. What a client can tell of an update only grows.
- `RelayAnswers`: `Execute` is a wallet's `submit/execute` or
  `preapproval/self/commit`, `CreateTransferPreapproval` the operator's route.
  `Post...` are the fates of the submission, `Found`, `Rejected`, `Unreadable`
  those of the poll. The wallet is the environment: it prepares another transfer
  only when everything it was told of the last one is a refusal. `hidden` is
  the history of submissions the participant accepted while their call was
  answered as refused.

## 3. Runs

| run | what it asks | bounds |
|---|---|---|
| `settle_enforce` | Do two concurrent requests under `enforce`, with final refusals and a working database, keep every guarantee? | 2 handlers, 2 participants, 1 submission accepted per participant |
| `settle_sequential` | Do they hold for one request at a time when *every* refusal may be followed by a commit of the same bytes, and is a lost answer found again? | 1 handler, 1 participant, 3 submissions, all reasons transient |
| `settle_observe` | Does `observe` answer exactly as `off` could, with a failing database? | 2 handlers, 1 participant |
| `settle_race`, `settle_stale_clear`, `settle_expired_retry` | counterexamples, section 4 | 1 or 2 handlers |
| `marker_worker` | Lost answers, crashes, lagging reads, a legacy row: is a round ever resubmitted in doubt, is a row ever wrong, is a lost answer found? | 3 rounds, 3 bytes, 3 attempts |
| `marker_windows` | With lying rejections: one marker per round, each byte claimed once, none dropped by the floor? | 4 rounds, 5 bytes, 2 attempts |
| `marker_snapshot` | counterexample, section 4 | 4 rounds, 5 bytes, 3 attempts |
| `faucet` | Concurrent claims and starter grants, failing store, lost answers, crashes: budget, cap and one payout per party, and does the chain move? | 3 parties, 2 requests, 1 grant per window, 2 in all, 2 submissions, 2 instants |
| `wallet_relay` | Is the honest transaction signed, and does an edited one that is signed run anything but the intent? Do bans, budgets, router, caches, attribution and answers hold? | 16 intents, 1 edit, 2 for the six smaller arms, 3 strangers; the relay's parts as below |
| `settle_guards` | Overlapping settles, late outcomes: budgets, cooldown, evidence, memory? | 3 payers with a payment each, 2 requests, 1 merchant; windows of 2 ticks, cooldown of 1, clock to 2; caps 1 (payer), 2 (merchant), 2 (global); threshold 2, rate 2/3 of at least 2 failures |

What the properties say:

- `SuccessIsPaid` - `success:true`, on the live path, from the record or from a
  sibling's record, and the settled record itself, only for a transaction that
  moved funds (or whose committed update could not be read, the code's own
  exception, when `ConfirmMayFail`).
- `DoubtIsMarked` - while the transaction may have paid, the row that stops a
  second relay is there.
- `NeverRelaysInDoubt` - no request posts the bytes while an earlier post may pay.
- `RelayRefusalIsTrue` - a relay answered `success:false` has not paid and is
  not about to: the answer invites a fresh payment or ends the purchase.
- `Recovers` - a payment whose answer was lost becomes the settled record if
  the merchant retries before the deadline.
- `ObserveIsOff` - `Off!Spec` under the refinement mapping of `SettleModes`.
- `EnforceInv` - the invariant the proofs rest on, checked where it is proved.
- `AtMostOneMarker`, `NoByteClaimedTwice`, `CarriedBytesAreClaimed` - one
  marker per round, no byte in two markers, no byte lost between a marker and
  the next when only skipped rounds lie between.
- `NeverResubmitsInDoubt`, `RowsAreTrue`, `LostAnswersAreFound` - what the rows
  of the worker are for.
- `WindowBudget` - no window of the clock, wherever it lies, has more
  reservations than the daily budget.
- `GrantsAreKept` - `Grants!Spec`: a party is paid once, only under its
  reservation, and a reservation is given back only when nothing was, or can
  still be, paid under it; reservations stay within the lifetime cap.
- `ChainMoves` - a payout that waits for its turn gets it.
- `SpendWithinBudget` - of the submissions of a window, wherever it ends, those
  whose budget was charged in it are no more than the global budget, and of one
  payer no more than the payer's cap; the others are one of each request at most.
- `BreakerReacts` - the breaker opens only for enough failures since it last
  opened, or a high fraction of them, all within the window; and always when
  they come in a row or their fraction is high.
- `CooldownHolds` - while it is open, only what had arrived before leaves.
- `MapIsBounded` - the limiter forgets a key that has not been looked at.
- `FaucetHolds` - the invariant the proofs rest on, checked where it is proved.
- `HonestIsSigned` - a wallet does not refuse what an honest participant
  prepares, in any of the shapes that keep its meaning.
- `OnlyTheIntentRuns` - what runs of a signed message is the root exercise the
  arm is for and its allowed consequences, by the participant's reading of the
  tree, not the validator's; a withdrawal creates a contract of a trusted package.
  Excepted is the template of an Identifier that names it twice (section 4).
- `SignedTermsAreExecuted` - the amounts, parties, instruments and contracts the
  participant reads in the root's argument are those that were verified, and
  the wallet's party alone acts.
- `NobodyElseIsNamed` - the participant finds no party in what runs that the
  caller did not name; two exceptions of the code are in the property.
- `CreatedHoldingsAreTheCallers` - created holdings are owned by the caller where
  the arm pins the owner, and name an owner where it pins that; creates whose
  Identifier names its template twice are excepted (section 4).
- `BansAreEarned` - a ban opens on the address's own refusals in episodes of
  their own, neither too early nor too late; a refusal is held against the address
  only when one of its own caps was spent, so that "a per-PARTY refusal behind a
  shared NAT" (`routes/wallet.ts:850`) bans nobody; a ban is not changed while it
  runs, and escalates.
- `AllocationBudgets` - no minute and no day has more allocations begun than slots, and
  a refusal by one budget takes no slot of the other.
- `WasteIsOnesOwn` - whoever is refused has wasted his budget himself, and what
  overlapping calls waste stays within a budget and one for each of them.
- `RoutedByEvidence` - a request goes to a participant that hosted the party
  within an entry's life and a lookup; after a failure what was known as it came
  decides.
- `ServedIsLive` - what is served is within its life from when it was read; who
  asks for a fresh value gets one read since, or by the load then in flight.
- `OutageSpendsNothing` - a report is true, and a row is given up only after
  enough answers of nothing yet, whatever the two fetches of a row do.
- `PaysOnceButForLostAnswers` - a wallet that pays again only after a refusal
  pays once, but for submissions whose own answer was lost (section 4).

Why the bounds suffice. Handlers interact through one row and one or two
streams; two of them already show every pairing of steps, and what three would
add (two clears and an insert, say) two show with repeated requests, since a
handler may be used again and again. Two participants are what makes an offset
foreign; with `MaxSubmissions = 1` each still accepts once, so two submissions
of the same bytes can be in flight. `settle_sequential` allows three, so a
commit can follow two refusals, with offsets before, between and after them.
Four rounds are one more than the longest chain the worker's code looks at (a
round, the one whose row it takes its baseline from, and one claimed after a
retry); five bytes cover two windows above the floor of two with a carried
byte; `MaxAttempts` permits a first attempt and a retry of one round. For
the faucet, two requests compete for the lock, the chain and a reservation,
three parties exceed the budget of one and the cap of two, and two submissions
are a payout and its retry, or two payouts. Proofs remove the bounds for the
money path, the faucet and the marker worker (section 6).

For `settle_guards` (244 thousand states), the clock runs a whole window after the
first hit, so that times age, buckets empty, sweeps happen with live and dead keys
in the map, and a submission leaves after the window of its charge. A third payer is
what makes the global budget bind where the payers' caps do not; two requests let
one outcome come after the trip of another. At the threshold of two and the rate of
two thirds each arm trips where the other does not. The run may stop at the last
tick with the breaker open: deadlock is not checked there. The requests, and the
payers with their payments, are interchangeable, and the run says so with a symmetry
set. Proofs remove all these bounds (section 6).

`wallet_relay` checks seven parts at once, twelve instances in all. They share no
state, so `focus` picks one at the start and the others stay where they begin:
the run has the sum of their states (867 thousand), not the product. It may stop
when a clock is at its bound or the wallet has decided: deadlock is not checked.

- Signing: an edit of an argument reaches every path of every value, so one edit
  visits every field each arm reads, with each kind of difference; two edits, for
  the arms small enough, pair a field with another, or with a node or metadata.
  The caps on nodes, roots and depth leave room for the edits: they refuse more,
  and what they let through is what the properties are about. Strangers are a
  party nobody named, one of the registrar's namespace, and the registry's operator,
  whom some intents trust.
- Bans: two strikes to a ban, windows of two and five ticks, so strikes age, bans
  end, repeat and hit their maximum of two; two addresses and two parties behind one
  of them. Allocations: one in a minute of two ticks, two in a day of six, a clock
  of six: the minute alone would allow three, so the day refuses too.
- Waste: a budget of one, two pairs of one party, two overlapping calls, past
  two windows. The router: entries of two ticks, lookups and pauses of one, one
  move between two overlapping requests; and two parties for the one entry of
  the map. Caches: two callers, a load of one tick, a clock past two lives; the
  keyed one with two keys for one slot; the token with a margin of one of three.
- Attribution: one row known to two clients, two rows of which a tick takes one,
  two attempts. Answers: two overlapping calls, two transfers, three submissions:
  the second transfer is the one that would pay twice, the third submission a
  repeat of either. Proofs remove the bounds of these last three (section 6).

## 4. Where code and promise disagree

Each is a run that TLC finds violated; `PROJECT.json` quotes the line.

1. `settle_race`. `execute` takes the first completion past its offset with the
   shared `submissionId` (`canton/transfer-factory.ts:348`). Request A submits;
   request B captures the ledger end; A's submission is rejected on a lock
   and A clears the row; B marks, submits, and polls *A's* rejection: it
   answers `input_contention` while its own submission is in flight.
2. `settle_stale_clear`. `clearDispatched` deletes by hash
   (`db/inline-settle-store.ts:334`). Two requests resolve one rejection; the
   faster clears, a third relay marks and submits; the slower deletes the new
   mark.
3. `settle_expired_retry`. Validation precedes the lookup
   (`routes/settle.ts:287`), so a retry within the deadline's margin is told
   `success:false` while the first relay is undecided; `docs/deployment.md:245`
   promises the 503.
4. `marker_snapshot`. A round left pending without its traffic snapshot is
   priced from a live reading by a later retry
   (`workers/paid-marker-worker.ts:219`), after the next round was seeded below
   that reading: bytes are claimed twice.

The first two need a refusal after which the same bytes can commit, which is
why the theorems of `enforce` assume refusals final and why `settle_sequential`
(any refusal transient, no concurrency) passes.

Noticed while modelling, and modelled as the code has it; where a property would
say otherwise, the exception is part of the property:

- A submission of the wallet that is accepted and whose `POST` gets no answer is
  told as a refusal, a 502 (`relayError`), while `routes/wallet.ts:592` reserves
  the 503 for unknown outcomes. A wallet that believes it pays twice: `hidden`
  in `PaysOnceButForLostAnswers`.
- `getAmuletRulesFresh` and `getOpenAndIssuingMiningRoundsFresh`
  (`ledger/scan.ts:469`, `:521`) are meant to bypass the cache, and join a load
  that is already in flight: what they get may have been read before they were
  asked. `ServedIsLive` allows a load's latency for it.
- A token's life is counted from when its answer arrives, so a token kept through
  a failed refresh may be past its expiry by the latency of its own fetch; the
  margin covers it otherwise.
- Strikes and the escalation of bans age only when a counted strike sweeps the
  box (`rate-limit.ts:295`). An address that waits out the longest ban may still
  meet its escalation; `BansAreEarned` gives only what holds of either order.
- A background fetch that ends late may turn a row from `confirmed` back to
  `no_summary`, which no later tick looks at; a Scan client's 404 counts as a
  failure, not as "nothing yet"; and the tick reads the hundred oldest pending
  rows, so a hundred rows whose fetch always throws would keep the others waiting.
- An Identifier in which `module_name`, `entity_name` or `package_id` occurs twice is
  not refused. The accessor throws, as its comment says a duplicate must
  (`core/prepared-transfer.ts:169`: "we FAIL CLOSED on any duplicate"), but the
  `catch` meant for encodings that are plain text swallows the error (`:976`, `:1016`)
  and the bytes are read again as text. Where that text names an allowed template,
  the wallet takes it for the template, while the participant takes the last
  occurrence. The exceptions of `OnlyTheIntentRuns` and
  `CreatedHoldingsAreTheCallers` are for this alone; without them both are violated.
- A traffic reading below the last edge, as from a Scan that lags after a fail-over,
  is recorded as the next checkpoint (`workers/paid-marker-worker.ts:249`), and the
  next round claims the bytes between the two again. `NoByteClaimedTwice` is violated
  when readings may lag by one; `marker_windows` and `ClaimedOnce` are stated for
  readings that do not. (`marker_worker` has readings that lag, and what it checks
  holds with them.)
- The submissions of a window are not bounded by its budget alone: requests that were
  charged before it and wait for the ledger end or the row leave in it too.
  `SpendWithinBudget` allows one for each request.
- A refusal of a settle that no definite code names is answered `success:false`
  with the mark left behind (`routes/settle.ts:748`), although no completion will
  be published: retries get 503 until the sweep.

## 5. Fairness

`Settle`: weak fairness of each handler's step (every await has a timeout:
`execute` aborts after 45s, the poll after 20 reads, the sibling wait after
12), weak fairness of the ledger (a participant completes what it accepted),
and strong fairness of `Receive` (a merchant that keeps retrying; the 503
carries `Retry-After`), `Accept`, `Lookup`, `ResolveFinds`, `Reconfirm` and
`RecordSettled` (a read or write that can succeed again and again does once).
The first six are used by `Recovers`. It assumes neither that crashes stop, nor
that any single call succeeds; and it promises nothing once the deadline's
margin is reached (finding 3).

`MarkerWorker`: weak fairness of the worker (the timer goes on and every call
has a timeout), of the participant's completion of a registered submission,
and strong fairness of a reconcile that reads the stream to its end. Nothing
says that rounds open, traffic flows or a crash stops.

`Faucet`: weak fairness of each request's step (store, Scan and participant
calls all have timeouts, and the `finally` of `claim()` runs whatever they
do). Nothing makes a transfer land, and nothing makes a crash stop.

`SettleGuards` and everything in `wallet_relay` have safety properties only, and
assume no fairness.

## 6. Proofs

Assumptions on constants are named (`HandlersAssumption` ... `FaultAssumption`)
and no stronger than the types; sets of handlers and participants are
arbitrary, finite or not.

`SettleProofs`, for every mode and every fault:

- `TypeCorrect == Spec => []TypeOK`. `TypeOK` is not inductive: `SubmitAccepted`
  adds `host[p]` to `inflight`, a set of participants. `TypeInv` adds that an
  offset never stands without its participant, in the row and in a handler, and
  that a handler reads completions only with an offset.
- `SuccessIsAlwaysPaid == Spec => []SuccessIsPaid`. `PaidInv` adds where success
  comes from: a published "committed" completion means the ledger committed; a
  handler at the confirm has read one; one at the record has confirmed the
  transfer; a settled row was written by such a handler. `CommitIsFinal` is the
  lemma that makes the facts stable.

and under `Enforcing` (mode `enforce`, the database answers, `Transient = {}`):

- `DoubtStaysMarked`, `DoubtIsNeverRelayed`, `RelayRefusalIsFinal`, for
  `DoubtIsMarked`, `NeverRelaysInDoubt`, `RelayRefusalIsTrue`; `OneRelayAtMost`,
  for the invariant they are read off.
- `EnforceInv` says that as long as the bytes paid or still could (`Alive`), at
  most one handler is between the mark and the outcome, its row stands, nothing
  but a commit was ever published and at most one participant holds the bytes;
  that a handler about to clear a row knows the bytes dead; and that nobody
  relays past the retention. `DoubtIsMarked` alone is not inductive: a clear
  removes a row, and only `ClearsOnlyTheDead` says that its transaction cannot
  pay; a sweep removes one, and only `AgedIsQuiet` says that nobody is waiting
  for it; and an insert is exclusive only while the row of the doubt stands,
  which makes the three parts mutually dependent.
- Each argument has one lemma per kind of move (`Goto`, `Answer`,
  `ClearThenFail`, ...), one per handler step by cases, one per `Next`, and a
  short temporal step at the end.

and under `Observing` (mode `observe`, any fault, a failing store included):

- `ObserveImplementsOff`, for `ObserveIsOff`: `SettleModes` maps a state of
  `observe` to one of `off` by hiding the rows and calling the two steps that only
  serve them by the label `off` has there (`OffLabel`). Which one that is depends on
  whether the handler at its mark has an offset, so the mapping is kept step by step
  only because nobody has one before it was captured (`NoneYet`, the invariant). The
  lemmas map the moves first, then each step of a handler: those that look at a row,
  or write one, stutter or are the step `off` takes without it.

`FaucetProofs`, for any finite set of parties, any requests, budgets and faults:

- `FaucetInvariant == Spec => []Inv` and `PaysUnderItsReservation`, for
  `FaucetHolds`. `Inv` is `TypeOK` with the five parts of
  `FaucetInv`: the snapshot of the one statement under the lock lacks no row of
  the table (`SnapshotHolds`), whoever awaits an answer is at the head of the
  chain (`ChainHolds`), a reservation has one request paying it
  (`HoldersHold`), no two submissions of a party can both land and none without
  its row (`LiveHolds`), and who may submit or release has nothing in flight
  (`PayersHold`). They need each other: only `PayersHold` lets a release keep
  `LiveHolds`, only `HoldersHold` lets a submission keep `PayersHold`, only
  `ChainHolds` says that the request that leaves the chain is in it.
- `TypeCorrect`; `BudgetHolds == Spec => []WindowBudget`: every window a new row
  falls in lies inside what its statement counted, whatever the order of the
  times; `GrantsKept == Spec => GrantsAreKept`: an insert is a `Reserve`, a
  delete a `Free`, a landing a `Pay`, every other step stutters.
- The lemmas come in three layers: what a step does to one request (`Moves`),
  when a part of the invariant does not notice it (`SnapshotQuiet` ...), and one
  lemma per action.

`MarkerWorkerProofs`, for any rounds, bytes and attempts, and any of the losses,
crashes and lags:

- `TypeCorrect`; `OneMarkerPerRound == Spec => []AtMostOneMarker`, with no
  assumption. Two attempts of a round are kept apart by the participant only if
  both ask it to look past the same offset, so the invariant `Inv` says that every
  attempt carries the offset of its round's row (`AttemptsHold`), which the row
  keeps through every retry; that an accepted one stands in the stream past that
  offset (`LogHolds`), where a later one meets it; and that at most one is
  registered or accepted (`OneRegistered`). The row an older worker left has no
  offset and exactly one attempt, and is never submitted again: `RowsHold`,
  `TargetHolds`.
- `RowsTellTheTruth` (`RowsAreTrue`) and `NeverResubmitted`
  (`NeverResubmitsInDoubt`), under `Honest`: an answered rejection is final. Without
  it they are false, as the comment at `workers/paid-marker-worker.ts` on retries
  has it: then it is the offset that guards, and `OneMarkerPerRound` still holds.
  `DoubtHolds` is the invariant: a row that may be tried again has no attempt that
  may land, an unknown row at most its last.
- `ClaimedOnce` (`NoByteClaimedTwice`) and `CarriedOver`
  (`CarriedBytesAreClaimed`), under `Fresh`: no reading lags and no snapshot fails.
  `marker_snapshot` shows what happens otherwise (finding 4). The windows of
  markers cannot overlap because an attempt's window lies between the edge of its
  round and that of the round before (`ClaimsHold`), edges ascend (`EdgesHold`) and
  never change once they are set but at the floor, where a round that is skipped
  passes its edge on (`SkipsHold`); a row that may be submitted has a window of at
  least the floor (`WindowsHold`), and what was priced is still so when it is
  recorded (`PricedHolds`).

`SettleGuardsProofs`, for any finite set of requests, any payers, budgets, windows
and clock:

- `TypeCorrect`; `BudgetsHold == Spec => []SpendWithinBudget`. A budget's bucket
  is pruned only at its next call, forgets nothing that is still in the window, and
  is charged apart from the other budgets, by requests that overlap and send later.
  The invariant `SpendInv` is therefore about what was *spent* in the window: the
  submissions charged in it and the charges that requests still hold. Each has a time
  of its own in the bucket (`Covered`, an injection), of the global budget and of its
  payer's. A charge adds one with its time (`SpendMade`); a submission turns the
  charge a request held into one that has left, with the same time (`SpendSent`); a
  request that ends gives one up (`SpendLost`). That of the others each request has
  one at most is `InTurn`: a request that submits twice was charged for the second
  after the first had left.
- `CooldownIsKept`, for `CooldownHolds`: `CoolInv` counts what has left since a trip
  and what had arrived before it and may still leave, which together are fewer
  than the requests as long as nobody can arrive.
- `MapStaysBounded`, for `MapIsBounded`: a key's times are none after it was last
  looked at, so a sweep that keeps the key saw it within a window (`MapInv`).
- `OpensOnEvidence`, for `BreakerReacts`, under `Guarded`: the breaker is on (a
  threshold of zero or less is how a deployment turns it off, `config.ts:926`).
  The breaker has only lists of times, the property speaks of outcomes: `ToldInv`
  says that the failures and the successes of the window are its two lists, one
  time for one outcome (`Exact`: injections both ways), that every time of the
  count arm within the window is of a failure it was not opened for yet
  (`Backed`), and that the run of such failures that ends the outcomes ends the
  count arm (`Trails`): a success forgives the *oldest*, so it never shortens a run
  that comes after it.
- What the breaker's two calls return are `RecordFailureIs` and `RecordSuccessIs`.

`LimitsProofs` has the lemmas about the operators of `Limits`, which
`SettleGuardsProofs` and `WalletRelayProofs` cite:

- what pruning leaves (`PruneIs`, by the least-number principle of
  `WellFoundedInduction`, `Aged` being a choice), that pruning twice is pruning once,
  what a sweep, `AllowKeys` and `AllowGlobal` return (`SweepIs`, `AllowKeysIs`,
  `AllowGlobalIs`), and when the times of one list each have their own in another
  (`Covered`);
- `Count(times, k)`, how many of the times are later than `k`: what a charge adds to
  it (`CountAppended`) and that pruning leaves it alone for any `k` in the window
  (`CountPruned`). Two lists of times in order are compared by their counts.

`SingleFlightProofs`, under `Deployed` (times are naturals, the margin is smaller
than the life, and a cache that serves a stale value has one key and keeps its
slot, as the token provider does):

- `ServesTheLiving`, for `ServedIsLive`, for any callers, keys and latency. What
  is served tells nothing of the future, so the invariant is about what *may* be
  served: a load in flight is no older than the latency and read its value during
  it (`Loads`), a slot expires a life and a latency after its reading at the latest
  (`Slots`), who waits for a fresh value waits for a load recent enough (`Waits`),
  and where a failed load is answered from the slot, the slot is that load's and
  holds nothing while someone wants a fresh value of it (`Stales`).

`AttributionProofs`, under `Deployed` (finitely many updates, the clients a
sequence, at least one attempt):

- `OutagesSpendNothing`, for `OutageSpendsNothing`, with any number of fetches at
  once. `AnswersFit` and `RowsFit` say that an answer, in a fetch and in a row, is
  what the ledger and some client make of the update, which stays so because
  a client's knowledge only grows; `SpendIsHeard` and `AttemptsHeard` that the
  attempts spent, and the one the worker is about to spend, were each answered.

`WalletRelayProofs` has five theorems, about parts of the relay that share nothing.

With no assumption:

- `PaysOnce`, for `PaysOnceButForLostAnswers`. Two submissions that both pay
  are of different transfers, or of the operator's own command, so the invariant
  says when another transfer can be prepared: a submission that may pay, and whose
  answer was not lost, is of the transfer prepared last, and as long as only
  refusals were told some call polls for it (`LiveIsPolled`); the calls in flight
  are about that transfer, and the operator's call is alone (`CallsAreCurrent`);
  the bytes of a transfer pay once (`PaidOnce`), and so does the operator's
  command (`OwnOnce`).

Under `Routing` (times are naturals, the map has room for an entry):

- `RoutesByEvidence`, for `RoutedByEvidence`. The property speaks of a step, the
  evidence was gathered long before it: the invariant `RouterInv` says that an entry
  was true at most a lookup before it was made (`EntryIs`), that a lookup is within
  its deadline and, once it asks the secondary, has had the primary's no since it
  began, and still has what was remembered as its request came (`AskIs`), and that the
  histories are of the ledger (`HistoryIs`). It takes in that the map has one entry for
  a party, since `Remembered` takes any: an answer's entry goes before the new one is
  added, and what is dropped of a full map leaves a part of it (`Part`).

Under `Budgeted` (finitely many calls, at least one; a window is not empty):

- `WasteBoundedOwn`, for `WasteIsOnesOwn`. The bucket is looked at before the ledger
  is read and charged after, and a charge to a full bucket is not recorded, so the
  bucket holds fewer times than were wasted. `BudgetHolds` says how many fewer, for
  every `k` in the window, wherever it begins: charges since `k` are wasted calls since
  `k`; and wasted calls since `k`, with those in flight for a pair that has no budget
  left (`Held`), are at most `n` for each charge and `n - 1` more, for `n` calls. The
  calls in flight have to be counted in: when the last slot is charged, all others may
  still waste a call that charges nothing.

Under `Capped` (caps are integers, windows are not empty):

- `AllocationsBounded`, for `AllocationBudgets`. For every `k` in their windows,
  allocations begun since `k` are no more than slots of the minute taken since `k`
  and exactly the slots of the day (`MinuteHolds`, `DayHolds`). That it is "no more"
  for the minute and "exactly" for the day is the order of the two calls in the route:
  a refusal by the day's budget loses the minute's slot, and never the other way round.

Under `Boxed` (caps and times are naturals, window and spacing are not empty; with no
spacing every refusal counts, and the refusals of one instant are one in a history
that is a set of times):

- `BansEarned`, for `BansAreEarned`. `StrikesHold` relates the strikes of an address
  to the refusals told since its last ban: the recent strikes are refusals, a spacing
  apart, and fewer than a ban takes; and each refusal of the window is within a spacing
  of a recent strike, or less than a spacing into the window, for its strike has just
  left it. So refusals a spacing apart are at most the strikes and one more
  (`FewEpisodes`), and the strikes of a ban are episodes (`StrikesAreEpisodes`).
  `BanHolds` says that until a clean stretch the entry knows how long the last ban was
  and when it ends. Both have to survive a sweep by *another* address's strike
  (`SweptHolds`, `BoxSwept`), which ages strikes, and drops the entry or its
  escalation only where that stretch is over. The powers of the multiplier are a
  recursive function, which is a choice until it is known to exist: `PowersExist`
  shows it by the least-number principle, `EscalationIs` gives its two equations,
  and `BansGrow` says that a ban is the multiplier times the one before, or the maximum.
  `HeldNext` is the part about whose refusal it was: at the doors of routes the cap
  that refuses is the address's (`AdmissionAnswers`), and at the door of submissions a
  refusal leaves of the address's bucket what pruning it does, so if it is full then,
  it was before (`SubmitAnswers`).

The theorems of these last three modules are about the components themselves;
`wallet_relay` checks their properties on instances of them.

Model-checked only:

- `Recovers`, `LostAnswersAreFound` and `ChainMoves`: liveness under fairness is out
  of the provers' reach.
- The five invariants of `PreparedSigning`: the `Prepared` modules follow recursive
  data with RECURSIVE operators, which the provers cannot read.
- `settle_sequential`'s safety under transient refusals: the theorems of `enforce`
  assume final ones, and with two requests they are false without that
  (`settle_race`).
- `DoubtIsAnswered503` and the other counterexamples.

## 7. What is not modelled

`PROJECT.json` lists every component with its status. Left out of the modelled
ones: log texts, metrics, wording of reasons; `GET` routes; the in-memory settle
store (its rows are lost at a restart, which `docs/deployment.md` rules out for
`enforce`); two facilitator processes; two marker workers (the deployment runs
one); the in-memory claim store (the faucet that pays refuses to start without a
database).

Of the verification, hashes and signatures (functions of the bytes), the bytes
of varints and strings beyond whether they decode, and what the parties of the
ledger do with a signed transaction: the models say what the participant *reads*,
not that a Daml choice does what its name says. Of the inline validation of
`/settle`, its comparison of the decoded transfer with the payment requirements;
`Settle` has its outcome.

Of the wallet relay, its reads (balances, holdings, offers, history), the choice
of inputs and the preapproval's fee inputs: they change no state. Of attribution,
the sums of `getTotals`, the report route and the fetch of created contracts
(`setCreateUpdateId` has no caller at this commit, so it never has a row).

Not modelled at all: the nonce guard (no route calls it), the redeemed and
consumed stores, shutdown, readiness and the traffic monitor, the merchant
registry, rewards, the topology reader's HTTP, configuration and wiring.

## 8. Plan

The order is by what a mistake would cost. Runs are kept to a dozen, so
that all of it can be checked again in minutes; small components share one, as in
`wallet_relay`, and a run gives way to a deeper one (`settle_expired_retry` first;
the two questions of `marker_worker` and `marker_windows` may share an instance).

*Done*: `Settle` with invariants, refinement and proofs; `MarkerWorker`; `Faucet`
with its refinement of `Grants`; `Limits` and `SettleGuards`, all proved; the
verification of prepared transactions; the wallet routes' doors and budgets; the
router; the caches and the token provider, attribution and the relay's answers, all of
the relay's parts with proofs. Of the safety properties, those of `PreparedSigning`
alone have none.

1. `Purchase`: the abstract promise of a settle to merchant and payer (paid at
   most once; every answer true), implemented by `Settle`.
2. The comparison of a decoded transfer with the payment requirements, composed
   with the Prepared modules, against what the participant executes.
3. `Shutdown` (drain, deadline, second signal) and the bounded stores of redeemed
   and consumed payments.
4. Pure operators: the completion parser with its empty update id, the marker's
   price and weight floor, each against a reference definition over bounded inputs.
