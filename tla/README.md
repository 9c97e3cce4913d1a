# Minibits Wallet: a verification project in TLA+

Minibits is a mobile Cashu wallet. Ecash proofs are bearer secrets: whoever redeems
one at its mint first owns it. The wallet therefore has three jobs that must agree at
all times: it keeps proofs in SQLite (the authority), mirrors them in a MobX-State-Tree
store that the screens and the coin selection read, and swaps them at a mint over a
network that loses answers, while the operating system may kill the process at any
moment. This project models that core: what a proof's state may be, when it is locked,
when it is handed out, what a crash, a lost answer or a racing payee does to it.

Source paths below are relative to `src/src/` in `PROJECT.json`'s sense: `models/...`,
`services/...`.

## 1. Inventory

| Component | State it keeps | Operations | Talks to |
|---|---|---|---|
| Proof store and reservations: `models/ProofsStore.ts`, `services/db/reservationsRepo.ts`, `proofsRepo.ts` | proofs table (state UNSPENT / PENDING / SPENT, owner `tId`), the map of proof nodes in memory, the reservations table with what to put back | `reserve`, `commitReservation`, `rollbackReservation`, `recoverOrphanReservations`, `moveToSpent`, `moveToPending`, `revertToSpendable`, load | every operation below |
| Startup: `models/helpers/setupRootStore.ts` | the phase of the process | load proofs, hydrate counters, recover orphan reservations, seed in-flight table | proof store, counters |
| Send: `operations/sendOperationApi.ts`, `sendTask.ts` | transaction status, output token, the proofs watched after hand-out | `prepare`, `execute` (with a healing retry), `finalize`, `_monitorSentProofs` | proof store, `WalletStore.send`, sync |
| Reclaim: `revertTask.ts` | none of its own | reclaim a PENDING send by swapping its proofs back | proof store, `WalletStore.receive` |
| In-flight requests: `operations/inFlightOperations.ts`, `db/inFlightRepo.ts` | one request per transaction whose answer may be lost | `addInFlightRequest`, `removeInFlightRequest`, the sweep that replays | `WalletStore.send/receive`, proof store |
| Sync: `operations/syncOperations.ts` | none; works on a snapshot of the mint's answer | branch 1: proofs spent; branch 2: proofs pending in a melt; branch 3: proofs no longer pending | every operation's `finalize` or `refresh` |
| Derivation counters: `models/Mint.ts`, `db/countersRepo.ts` | one counter per keyset in memory, in SQLite, and inside cashu-ts | write-through, write in the commit, hydrate | wallet store, commit |
| Sync queue: `syncQueueService.ts`, `queueHelper.ts` | the running task and the waiting ones (concurrency 1) | add, add at the head, wait for the event of a named task | all tasks |
| Transactions: `models/TransactionStates.ts`, `transactionsRepo.ts` | the status of each transaction | status updates, some inside the commit's batch | all operations |
| Melts ("transfer"), lightning and onchain: `operations/transferOperationApi.ts`, `meltOperations.ts` | quote, reservation, `pendingByMintSecrets`, change-recovery rows | prepare, execute, re-check after an error, finalize, refresh | proof store, sync, mint quotes |
| Receive, topup, onchain topup: `receiveOperationApi.ts`, `topupOperationApi.ts`, `onchainTopupOperationApi.ts`, `mintOperations.ts`, `onchainOperations.ts` | statuses, the prepared token of an offline receive, the quote tables with amounts paid and issued, pollers and web sockets | prepare, execute, complete offline, refresh, check for deposits, recover a quote, replay | wallet store, queue, screens |
| Nostr: `models/NwcStore.ts`, `nostrOperations.ts`, `RelaysStore.ts` | the ring of received ids, where to listen from, the daily limit, the waiting command | take a pushed or subscribed event, pay within the limit, wait for an asynchronous melt, reply | queue, transfer, notifications |
| Mint identity: `models/MintsStore.ts`, `Mint.ts`, `mintsRepo.ts`, `countersRepo.ts` | mints in memory with keysets and counters, the rows that observers write, the cached seed wallets | add, update, move (`setMintUrl`), remove a mint, refresh keysets | everything that derives outputs |
| Lightning payment screen: `screens/TransferScreen.tsx` | the reducer's state, a ref to the quote, the call it waits for, the payment it listens for | request an invoice, ask for a quote, choose a mint, pay, pay again, dismiss, leave | transfer task, late results |
| Send screen: `screens/SendScreen.tsx` | the reducer's state, the calls it waits for, whether it listens to syncs, the deliveries that are out | open with a contact or a payment request, enter an amount, choose a mint, lock, confirm, deliver by message or POST, leave | send task, result events, relays, an endpoint |
| Choice of proofs: `services/cashu/cashuUtils.ts`, `sendTask.ts` | none | an exact match or the least excess, inactive keysets first, again until the fee is covered | send, transfer |
| Seed and its counter: `keyChain.ts`, `orphanedSeed.ts`, `setupRootStore.ts`, `db/instance.ts`, `SeedRecoveryScreen`, `WelcomeScreen`, `OrphanedSeedScreen`, `DeveloperScreen` | the keys in the keychain, the schema and the counter in SQLite, the stripped snapshot in MMKV, the flag of an orphaned seed, the cached seed wallet | build or migrate the schema, restore and migrate the stores, onboard, decide about an orphan, walk a seed in rounds, save a recovered seed, factory reset | wallet store, mint, server |
| NFC payments: `screens/NfcPayScreen.tsx` | the reader's session, three refs, the state shown | read a request, pay it, write the token back, rearm | send task, the platform's reader |

What makes each of them correct:

* **Proof store**: no proof is locked twice; a locked proof is PENDING under its
  operation's id; memory equals disk between operations; a commit has all of its
  effects or none; rolling back restores exactly what was there; SPENT is final.
* **Send and reclaim**: the balance is real; no ecash is lost; no proof is given to two
  payees; a handed-out proof is not spendable; COMPLETED means the payee has the
  token, REVERTED means nobody has; a redeemed token is eventually noticed.
* **In-flight requests**: a replay gives what the lost answer would have given.
* **Counters**: no secret is derived twice, also after a restart.
* **Sync**: it only touches what the mint told it about, and settles the right transaction.
* **Queue**: nobody waits for something that can never start; a caller gets the result
  of its own task.
* **Melts**: a transfer is COMPLETED only if it was paid and REVERTED only if it was not; what
  the mint holds for a payment is not offered for another; the change comes back; a
  terminal status is final.
* **Incoming operations**: what the mint issued is in the books; booked ecash is reported;
  a paid topup and a paid onchain quote are minted in the end.
* **Nostr**: a command runs once; a day's commands stay within the limit; an error reply
  means that nothing was paid; a command does not hold the queue for ever.
* **Mint identity**: no index of a keyset is derived twice, through adds, moves, removals
  and restarts; tables and memory name the same mints.
* **Seed**: no index of a seed is derived twice, over launches, upgrades, reinstalls, recovery and
  resets; a wallet that opens without onboarding has its keys.
* **Lightning payment screen**: it shows COMPLETED only for a paid invoice; a second payment of
  the same quote, or a payment with another mint's quote, costs no ecash.
* **Send screen**: what it shows as completed was claimed; a payment request is paid with one
  token, made as the request asks and linked to it.
* **Choice of proofs**: what is chosen covers the amount and its own fee; what is refused cannot be paid.
* **NFC**: one payment per consent; the reader is armed again when a result is dismissed.

What is hard about them, with the lines, is the `hazards` list of `PROJECT.json`. In
short: the process dying between the mint's answer and the commit; an answer that is
lost while the mint did the swap; a payee who redeems during a reclaim; a payee who
redeems a part; tasks that captured proof nodes before waiting in the queue; a sync that
answers about several transactions at once; counters kept in three places; a task
that waits for another task of the same queue; workers outside the queue (monitors, the
recovery screen) that settle what the queue is settling; checks that are read before an
await and used after it.

## 2. Modules

| Module | Models | Size of its state |
|---|---|---|
| `ProofsStore` | the primitives of the proof store: each is one SQLite batch and its synchronous mirror, so one atomic step over `disk`, `mem`, `rows` | - |
| `AtomicLedger` | the abstract promise: an operation settles in one step or not at all | `ledger` |
| `ReservationProtocol` | any number of operations interleaved over these primitives, dying and recovering | `ProofsStore` + `phase` |
| `CoinsAndReservations_proofs` | the theorems about `ReservationProtocol` and `CoinSelection` | |
| `SendLifecycle` | send, reclaim, in-flight sweep, sync branch 1, counters, mint, payees, restarts over the same primitives | 19 variables |
| `SendLifecycle_proofs` | its theorems: derivation, always; that what is written off stays so, whatever is lost; all its other safety properties but `ReplayIsIdempotent` and `PendingTokenIsHeld`, while nothing is lost | |
| `TransferLifecycle` | lightning and onchain melts: `transferTask`, `execute` and its re-check, `finalize`, `refresh`, monitors, recovery of change, expiry, the three branches of the sync, restarts; over the same primitives | 16 variables |
| `TransferLifecycle_proofs` | five of the six invariants its run checks as theorems, and what holds in every state | |
| `TransferLosses_proofs` | the sixth, about one lost call or one crash | |
| `IncomingLifecycle` | receive (online, offline-prepared, by payment request), lightning and onchain topups, recovery of a quote, the sweeps | 20 variables |
| `IncomingLifecycle_proofs` | its theorems: both of the invariants its run checks | |
| `NostrIntake` | events over push and relays, the ring of ids, pay commands within the daily limit, direct messages, the foreground service | 22 variables |
| `TaskCalls` | `createQueueAwaitable`, the queue with its prioritized head, result events, pollers by name | 6 variables |
| `MintBook` | mints in memory and in SQLite, their keysets and counters, cached seed wallets | 17 variables |
| `NfcPay` | the NFC payment screen: reader sessions side by side, refs, modals | 15 variables |
| `PayScreen`, `MCPayScreen` | the lightning payment screen: quotes, mints, several payments of one quote, late results | 4 variables |
| `SendScreen` | the send screen: tokens that come late, deliveries, payment requests, results of syncs | 4 variables |
| `Screens_proofs` | the theorems about `PayScreen`, `NfcPay` and `SendScreen` | |
| `CoinSelection` | one choice of proofs for a send or a melt, round by round until it covers its fee | 2 variables |
| `WalletSeed` | the seed, its counter and the four stores they live in: startup with its migrations, onboarding, recovery, reinstalls, the factory reset, calls that derive | 10 variables |
| `WalletServices_proofs` | the theorems about `MintBook`, `WalletSeed` and `NostrIntake` | |
| `FiniteSums` | lemmas about sums over finite sets, for the proofs that count ecash | |
| `MCReservationProtocol`, `MCSendLifecycle`, `MCTransferLifecycle` | small instances for TLC | |
| `MCPayments` | the melts, the send screen and the choice of proofs in one instance, one to a behaviour (`focus`) | |
| `MCWalletServices` | the seven services above in one instance, one to a behaviour (`focus`) | |

### How the state corresponds to the code

`disk[p]` is the row of the proofs table, `mem[p]` the node of `proofsStore.proofs`
(`Absent`: no row, no node); a record holds the state and the owner `tId`. `rows` is the
reservations table, each row with `locked`, the `LockedProofSnapshot` of every proof.
`Snapshot` is the `rollbackTo` option: `'preserve'` or one state for all.

`Reserve`, `Commit`, `Rollback`, `Overwrite`, `LoadProofs` follow the code's asymmetries:
`reserve` writes PENDING on disk for every proof while the mirror leaves SPENT nodes;
`commitReservation` overwrites on disk and skips SPENT nodes in memory; rollback writes
unconditionally; loading leaves SPENT proofs without a node.

In `SendLifecycle`, `job` is the task the queue runs and its `pc` the await it stands at;
`asked` is what the user queued; `inflight` the in-flight table; `counter`, `dcounter`,
`derived` the three copies of the derivation counter (MST, SQLite, cashu-ts);
`token` the `outputToken` of a send; `watches` the proof sets captured by
`_monitorSentProofs`; `net`, `mintSpent`, `signed`, `cache` the mint's side, taken from
NUT-03 and NUT-19 as the code uses them (external). Every step of a task is one SQLite
write or one await; between two steps the payees, the mint and the user act, and the
process may die.

Proofs are abstracted to what the properties tell apart. A base proof is worth
`BaseWorth`, a derived one 1. The outputs of a request are `<<k, i>>` for the derivation
index `k` at which it was derived; deriving twice at one index gives the same secrets, as
cashu's deterministic secrets do. One request takes one index.

In `TransferLifecycle`, `job` is the transfer task, `sync` the sync (alone or nested in the
task, which the code calls directly there), and `visit[w]` a worker inside `finalize`,
`refresh` or `recoverMeltQuoteChange`: the queue, the monitor of a transfer, or the recovery
screen. A visit records what it read before its awaits, so a stale answer is one that was
read too early and not a special action. `recovery` is the melt_recovery table, `registry`
is `pendingByMintSecrets`, `net` and `quote` are the network's and the mint's side
(external). A proof of a transfer is `<<t, role>>`; the reserve not used comes back as change.
`Dated` are the transfers that keep an expiry, which only an invoice that came over Nostr does
(nostrOperations.ts:547). `expirePendingTransfers` writes EXPIRED to their rows through copies
(`ExpireTransfer`), so the table and memory differ: that is the status "EXPIRING", which `finalize`
and `refresh` take for PENDING. It becomes EXPIRED when the transaction is read again
(`ReloadTransfer`, by TranDetailScreen.tsx:118 or NwcStore.ts:586, 590; also at a recovery by hand and at a
restart), or what the next write to the transaction says. Both steps run outside the queue, at any time.

In `IncomingLifecycle` a source is a token or a quote, and `ledger` what the mint knows of it:
paid, issued, and issued to someone else. `inJob` has one task per lane; "screen" is the
recovery of a quote, which the code runs outside the queue. `quoteRow` is the row of
`onchain_mint_quotes`, amounts count deposits.

In `NostrIntake` time is days (the limit is daily) and an event's `stamp` its day; `flight`
and `settledAs` are what NwcStore sees of a payment, whose course is `TransferLifecycle`.
In `MintBook` a `draw` is an answered call that derives outputs; `signed`, `reused` and
`unsure` are history kept for the properties. In `NfcPay` each `startNfcSession` with the
`rearmReader` after it is a lane. A read that has resolved goes on before the user's next
action and before the 300 ms timer: JavaScript runs a resolved promise's continuation before
it takes the next event.

In `PayScreen` `screen` is the reducer's state with the mint or invoice it `asks` for, the payment
whose call it `waits` for and the one it listens for (`monitored`); `quotes` is the mints' side
(external). A payment is a transaction with its ecash as one lump: its `at` is where the task
stands, `taken` whether the mint has its ecash. Locks, change and proofs are `TransferLifecycle`.

In `SendScreen` `page` is the reducer's state with the calls it `waits` for, whether it `listens`
to syncs, and what is being sent and was sent. A member of `sends` is a call with its transaction
and token: `option`, `relays` and `post` are what `handleSendTaskResult` closed over, `heard` the task
whose event answered the call. `deliveries` are messages and POST requests; `arrived` is the
receiver's side (external). A result is handled before the user's next action: a resolved promise
goes on before JavaScript takes the next event. Leaving keeps the calls, which go on without a screen.

In `CoinSelection` `purse` is what a choice is made from: the proofs by growing worth, which of them
(`old`) are of an inactive keyset, the two fees per 1000 proofs, the amount, and whether an exact
choice goes out as it is (a send to nobody's key). `search` is the loop: which of the two functions
it is in (`at`), the pool, what is chosen, and the rounds. The recursion of `findExactMatch` is
stated by what it returns, the first match in its order.

In `WalletSeed` each of the four stores is a variable: `keychain`, `disk` (SQLite: how far the
schema is built, the counter's row, the mint's row), `saved` (the snapshot in MMKV) and `app`, the
process with the step of `setupRootStore` or the screen it is at. One mint with one keyset: what
crosses mints is `MintBook`. A call that derives takes one index. `signedBy` is what the mint signed,
`known` the mnemonics that exist, `stray` a seed that outlived the data of the app; `repeated` and
`doubts` are history. `doubts` names the events the code does not make up for: "migration" (a batch
of the schema threw), "seeding" (a batch of counters threw), "unasked" (an orphaned seed taken up
again without asking), "unwalked" (a recovered seed saved before all its indices were walked),
"interrupted" (a call without its counter written), "reopened" (a call across the second run of
`setupRootStore`) and "reset" (a factory reset cut off between its stores). Each of the seven is
needed: without it TLC finds an index derived twice.

## 3. Runs

| Run | Instance | What it shows |
|---|---|---|
| `reservation` | 2 transactions, 3 proofs, unlimited crashes | exclusive and owned locks, memory mirrors disk, refinement of `AtomicLedger` |
| `send_honest` | 2 sends (one picked by hand), 2 base proofs, reclaims and syncs | COMPLETED only when delivered; the balance is real; tokens are disjoint while proofs picked by hand are still free when they are locked; a redeemed token leads to COMPLETED |
| `send_partial` | 1 base proof for 2 sends, payees redeem in part, 1 counter write fails | nothing stranded or left reserved; REVERTED only when kept; the stored counter covers stored proofs; the rest of a partly redeemed token is resolved |
| `send_faults` | 2 sends, 1 crash, 1 lost answer, the sweep | what survives faults: handed-out proofs stay out of the balance (where swaps use all inputs they offer), outputs are fresh, SPENT is final |
| `send_crash`, `send_lost`, `send_replay`, `send_siblings` | the same model, one property each | the disagreements of section 6 |
| `transfer` | a lightning and an onchain transfer, 1 base proof, 1 mishap: a crash, a lost call, outputs already signed, a payment recovered by hand, or a late wallet instance | statuses agree with the mint; ecash of a payment is not offered again; change is kept; a failure is true; nothing stays locked |
| `transfer`, send screen | one visit to the send screen, in nine cases | COMPLETED is shown only of a claimed token; a request is paid with one token, on its terms |
| `transfer`, choice of proofs | up to 4 proofs of 1, 2, 4 or 8, or six of which four are small, any of them of an inactive keyset | the choice covers the amount with its own fee; what is refused cannot be paid |
| `transfer_reopened` | the melts without mishaps | the disagreement of section 6 |
| `pay_again` | the lightning payment screen by itself, two payments | the disagreement of section 6 |
| `wallet_services` | the seven services with the sessions, scenarios and budgets below | no ecash issued and not booked; paid topups and deposits are minted; commands run once and within the limit; indices are not derived twice; calls are answered; NFC pays with consent; the payment screen shows COMPLETED only for a paid invoice; a seed's indices are not derived twice without a named cause; who is onboarded has keys |

**Bounds and why they are enough.** Two sends are the smallest number that can compete
for a proof, share a sync batch or a queue; the third transaction, `Genesis`, owns the
initial proofs. `BaseWorth = 2` and amounts 1 and 2 give every shape of a send: exact
without a swap, exact with a forced swap (P2PK), change, an input that cashu-ts does not
use (`Extras`). `MaxIndex = 4` is room for both sends, a reclaim and a healing retry;
`Room` stops a task from starting when its call and its retry no longer fit, so no call
is cut in half by the bound. `HealStep` is 1 where the code adds 10: what matters is that
the retry skips indices. `StartRevert` takes at most `BaseWorth` of proofs, because a
derivation index has that many outputs; only a transaction that a replay gave a second
token could exceed it. One crash and one lost answer are each enough for every violation
we know of, and their combination is included. In `reservation` crashes are unbounded.

In `transfer` two transfers share one base proof: the first to come swaps it, so that the other
pays from the rest while the first is still in flight, and one sync answers about both. One of
them is onchain, so change comes late and nobody monitors it; the other is dated and may expire at any
moment (in `transfer_reopened` it is not). The change of the first is worth what
the second costs, so that the second can be made with it. One mishap per behaviour; what several
do together is excluded in the properties, each of which says in which orders of events it holds,
and the theorems cover any number of those that are not excluded. Without a bound, two visits that
settle one transfer can both hold its change, and the second stores it again after another payment
took it, if it was waiting for a wallet instance that had been evicted: the mishap "late".

In `wallet_services` the services do not share state in the code either, other than the queue,
so a behaviour takes one of them and the others rest: the run is the union of seven, with the
state space of their sum. *Incoming*: each kind of transaction with one fault (a lost answer,
a failed query or a restart), and a topup with the recovery of its quote from the screen; an
onchain quote may be paid twice and the mint issues one deposit per request, so draining takes
two. *Nostr*: a command of two invoices over a change of day; two commands for one limit; a
command with a message and one fault; a query with one fault; three messages over a ring of
two ids, so that one falls out. `RingSize` is 50 in the code. *Calls*: two awaited calls of one
function, one of them prioritized, a plain call between them, two loops of one poller name.
*Mints*: two instances, two addresses, two keysets, and one of a refresh, a move, or a fault (a
crash or a dropped write). *NFC*: two lanes, one dismissal, one visit to the scan screen, on
both platforms. *Payment screen*: two mints, two payments, an invoice scanned or asked for, and
quotes and faults as `MCPayCases` lists them. *Seed*: two seeds, an interval of 2 and 4 indices, and
the eight phones of `MCPhones`: a new one, one whose keys outlived the app, old schemas and old
snapshots with the counter in the mint or among the backups, each with a few of kills, wipes,
faults, rounds and calls. A second seed is the smallest number with which a recovery can replace
one; two rounds and an index beyond them are enough to skip one. The theorems need no bound.

The send screen and the choice of proofs share nothing with the melts, and a behaviour of `transfer` takes one
of them. The screen's two mints are one that a request accepts and one that it does not; two calls are one that times
out and its repetition; two deliveries are one without an answer and the next. The nine cases of
`MCPayments` open the screen with nothing, a contact, or a request by message, by POST, or by message
after a profile was asked for; with and without an amount; with a network that fails where that
changes what is offered; and with another transaction to settle where the listener could take it
for its own. A case has two calls and two deliveries, or one of them where the other is what it is
about. With another settlement in every case nothing new happens: one event ends the listening.
The two theorems about it need no bound.

Proofs of four sizes and fees of 0, 500 and 1000 per 1000 proofs, at two rates side by side, give
every way a round can end: exact, with an excess, with a fee that asks for one proof more, and with
all there is. `MaxIterations` is 32 in the code and 3 here, so that the six proofs use the rounds
up. Above 1000 a proof may be worth less than its fee, and "cannot be paid" would be another question.

**Deadlock.** A wallet whose sends are all over, or whose bounds are used up, has nothing
to do: the runs say `CHECK_DEADLOCK FALSE`. That a running task goes on is part of
the liveness properties instead.

**Fairness** (`SendLifecycle!Fairness`). Weak fairness of a running task's steps: every
await in the modelled code ends, by an answer or an error. Weak fairness of the mint's
answers (a lost answer is a separate action, bounded). Weak fairness of a restart: the
claims are about a wallet that is opened again. Strong fairness of the sync over all
PENDING proofs: `WalletScreen.performChecks` asks for it periodically, and the queue is
first in, first out with finitely many prioritised user actions, so it is not overtaken
for ever, although other tasks disable it again and again. No fairness is assumed of
the user or the payees.

`wallet_services` takes the fairness each service states (`IncomingFair`, `NostrFair`,
`CallsFair`, `NfcFair`), for the behaviours that are about it. *Incoming*: both lanes run, the
mint processes what reaches it, a poller's loop ends, and the user keeps opening the wallet
screen, whose focus effect runs the two sweeps; strong fairness where the queue takes up what
the sweeps put in it, because other tasks disable that again and again. The user's taps, the
payer and the faults owe nothing. *Nostr*: a task that can go on goes on, and the timer that
ends a wait fires; the mint, the relays and the service owe nothing. *Calls*: timers fire and
loops turn, while a task may run for ever. *NFC*: the screen's own steps happen. `MintBook` and
`TransferLifecycle` are checked for safety and need no fairness.

## 4. Proofs

Of `ReservationProtocol`, `CoinsAndReservations_proofs` proves, for any sets `Proof` and `Tx`, any number of
operations open at once and any number of crashes:

* `TypeCorrect`: `Spec => []TypeOK`;
* `SafeLocks`: `Spec => []LocksAreSafe`, that locks are exclusive and owned;
* `Mirror`: `Spec => []MemoryMirrorsDisk`;
* `Atomicity`: `Spec => ImplementsLedger`, the refinement of `AtomicLedger`.

The only assumption is `NoTxAssumption`: the null `tId` is not a transaction.

The argument. None of the properties is inductive alone. Exclusiveness needs to know that
a selected proof is not locked, but operations select by the state they see *in memory*
(UNSPENT), so it needs the mirror; the mirror through a rollback needs ownership of the
locks, and ownership needs exclusiveness, else a rollback of one row would move the proofs
of another. `IInv` is their conjunction with one more fact: `SnapshotsAreStored`, every
snapshot names a proof that is on disk and has an owner, so a rollback never makes a row
out of nothing. `Invariance` is proved action by action, one lemma per primitive.
For the refinement, the abstract ledger is what the proofs table would hold if every open
reservation were forgotten (`Durable`). Opening, rolling back, crashing and recovering then
do not change it, and committing changes it in one step: exclusiveness makes the snapshot
of a locked proof unique, and ownership says that no other operation sees its effect.

The guards of `ReservationProtocol` state the callers' discipline. `SendLifecycle` uses
the same primitives without these guards, so that it may break them (a stale hand-picked
proof does), and TLC checks there what remains true.

`SendLifecycle_proofs` proves first, for any number of sends, proofs, crashes, lost answers and
failed counter writes, and whatever the mint, the payees and the user do:

* `StoredBelowCounter`: `Spec => []CounterCoversCommitted`;
* `NoSecretTwice`: `Spec => []FreshOutputs`.

It uses `SendAssumptions`: the transactions are the sends and `Genesis`, the initial proofs
are finitely many and no outputs, no send asks for more than a base proof is worth, and the healing step is a
positive number. `FreshOutputs` alone is not
inductive. The counter lives in three places and each link is a conjunct of `IInv`:
a stored output is below the *stored* counter (`CountersOK`), because the commit raises it
in its own batch even if the write-through was lost; it is below the counter in *memory*
whenever that has been loaded, so never between `Crash` and `Load`; and a waiting call
derived at or above the counter in memory (`CallOK`). The rest says that nothing else brings
a proof into the table: nodes have rows (`StoreOK`), and what a task offers or a stored
request names is stored (`CallOK`, `RequestsOK`). The theorem is about proofs the wallet has
*stored*. Outputs that the mint signed and the wallet never received may be asked for
again after a restart; that is what the healing retry is for.

Then it proves what the tables say of the mint and of the payees, for any number of sends, proofs,
syncs, reclaims and failed counter writes. Here the hypotheses matter, and each is one that TLC
shows to be needed:

* `Calm`: no process died and no answer was lost so far. After a death `SpendableIsReal` is false
  (`send_crash`), after a lost answer `CompletedOnlyIfDelivered` (`send_lost`), after both, where cashu-ts
  leaves an input unused, `HandedOutNotSpendable` (section 6).
* `~PartialClaims`: payees redeem tokens whole. A token redeemed in part frees the tokens of others
  (`send_siblings`), and then `RevertedOnlyIfKept` too is false with three sends (section 6).
* `PicksAreFresh`: proofs picked by hand are still spendable when their send runs. Without it one proof
  is handed out twice (section 6). It is a hypothesis about a behaviour, not about a constant.

The theorems:

* `NothingIsStranded`: `Spec => [](Calm => NothingStranded)`, also with partial claims and with
  stale picks. `CalmInv` says that there is one reservation, one request and one in-flight entry, all
  the running task's (`OneCallOnly`); that the outputs of a call are derived above all the mint has
  signed (`CallIsNew`), so the mint never calls them signed, nothing heals, and no error path
  leaves a reservation open; that what is written off is spent at the mint and what is put back was
  not written off (`SpentIsSpent`); and that all other ecash is in the table or among the outputs the
  task is about to store (`Kept`). That the outputs of a swap fit into one index needs facts about what
  ecash is worth, which are proved from the finite-set theorems (`CoverIsSmall`, `OutputsFit`).
* `CompletedIsDelivered`, `RevertedIsKept`, `BalanceIsReal`, `TokenIsNotSpendable` and
  `NoProofGivenTwice`, the first four as `~PartialClaims => (Spec /\ [](Calm /\ PicksAreFresh) =>
  []P)` for `CompletedOnlyIfDelivered`, `RevertedOnlyIfKept`, `SpendableIsReal` and
  `HandedOutNotSpendable`, the last as `~PartialClaims => (Spec /\ []Calm => TokensDisjoint)`. They
  rest on one invariant, `HonestInv`. The mint says only *that* proofs are spent. So the wallet
  can know by whom only if every token meets one fate as a whole: it is untouched, a payee's, or
  reclaimed by the send that is REVERTED or whose reclaim has its answer in hand (`TokensWhole`). Then
  sync must see whole tokens only. A batch is a set of whole tokens or of unspent proofs that are
  unspent at the mint too, and stays so over the awaits of the task and in the sets the watches captured
  long before (`SyncTrue`); that is because PENDING proofs are tokens, but for the lock of a running
  send, and sync does not run then (`StoreTrue`, `SendTrue`). So a sync never takes a token for a
  partial spend, and nothing is released (`ReleaseImpossible`). A failed reclaim puts back PENDING
  what was PENDING (`RevertTrue`), and a send never fails, because its inputs are the balance and the
  balance is real.

Last, `SpentIsForever`: `~Extras => (Spec /\ []PicksAreFresh => SpentStaysSpent)`. This one needs no
`Calm`: it holds through any number of deaths, lost answers, dropped counter writes, partial claims and
replays. Both hypotheses are needed, and TLC shows it with the constants of `send_faults`: with `Extras` the
commit of a replay stores an input that cashu-ts returned unchanged as UNSPENT, although the
sweep has just written it off; and a hand-picked proof that was taken meanwhile is locked with the
UNSPENT of its pick to go back to. The invariant is `SpentInv`, of which TLC was asked first, on
instances with two deaths, two lost answers, partial claims and hand-picked sends. In it:

* what is written off, on disk, in memory or in what a reservation puts back, was taken by the mint first
  (`TakenFirst`), and has no node or a SPENT one, so no task can choose it; only a replay can lock
  it, and puts SPENT back (`NodesFollow`, `RowIsOwn`);
* a call uses all that it offers, because a choice without a superfluous proof holds no smaller one
  (`CallUsesAll`, from `CoverIsMinimal`), so an answered call has had every input taken and a commit
  brings back none; and its outputs are not stored yet (`AnswerHolds`, from the invariant of
  `NoSecretTwice`), so a commit overwrites nothing;
* what the mint called unspent in a sync has not been written off since (`ToldHolds`), so releasing it
  is no way back.

`TransferLifecycle_proofs` and `TransferLosses_proofs` prove the six invariants the run checks, for any number
of transfers and proofs, and any order of the task, the visits, the sync, the mint, the network and the user. They use
`TransferAssumptions` (the transactions are the transfers and `Genesis`, the initial proofs are not
outputs) and, but for the first theorem, `ValueAssumptions` (finitely many proofs, each of a worth in
`Nat`; a payment needs at most what the preemptive swap makes). That more ecash is not worth less is
proved (`WorthGrows`, from `FiniteSums`). These invariants carry them:

* `IInv`, always: `PaidBeforeCompleted`, `Spec => []CompletedOnlyIfPaid`, for any number of mishaps of
  any kind. The status is written by five steps that act on an answer read some awaits before. What
  makes that safe is that the mint's answer PAID is stable, and `IInv` says so at every place it is
  remembered: a task that was answered PAID, that judges or rescues a payment, and a visit that has
  seen PAID, all belong to a transfer whose quote *is* PAID. No fact about proofs or locks is needed.
* `Orderly`, as long as no call is lost, the process does not die and no wallet instance is late:
  `HeldIsNotOffered`, `Spec => []PaidNotSpendable`. Memory is disk; locked ecash is the task's or the
  mint's; the inputs of a payment stay together, all PENDING or all written off (`StoreOrderly`). The
  code has no lock against two visits to one transfer. What replaces it is that every visit that
  settles has captured each input that is still PENDING, so the second finds nothing left to move
  (`VisitOrderly`); that it acts on an answer that stays true, PAID for good, UNPAID because the task
  is done with the transfer and asks only once (`JobOrderly`); and that a sync over PENDING proofs
  has all inputs of a payment in its batch or none, so it never takes a payment for a partial spend
  (`SyncOrderly`).
* `AllTold`, if the user recovers no payment in flight by hand either: `FailuresAreTrue`, `Spec =>
  []FailureIsTrue`, and `NothingIsStranded`, `Spec => []NothingStranded`. A payment that stands is
  PENDING, expired or COMPLETED once the task is done with it, and a visit throws, so that the sync writes
  ERROR, only on a quote that is not PAID or on a transfer that has expired (`VisitTold`). The second
  is where a payment that stands can end as ERROR: what the sync settles has been written off
  (`SyncTold`), so it is one the mint has been paid with, never one in flight. The transfers that keep an
  expiry are a constant, any set of bolt11 transfers: for the empty set the exceptions fall away. A recovery by hand writes RECOVERED or ERROR
  while the task waits, which is why it is excluded there and only there.
* `ChangeOrderly`, also where calls are lost and ecash is offered twice: `ChangeIsKept`, `Spec =>
  []ChangeKept`. It says nothing of locks. The mint signs change only on blanks whose preview was
  stored before the request left (`NetKept`), and whoever removes the preview has the change in its
  hands or finds it on disk (`Secured`, `Coming`): a visit that unblinded it, or the task with the
  answer. Two visits can remove each other's preview; then each of them holds the same change.
* `AInv` and, with what ecash belongs to, `Always`, whatever is lost and whoever dies (`AlwaysHolds`).
  Where the task, the sync and each visit are says what they carry; only one of them runs between two awaits (`OneRuns`); the mint has taken
  the ecash of a standing payment for it alone, and spends all of it or none (`MintTrue`); a
  transfer has one request in flight, and the task that was refused has none (`RequestsTrue`); change is
  signed on the blanks of its own transfer (`ChangeTrue`).
* `LossInv`, for one lost call or one crash, with everything the user may do by hand:
  `OneLossIsEnough`, `Spec => []OneLossIsSurvived`. Until the loss `Orderly` holds, and the reservations are
  the running task's (`RowsOwn`). The loss leaves a scar: `Scarred(T, X)`, where T is the transfer whose task
  lost its call, or the one running when the process died, and X the ecash it held. Whatever is in
  doubt from then on is about T and X. Its request may still be under way with nobody waiting, and X may
  be released before the mint takes it, locked for another payment and taken from that one (so
  `Orderly` is gone for good); but any other transfer stays `Sound`, its ecash reserved or written off for it
  as long as its payment stands. As long as the lost call may go through, X is reserved as a whole or
  not at all (`ScarWhole`), and ecash that is live here and gone at the mint belongs to a payment or a swap
  under way, or is X's, gone with the lost call or with a payment made of it later (`ScarProof`, `Cursed`). A status says PENDING or REVERTED only when
  nobody can ask the mint for that transfer any more (`ScarStatus`), which is why the doubt about X reaches
  no status. The sync is the hard part: it takes the ecash of the lost call for a partial spend, or finds it
  spent among the spendable. It asks about whole payments (`ScarBatch`); what it saw of them stays so
  until it writes, because their transfers are `Calm`; and either it finds no payment short, or what it
  would release the mint neither has nor can get (`Clean`, `Dirty`). A restart rolls back at most
  the reservation of X (`ScarDown`). Every step but another loss keeps this (`Gentle`), and
  `LossCounts` says that there is no other while `Losses` is 1. Two losses do break it (section 6), so the bound
  in the property is the code's.

Of `PayScreen`, `Screens_proofs` proves, for any mints and any number of quotes and payments, `ShownIsPaid`
(`PaySpec => []CompletedShownIsPaid`) and `ForeignCostsNothing` (`PaySpec =>
[]ForeignQuoteCostsNothing`), from `PayScreenAssumptions`. Both rest on one fact: only the mint a
quote is from takes ecash for it. So a payment with another mint's quote stays where it was sent
(`ForeignIsIdle`), every payment that was taken is of a quote that is PAID, and PAID is stable
(`CompletedIsPaid`). `References` says that what the screen and the quotes name is there, and that
a pending quote has its payment; without it the mint's answer could be about nobody.

Of `NfcPay` it proves, from `NfcPayAssumptions`, `ConsentFirst` (`NfcSpec => []PaymentNeedsConsent`) for any
number of lanes, taps, dismissals and returns from the scan screen. `OneTap` says that of all flows
that still wait for a tap or have one in hand only one can become a payment, and that it finds the
lock open; `Consent` that while the lock is open no payment is ahead of the dismissals.

Of `SendScreen` it proves, from `SendScreenAssumptions`, for any mints, cases and numbers of calls,
deliveries and settlements: `ClaimShown` (`SendSpec => []ClaimShownIsTrue`) and `OnlyAsRequested`
(`SendSpec => []PaysAsRequested`). The first needs that a screen that listens has a token, and that the
transactions themselves say COMPLETED only of a claimed token. The second is `OneToken`: what left
for a request is the token on the screen, as long as it is open. A later token must then not come
to the screen, which is `OneCall`: while a request is there, or may still come, one call waits, under
the loading overlay and before there is a token. Every error of a call ends its waiting with its
overlay, but for a request that proves wrong under a waiting call; then there is no request
(`NoRequest`), and tokens may come as they like. That the token was made on the request's terms is
`Terms`: while a request with an amount is on the screen the amount cannot be entered, so what is
offered and chosen are mints it accepts (`OnItsTerms`); and a call whose answer is the token of an
earlier call was made for the request too, or nothing was (`Linking`), so the token is linked before it can leave.

Of `NostrIntake`, `WalletServices_proofs` proves, from `NostrAssumptions`:

* `RunsOnce`: `NostrSpec => []HandledOnce`, for any ring size. What ran is in the ring or fell out
  of it (`RanIsKnown`), because an id is put in the ring in the step that queues its event.
* `DailyLimitHolds`: `NostrSpec => []LimitHolds`, for any events, invoices, fees, limit and number
  of days. The limit is checked before the await and lowered after it, and a payment under way is
  in neither `spent` as paid nor in `remaining`. `BudgetInv` closes that gap: what the day spent
  and what is left of the limit are the limit together, but for the payment the task waits for,
  if it is of the same day; and what is left covers that payment, even if the limit was set anew
  meanwhile. `FlightInv` says that there is one such payment: an invoice is under way once, and a
  command that waits waits for one that is.
* `ErrorsAreTrue`: `NostrSpec => []ErrorMeansUnpaid`. The reply comes after the loop over the
  invoices, so what it says of one is decided several payments earlier. `Account` follows each
  command that is still remembered: its invoices are untouched until it runs, the ones the task has
  not come to can still be paid, and an error noted for an earlier one is noted of an invoice that
  no payment is under way for. It needs `RunsOnce`: a command delivered again would pay an
  invoice after its error was told.

Of `MintBook` it proves, from `MintBookAssumptions`, for any addresses, keysets, mints, indices and
numbers of refreshes, moves, restarts and dropped writes:

* `CountersNeverBehind`: `MintSpec => []OutputsFresh`. A keyset has a counter in every mint that
  holds it, one in SQLite and one in the seed wallet of every address. `CounterInv` says which of
  them matter: what the mint signed is below SQLite's, and that is not above the counter of the
  only mint of the list that has the keyset, unless the keyset is one of the `unsure`. So the seed
  wallet may be behind: a draw goes on from the higher of the two. Reading the counters back keeps this
  because `Hydrated` gives the row to the last mint that has the keyset, which is then the only one
  (`HydratedUp`).
* `RowsFollowTheList`: `MintSpec => []BookIsOnDisk`. `updateMint` and `addMint` go on with an
  instance they got before an await. `ListInv` says why that does no harm to the tables: exactly
  the mints of the list have an observer, and what `addMint` still works on is not in the list.

Of `WalletSeed` it proves, from `WalletSeedAssumptions` (what a phone the wallet itself left may
hold: an onboarded one has keys, and what was signed lies below a counter of SQLite or of the
snapshot), for any seeds, interval, phones and number of events:

* `OnboardedKeepsKeys`: `SeedSpec => []OnboardedHasKeys`. `Keys` adds what makes it inductive: the
  process is onboarded exactly if the snapshot is, the screens before the last step of an
  enrolment or after the first of a reset are not, and a seed that is typed or cached is known.
* `NeverRepeated`: `SeedSpec => []IndexNotRepeated`. As long as nothing in `doubts` happened,
  `Counting` holds: what the mint signed for the stored seed lies below the counter of SQLite, below
  the one a snapshot still carries to it, or below the one the call under way is about to write
  (`Covered`); the cached seed wallet is ahead of what it signed (`CacheCovers`). `Launch` says where
  in `setupRootStore` which of the counters is the authority, so that the snapshot loses its
  counter (any save strips it) only after SQLite has it; `Backups` that a counter among the backups
  belongs to no mint of the wallet; `Strays` and `Walked` that a seed without its counter waits
  for the user's decision, and that a walk in rounds raises the counter as far as it went.

`IncomingLifecycle_proofs` proves, from `IncomingAssumptions` (a source has finitely many
transactions), for any number of tokens, quotes, transactions, deposits and restarts:

* `ReportedAlways`: `IncomingSpec => []EcashIsReported`, whatever is lost. The commit writes its ecash
  and its status in one batch, so what could go wrong comes later: another task, an expiry or a sweep
  that writes over the status. Their guards read the status when a task *starts*, awaits before
  they write. `IInv` says why that is enough: the queue's task is alone with its transaction and finds
  it in the status it started from (`QueueFits`), because everything else that waits in the queue
  names transactions by what they still are when they are taken up (`TaskFits`), a quote's first deposit is queued once
  (`DepositsFirst`), and the recovery screen, outside the queue, works on a transaction that no task
  names (`ScreenFits`). The exception is the completion of an offline receive that was queued twice.
* `IssuedAlways`: `IncomingSpec => []IssuedIsCredited`, as long as no answer is lost and the process
  lives. `CalmInv` is a balance per source: what the mint issued is what went elsewhere, what the
  books have, and what a lane has in its hands (`Balanced`). Two lanes may ask the mint for one quote
  at once, so an answer must belong to one of them: every request at the mint is one that a lane
  waits for, at a derivation index nobody else waits at and the mint has not answered (`IndicesFresh`). The indices come
  from cashu-ts's counter, which only grows while the process lives. What the books have
  of a source is a sum over its transactions; that a commit raises it by what it stores is
  `CreditRises`.

Of `CoinSelection`, `CoinsAndReservations_proofs` proves, from `CoinAssumptions` (no proof costs more
than a unit, and each is worth one at least), for any wallet, fees and amount:

* `FundsAlwaysSuffice`: `CoinSpec => []FundsSuffice`. The first half says that the loop ends only
  after its test. The second is about every set of proofs, while the code has tried a handful: it
  gives up when all the proofs together do not cover the amount with the fee of the *current* choice,
  which need not be the fee of any set that could pay. `AllPayBest` closes that: a proof adds at most
  a unit of fee, so if some proofs can pay for themselves then all can; and the fee only falls with
  fewer proofs (`FeeGrows`), so all would cover the current choice too. The greedy and the exact
  choice need no more than that they choose from the pool (`SearchGoesOn`).

`FiniteSums` has what these proofs need of `MapThenSumSet`, which adds the elements in the order
in which `CHOOSE` takes them: that such sums exist (`SumsAre`), do not depend on the order
(`SumWithout`), change with one term as that term does (`SumsRise`) and grow with their set (`SumGrows`). The
induction is over the sizes of subsets, with the well-founded order of `Nat`.

Only model-checked: of `SendLifecycle`'s
`HandedOutNotSpendable` and `RevertedOnlyIfKept` what the runs add to the theorems: the first with one
crash and one lost answer where swaps use all inputs, the second with partial claims, two sends and one base
proof (beyond these bounds they are false, section 6); and the liveness properties: `ClaimedIsNoticed` and
`ClaimIsResolved` of `SendLifecycle`, `PaidIsMinted` of `IncomingLifecycle`, `ReaderComesBack` of `NfcPay`, `QueueMovesOn`
and `CallsSettle` of `TaskCalls`. Every safety property of a passing run is proved, with these two exceptions.
Liveness properties are out of the prover's reach (fairness, ENABLED).

## 5. What is not modelled, and why

* **Fees in the lifecycles.** They are zero but for what a lightning payment does not use of its
  reserve, so `prepare`'s failure after the DRAFT was written occurs for transfers only. A choice is
  any minimal cover there, with or without a spare proof. What the fees do to the choice is
  `CoinSelection`, without the limit on the number of proofs of a send, the outputs of the
  preemptive swap, and the depth of 1000 at which `findExactMatch` gives up.
* **One mint, one unit, one keyset** in the lifecycles. What crosses mints, addresses and
  keysets is `MintBook`.
* **A sync over sends and transfers at once.** `SendLifecycle` has branch 1 for sends,
  `TransferLifecycle` all three branches for transfers.
* **The sweep** is one iteration of its loop per task: more interleavings than the code has.
* **`finalize`'s nested sync** of a send waits for a task of the queue that its own task
  occupies; it can only time out. The model has its outcome (the caller stamps ERROR), not the
  waiting; the timeout itself is in `TaskCalls`.
* **`cancel`, `reclaim` and `refresh` of `SendOperationApi`** have no caller.
* **NwcStore's `lastMeltQuoteId`** and the read-only commands' contents; one connection.
* **Screens** beyond what they let the user do: layout, formatting, navigation. They are the
  larger half of the source by lines. `NfcPayScreen`, `TransferScreen` and `SendScreen` are modelled because
  their control is a protocol, and of `WelcomeScreen`, `OrphanedSeedScreen`, `SeedRecoveryScreen` and
  `DeveloperScreen` what they do to the seed; of the others the models have the calls they make
  and when.
* **Of `SendScreen`**: the modal for a public key by hand or by scan (it changes the token, not the
  flow), memo and amounts, whether coins match an amount offline (either may be), the calculation
  that offers mints with enough funds (any of the accepted ones), a draft that is sent again, and a
  reclaim from another screen while a delivery is out.
* **Of `SendScreen` and the topups, two cases the properties do not cover**: a payment request without
  an id, whose token is not linked to it (SendScreen.tsx:1111-1115; `PaysAsRequested`); and a topup
  whose mint was removed or has another url, whose task throws before it asks
  (mintOperations.ts:84-87; `PaidIsMinted` takes the mint to stay in the list).
* **Server account** (`AuthStore`, `WalletProfileStore`, `minibitsService`). No ecash depends on
  it. Two facts were noted in reading: `refreshTokens` is not single-flight (AuthStore.ts:255,
  280), and `setTokens` is not awaited (AuthStore.ts:272).
* **Parsing, derivation of keys, encoding, and the migrations that only convert data**: no protocol
  state. The migrations that move a counter are in `WalletSeed`.
* **`ImportBackupScreen`**: like a recovery, it replaces the stored keys; it brings ecash rather than
  counters.

## 6. Findings

* **A crash after the swap** (`send_crash`): recovery rolls an orphan reservation back to
  UNSPENT without asking the mint; if the mint had done the swap, the balance contains spent
  proofs until a sync of unspent proofs. `TransactionStates.ts` warns against exactly that.
* **A lost answer of a reclaim** (`send_lost`): nothing replays it, and sync takes the
  wallet's own swap for the payee's claim: the send is COMPLETED and the ecash that came
  back is stranded.
* **A replay in the same process** (`send_replay`): it derives other outputs, so the mint's
  cache does not know the request and the inputs are refused as spent.
* **A partial spend releases too much** (`send_siblings`): the unspent proofs of the whole
  batch become spendable, those of other pending sends too.

* **A terminal transfer is opened again** (`transfer_reopened`): the sync asked the mint while the
  payment was in flight; its monitor completed the transfer; the sync then writes PENDING over
  COMPLETED. Its proofs stay written off, so no sync of pending proofs comes back to it.
* **A second payment of one quote** (`pay_again`): the screen offers "Pay now" again after a result
  was dismissed or timed out. The mint refuses the second payment, the re-check finds the quote
  PAID, by the first, and the second payment's ecash is written off although the mint never took
  it. `WrittenOffIsTaken` is false of `PayScreen` for that reason and checked by itself.

Seen on other instances of the same models, and listed as hazards without a run of their
own, some without a property because the code does it: when the healing retry of a send fails too, it is outside the try and the reservation stays
open until the next start (sendOperationApi.ts:391), so the first part of
`NothingStranded` is false there (it takes a crash: `CalmInv` says that nothing heals before); a
hand-picked proof that has been written off meanwhile makes memory and disk
disagree, and one that another send has taken meanwhile is handed out twice (with two sends of
one amount; `TokensDisjoint` is about the behaviours in which `PicksAreFresh` holds all along); the sweep writes off inputs that cashu-ts returned unchanged, and the same
commit stores them as UNSPENT on disk while their nodes stay SPENT (`SpentStaysSpent` with `Extras`), and if such an input was handed out
meanwhile, that token is spendable after the next start (`HandedOutNotSpendable` with `Extras`, one lost
answer and one crash); tokens that a partial spend released are sent again, overlapping the tokens of
other payees, and then a sync over a watched set sees a part of one, after which a reclaim of the rest
ends as REVERTED although a payee has a part (`RevertedOnlyIfKept` with partial claims and three
sends of 2); a reclaim that waited
in the queue while sync completed its send stamps ERROR over COMPLETED, so `ClaimedIsNoticed`
asks that COMPLETED is reached and not that it lasts.

Exceptions that the properties state, because the code behaves so: a crash rolls a transfer's
inputs back as it does a send's, and a lost request that the mint executes after the re-check
finds them released (`PaidNotSpendable`, `FailureIsTrue` and `NothingStranded` exclude both; with one
loss no more than the spendability is wrong, with two a transfer can say REVERTED of ecash the mint took for
it, or COMPLETED of ecash that is not written off); a payment in flight whose invoice expires is EXPIRED in
the table (meltOperations.ts:517-544, from pendingOperations.ts:38), although TransactionStates.ts has EXPIRED among the
terminal states, and once the row has been read again `refresh` ignores it, `finalize` throws
(transferOperationApi.ts:836) and the sync that finds it PAID stamps it ERROR (`FailureIsTrue`), while its
ecash stays locked under EXPIRED if the mint fails it (`NothingStranded`); a crash between the
mint's answer and the commit loses the change (`ChangeKept`); the completion of an offline
receive that was queued twice stamps ERROR over COMPLETED (`EcashIsReported`); a restart
between a payment and the write of the remaining limit forgets the payment (`LimitHolds`).

What `doubts` names in `WalletSeed`, each a way in which an index of a seed is derived twice:

* `getInstance` keeps the database it opened before the schema step: a migration that throws
  does so once, and the next call gets the unmigrated database (db/instance.ts; migrations.ts says
  that it "fails loudly"). `setupRootStore` goes on, and the next save strips mints and counters
  from the snapshot;
* `_runMigrations` is retried on the next launch, but it seeds from the raw snapshot, which any save
  in between has overwritten;
* an orphaned seed is recognised only in the launch that built the schema: kill the app before
  deciding, open it again, and `WelcomeScreen` takes the seed up at counter 0;
* recovery raises the counter only by rounds in which something was found, and a failed round, a
  start index typed by hand or saving early leave it below indices that were signed;
* the counter is written when the mint's answer is there, so a call that is cut off leaves it
  behind (Mint.ts:94-96 says it is durable when the mint could have seen the outputs);
* opening the app after a wake for a wallet connection runs `setupRootStore` again over living
  stores: a call under way then writes its counter to a node that is gone;
* `cleanAll` drops the tables before the snapshot goes: dying in between leaves an onboarded
  snapshot over an empty database.

Further facts met in reading, none of which a property here is about:

* after `SeedRecoveryScreen` or `ImportBackupScreen` has saved other keys, `seedWallets` keeps
  deriving from the old seed until a restart (`resetWallets` has no caller);

* leaving `TranDetailScreen` prunes the prepared token of an offline receive before a queued
  completion reads it; the in-flight sweep has no branch for offline and payment-request
  receives (inFlightOperations.ts:341);
* a topup whose answer was lost and replayed in the same process ends as COMPLETED "Already
  issued" without ecash (topupOperationApi.ts:449); an invoice paid between an UNPAID answer and
  the stamp of its expiry ends as EXPIRED;
* `extendOnchainMintQuoteWatch` puts a quote back into the watched set only while nothing has
  been issued for it (onchainQuotesRepo.ts:185), so the comment at TranDetailScreen.tsx:1451-1453
  does not hold for a quote that was drained once;
* a bolt11 payment that fails after its monitor has gone is refreshed by nobody but the sync
  (transferOperationApi.ts:495);
* the fee reserve of a paid invoice may exceed the estimate the limit was checked with
  (NwcStore.ts:303); `setLastPendingReceivedCheck` runs before delivery
  (nostrOperations.ts:224); `isNwcListenerActive` is never set (NwcStore.ts:912);
* `SendScreen` in `SendScreen.tla`: when a relay or the endpoint answers after the token was claimed
  and a sync has settled the send, PENDING is written over COMPLETED (SendScreen.tsx:1268; the comment
  above it says "status does not change"), and no sync comes back to it; any result that updated a
  transaction ends the listening, also another one's (834, while 823 says "keep listening"); a call
  that is repeated after a timeout is answered by the end of the first task (queueHelper.ts:51), and
  it is paid once all the same (`PaysAsRequested`); SET_ERROR clears the mint, and every later message throws; an
  amount entered, or a lost network, offers mints that the request does not accept (`PaysAsRequested`
  excepts both);
* `SendScreen` beyond the model: SEND_TASK_ERROR (252) sets no status, so the result modal opens empty
  and "Retry again" (1143, 1884) is not reached; an offline confirmation selects anew and drops a
  manual selection;
* `ev_asyncMeltResult` is emitted by `refresh` only: a payment that `finalize` completed through
  the sync stays "in progress" on an open screen (transferOperationApi.ts:886);
* the choice of proofs: with 33 or more proofs of 1 next to large ones, at 1000 per 1000 proofs, 32
  rounds are used up and a payment that could be made is refused (cashuUtils.ts:373; seen with three
  rounds on the six proofs); where proofs of inactive keysets have the amount, an exact choice that
  needs another proof is not looked for (sendTask.ts:124); without an exact choice `findMinExcess` takes the smallest proofs first,
  so the most of them (cashuUtils.ts:210), where the comment at 233 says "minimal number"; the outputs of the
  preemptive swap have the sum of amount and fee but may be more proofs than the fee was for
  (64 becomes 8, 2 and 1 for an amount of 10 and a fee of 1; transferOperationApi.ts:321 says "always
  cover their own input fee");
* `blockedMintUrls` is keyed by url and not moved with a mint (MintsStore.ts:452);
* `updateStatuses` of several transactions writes their joined data to each
  (transactionsRepo.ts:592); `addTransactionAsync` drops the quote (transactionsRepo.ts:528).

## 7. Plan

Done: `ProofsStore`, `ReservationProtocol` implementing `AtomicLedger` with proofs; `SendLifecycle` with
proofs about derivation, about what is written off and, while nothing is lost, of its other safety properties;
`TransferLifecycle` with proofs of its six invariants; `TaskCalls`; and, each with proofs of all the
invariants its run checks, `IncomingLifecycle`, `NostrIntake`, `MintBook`, `NfcPay`, `PayScreen`,
`WalletSeed`, `SendScreen` and `CoinSelection`.

What would come next, in this order:

1. An abstract specification of a payment (asked, out, paid or returned) that both
   `SendLifecycle` and `TransferLifecycle` implement where no answer is lost.
2. A sync over one batch of sends and transfers; a property that a terminal status is final over
   all operations, with the exceptions the code makes.
3. `prepare`'s failures, and the preemptive swap's outputs with fees.
4. The server account's token refresh, should something come to depend on it.
