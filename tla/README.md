# TLA+ verification of stuhelper-ai

stuhelper-ai is a gateway in front of many AI providers. It authenticates a
request, selects an upstream channel, reserves quota, relays the request (with
retries on other channels), and settles the quota that was really used. Some
requests only start an asynchronous task (video, music), which background loops
poll, settle and refund. Users buy quota with orders that payment providers
confirm and refund. A web console (JavaScript) administers all that and has a chat
playground; a desktop shell wraps the server. This directory holds TLA+ models of
the parts of that program in which interleavings, failures and retries decide
whether users pay the right amount, requests reach a working channel and pages stay
usable, the TLC configurations that check them, and proofs for TLAPS.

`PROJECT.json` gives, for every definition, the source lines it models, and for
every property a mutant of the model that the property rejects.

## 1. Inventory

Paths are relative to `src/`.

### Billing session
*Code*: `service/billing_session.go`, `service/funding_source.go`,
`service/billing.go`, `service/quota.go`, `service/violation_fee.go`, the
subscription transactions of `model/subscription.go`, the deferred function of
`controller/relay.go`.
*State*: `users.quota`, `tokens.remain_quota`, `user_subscriptions.amount_used`,
one `SubscriptionPreConsumeRecord` per request, one in-memory `BillingSession`
per request.
*Operations*: `NewBillingSession` (preference `wallet_only`, `wallet_first`,
`subscription_only`, `subscription_first`, with fallbacks and the trust bypass),
`preConsume`, `Reserve`, `Settle`, `Refund` (asynchronous, with retries),
violation fee, `ResetDueSubscriptions`.
*Interactions*: called by every relay handler; the wallet and token rows are
shared by all requests of a user and by task billing.
*Hard*: several requests between check and decrement; a funding source that
commits while the token write fails; lost acknowledgements and retried refunds;
a quota period that ends between reservation and settlement.
*Correct when*: a successful request has paid its actual quota once, from both
sides; any other request pays at most its violation fee; nobody is refunded more
than was taken; every reservation is resolved; `amount_used` is explained by the
requests; only settlements exceed `amount_total`.

### Asynchronous task polling and billing
*Code*: `service/task_polling.go`, `service/task_billing.go`, `model/task.go`,
`relay/relay_task.go`, the end of `RelayTask` in `controller/relay.go`.
*State*: the `tasks` table (status, progress, quota), the rows a poller has read.
*Operations*: submit; the 15 s round of a master node (sweep of timed-out tasks,
listing, Suno batch update, video updates one by one, refund or recalculation);
a user's query, which may fetch from the upstream and store the answer.
*Hard*: several master nodes, stale rows, unconditional saves, crashes between
the status update and the refund, deleted channels, query limits.
*Correct when*: a task is refunded at most once; a failed task is refunded; the
charge fits the final status; a final status stays; every task is closed.

### Quota cache and batch updates
*Code*: `model/user.go`, `model/user_cache.go`, `model/token_cache.go`,
`model/token.go`, `model/utils.go`, `common/redis.go`.
*State*: Redis hashes with user and token quota and a TTL, the in-memory batch
store, pending goroutines.
*Operations*: read with fallback to the database, increment and decrement in a
goroutine, invalidation, batch flush.
*Hard*: a snapshot of the database written to Redis after a newer increment;
increments that race with expiry; profile saves that rewrite the row; a crash
with a full batch store.
*Correct when*: the database loses no acknowledged change unless a batch is lost
with its process; the drift of the cache is bounded and expires.

### Channel circuit breaker
*Code*: `service/channel_breaker.go`.
*State*: per channel closed, open or half-open, a ring of 12 buckets, deadline,
cooldown, streak of fatal errors, probe successes.
*Operations*: report of an attempt's result, selection (lazy open to half-open),
display of the state, reset.
*Hard*: reports of attempts that were sent in another state of the breaker;
reports that hold a breaker replaced by a reset; clock values read before the lock.
*Correct when*: the window counts exactly the reports of its epochs; an open
channel is not selected before its deadline; the cooldown doubles up to its cap
and starts over after recovery; a healthy channel is closed again.

### Channel selection and relay retry
*Code*: `controller/relay.go`, `service/channel_select.go`,
`service/retry_class.go`, `model/channel_cache.go`, `middleware/distributor.go`.
*State*: retry index, the set of channels excluded so far, the current auto group.
*Operations*: select by priority and weight, attempt, classification of the error,
retry, move to the next group.
*Hard*: the retry counter is reset when a group is exhausted, forced retries do
not count, exclusions force priority 0.
*Correct when*: the loop ends, no channel is tried twice for one request, groups
only advance, nothing is retried after the answer has begun.

### Realtime billing
*Code*: `service/quota.go`, `relay/websocket.go`. Charges every round of a
websocket session and returns the reservation at its end. *Correct when* each
round is charged once whatever the price model.

### Top-up orders and refunds, subscription orders
*Code*: `controller/topup_official.go`, `model/topup.go`, `controller/topup*.go`,
`model/subscription.go`.
*State*: orders, refunds, refund requests, commissions, the user's quota; the
transaction at the provider; `LockOrder`, an in-memory lock per order.
*Operations*: create (row first, then prepayment), webhook, active query, expiry,
closing, manual completion, refund (booked first, then sent), refund result.
*Hard*: duplicated and late webhooks, expiry racing with completion, a refund
whose result is reported twice or contradicted, an answer of the provider that is
lost, a restart between booking and sending a refund.
*Correct when*: an order credits the user once, and in the end if it was paid; the
totals are those of the live refunds; a refund takes the quota once and gives it
back only if the refund failed; local and provider's refunds agree.

### Midjourney
*Code*: `controller/midjourney.go`, `model/midjourney.go`,
`relay/mjproxy_handler.go`. The same shape as task polling with its own table.

### Web playground chat
*Code*: `web/classic/src/hooks/playground/*`, `pages/Playground/index.jsx`,
`components/playground/configStorage.js`.
*State*: the conversation, its copy in localStorage, `sseSourceRef`, the edited
message, timers that will store or send.
*Operations*: send (stream or fetch), chunk, end and errors of an answer, Stop,
clear, edit, delete, regenerate, change of role or language, reload.
*Hard*: every answer is written to the last message, whichever it is by then; lists
captured before a dialog or a timer; answers that end without a word.
*Correct when*: text lands in its own reply, no message waits for nothing, what is
stored is what is shown, no handler throws.

### Desktop shell
*Code*: `electron/main.js`.
*State*: the child process, `startServer`'s promise, probes, windows, tray, message
boxes, `app.isQuitting`.
*Operations*: start and probe, window, tray and dialog events, server exit, quit.
*Hard*: a timed out probe raises two events; quitting waits for the server; windows
opened while the server starts; a server that cannot be spawned or dies at any time.
*Correct when*: starting and quitting end, no server is left behind, probing is
bounded, a hidden window can be shown again.

### Console channel tests
*Code*: `web/classic/src/hooks/channels/useChannelsData.jsx`, `ModelTestModal.jsx`,
`helpers/api.js`.
*State*: results, models shown as being tested, progress, flags and references of
the batch, requests in flight.
*Operations*: test one model, test all in groups, Stop, close and open the dialog,
remove the failed models.
*Hard*: closing resets the flags of a batch that still runs; equal GETs share an
answer; counts are taken by timers.
*Correct when*: one batch at a time within the limit, Stop holds, counts agree with
the results, the dialog becomes idle.

### Without a model
Redemption codes, check-in and referral rewards (single transactions); channel
affinity and the relay-loop guard (inputs of selection); provider adaptors and
protocol conversion (data transformation without shared state); prices and
billing expressions (floating-point formulas, whose result the models choose from
a set); rate limiting; periodic administrative jobs; authentication, access
control, options; the rest of the web console: its forms, tables, settings, charts
and price displays render data of the server or post a form once. That code is most
of the JavaScript of the repository, so the models cover a small share of its lines:
what has concurrent state is the playground, the channel page and the desktop shell.

`PROJECT.json` lists the hazards of these parts at their lines, with the
properties that cover them or the reason why none does yet.

## 2. Modules

| Module | Models | Extends / uses |
| --- | --- | --- |
| `BillingSession` | billing sessions, funding sources, subscriptions, refunds | |
| `MCBillingSession` | instances for TLC | `BillingSession` |
| `BillingSessionProofs` | the proofs about `BillingSession` | `BillingSession`, `SumLemmas` |
| `TaskOutcome` | abstract: the life of a task's charge | |
| `TaskPolling` | pollers, sweep, task billing, user queries | instantiates `TaskOutcome` |
| `MCTaskPolling` | instances for TLC | `TaskPolling` |
| `TaskPollingProofs` | the proofs about `TaskPolling` | `TaskPolling` |
| `ChannelBreaker` | the circuit breaker of one channel | |
| `MCChannelBreaker` | instances for TLC | `ChannelBreaker` |
| `ChannelBreakerProofs` | the proofs about `ChannelBreaker` | `ChannelBreaker`, `SumLemmas` |
| `QuotaCache` | a wallet quota in the database, the batch store and Redis | |
| `MCQuotaCache` | instances for TLC | `QuotaCache` |
| `QuotaCacheProofs` | the proofs about `QuotaCache` | `QuotaCache`, `SumLemmas` |
| `OfficialPayment` | a WeChat Pay order, its provider and its refunds | |
| `MCOfficialPayment` | instances for TLC | `OfficialPayment` |
| `OfficialPaymentProofs` | the proofs about `OfficialPayment` | `OfficialPayment`, `SumLemmas` |
| `PlaygroundChat` | the chat playground of the console | |
| `MCPlaygroundChat` | instances for TLC | `PlaygroundChat` |
| `DesktopShell` | the Electron main process | |
| `MCDesktopShell` | instances for TLC | `DesktopShell` |
| `ClientProofs` | the proofs about `PlaygroundChat` and `DesktopShell` | `PlaygroundChat`, `DesktopShell`, `SumLemmas` |
| `ModelTest` | the model test dialog of the channel page | |
| `MCModelTest` | instances for TLC | `ModelTest` |
| `ModelTestProofs` | the proofs about `ModelTest` | `ModelTest` |
| `SumLemmas` | sums over finite sets | |

### BillingSession
`pc[r]` is the next statement of request `r`'s handler, `rpc[r]` that of its
refund goroutine. Each SQL statement or transaction is one action; the Go code
between two of them is part of the action before or after it. `sess[r]` has the
fields of the Go struct (`consumed` stands for `WalletFunding.consumed` and
`SubscriptionFunding.preConsumed`). `Arrive` evaluates the preference, `TryWallet`
and `TrySubscription` begin a funding source, `CheckToken`/`PreConsumeToken` are
`PreConsumeTokenQuota`, `PreConsumeWallet`/`PreConsumeSubscription` the funding
source, `RollbackToken` its error path, `CheckOverflow` the question whether the
wallet may step in. `Succeed`, `SettleFunding`, `SettleToken` are `SettleBilling`;
`Fail`, `Refund*` and `Fee*` are the deferred function of `Relay`, `Refund` and
the violation fee. No handler returns an error after it has settled, so `Refund` never
follows `Settle` and is called once; the guards against that in `needsRefundLocked` are
translated and stay unused. `Reserve` has four actions for its two sides and the rollback;
it has no caller at this commit and is kept for the day it gets one. `SkipPreConsume` is
a free model, which has no session and is charged at its end with `PostConsumeQuota`.
An error of the query that lists subscriptions is "no active subscription", as in the
code, and the wallet may step in.
The database variables hold quotas as integers; money amounts are far from 64-bit
limits, so no width is modelled.

All requests share one user and one token: only such requests interact. The
balances live in the database, as in a deployment without Redis and batching.

*Faults.* A write of a request in `Unreliable` may fail (`err`) or be applied
although the caller sees an error (`lost`). `paid`, `tokPaid`, `fee`, `faulted`
and `overLimit` are history variables that no action reads.

### TaskPolling
`row` is the table, `mem[p]` what poller `p` has read, `resp[p]` the upstream's
answer, `bill[p]` the adjustment `p` carries out. A round is `StartRound` (sweep
query), `SweepTask`, `ListTasks`, `OpenSuno`, `FetchSuno`, `SunoItem`, `CloseSuno`,
`OpenVideo`, `FetchVideo`, `ApplyVideo`, `CloseVideo`, `EndRound`, with `AdjustFunding`
and `AdjustToken` wherever billing is called. `FetchSuno` and `FetchVideo` are the answers
of the upstream, which may never come (`Waiting`). `SunoPanic` is an answer with an unknown
id: it drops the rest of the round, at any item. The upstream's progress is its own: a
video may be at 100% under an unfinished status (`Progress`). `UpdateWithStatus` is the conditional
update whose winner bills; `SunoSave` and `BulkFail` are the unconditional ones.
`QueryStart`, `QueryFetch` and `QueryStore` are `tryRealtimeFetch`. The upstream's status, time and
the deletion of a channel are chosen by the environment. A Suno answer with a
fail reason and an unfinished status is the report `BROKEN`: the row is closed
with progress 100% under the status it was given, which is why `Phase` looks at
the progress of a Suno row too.

`TaskOutcome` says what task billing promises: a task is charged once when it is
submitted, ends once, and its charge is adjusted at most once afterwards, to
nothing or to an actual quota. `TaskPolling` refines it under `Phase`, `paid`
and `adjusted` (`OutcomeSpec`).

### ChannelBreaker
`breaker` is the Go struct: the methods that run under its lock are operators from
a breaker to a breaker (`Record`, `Trip`, `Eval`, `Reported`, `ShouldTrip`; the last
two return sets because a floating-point comparison at equality may go either way).
A report is two actions. `StartReport` takes the breaker out of the map and reads
the clock, `ApplyReport` runs `report` under the lock; a reset in between leaves the
report with a breaker that is no longer in the map (`orphaned`). A selection is two
actions as well: `Snapshot` is `BreakerOpenChannelIDs`, which evaluates the breaker under
its lock with a clock value read before (`ReadClock`), `Choose` is the choice made later
from that snapshot, whatever the breaker is by then. `SendPinned` is an attempt whose channel was fixed by the token or the affinity cache and that does
not ask the breaker. One channel suffices: breakers share nothing but the map. A
missing breaker is modelled by a new one, which answers every question alike.

`lastTrip`, `applied` (the samples applied per epoch since the window was cleared) and
`overtaken` (the requests whose snapshot is older than the last trip) are history variables.

### QuotaCache
`db`, `store`, `taken` and `cache` are the copies of one user's quota: the column,
the entry of the batch store, the batch that `batchUpdate` has taken and not yet
written, and the Redis hash. `change[c]` is a call of `IncreaseUserQuota` or
`DecreaseUserQuota` with two independent legs: `Call` dispatches the Redis goroutine
(`CheckTTL`, `HIncrBy`), the caller goes on with `AddRecord` or `WriteDb`. A reader
that misses Redis, or cannot read it, is `Miss`, `ReadDb`, `SetHash`. `LoadUser`, `ReloadUser`,
`UpdateUser`, `CacheUser` are a handler that loads the user and calls `User.Update`
(`User.Edit` and `ClearBinding` write no quota). `Evict` is both the expiry of the
hash and `InvalidateUserCache`; it is enabled at any time, since the TTL does not
depend on what the program does meanwhile. A hash of kind `partial` has a quota
field and nothing else. `truth` and `lost` are history variables; `truth` counts the changes
that took effect, also those whose caller saw an error because the answer of the database
was lost (what the caller sees changes nothing here).

### OfficialPayment
`status`, `refunded`, `refund` and `quota` are the database; a transaction is one
action, a call to the provider another one. `creator`, `query`, `closer` and `call`
are the progress of the handlers between them, `lock` is `LockOrder` where it is held
across a provider call (elsewhere the action is atomic and only asks that it is
free). `trade`, `prov` and `reports` are the provider: a payment can come late, a
refund is accepted, decided later, contradicted after a success, and reported any
number of times; `PrepayFails` and `CallRefund` may lose an answer although the
provider acted. `RefundQuota` has the code's rounding and the rule that the last
refund takes what is left. `FinishRefund` may fail to write the result of a call, in
particular the rollback of a refused refund, which the code only logs. The commission and
the inviter reward that the same transactions move are left out; that they can make the
transaction fail is part of that failure. `Crash` forgets the handlers and the lock.
`credits`, `manual`, `undone`, `told`, `unheard` and `cut` are history.

### PlaygroundChat
A React state update and the handler around it are one action; `setTimeout` with 0
and 100 ms become the queues `saves` and `resend`, with a step to run their head.
Messages have the id the page gives them (`nextId`, which restarts at 4 with every
load) and an identity `uid` of the model's own, so that confusions of ids show. The
text of a message is the set of the requests it came from. `FireSave` may fail, which
`saveMessages` only logs (`dropped`). With a custom request body (`CustomModes` says which requests have one) a send is
refused when the body is no JSON: at once (`SendRefused`) or when a delayed send fires
(`ResendRefused`). The history variables
`loose`, `silent`, `stale`, `crossed`, `wiped` and `dropped` name the races and failures
after which a property is not promised; each is set by the action in which the race happens, and
the findings below are about them. A request is in `loose` once it is open and the last
message does not wait for it: the user left it behind, a malformed chunk ended its
message, or another request that was left open ended the message it was to fill (`Ends`).

### DesktopShell
Its specification is `ShellSpec` (`ShellInit`, `ShellNext`, `ShellTypeOK`), so that
`ClientProofs` can extend it together with the playground. One action per event of the
main process. `inflight` and `scheduled` count probes
and their timers, `attempts` is `currentAttempt`. A timed out probe schedules two
(`Retry(2)`): `destroy` raises `error` after `timeout`. `foreign` is another program
on the port. `exit` is a `close` event that is still to be handled. `ReadyFails` is a start
that throws before there is a server; a probe may be refused although something listens.

### ModelTest
`batch[b]` holds the local variables of the `b`-th call of `batchTestModels`, which
goes on although the dialog that started it is gone; `active` and `shouldStop` are
its references, the other flags are the dialog's. `helpers/api.js` lets equal GETs share an
answer; endpoint type and stream flag, which make URLs differ, are left out, so `Answer`
chooses which of the single tests of a model share it. The search keyword picks a subset
of the models (`Matches`), for a batch and for the removal of failed models.

## 3. Runs

| Run | Bounds | Checks |
| --- | --- | --- |
| `billing_session` | 2 requests of 8 kinds (every preference, trusted, playground, free estimate, free model, unlimited token, restricted model), 2 subscriptions of 3, wallet 3, token 4, one period end or expiry, 1 call of `Reserve` each | `SettledBooks`, `ReturnedBooks`, `UsageExplained`, `AdmissionIsStrict` |
| `billing_faults` | 2 requests, writes of one fail or lose their acknowledgement anywhere, refunds are rejected | `NeverPaysOut`, `ReservationResolved` |
| `billing_refund_rejected` | 2 requests of one subscription | violates `RefundReturnsReservation` |
| `task_video` | 1 video task, 2 nodes, 1 crash, failing writes | `TypeOK`, `RefundedOnce`, `FailedTasksRefunded`, `EndIsFinal` |
| `task_platforms` | Suno, legacy and per-call task, 1 node, limits 2 and 1 | `ChargeFitsStatus`, `OutcomeSpec` |
| `task_queries` | a Suno and a video task, 1 node, limits 1, 1 user query, deleted channel | `NeverOvercharged`, `EveryTaskCloses` |
| `channel_breaker` | 1 selected and 1 pinned request (2 attempts), ring of 2 buckets of 2 instants, cooldown 2 capped at 3, 8 instants, 1 reset | `WindowExact`, `ShieldHolds`, `BackoffDoubles`, `Recovers` |
| `quota_cache` | 2 changes (-2 and +3 on 2), 1 reader, 1 save of either kind, 1 override, 1 restart, batching and direct writes, failing statements | `Books`, `DriftBounded`, `DriftHeals` |
| `official_payment` | an order of 2 units of money for 3 of quota, 2 refunds, 1 unit spent or 1 restart | `TypeOK`, `CreditedOnce`, `Books`, `RefundTruth`, `PaidIsCredited`, `RefundsAgree` |
| `playground` | 2 requests, the second with a custom body, 1 chunk per stream, 1 save waiting when the user acts (2 in all); at any time at most 2 of: 1 reload, 1 edit, deletion, refused body or change of role or language, delayed sends that wait, a refused write, a silent end (`MCBudget`) | `OwnWords`, `SpinnerIsLast`, `UserWordsStored` |
| `desktop` | 4 retries, 3 windows | `NoOrphan`, `ProbesBounded`, `HiddenReachable`, `StartDecides`, `QuitCompletes` |
| `model_test` | 2 channels with 3 models, 2 at a time, 2 batches, dialog opened twice, 1 single test | `LimitHolds`, `QuietIsIdle`, `CountsAgree`, `StopObeyed`, `BatchEnds` |

*Why the bounds are enough.* Two requests suffice for every pairwise race on the
three balances; what a third one could do to a request is only to change the
balances, which the second one does too (the theorems below hold for any number).
The quotas are chosen so that one request fits and two do not, an actual quota is
both below and above the reservation, a settlement can exceed `amount_total`, and
the wallet is above or below the trust threshold depending on the order. Two
nodes and one task give every race of the conditional update; three tasks with
limits 1 and 2 make the limits bite. Symmetry is used over requests or nodes,
which no constant of those configurations tells apart, and never in the runs that
check liveness. The breaker's run lets every slot of the ring come around, trips it
by streak and by score, backs off into the cap, and leaves enough instants after the
channel has recovered for the longest period and the window to pass; a report may
wait one instant for the lock (`MaxLag`), and `MaxPerBucket` bounds the samples of a
closed breaker only, so that probes are never cut off. In `quota_cache` two changes
overlap a reader and a save in every order; `DriftBounded` is tight there, a change is
really seen twice. The order of 2 and 3 makes half a refund round, two refunds are a
partial and the last one, and the unit that is spent makes a refund unaffordable.
Two requests are the one whose answer is late and the one it disturbs; a second
chunk of a stream does what the first does. The budget is a state constraint; the
properties of this run are invariants, so it only bounds the search. (A third
request can be disturbed by the second after the first disturbed that; the theorems
cover any number.) Four retries let the chains of probes double twice before the
limit. Three models two at a time are two groups with a pause; two channels and two
batches are the batch that was left and the one that follows it.

Failing writes together with `Reserve` are too many states for a run that is kept (10.6
million, no error when it was last done); the theorems cover them for every set of
faults. The types of every module are proved.

*Deadlock.* The billing runs stop when all requests are answered; the quota, payment,
playground, desktop and dialog runs stop when nothing is left to do or the bounds are
used up. The task runs
and the breaker's check for deadlock, since those loops and the clock's readers never
end.

*Fairness.* A handler goroutine runs until its request is answered and `gopool`
runs what was submitted, hence weak fairness on the steps of a request once it
has arrived and on its refund. A poller's loop never ends (panics are recovered,
a crashed node is restarted) and time passes, hence weak fairness on a poller's
steps and on the timeout. The answers of the upstream are not among those steps:
`FetchTask` has no deadline (`RELAY_TIMEOUT` is 0 by default, "no timeout",
`src/README.md:55`), so `EveryTaskCloses` is conditional on a node that is not kept waiting
for ever. `Recovers` assumes that time passes, attempts end and
report, and unpinned requests keep coming: the breaker has no timer, so without
requests it stays open, harmlessly. `DriftHeals` assumes that goroutines and handlers
run on, the batch updater runs for ever and hashes expire. `PaidIsCredited` and
`RefundsAgree` assume that handlers end and that the provider decides on a refund and
repeats its notifications until they are acknowledged; a notification that finds the
order locked waits for the lock, which Go's mutex hands to waiters, hence strong fairness
on `WechatPayOfficialNotify`. The desktop shell's timers fire, a probe is answered,
refused or times out after ten seconds, and the event loop delivers the events of the
child process. A test of a model is answered or fails, and timers fire; axios has no timeout
(`web/classic/src/helpers/api.js:29`), so a server that never answers would keep a batch for
ever, which `BatchEnds` does not cover. The playground has no liveness property. Nothing else is assumed of users, the upstream,
period ends or administrators.

## 4. Findings

1. **Rejected refund** (`billing_refund_rejected`). The over-total check of
   `postConsumeUserSubscriptionDeltaTx` ignores the sign of the delta. After a
   settlement above `amount_total`, the refund of another reservation fails on
   all attempts and stays charged.

The following disagreements between code and its comments or documents show in the
models as well; no run of their own is kept.

- *Suno save.* `service/task_polling.go:272` saves unconditionally, against the comment in
  lines 257-261: a task that another node has timed out and refunded comes back and is
  refunded again. (A Suno task and two pollers violate `RefundedOnce`.)
- *Deleted channel.* `service/task_polling.go:343` and `:192` mark the tasks of a deleted
  channel as failed in bulk and do not refund them, against `model/task.go:430-434` and
  `service/task_billing.go:151`. (`ChannelMayVanish` violates `FailedTasksRefunded`.)
- *Profile save.* `model/user.go:587`: `User.Update` writes back the quota that its
  handler loaded, and undoes charges and refunds that ran in between, against
  `docs/subscription-billing.md:55`. (`lost = 0` is violated without any failure.)
- *Failed prepayment.* `controller/topup_official.go:275` saves the whole row of an order
  that an administrator has completed meanwhile: it is failed, its quota granted, its
  refund totals gone (`undone`).
- *Lost answer to a refund.* `controller/topup_official.go:576` rolls a refund back when
  the provider's answer is lost; if the provider took it, the user has money and quota,
  and the success that is reported later is refused (`unheard`).
- *Booked and not sent.* A restart between booking and sending a refund leaves it pending
  for good, with the quota taken (`cut`). So does a rollback that fails after the provider
  refused the refund: `controller/topup_official.go:577-580` only logs it.
- *Hanging upstream.* Tasks are fetched one after the other and without a deadline: an
  upstream that never answers stops the loop of `service/task_polling.go:91`, its sweep and
  every task behind it, though lines 98-100 take care that no panic does.
- *Progress of the upstream.* `service/task_polling.go:498` stores 100% under an unfinished
  status too; such a task is on no list any more, and is neither settled nor refunded.
- *Snapshot and choice.* `service/channel_select.go:223-225` says that open channels are
  shielded; a trip between the snapshot of line 221 and the choice lets the request have the
  channel within its cooldown (`overtaken`).
- *Playground, change of language.* `usePlaygroundState.js:93` says "当语言改变时，如果是默认消息则更新"
  (when the language changes, default messages are updated); after a load without stored
  messages it also replaces a conversation that has begun (`wiped`).
- *Playground, storing.* `components/playground/configStorage.js:54` swallows a write that
  localStorage refuses: until a later one succeeds, what is shown is not stored (`dropped`).
  Regenerating with a custom body that is no JSON removes the message from the page, and the
  refused send does not bring it back; the next load does (`wiped`).
- *Playground, ids.* `helpers/utils.jsx:955` says "生成唯一ID" (generates unique ids); they
  restart at 4 with every load, so a stored message and a new one share an id, and an edit
  of one changes both.
- *Playground, answers.* Chunks and ends are applied to the last message: an answer that
  outlives Stop (of a fetch), clear or edit lands in another reply (`loose`), and after a
  clear it makes `completeMessage` throw. It also ends that other reply, whose own answer
  then lands in the one after it: a single malformed chunk can disturb every later exchange.
  The proof of `OwnWords` brought this out, since it takes three requests. A stream that ends with status 200 and no [DONE]
  leaves the message loading (`silent`); the edit dialog puts an old list back (`stale`).
- *Desktop.* A server that exits with code 0 or by a signal only hides the window, though the
  comment says "直接关闭窗口" (closes the window), and the application stays in the tray.
  `activate` while the server starts leads to two windows, and closing the first hides the
  second (`early`).

Three more things the models show, for which no run is kept. With user queries,
`FailedTasksRefunded` and `RefundedOnce` fail: a failure that a query stores first is
never refunded, and a query of a timed-out video stores "in progress" over the
refunded failure (`relay/relay_task.go:477`); `task_queries` therefore checks what
remains true. `GetUserCache` stores a database snapshot in Redis after a miss, also
for `GetUserQuota(id, false)`, although `model/user.go:883` and
`docs/subscription-billing.md:54` want fallbacks to invalidate only: Redis and the
database disagree until the hash expires (`DriftBounded`, `DriftHeals` say how much
and how long). And `RedisHIncrBy` can bring back an expired hash with the quota field
alone, a user without status or group for the readers (kind `partial`).

*Hazards seen and not modelled*, beyond those in `PROJECT.json`: an unacknowledged
rollback of `Reserve` (`service/billing_session.go:258`, excluded by `ReserveAcked`);
wallet overdraft by requests that pass the same check (`:357`); a failure that a query
stores without billing (`relay/relay_task.go:477`); a charged task whose row cannot be
inserted, and one whose settlement failed (`controller/relay.go:775`, `:754`);
`legacyTaskCutoff`, whose value is a year before its comment (`service/task_polling.go:51`);
a handler that panics, whose deferred function sees no error and returns no reservation
(`controller/relay.go:180`); fixed-price realtime sessions
(`service/quota.go:90`); the retry counter of an exhausted auto group
(`controller/relay.go:199`). On the channel page: row operations that put back the list
they captured, `loading` that stays set after a superseded or failed load, and a shared
GET that answers with data from before a write (`helpers/api.js:51-77`); and a batch that
ends after its dialog was closed shows its counts in the dialog of another channel.

The quoted lines of the repository are in `PROJECT.json`.

## 5. Proofs

Every invariant and action property that a passing run checks is also a theorem. A theorem holds for every value of the constants
that satisfies the named assumptions of the module (`...Assumption`), and for the
hypotheses its statement shows. Each assumption and hypothesis holds in the instance of
the run that checks the same property.

Most properties are not inductive. For each the modules define the invariant that is
(checked with TLC on the run's instance before it was proved), show that it holds
initially, that each action keeps it, and that it implies the property. Lemmas about the
operations (`...Effect`) say once what a database write, a method under the breaker's
lock or a conditional update does; frame lemmas say that a step which leaves one
request, task or refund alone keeps its part of the invariant.

### BillingSessionProofs

For any finite set of requests, kinds, subscriptions, balances, quotas and fault sets:

| Theorem | Statement |
| --- | --- |
| `LedgerCorrect` | `ReserveAcked => (Spec => [](TypeOK /\ LedgerInv))` |
| `SettledBooksCorrect` | `ReserveAcked => (Spec => []SettledBooks)` |
| `ReturnedBooksCorrect` | `ReserveAcked => (Spec => []ReturnedBooks)` |
| `NeverPaysOutCorrect` | `ReserveAcked => (Spec => []NeverPaysOut)` |
| `AdmissionCorrect` | `ReserveAcked => (Spec => AdmissionIsStrict)` |
| `UsageCorrect` | `ReserveAcked => (Spec => []UsageExplained)` |

`ReserveAcked`: `Reserve` is not called, or a rolled back `Reserve` learns whether its
write was applied. Without it the claims about the books are false (the session would
return the amount a second time). `Reserve` has no caller at this commit.

*Books.* That a request ends with the right balance depends on what its session believed
at every step before. `LedgerInv` says, for every control point, how much the session
would still return (`Returnable`, `TokReturnable`) and how much is charged for good
(`Final`, `TokFinal`): `paid >= Returnable` always, and `paid = Returnable + Final` while
no write of the request has failed. `Control` ties the fields of the session to the
control points (in particular `tokenConsumed = preConsumedQuota` and `preConsumedQuota =
consumed + extraReserved` for a subscription while a reservation is held).

*Usage.* What the subscriptions record is compared with a sum over the requests. Every
step is classified once (`MoveOf`): it moves no quota, moves the wallet's or the token's,
corrects the usage of the subscription its request was charged to, or charges a
subscription for the first time. `UsageInv` then has one case per kind. It says that
there is a placement of requests on subscriptions under which every subscription records
at most what its requests have paid, and exactly that until a period ends. The placement
is quantified because the acknowledgement of a charge may be lost, and with it the
session's knowledge of its subscription. `AdmissionCorrect` uses the same kinds: only a
settlement is not checked against `amount_total`.

### TaskPollingProofs

For any tasks, platforms, nodes, limits, prices and faults:

| Theorem | Statement |
| --- | --- |
| `TypeCorrect` | `Spec => []TypeOK` |
| `NeverOverchargedCorrect` | `Spec => []NeverOvercharged` |
| `RefundedOnceCorrect` | `Unshared` gives `Spec => []RefundedOnce` |
| `FailedTasksRefundedCorrect` | `Settled` gives `Spec => []FailedTasksRefunded` |
| `ChargeFitsStatusCorrect` | `Settled` gives `Spec => []ChargeFitsStatus` |
| `EndIsFinalCorrect` | `Settled` gives `Spec => EndIsFinal` |
| `OutcomeCorrect` | `Settled` gives `Spec => OutcomeSpec` |

`Unshared`: no query of a user fetches from the upstream, and Suno rows, which are saved
unconditionally, have a single master node. `Settled`: in addition nobody deletes the
channel. Section 4 describes what happens without them (the saves of `SunoItem` and
`QueryStore`, the bulk failure): the theorems say that these are the only reasons.

- `Base` has the types and what they rest on: a poller handles what it listed, answers
  belong to listed tasks, and a success was the upstream's word.
- `Ceiling` needs no hypothesis. A task is `Calm` (never above its reservation, and no
  bill raises it) or `Raised` (its upstream has succeeded, one bill at most raises it,
  and nothing can bring a second one).
- `Ledger` is the book of each task: at most one poller bills a
  task, an open task has paid its reservation, and a bill in progress or the final charge
  fits the status; and the only node sees Suno rows as they are.
- `OutcomeCorrect` is the refinement: under `Base` and `Ledger` every step is a step of
  `TaskOutcome` or leaves phase, charge and adjustment of all tasks alone.

### ChannelBreakerProofs

For every configuration `InitChannelBreakerConfig` accepts, any requests and bounds:

| Theorem | Statement |
| --- | --- |
| `BreakerCorrect` | `Spec => [](TypeOK /\ ClosedIsHealthy /\ ShieldInv /\ SnapshotInv)` |
| `BackoffCorrect` | `Spec => BackoffDoubles` |
| `ShieldCorrect` | `Spec => ShieldHolds` |
| `WindowCorrect` | `LagShort => (Spec => []WindowExact)` |

`ShieldInv` is the inductive core of the first three: outside the closed state,
`cooldown` is the backed-off successor of the period that began at `lastTrip`, the
breaker is half-open only after its deadline, and it leaves the open state only after the
base cooldown. `SnapshotInv` carries this from the snapshot to the choice: a request that is
choosing asked after the cooldown or before the trip. The effect lemmas reduce a report to three cases (it trips, stays or
recovers), so that what the window contains does not matter.

`LagShort` says that a report waits for the lock no longer than a turn of the ring less
one bucket (110 seconds with the default window). It is sharp: with one instant more TLC
finds a late report that takes the slot of a newer epoch and erases its samples.
`RingInv` says that each slot holds its own epoch or nothing, none of the future, and for
every epoch of the window what was applied in it. Recording keeps it because two epochs
of the window never share a slot (`OneTurn`), and the sum over the slots is the sum over
the epochs because the slot in use and its epoch determine each other (`SumRename`).

### QuotaCacheProofs

For any finite set of changes, amounts of either sign, readers, saves, overrides,
failures and restarts:

| Theorem | Statement |
| --- | --- |
| `BooksCorrect` | `Spec => [](TypeOK /\ Books)` |
| `DriftCorrect` | `Spec => []DriftBounded` |

`Books` is inductive with the types: each action moves an amount between `db`, `store`,
`taken` and `lost`, or changes `truth` with one of them. `DriftInv` says which changes
each number is made of: `store` and `taken` are sums over disjoint sets of ended changes,
the column (and the copy a profile save may write back) is a base and some of the other
ended changes, each once; what may go to Redis is a column of some time; and a hash is
such a copy and the increments of goroutines that have ended, each once. A change is then
in the copy once and in the increments once, which is where the factor of two comes from.

### OfficialPaymentProofs

For every price, quota, rounding, number of refunds and of restarts:

| Theorem | Statement |
| --- | --- |
| `TypeCorrect` | `Spec => []TypeOK` |
| `CreditedOnceCorrect` | `Spec => []CreditedOnce` |
| `RefundTruthCorrect` | `Spec => []RefundTruth` |
| `BooksCorrect` | `Spec => []Books` |

`OrderInv` adds to `CreditedOnce` how far the creation of the order is and that only a
credited order has refunds. `RefundInv` adds what is known of each refund while its call
or a report is under way, in particular that a pending refund the provider has not seen
is being sent under the lock or was cut off by a restart or by a rollback that failed. `BookInv` adds that every
booked refund returns some money; the totals are sums over the live refunds, which
`MarkRefund` changes by one term.

### ClientProofs

For every number of requests, chunks, loads, operations and waiting saves:

| Theorem | Statement |
| --- | --- |
| `ChatTypeCorrect` | `Spec => []TypeOK` |
| `RepliesKeepTheirWords` | `Spec => []OwnWords` |
| `SpinnerStaysLast` | `Spec => []SpinnerIsLast` |
| `WordsAreStored` | `Spec => []UserWordsStored` |

One invariant, `ChatInv`, carries all four, since each property needs the others: a list
that is put back later must have been fine when it was taken. `ListsInv` states of every
list that may be shown again (the conversation, what is stored or waits to be, the list in
the edit dialog) that its messages have only their own words or those of requests left
open, and that only its last message is being generated. `AwaitInv` is the core: an open
request that was not left open is the one the last message waits for, so that an answer
written to the last message is written to the right one. `EditInv` says that the exchange
being edited is at rest although ids are shared, `DialogInv` that the edit dialog notices
if the conversation has gone on, `WordsInv` that the newest copy holds what the user said
(unless it could not be stored, a cut is still to be sent again, or the page was wiped).

The 25 actions are sorted by what they do to the conversation, each kind with one lemma
that it keeps `ChatInv`: `Answer` (something arrives from a request and changes the last
message at most), `Rewrite` (stop, clear, cut, delete, change of role or language),
`Quiet` (the conversation stays), `Sends`; saving an edit, the edit dialog and a load
stand alone. Deleting messages and `Said` rest on `Keep`, a recursive function; `KeepOrigin`,
`KeepUids` and `KeepAppend` are proved with `NatSetInduction`.

For every `maxRetries` and any number of windows:

| Theorem | Statement |
| --- | --- |
| `ProbesCorrect` | `ShellSpec => []ProbesBounded` |
| `ExitCorrect` | `ShellSpec => []NoOrphan` |
| `WindowsCorrect` | `ShellSpec => [](ShellTypeOK /\ HiddenReachable)` |

A bound on the probes sent is not inductive by itself. `ProbeInv` adds that before the
limit is reached there are at most as many probes scheduled as attempts were made (every
attempt that ended left at most two), and that nothing more is scheduled afterwards.
`ServerInv` keeps a living server in `serverProcess`, so that every quit goes through
`before-quit`. `WindowInv` adds that there is no window until the start is over.

### ModelTestProofs

For any channels, number of models, keywords and limit:

| Theorem | Statement |
| --- | --- |
| `LimitCorrect` | `Spec => []LimitHolds` |
| `IdleCorrect` | `Spec => []QuietIsIdle` |
| `StopCorrect` | `Spec => StopObeyed` |
| `CountsCorrect` | `Spec => []CountsAgree` |

The invariant of the first three is `BatchInv`: at most one batch runs,
`batchTestingActiveRef` is set exactly while one does, the flags of the dialog only then,
a batch between groups has nothing in flight, and what is shown as being tested is in
flight. That a group keeps the limit rests on its greatest member, which exists because
`<` is well-founded. `CountInv` adds, as long as one batch alone changes the results, that
its counters are the cardinalities of what its list has as results so far.

### SumLemmas

The totals above are `SumFunctionOnSet` of the community modules, a recursive function
inside a `CHOOSE`. The provers cannot instantiate the library's induction theorems, which
take an operator. `SumLemmas` derives from `NatLessThanWellFounded` and `WFMin` an
induction over a *set* of numbers (`NatSetInduction`) and over the subsets of a finite set
(`SetInduction`), which are first-order, and with them that the recursion has a solution,
that the order of summation does not matter (`SumRemove`), and the laws the proofs use:
one term added or changed (`SumInsert`, `SumUpdate`), bounds (`SumNat`, `SumLeq`), sums of
two functions (`SumPlus`), terms that are 0 (`SumFilter`), grouping (`SumGroups`) and
renaming (`SumRename`). They need finite sets, hence `RequestsAssumption` and the first
conjunct of `QuotaAssumption`.

### Only model-checked

Liveness, which is out of reach of the prover: `ReservationResolved`, `EveryTaskCloses`,
`Recovers`, `DriftHeals`, `PaidIsCredited`, `RefundsAgree`, `StartDecides`,
`QuitCompletes`, `BatchEnds`.

## 6. Plan

In this order; each module with its own run, then its theorems.

1. `RelayRetry`: the retry loop over groups and channels, composed with
   `ChannelBreaker`'s exclusions.
2. `RealtimeBilling` and the Midjourney poller.
3. The composition of `BillingSession` and `TaskPolling`: a submission whose
   settlement fails is refunded at the amount that was not taken.
4. Orders of Alipay and the aggregators, orders that buy a subscription, and the
   commission that a refund takes back.
5. The channel page: its list, search and row operations.
6. Lemmas on the actions that liveness rests on (what a step of a fair action brings
   closer), which TLC's liveness checks use only implicitly.
