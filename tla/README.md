# MrOracle in TLA+

MrOracle reads signed price batches of up to three providers from a database and
submits them to Solana, one `update_pool_aum` transaction per pool. This directory
holds TLA+ models of its parts, the TLC configurations that check them, and
TLAPS proofs. Paths below are relative to `src/src/` unless they start with
another directory; `client.rs:361` means line 361.

## 1. The system

| Component | State | Operations |
|---|---|---|
| Main dispatch loop, `client.rs:361-421` | channel receiver, pools | drain the channel and fan out, scan and fire, sleep 500 ms |
| Pending state per pool, `pool_config.rs:82-141` | one slot per provider, `first_arrival_at` | `ingest`, `is_complete`, `is_window_expired`, `has_anything`, `take_snapshot` |
| Provider poller, `oracle_poller.rs` | `last_dedup_key` | call the cycle, dedup, send, sleep |
| Provider cycles, `providers/*.rs`, `db/get_oracle_batch.rs` | none | two queries, TTL and drift checks, decoding |
| RPC fallback, `rpc_fallback.rs` | endpoints, per call `sent_sig` | `sign_and_send`, `get_account`, `send_rpc_request` |
| Startup, `client.rs:177-349`, `pool_config.rs:177-416` | pools, required providers | load, validate against the chain, quarantine, spawn |
| Priority fee, `priority_fees.rs`, `client.rs:267-284` | one shared number | refresh every 5 s, percentile |
| Transaction building, `handlers/`, `adrena_ix.rs` | none | instruction order, account list, wire format |

How they interact. Each poller is a tokio task that pushes `ProviderUpdate`s into
one mpsc channel of capacity 64. The main task hands every update to each pool whose
`required_providers` holds its kind, opening a 5 s collection window on the first
arrival. A pool fires when all its providers are there or its window has expired; a
fire takes the snapshot and spawns a task that builds and sends the transaction, so
sends never block the loop. The fee refresher is another task, sharing a mutex with
the loop. The outside world is the database's writer, the RPC endpoints, the cluster,
and the on-chain pool accounts, which are read once at startup.

What is hard: pollers interleave with every step of the loop; batches age in the
channel, in the pending state and on their way to the chain; an RPC that times out may
have worked; the database is written row by row by somebody else; pollers can die for
good; the process is restarted and forgets what it sent.

What makes each part correct:

* dispatcher: windows end in time; no batch gets lost, repeated or out of order between
  channel and snapshot; what is fired is fresh; complete pools fire at once, incomplete
  ones once per window;
* poller: nothing too old or malformed is forwarded, nothing acceptable is missed,
  nothing is repeated by one run, the stream never goes back in time;
* `sign_and_send`: the outcome is true, one call puts at most one transaction on chain,
  the call ends;
* startup: every served pool matches the chain and has all its pollers; only pools that
  failed are dropped, and they do not stop the others; the Switchboard feed map is what its file says, or startup fails;
* transactions: whatever mix of providers a snapshot has, the program on chain reads back
  that snapshot;
* the fee: the percentile of the last answer, never of a failed one;
* the whole: no batch is applied twice; nothing of a call that had ended lands after what
  was fired since, unless its answer was lost or it ended without a verdict; a call that ends
  with a confirmation has all its batches on chain; all of it across restarts too.

`PROJECT.json` lists the hazards at their lines with the properties aimed at them.

## 2. Modules

| Module | What it is |
|---|---|
| `PoolFeed` | abstract specification: what the dispatch loop promises to a pool |
| `Dispatcher` | main loop, channel, pending state; implements `PoolFeed` |
| `MCDispatcher`, `MCDeployed` | its instances for TLC |
| `DispatcherProofs` | its theorems |
| `ProviderPoller`, `MCProviderPoller` | one poller with its cycle and the table it reads |
| `ProviderPollerProofs` | its theorems |
| `SubmitCalls` | abstract specification: what the `sign_and_send` calls of a process promise |
| `RpcFallback` | one `sign_and_send` call; checked as it is; implements `SubmitCalls` |
| `RpcFallbackProofs` | its theorems |
| `SwitchboardFeedMap` | `parse_feed_map`, operators only |
| `Startup`, `MCStartup` | config file to main loop |
| `StartupProofs` | its theorems |
| `UpdatePoolAum` | snapshot to instructions and back, operators only |
| `PriorityFee` | the fee refresher and its percentile |
| `PriorityFeeProofs` | the theorem about its percentile |
| `Lists` | what the code does with lists it reads: leave entries out, sort; operators only |
| `ListsProofs` | lemmas about them, for lists of any length |
| `MrOracle`, `MCMrOracle` | the running program: `PoolFeed`, `SubmitCalls`, `PriorityFee` and `UpdatePoolAum` with the cluster and restarts |
| `MrOracleProofs` | its theorems |

    ProviderPoller   Dispatcher        RpcFallback
       (streams,        |                  |
        ages)           | implements       | implements
          :             v                  v
          :          PoolFeed         SubmitCalls   PriorityFee   UpdatePoolAum
          :             \                  |            |             /
          +..............\----------------- MrOracle ---------------/

The definitions marked "Variant with a mistake" are plausible errors, used by no
specification. Substituting each one for the definition it stands next to must break
the property that `PROJECT.json` pairs it with; this shows that the properties can fail.

### Dispatcher

An update is its provider, its number in that provider's stream, and its age: the
time since its signed timestamp. `pending[p][k]` is the slot of provider `k` in pool
`p`, `waited[p]` is `first_arrival_at.elapsed()` (`None` without a window), `phase`,
`unscanned` and `timer` are the main task's position. `sent` and `fired` number what
was queued and what left in snapshots; `idle` is history for one property.

`Receive`, `DrainEmpty` and `Disconnected` are the three arms of `try_recv`; `Fire` and
`Skip` the two outcomes of the scan for one pool; `StartSleep`, `Pass` and `Wake` the
sleep. `Send` is a poller's `sender.send(..).await`, enabled while there is room;
`PollerDies` a panic that drops a `Sender`. Choices:

* Time passes only while the main task sleeps. Draining and scanning do no I/O and take
  locks only this task uses; the fee lock is held for an assignment. An overloaded
  runtime that delays the task longer is outside the model.
* The scan visits the pools in any order. The code's order is fixed, and pools share
  nothing during the scan.
* `ReadAge[k]` are the ages an update may have as it is queued. It is what the dispatcher
  assumes of a poller and what `ProviderPoller` shows: for a signed provider ages below
  `AgeLimit`.

### PoolFeed

Each provider publishes a numbered stream; a delivery hands a pool a nonempty set of
newer updates of streams it requires. No channel, window or clock. Under the mapping
`open <- phase # "exited"` a `Fire` is a `Deliver`, a `Send` a `Publish`, `Disconnected`
is `Close`, and everything else stutters.

### ProviderPoller

The table is a sequence of rows (`oracle_batch_id` is the position) with header and
price timestamps, a flag for the presence of the price rows, and a flag for
everything that must decode (`Decodes`). `ReadHeader` and the steps out of `prices` are the two
queries; between them the writer may act. `Newest` leaves ties of `ORDER BY ... LIMIT 1`
open. The key is stored before the send, which may wait. `Restart` forgets what the
process held. `Seconds` is chrono's truncating `num_seconds`. The price rows of a batch
appear all at once, now or later; a writer that inserts them one by one is not modelled.

### RpcFallback

A transaction is named by its blockhash, as instructions and signer are fixed. Each RPC
answers after some time of `Latency` or fails, at the latest after `RpcTimeout`. A send
can be acknowledged, refused, or taken without an answer (`SendAckLost`). The ledger
moves on its own (`Settle`), also after the call returned. `StatusUnknown` covers failed
and timed-out polls and nodes that lag. The two confirm loops of the code (for the
endpoint that sent, lines 175-203, and for the later ones, 103-120) are one set of
actions, as they differ only in messages. Forks are left out: a reported status is final.

### Startup

A pool is its name, provider set and custody lists; an account is the two arrays with
their counts, or data too short to read. `Registered` reads an array as the code does, by
pushing the keys in use (`Without` of `Lists`); the properties count slots instead (`ListsSlots`). The chain may change at any time; `seen` keeps
what validation read. `FetchFails` is the primary endpoint not answering. A command line is
whether the database settings, the queue key and the cluster are valid, and the feed map
it leads to. `SetupFails` is one of those errors, with the pollers spawned before it dying
with main. `SpawnSwitchboard` comes last, as in the code.

### SwitchboardFeedMap

A file is a sequence of entries with an id, a hash (`NoHash` if it is not 32 bytes of hex)
and the dummy flag. `Rejected(file, i, skipDummy)` is what stops the loop at entry `i`; the
code's accumulating set is the quantifier over the entries before; `Active` is what it
collects. The order of the
checks inside an iteration only decides the wording of the error, as every error aborts
startup, with one exception that the model keeps: a skipped dummy reaches neither the
check for duplicates nor the decoding.

### SubmitCalls

A call may have transactions taken by nodes that do not answer (`Take`), until one is
acknowledged (`Ack`); it returns a true outcome (`Return`). `Die` ends all calls of a
process, `Settle` is the cluster. `RpcFallback` maps to one such call (`CallSpec`): its
endpoints, polls and time-outs stutter. This is what makes it sound to compose the
program from the small module instead of the large one.

### UpdatePoolAum

An instruction is the program it calls and what a reader looks at. `Instructions` is
`fire_update_pool_aum` with `build_update_pool_aum_ix`: price, limit, the two Switchboard
instructions if the snapshot has an update of it, and `update_pool_aum`, whose remaining
accounts are the quote account (if any) and the pool's custodies. `Reads` is the other
side: the custodies and the quote as the program takes them from the remaining accounts,
and the quote only if the precompile sits at the index the sidecar stated. It is external,
modelled after the account layout documented at `adrena_ix.rs:165-178` and the position
documented at `update_pool_aum.rs:4-12`. `AcceptedIdx` is the poller's check
of the sidecar (`switchboard.rs:358-379`), where a missing index passes with a warning.
`Stated(at)` are the indices a sidecar may state that made its instructions for position
`at`: that one, or none. A sidecar that states its index and gets through is read in full. One
that omits it may have made its instructions for another position: the property says what
that leads to, a transaction in which the program finds the signed batches and no quote.
A sidecar that states an index other than the one it used is left out.

### PriorityFee

`Refresh` is a tick of the refresher: the endpoints are asked in order, the first answer is
taken, an empty or missing one changes nothing. `PercentileOf` computes in integers what
the code computes in `f64`, over the fees as `Sorted` of `Lists` orders them; at the deployed 2500 basis points both agree as long as the fees stay below
2^51. `IsPercentile` is the reference: it finds the neighbours by counting.

### MrOracle

The dispatch loop is the feed that `Dispatcher` implements (`Feed!Publish`,
`Feed!Deliver`); a `Fire` hands the snapshot and the fee of that moment to a task of its own,
and the tasks' calls, the cluster and the loop interleave freely. `job[t]` records what task
`t` was given and which calls had ended by then, with a result or with their process;
`landed` is the order on chain.
`Restart` is a death at any moment: the calls die, their transactions live on, the fee
is 0 again, and each poller may forward the latest batch once more, since `last_dedup_key` is lost. Choices:

* A batch is its provider and its place in the order of forwarding. That order exists
  because `ProviderPoller` never goes back; two batches with one timestamp, which the query
  may return in either order, are left out here.
* A transaction that expires, or fails without any call asking, is one that never
  settles.
* Two tasks never sign the same transaction. Across a restart they could, with the same
  blockhash, fee and batches; the cluster would then take it once, which only helps.
* `ConfirmedApplied` speaks of calls whose end is a confirmation (`rpc_fallback.rs:104-113`,
  `180-213`). That is a place in the code and a line in the log: the caller of `sign_and_send` gets
  `Ok(sig)` for best effort as well (lines 217-228) and cannot tell the two apart.
* The ages of batches and the time-outs of calls are the business of the modules below.

## 3. Checks

| Run | Configuration | Shows |
|---|---|---|
| `dispatcher_safety` | 2 providers, 2 pools (`{ChaosLabs}`, both), window 3, tick 2, capacity 2, 3 updates each | all safety properties, the inductive invariant `IInv`, refinement of `Feed!SafeSpec` |
| `dispatcher_live` | same with 2 updates each, `FairSpec` | refinement with fairness, every update arrives |
| `deployed_budget` | 500 ms units: window 10, tick 1, capacity 64, 1 pool, 3 providers, ages up to 3 | what is fired is at most 14 units (7 s) old |
| `deployed_stale` | same with ages up to 10 (the TTL) | **violated**: batches older than 7 s are fired |
| `rpc_call` | 3 endpoints, time-out 10, 4 polls of interval 1 (units of 500 ms), latencies 1 and 10, 3 blockhashes | truth of the outcome, one send, time bound, termination, refinement of `SubmitCalls` |
| `rpc_double` | same | **violated**: two different transactions land |
| `poller_cycle` | signed; 2 units a second, TTL 3 s, drift 0, 2 rows, 1 restart, 7 units | all poller properties |
| `poller_ttl` | same | **violated**: more than TTL old is accepted |
| `poller_switchboard` | unsigned | **violated**: any age is forwarded |
| `startup` | 5 configs, 7 accounts, 12 command lines | served pools match and are fed; one bad pool does not stop the others; the feed map is sound; startup ends |
| `startup_names` | duplicate names | **violated**: a pool that passed is dropped |
| `composition` | 1 pool of Autonom and Switchboard, 2 batches, 2 fires, 2 blockhashes, 2 endpoints, 1 restart | no batch twice, ended calls overtake nothing but in the cases listed, confirmed means applied, faithful transactions, the fee |

Why the bounds suffice. The window and tick of `dispatcher_safety` do not divide each
other, so that a window expires between ticks; the capacity is below the number of
updates, so that senders block; two pools that share a provider meet in one update; with
three updates a provider replaces a pending batch and follows a fire. The proofs remove
the bounds for everything but liveness. `MCDeployed` uses the real constants; one update
per provider is enough there because only the first batch of a window can reach the
limit (a newer one replaces it with a younger age, and the window does not reopen).
`OnChainStaleness` is the 7 s of the comment on `COLLECTION_WINDOW`. The limit of 3 is
tight: with 4 the property fails. In `RpcFallback` three endpoints are the deployed
maximum, and three blockhashes let every endpoint answer with a different one.
`ProviderPoller` runs are bounded by `MaxTime`, `MaxRows`, `MaxRestarts`; 7 units let a
row be read, rejected for missing prices, completed, accepted, wait for the
channel, and be read again after a restart; a TTL of 3 s (7 units, truncated) outlives the
5 units of `Cycle`, so that `NoneMissed` has something to say. The delays `ReadDelay` and `SendDelay` are
bounds of the model: `AgeLimit` and `Cycle` name what they add.

`composition` needs two fires to have anything overtaken, repeated or restarted between
them, and two batches so that the fires can carry different ones, the same one (across the
restart) or both providers at once; two blockhashes let a call lose one answer and send
again. `NewerStays` has three exceptions, a lost answer, a call that ended as best effort and
one that was killed, and the run reaches each of them: without any one the property fails. Two
samples that hold fees and an empty one tell the last answer from the first. The fee is sampled in the first run of the process only, and
(`FeelessFires`) after its first fire, so that a fire shows the fee of a fresh start and the one after it any fee; publishing, sampling and restarting stop with the last fire, as nothing would observe
them. Blockhashes are interchangeable (symmetry). The deadlock check is off because the bounds
end the behaviour. `MCMrOracle` also asserts the percentile against its reference for
every sample of up to four small fees at seven percentiles.
`startup` crosses every config and chain with command lines for each error of the feed map,
the map of dummies only, and a dummy that shares its id with a feed.

Fairness. `WF_vars(MainTask)`: the loop is one task that waits for nothing but its own
sleep. `WF_vars(Call)`: every RPC is wrapped in a time-out, every pause is a timer.
`WF_vars(Boot)`: startup's awaits are bounded by the RPC client's time-out. Nothing is
assumed of providers, the writer or the cluster; no poller is forced to die or to send.
`MCStartup` switches the deadlock check off because a failed startup stops.

### Findings

1. **Freshness budget** (`pool_config.rs:30-33`). The comment derives "~2s of headroom" from
   a 5 s window and 7 s on-chain staleness, leaving out the age a batch has when it arrives
   (up to the TTL of 5 s). A partial snapshot can carry a batch of more than 10 s.
   `FreshnessBudget` gives the sufficient condition: age when queued + window + 2 ticks.
2. **Lost send answer** (`rpc_fallback.rs:88-92`, `165`). The protection against a second,
   different transaction only works when the first send is acknowledged.
3. **TTL truncation** (`chaoslabs.rs:30-33`, `82`). Batches up to a second over the limit pass.
4. **Switchboard TTL** (`README.md:41` of the repository, `switchboard.rs:328`). The doc says each poller
   validates a 5 s TTL; Switchboard's does not (the chain checks `max_age_slots`).
5. **Quarantine by name** (`client.rs:235`). Equal names drop pools that passed.

## 4. Proofs

Every invariant and action property that a passing run checks is a theorem, for every value of
the constants that the module's `ASSUME` admits. What needs more than that says so in the theorem.

`DispatcherProofs` proves for every set of pools and providers, every window, tick and
capacity, and any number of updates: the inductive invariant `IInv` and, as its consequences,
type correctness, `WindowBound`, `WindowOpenIffPending`, `AgeBound`, `StreamsInOrder`, `NewestKept`,
`CompleteFiresAtOnce`, `PartialFiresSpaced`, and that `Spec` implements `Feed!SafeSpec`.
`FreshnessBudget` is `FreshWhenFired` under a condition on the constants: the on-chain staleness
covers the age when queued, the window and two ticks. The run `deployed_budget` is the deployed case that satisfies it,
`deployed_stale` the one that does not.
Assumed is `DispatcherAssumption`: window, tick and capacity are positive, each pool
requires a provider, ages read are bounded.

The argument. `WindowBound` alone is not inductive: in a sleep a window could be
anything below the bound and still have ticks to go. `Scanned` says what a scan leaves
behind: no complete pool, and every open window has room for the rest of the sleep,
because one that had expired was fired (its pool has something pending by
`WindowOpenIffPending`). `AgeBound` needs `ChannelAge` (a drain leaves nothing in
the channel, so an update waits for one sleep at most); a replacement keeps
`first_arrival_at`, which only helps, as the new batch satisfies the bound with any
`waited`. `PartialFiresSpaced` needs that a window is younger than its pool's last fire
(`WindowAfterFire`). The refinement needs `PoolsInOrder`: fired < pending < queued.
`IInv` is the conjunction, checked by TLC first and proved one action at a time.

`RpcFallbackProofs` proves for any number of endpoints, any timing and any blockhashes:
type correctness, `OutcomeTruthful`, `NothingSentAfterAck`, `OneLandsUnlessAnswerLost`, and
`TimeBound` provided a confirmation round is at least two time-outs long. The invariant
`Accounted` says that what reached a node is the acknowledged transaction or a lost
one; `Stages` what the call may hold at each step; `Budget` charges each endpoint one
confirmation round, and two time-outs more to the one that acknowledges.

`ImplementsCalls` is the refinement of `SubmitCalls`: acknowledged sends are `Ack`, lost ones
`Take`, endings `Return`, and the rest stutters; `OutcomeTruthful` is what makes a `Return`
legal. The invariant's `RpcInv` and `RpcInv'` are all it needs.

`ProviderPollerProofs` assumes `PollerAssumption` (limits, delays and bounds are natural
numbers). `PollerInv` adds to the types what the poller may rely on about the batch in
hand while the writer and the clock go on: nothing forwarded is newer (`Newer`), what this
run sent last is what it remembers (`Remembered`), and a batch that waits for the channel
was in time when it was accepted (`Timely`). From it follow `ForwardedInTime` (for a signed
provider), `NoRepeat` and `NeverBackwards`. `InTimeIs` says which limits the truncated
comparison really sets. `NoneMissed` is a real-time property and gets an invariant
of its own: `Slack(i)` tabulates, for each step of the loop, how long row `i` can have
been due at that step, and `Awaited` says that no row has been due longer. A cycle's worth of
it is the bound.

`StartupProofs` assumes `StartupAssumption`: custody lists, account slots and feed files are
lists, counts and ids natural numbers (they are unsigned in the code). `Judged` says what the
quarantine means half way: every pool before `next` that is not in it passed, every name in it belongs to a
pool that did not. `Stages` hands this on to the retain and the loop, and `Mapped` says that the
pollers run with a map that parsed. `SetupInv` adds the types. From them follow
`ServedPoolsFed`, `ServedPoolsMatched`, `FeedMapSound` and, if no two pools of a config share a
name (`UniqueNames`), `OnlyFailedQuarantined` and `FailsOnlyWithCause` (by `Cause`, what a failed startup keeps of
the reason it failed for); finding 5 is why these have a hypothesis. `MatchesAgrees` is the
link between the two sides: comparing the config with the list that the code builds is the same as having
the right key at the right place for every slot in use.

`ListsProofs` is what that rests on. `Without` is a recursive function, and induction over data is
out of reach of the installed provers as the library states it; here it is done by hand, with a
least counterexample: `Collects` says what the list holds after `n` entries (each entry that
counts stands at its rank), and the least `n` where that fails leads to a contradiction. `Sorted` chooses
an ascending order; that there is one (`OrderExists`) follows in the same way, as the smallest entry
can be put before an order of the others.

`PriorityFeeProofs` has one theorem, `PercentileExact`: for every nonempty sample of any length and any percentile
from 0 to 100%, `PercentileOf` is `IsPercentile`. It counts the entries of the sorted sample to find that the two neighbours stand where the reference looks for them, splits the rank into its floor and the rest, and bounds the rounding by half a unit.

`MrOracleProofs` assumes `OracleAssumption`: three distinct providers, custody lists over
the accounts, a percentile of at most 100%, samples of fees, and the bounds; and that `None` is none of the
values it stands in for. They are arbitrary: the theorems hold for any pools, batches, fires,
blockhashes and restarts. `OracleInv` has three parts. *Jobs*: what a task was given never
exceeds what its pool has been handed, so of two tasks of one run the later one has newer
batches throughout. *Books*: a transaction that left `unknown` is the acknowledged one or
one whose answer was lost, and what a call reported agrees with the ledger. *Chain*: what has
landed is `landed` in the ledger, once. `UpdatesLandOnce` follows since two transactions
with a common batch in one run are of one task, and a task has one acknowledged transaction;
`NewerOnTop` since all that an ended call may have in flight are transactions whose answer was lost and the
acknowledged one, and the latter only if it returned neither a confirmation nor a rejection (`Truthful`; a
failed call has none) and so ended as best effort or was killed, and an ended call changes no more (`EndedOver`, `CallsOver`);
`ConfirmedMeansApplied` from the books and `TransactionsAreFaithful`, which is a
statement about the operators of `UpdatePoolAum` for every snapshot.

`ProcessInv` is the part of the types that the three do without, with the fee: a task
has a job exactly from its spawn on, and the fee is the percentile of the last answer that held
fees or 0 if there was none (`FeeRight`, by `PercentileExact`). It gives `FeeOfLastSample` and, with `OracleInv`, `TypeOK`.

Only model-checked: liveness (`FeedSpec`, `EveryUpdateFired`, `Returns`, `CallSpec`, `Starts`),
which needs fairness and ENABLED. The safety parts of `FeedSpec` and `CallSpec` are `ImplementsFeed` and
`ImplementsCalls`. That integers stand for the code's `f64` is argued in `PriorityFee` and not proved.

## 5. Not modelled

* `get_account` (`rpc_fallback.rs:242`): nothing calls it.
* Wire formats: Borsh layouts, discriminators, program addresses, the byte offsets of the pool
  account (the tests in `adrena_ix.rs` and `pool_config.rs` pin them), and the decoding of rows beyond success or failure.
* The verification of signatures, done on chain.
* Floating-point rounding of fees beyond 2^51 micro-lamports.
* Command-line parsing, logging, TLS and connection pool settings, `utils/`.
* A writer that inserts the price rows of a batch one by one, rows with equal timestamps in
  the composition, forks of the cluster: see the choices of each module.

Docs that differ from the code, or that it strains, without a run of their own:
a Switchboard feed map that does not load stops the whole service even if the only pools that need
it are quarantined (`client.rs:224`, `309`), where `pool_config.rs:283-284` speaks of quarantine "rather than crash
the whole service" (`FailsOnlyWithCause` names it as a cause); `README.md:100` of the repository has every RPC call use the fallback chain while the validation
asks the primary only (`client.rs:230`); `README.md:90` gives the Switchboard ids as 142-199, `switchboard.rs:178` as 142..=255;
`update_pool_aum.rs:12` speaks of an `instruction_idx` in `SwitchboardUpdateParams`, a
struct that has none (`adrena_ix.rs:103-107`): the index travels in the sidecar only.

## 6. Plan

The modules were written in the order dispatcher, submit call, poller, startup, then the
transaction, the fee, the feed map and the composition, each with its proofs; all safety
properties are theorems. What could follow:

1. `Dispatcher` itself in place of `PoolFeed` in `MrOracle`, so that ages reach the chain
   (freshness at landing), with the theorem that it implements the composition over the feed.
2. A writer that inserts price rows one by one, once the ingestion service's transactions
   are known.
3. Several pools that share a provider in `composition`; the theorems already cover them.
