----------------------------- MODULE Dispatcher -----------------------------
(***************************************************************************)
(* The main task of MrOracle (src/src/client.rs) and the pending state it  *)
(* keeps per pool (PerPoolPending, src/src/pool_config.rs).                *)
(*                                                                         *)
(* Provider pollers push updates into one bounded mpsc channel.  The main  *)
(* task loops forever: drain the channel, handing each update to every     *)
(* pool that requires its provider; scan the pools and fire those that are *)
(* complete or whose collection window has expired; sleep WINDOW_POLL_TICK.*)
(*                                                                         *)
(* An update is its provider, its number in that provider's stream and its *)
(* age: how long ago its signed timestamp lies, in units of time (negative *)
(* for a timestamp of the accepted clock drift).  Time passes only while   *)
(* the main task sleeps: draining and scanning do no I/O, the sends run in *)
(* tasks of their own.  Pollers interleave with every step of the loop.    *)
(***************************************************************************)
EXTENDS Integers, Sequences

CONSTANTS
  Provider,     \* the spawned pollers, one per ProviderKind in use
  Pool,         \* the configured pools left after quarantine
  Required,     \* Required[p]: PoolRuntime.required_providers
  Capacity,     \* capacity of the mpsc channel (64)
  Window,       \* COLLECTION_WINDOW, in units of time
  PollTick,     \* WINDOW_POLL_TICK, in units of time
  ReadAge,      \* ReadAge[k]: ages an update of k may have as it is queued
  MaxReadAge,   \* MaxReadAge[k]: bound on those ages
  OnChainStaleness,   \* the oldest price the on-chain program accepts
  MaxUpdates,   \* BOUND of the model: updates per provider
  None          \* Option::None

DispatcherAssumption ==
  /\ Required \in [Pool -> SUBSET Provider]
  /\ \A p \in Pool : Required[p] # {}
  /\ Capacity \in Nat \ {0}
  /\ Window \in Nat \ {0}
  /\ PollTick \in Nat \ {0}
  /\ MaxReadAge \in [Provider -> Int]
  /\ ReadAge \in [Provider -> SUBSET Int]
  /\ \A k \in Provider : \A a \in ReadAge[k] : a <= MaxReadAge[k]
  /\ OnChainStaleness \in Int
  /\ MaxUpdates \in Nat
  /\ None \notin Int
  /\ None \notin [seq : Nat, age : Int]

ASSUME DispatcherAssumption

VARIABLES
  channel,      \* update_rx: the queued updates, oldest first
  senders,      \* the pollers that still hold a Sender
  pending,      \* pending[p][k]: the batch of k that pool p has collected
  waited,       \* waited[p]: first_arrival_at.elapsed(), None without window
  phase,        \* where the main task is: drain, scan, sleep or exited
  unscanned,    \* the pools this iteration's scan has still to visit
  timer,        \* what is left of the sleep
  sent,         \* sent[k]: updates k has queued so far
  fired,        \* fired[p][k]: newest update of k in a snapshot of p
  idle          \* history: time since p last fired, counted up to Window

vars == <<channel, senders, pending, waited, phase, unscanned, timer, sent, fired, idle>>

Batch == [seq : Nat, age : Int]
Message == [kind : Provider, seq : Nat, age : Int]
Nothing == [k \in Provider |-> None]

----------------------------------------------------------------------------
(* PerPoolPending.                                                         *)

Held(b) == {k \in Provider : b[k] # None}

(* Variant with a mistake: the first batch of a window wins.               *)
IngestFirst(b, m) ==
  IF b[m.kind] # None THEN b
  ELSE [b EXCEPT ![m.kind] = [seq |-> m.seq, age |-> m.age]]

Ingest(b, m) == [b EXCEPT ![m.kind] = [seq |-> m.seq, age |-> m.age]]

Opened(w) == IF w = None THEN 0 ELSE w

IsComplete(p) == \A k \in Required[p] : pending[p][k] # None

(* Variant with a mistake: elapsed() > window.                             *)
IsWindowPast(p) == waited[p] # None /\ waited[p] > Window

IsWindowExpired(p) == waited[p] # None /\ waited[p] >= Window

HasAnything(p) == Held(pending[p]) # {}

(* Variant with a mistake: first_arrival_at is not reset.                  *)
TakeKeepingWindow(p) ==
  /\ fired' = [fired EXCEPT ![p] =
       [k \in Provider |-> IF pending[p][k] = None THEN @[k] ELSE pending[p][k].seq]]
  /\ pending' = [pending EXCEPT ![p] = Nothing]
  /\ idle' = [idle EXCEPT ![p] = 0]
  /\ UNCHANGED waited

(* Variant with a mistake: the batches are cloned, not taken.              *)
TakeCloning(p) ==
  /\ fired' = [fired EXCEPT ![p] =
       [k \in Provider |-> IF pending[p][k] = None THEN @[k] ELSE pending[p][k].seq]]
  /\ waited' = [waited EXCEPT ![p] = None]
  /\ idle' = [idle EXCEPT ![p] = 0]
  /\ UNCHANGED pending

(* take_snapshot: the batches leave the pool and the window is reset.      *)
TakeSnapshot(p) ==
  /\ fired' = [fired EXCEPT ![p] =
       [k \in Provider |-> IF pending[p][k] = None THEN @[k] ELSE pending[p][k].seq]]
  /\ pending' = [pending EXCEPT ![p] = Nothing]
  /\ waited' = [waited EXCEPT ![p] = None]
  /\ idle' = [idle EXCEPT ![p] = 0]

----------------------------------------------------------------------------
(* The pollers, seen from the channel.                                     *)

(* Variant with a mistake: an unbounded channel.                           *)
SendUnbounded(k, a) ==
  /\ k \in senders
  /\ sent[k] < MaxUpdates
  /\ channel' = Append(channel, [kind |-> k, seq |-> sent[k] + 1, age |-> a])
  /\ sent' = [sent EXCEPT ![k] = @ + 1]
  /\ UNCHANGED <<senders, pending, waited, phase, unscanned, timer, fired, idle>>

Send(k, a) ==
  /\ k \in senders
  /\ sent[k] < MaxUpdates
  /\ Len(channel) < Capacity
  /\ channel' = Append(channel, [kind |-> k, seq |-> sent[k] + 1, age |-> a])
  /\ sent' = [sent EXCEPT ![k] = @ + 1]
  /\ UNCHANGED <<senders, pending, waited, phase, unscanned, timer, fired, idle>>

(* A poller never returns while the channel is open, but a panic in its    *)
(* cycle (a column that does not decode) unwinds the task and drops its    *)
(* Sender.                                                                 *)
PollerDies(k) ==
  /\ k \in senders
  /\ senders' = senders \ {k}
  /\ UNCHANGED <<channel, pending, waited, phase, unscanned, timer, sent, fired, idle>>

----------------------------------------------------------------------------
(* The main task.                                                          *)

(* Variant with a mistake: the fan-out ignores required_providers.         *)
ReceiveByAll ==
  /\ phase = "drain"
  /\ channel # <<>>
  /\ pending' = [p \in Pool |-> Ingest(pending[p], Head(channel))]
  /\ waited' = [p \in Pool |-> Opened(waited[p])]
  /\ channel' = Tail(channel)
  /\ UNCHANGED <<senders, phase, unscanned, timer, sent, fired, idle>>

Receive ==
  /\ phase = "drain"
  /\ channel # <<>>
  /\ LET m == Head(channel)
         wants(p) == m.kind \in Required[p]
     IN /\ pending' = [p \in Pool |->
                        IF wants(p) THEN Ingest(pending[p], m) ELSE pending[p]]
        /\ waited' = [p \in Pool |->
                        IF wants(p) THEN Opened(waited[p]) ELSE waited[p]]
  /\ channel' = Tail(channel)
  /\ UNCHANGED <<senders, phase, unscanned, timer, sent, fired, idle>>

(* Variant with a mistake: one iteration takes some updates, not all.      *)
DrainSome ==
  /\ phase = "drain"
  /\ senders # {}
  /\ phase' = "scan"
  /\ unscanned' = Pool
  /\ UNCHANGED <<channel, senders, pending, waited, timer, sent, fired, idle>>

DrainEmpty ==
  /\ phase = "drain"
  /\ channel = <<>>
  /\ senders # {}
  /\ phase' = "scan"
  /\ unscanned' = Pool
  /\ UNCHANGED <<channel, senders, pending, waited, timer, sent, fired, idle>>

(* try_recv reports Disconnected once the channel is empty and every       *)
(* Sender is gone; main returns an error and the process ends.             *)
Disconnected ==
  /\ phase = "drain"
  /\ channel = <<>>
  /\ senders = {}
  /\ phase' = "exited"
  /\ UNCHANGED <<channel, senders, pending, waited, unscanned, timer, sent, fired, idle>>

(* Variants with a mistake: one of the two fire conditions is missing.     *)
ReadyWhenComplete(p) == IsComplete(p)
ReadyWhenExpired(p) == IsWindowExpired(p) /\ HasAnything(p)

Ready(p) == IsComplete(p) \/ (IsWindowExpired(p) /\ HasAnything(p))

Fire(p) ==
  /\ phase = "scan"
  /\ p \in unscanned
  /\ Ready(p)
  /\ TakeSnapshot(p)
  /\ unscanned' = unscanned \ {p}
  /\ UNCHANGED <<channel, senders, phase, timer, sent>>

Skip(p) ==
  /\ phase = "scan"
  /\ p \in unscanned
  /\ ~Ready(p)
  /\ unscanned' = unscanned \ {p}
  /\ UNCHANGED <<channel, senders, pending, waited, phase, timer, sent, fired, idle>>

StartSleep ==
  /\ phase = "scan"
  /\ unscanned = {}
  /\ phase' = "sleep"
  /\ timer' = PollTick
  /\ UNCHANGED <<channel, senders, pending, waited, unscanned, sent, fired, idle>>

Wake ==
  /\ phase = "sleep"
  /\ timer = 0
  /\ phase' = "drain"
  /\ UNCHANGED <<channel, senders, pending, waited, unscanned, timer, sent, fired, idle>>

Older(b) == IF b = None THEN None ELSE [seq |-> b.seq, age |-> b.age + 1]

OlderMessage(m) == [kind |-> m.kind, seq |-> m.seq, age |-> m.age + 1]

(* One unit of the sleep: everything queued or pending grows older.        *)
Pass ==
  /\ phase = "sleep"
  /\ timer > 0
  /\ timer' = timer - 1
  /\ channel' = [i \in DOMAIN channel |-> OlderMessage(channel[i])]
  /\ pending' = [p \in Pool |-> [k \in Provider |-> Older(pending[p][k])]]
  /\ waited' = [p \in Pool |-> IF waited[p] = None THEN None ELSE waited[p] + 1]
  /\ idle' = [p \in Pool |-> IF idle[p] < Window THEN idle[p] + 1 ELSE idle[p]]
  /\ UNCHANGED <<senders, phase, unscanned, sent, fired>>

Terminated == phase = "exited" /\ UNCHANGED vars

----------------------------------------------------------------------------

Init ==
  /\ channel = <<>>
  /\ senders = Provider
  /\ pending = [p \in Pool |-> Nothing]
  /\ waited = [p \in Pool |-> None]
  /\ phase = "drain"
  /\ unscanned = {}
  /\ timer = 0
  /\ sent = [k \in Provider |-> 0]
  /\ fired = [p \in Pool |-> [k \in Provider |-> 0]]
  /\ idle = [p \in Pool |-> Window]

MainTask ==
  \/ Receive
  \/ DrainEmpty
  \/ Disconnected
  \/ \E p \in Pool : Fire(p) \/ Skip(p)
  \/ StartSleep
  \/ Wake
  \/ Pass

Next ==
  \/ \E k \in Provider : \E a \in ReadAge[k] : Send(k, a)
  \/ \E k \in Provider : PollerDies(k)
  \/ MainTask
  \/ Terminated

(* The main task is one tokio task that never waits for anything but its   *)
(* own sleep, so it is always eventually scheduled.  Nothing makes a       *)
(* provider publish, and nothing makes a poller die.                       *)
Spec == Init /\ [][Next]_vars
FairSpec == Spec /\ WF_vars(MainTask)

----------------------------------------------------------------------------
(* Properties.                                                             *)

(* Every variable has its type; the channel never holds more updates than  *)
(* its capacity, whatever the interleaving of pollers and main task.       *)
TypeOK ==
  /\ channel \in Seq(Message) /\ Len(channel) <= Capacity
  /\ senders \subseteq Provider
  /\ pending \in [Pool -> [Provider -> Batch \cup {None}]]
  /\ waited \in [Pool -> Nat \cup {None}]
  /\ phase \in {"drain", "scan", "sleep", "exited"}
  /\ unscanned \subseteq Pool
  /\ timer \in 0 .. PollTick
  /\ sent \in [Provider -> 0 .. MaxUpdates]
  /\ fired \in [Pool -> [Provider -> Nat]]
  /\ idle \in [Pool -> 0 .. Window]

(* client.rs:69-72: a collection window never stays open longer than       *)
(* COLLECTION_WINDOW plus one tick, however arrivals and ticks interleave. *)
WindowBound ==
  \A p \in Pool : waited[p] # None => waited[p] < Window + PollTick

(* A window is open exactly while a batch is pending: no pool is left with *)
(* a batch that no window will ever flush, and no window expires empty.    *)
WindowOpenIffPending ==
  \A p \in Pool : (waited[p] # None) <=> HasAnything(p)

(* How old a pending batch can be: its age when queued, at most one tick   *)
(* in the channel, and the time its pool has been collecting.  A newer     *)
(* batch replaces an older one without reopening the window, so no mix of  *)
(* arrivals makes a batch older than that.                                 *)
AgeBound ==
  \A p \in Pool : \A k \in Provider :
    pending[p][k] # None =>
      pending[p][k].age <= MaxReadAge[k] + PollTick + waited[p]

(* The channel as seen from its age: what was queued during a sleep ages   *)
(* until the next drain, which leaves nothing behind.                      *)
Lag ==
  CASE phase = "sleep" -> PollTick - timer
    [] phase = "drain" -> PollTick
    [] OTHER -> 0

ChannelAge ==
  \A i \in DOMAIN channel : channel[i].age <= MaxReadAge[channel[i].kind] + Lag

(* A scan leaves nothing ready behind: no complete pool, no full window.   *)
Scanned ==
  /\ phase = "scan" => \A p \in Pool \ unscanned : ~Ready(p)
  /\ phase = "sleep" =>
       \A p \in Pool :
         /\ ~IsComplete(p)
         /\ waited[p] # None => waited[p] + timer < Window + PollTick

(* A window opens only after the pool last fired.                          *)
WindowAfterFire ==
  \A p \in Pool : waited[p] # None => waited[p] <= idle[p] \/ idle[p] = Window

(* Updates of one provider keep their order from the channel through the   *)
(* pending state to the snapshots, and none of them is taken twice.        *)
ChannelInOrder ==
  /\ \A i \in DOMAIN channel : channel[i].seq <= sent[channel[i].kind]
  /\ \A i, j \in DOMAIN channel :
       i < j /\ channel[i].kind = channel[j].kind => channel[i].seq < channel[j].seq

PoolsInOrder ==
  \A p \in Pool : \A k \in Provider :
    /\ fired[p][k] <= sent[k]
    /\ pending[p][k] # None =>
         /\ k \in Required[p]
         /\ fired[p][k] < pending[p][k].seq
         /\ pending[p][k].seq <= sent[k]
    /\ \A i \in DOMAIN channel : channel[i].kind = k =>
         /\ fired[p][k] < channel[i].seq
         /\ pending[p][k] # None => pending[p][k].seq < channel[i].seq

StreamsInOrder == ChannelInOrder /\ PoolsInOrder

(* The newest update queued for a pool is never lost: it has been fired,   *)
(* is pending, or is still in the channel.                                 *)
NewestKept ==
  \A p \in Pool : \A k \in Required[p] :
    \/ sent[k] = fired[p][k]
    \/ pending[p][k] # None /\ pending[p][k].seq = sent[k]
    \/ \E i \in DOMAIN channel : channel[i].kind = k /\ channel[i].seq = sent[k]

(* The inductive invariant behind the theorems of DispatcherProofs.        *)
IInv ==
  /\ TypeOK
  /\ WindowOpenIffPending
  /\ WindowBound
  /\ Scanned
  /\ WindowAfterFire
  /\ ChannelAge
  /\ AgeBound
  /\ StreamsInOrder
  /\ NewestKept

(* A pool whose providers have all arrived is fired by the scan that       *)
(* follows: it never sits out a sleep.                                     *)
CompleteFiresAtOnce == phase = "sleep" => \A p \in Pool : ~IsComplete(p)

(* A partial snapshot is sent only when the pool has been quiet for a      *)
(* whole window: provider traffic cannot turn a pool that lacks a provider *)
(* into a stream of partial transactions.                                  *)
PartialFiresSpaced ==
  [][\A p \in Pool : Fire(p) /\ ~IsComplete(p) => idle[p] >= Window]_vars

(* pool_config.rs:30-33: a batch that is fired is still within the         *)
(* on-chain staleness, so that the transaction that carries it can land.   *)
FreshWhenFired ==
  [][\A p \in Pool : \A k \in Provider :
       Fire(p) /\ pending[p][k] # None => pending[p][k].age <= OnChainStaleness]_vars

(* The loop implements the abstract feed, which is open until main exits.  *)
Feed == INSTANCE PoolFeed WITH open <- phase # "exited"
FeedSafe == Feed!SafeSpec
FeedSpec == Feed!Spec

(* Every update queued is handed to every pool that requires its provider, *)
(* itself or through a newer one that replaced it, unless main exits.      *)
EveryUpdateFired ==
  \A p \in Pool : \A k \in Required[p] : \A n \in 1 .. MaxUpdates :
    sent[k] >= n ~> (fired[p][k] >= n \/ phase = "exited")
=============================================================================
