------------------------------ MODULE MrOracle ------------------------------
(***************************************************************************)
(* The running program from the updates its pollers queue to the chain:    *)
(* the dispatch loop as the feed it implements (PoolFeed), one task per    *)
(* fire that builds a transaction (UpdatePoolAum) and sends it             *)
(* (SubmitCalls, which RpcFallback implements), the priority fee           *)
(* (PriorityFee), the cluster, and the death and restart of the process.   *)
(* Sends are fire-and-forget: any number of them run beside the loop, for  *)
(* the same pool too, and a dead process leaves transactions in flight.    *)
(*                                                                         *)
(* A batch is its provider and its place in the order in which the pollers *)
(* forward batches.  The database outlives the process: the first batch    *)
(* forwarded after a restart is the last one forwarded before, or newer.   *)
(***************************************************************************)
EXTENDS Integers, Sequences, FiniteSets

CONSTANTS
  ChaosLabs, Autonom, Switchboard,   \* ProviderKind
  Pool,           \* the pools that are served
  Required,       \* Required[p]: PoolRuntime.required_providers
  Account,        \* custody accounts
  Custodies,      \* Custodies[p]: PoolRuntime.all_custody_accounts
  ConfiguredCu,   \* ConfiguredCu[p]: cu_limit of the config file, or None
  Tx,             \* the transactions a call may sign, one per blockhash
  Percentile, Sample, NumEndpoints,   \* see PriorityFee
  None,           \* Option::None
  MaxBatches,     \* BOUND: batches forwarded, of all providers
  MaxTasks,       \* BOUND: transactions fired
  FeelessFires,   \* BOUND: fires before the refresher's first tick
  MaxRestarts     \* BOUND: restarts of the process

Kind == {ChaosLabs, Autonom, Switchboard}

Task == 1 .. MaxTasks

Batch == Nat \cup {None}
Job == [pool : Pool, run : Nat, snapshot : [Kind -> Batch], fee : Nat, ended : SUBSET Task]

OracleAssumption ==
  /\ ChaosLabs # Autonom /\ ChaosLabs # Switchboard /\ Autonom # Switchboard
  /\ Required \in [Pool -> SUBSET Kind]
  /\ Custodies \in [Pool -> Seq(Account)]
  /\ Percentile \in 0 .. 10000
  /\ Sample \subseteq Seq(Nat)
  /\ NumEndpoints \in Nat \ {0}
  /\ {MaxBatches, MaxTasks, MaxRestarts, FeelessFires} \subseteq Nat
  /\ None \notin Nat /\ None \notin Tx /\ None \notin Job

ASSUME OracleAssumption

VARIABLES
  sent, fired, open,               \* the feed of this run, see PoolFeed
  acked, outcome, ledger, lost,    \* the calls of all runs, see SubmitCalls
  fee, known,                      \* the priority fee, see PriorityFee
  run,      \* number of the process's run
  base,     \* base[k]: batches of k forwarded before this run's first one
  count,    \* number of tasks spawned so far
  job,      \* job[t]: what task t was given, None before it is spawned
  landed    \* the transactions on chain, in the order they got there

Feed == INSTANCE PoolFeed WITH Provider <- Kind
Calls == INSTANCE SubmitCalls
Fees == INSTANCE PriorityFee
Build == INSTANCE UpdatePoolAum

feedVars == <<sent, fired, open>>
callVars == <<acked, outcome, ledger, lost>>
feeVars == <<fee, known>>
taskVars == <<count, job>>
runVars == <<run, base>>
vars == <<feedVars, callVars, feeVars, taskVars, runVars, landed>>

PoolOf(p) ==
  [name |-> p, custodies |-> Custodies[p],
   cuLimit |-> Build!CuLimit(ConfiguredCu[p], Required[p])]

----------------------------------------------------------------------------
(* The process.                                                            *)

(* Batches of k forwarded so far, in all runs; one forwarded again after a *)
(* restart is the same batch.                                              *)
Forwarded(k) == base[k] + sent[k]

(* Only the providers some pool requires are polled.                       *)
Publish(k) ==
  /\ count < MaxTasks
  /\ \E p \in Pool : k \in Required[p]
  /\ Forwarded(ChaosLabs) + Forwarded(Autonom) + Forwarded(Switchboard) < MaxBatches
  /\ Feed!Publish(k)
  /\ UNCHANGED <<callVars, feeVars, taskVars, runVars, landed>>

(* The tasks whose call has returned, or died with its process.            *)
Ended == {u \in Task : outcome[u] \notin {"idle", "running"}}

(* The batches of the providers in S, as the feed has handed them to p.    *)
Snapshot(p, S) == [k \in Kind |-> IF k \in S THEN base[k] + fired'[p][k] ELSE None]

(* A pool fires: its snapshot leaves the pending state, the shared fee is  *)
(* read, and a task of its own takes both.  An empty snapshot is not sent. *)
Fire(p, S) ==
  /\ count < MaxTasks
  /\ Feed!Deliver(p, S)
  /\ count' = count + 1
  /\ job' = [job EXCEPT ![count + 1] =
       [pool |-> p, run |-> run, snapshot |-> Snapshot(p, S), fee |-> fee,
        ended |-> Ended]]
  /\ IF Build!IsEmpty(Snapshot(p, S)) THEN UNCHANGED callVars ELSE Calls!Start(count + 1)
  /\ UNCHANGED <<feeVars, runVars, landed>>

(* A step of a running call.                                               *)
CallStep(t) ==
  /\ (\E h \in Tx : Calls!Take(t, h) \/ Calls!Ack(t, h)) \/ Calls!Return(t)
  /\ UNCHANGED <<feedVars, feeVars, taskVars, runVars, landed>>

(* A tick of the refresher.  BOUND: only the first run gets answers, from  *)
(* FeelessFires on, so that a later one fires with the fee it starts with. *)
FeeStep ==
  /\ FeelessFires <= count /\ count < MaxTasks
  /\ run = 1
  /\ Fees!Next
  /\ UNCHANGED <<feedVars, callVars, taskVars, runVars, landed>>

(* Variant with a mistake: a poller has a latest batch before its first.   *)
RestartRepeating ==
  /\ run <= MaxRestarts
  /\ count < MaxTasks
  /\ run' = run + 1
  /\ base' = [k \in Kind |-> Forwarded(k) - 1]
  /\ sent' = [k \in Kind |-> 0]
  /\ fired' = [p \in Pool |-> [k \in Kind |-> 0]]
  /\ fee' = 0
  /\ known' = <<>>
  /\ Calls!Die
  /\ UNCHANGED <<open, taskVars, landed>>

(* main returns or the process is killed, every task dies with it, and it  *)
(* is started again.  It knows nothing of the run before: each poller may  *)
(* forward the latest batch once more.                                     *)
Restart ==
  /\ run <= MaxRestarts
  /\ count < MaxTasks
  /\ run' = run + 1
  /\ \E again \in SUBSET {k \in Kind : Forwarded(k) > 0} :
       base' = [k \in Kind |-> Forwarded(k) - (IF k \in again THEN 1 ELSE 0)]
  /\ sent' = [k \in Kind |-> 0]
  /\ fired' = [p \in Pool |-> [k \in Kind |-> 0]]
  /\ fee' = 0
  /\ known' = <<>>
  /\ Calls!Die
  /\ UNCHANGED <<open, taskVars, landed>>

(* The cluster.                                                            *)
Lands(t, h) ==
  /\ Calls!Settle(t, h, "landed")
  /\ landed' = Append(landed, [task |-> t, tx |-> h])
  /\ UNCHANGED <<feedVars, feeVars, taskVars, runVars>>

(* A transaction that expires, or that fails without anyone asking for it, *)
(* is one that never settles: to everyone else it looks the same.          *)
Fails(t, h) ==
  /\ acked[t] = h
  /\ Calls!Settle(t, h, "failed")
  /\ UNCHANGED <<feedVars, feeVars, taskVars, runVars, landed>>

----------------------------------------------------------------------------

Init ==
  /\ Feed!Init
  /\ Calls!Init /\ outcome = [t \in Task |-> "idle"]
  /\ Fees!Init
  /\ run = 1
  /\ base = [k \in Kind |-> 0]
  /\ count = 0
  /\ job = [t \in Task |-> None]
  /\ landed = <<>>

Next ==
  \/ \E k \in Kind : Publish(k)
  \/ \E p \in Pool : \E S \in SUBSET Required[p] : Fire(p, S)
  \/ \E t \in Task : CallStep(t)
  \/ FeeStep
  \/ Restart
  \/ \E t \in Task, h \in Tx : Lands(t, h) \/ Fails(t, h)

Spec == Init /\ [][Next]_vars

----------------------------------------------------------------------------
(* Properties.                                                             *)

TypeOK ==
  /\ sent \in [Kind -> Nat]
  /\ Forwarded(ChaosLabs) + Forwarded(Autonom) + Forwarded(Switchboard) <= MaxBatches
  /\ fired \in [Pool -> [Kind -> Nat]]
  /\ acked \in [Task -> Tx \cup {None}]
  /\ outcome \in [Task -> Calls!Outcome]
  /\ ledger \in [Task -> [Tx -> Calls!Fate]]
  /\ lost \in [Task -> SUBSET Tx]
  /\ open \in BOOLEAN
  /\ fee \in Nat
  /\ known \in Seq(Nat)
  /\ run \in 1 .. MaxRestarts + 1
  /\ base \in [Kind -> Nat]
  /\ count \in 0 .. MaxTasks
  /\ job \in [Task -> Job \cup {None}]
  /\ \A t \in Task : job[t] # None <=> t <= count
  /\ landed \in Seq([task : 1 .. count, tx : Tx])

(* Two tasks that carry one batch to the same pool.                        *)
SameBatch(t, u) ==
  /\ job[t].pool = job[u].pool
  /\ \E k \in Kind : job[t].snapshot[k] # None /\ job[t].snapshot[k] = job[u].snapshot[k]

(* A batch reaches a pool on chain twice only across a restart, which      *)
(* forwards the latest batch again, or by one call of which a node took a  *)
(* transaction without answering (client.rs:395, rpc_fallback.rs:88-92).   *)
NoUpdateTwice ==
  \A i, j \in DOMAIN landed :
    LET t == landed[i].task
        u == landed[j].task
    IN i < j /\ SameBatch(t, u) =>
         \/ job[t].run # job[u].run
         \/ t = u /\ \E h \in {landed[i].tx, landed[j].tx} : h \in lost[t]

(* Sends overtake each other (client.rs:407-414), but no transaction of a  *)
(* task whose call had ended gets on chain after one of a task that fired  *)
(* since, with these exceptions: one whose answer was lost, and the one    *)
(* that was acknowledged if the call ended without knowing its fate, best  *)
(* effort (rpc_fallback.rs:217-228) or killed with its process.            *)
NewerStays ==
  \A i, j \in DOMAIN landed :
    LET t == landed[j].task IN
      i < j /\ t \in job[landed[i].task].ended =>
        \/ landed[j].tx \in lost[t]
        \/ landed[j].tx = acked[t] /\ outcome[t] \in {"besteffort", "killed"}

Transaction(t) == Build!Instructions(PoolOf(job[t].pool), job[t].snapshot, job[t].fee)

(* What a call that ended confirmed was asked to deliver is on chain: the  *)
(* transaction it knows has landed, and the program finds every batch of   *)
(* the snapshot in it, if the sidecar's instructions were made for index   *)
(* 2.  Only this end makes it right to have dropped the pending batches    *)
(* before the send (pool_config.rs:132-141); the log tells it from best    *)
(* effort, the caller gets Ok(sig) for both (rpc_fallback.rs:217-228).     *)
ConfirmedApplied ==
  \A t \in Task : outcome[t] = "confirmed" =>
    /\ \E i \in DOMAIN landed : landed[i] = [task |-> t, tx |-> acked[t]]
    /\ Build!Reads(Transaction(t), 2) = job[t].snapshot

(* Whatever mix of providers a snapshot has, the on-chain program reads it *)
(* back from the transaction: the signed batches, the custodies in the     *)
(* pool's order, the fee, and the quote if the poller let the sidecar      *)
(* through (switchboard.rs:358-379) because of the index that it stated.   *)
(* A sidecar that states none gets through too; if it made its             *)
(* instructions for another position the program finds no quote, never a   *)
(* wrong one.  There is room for the precompile if it is needed and the    *)
(* operator has not set a limit.                                           *)
TransactionsFaithful ==
  \A t \in 1 .. count :
    LET ixs == Transaction(t)
        p == job[t].pool
        s == job[t].snapshot
    IN /\ \A k \in Kind \ {Switchboard} : Build!ReadBatch(ixs, k) = s[k]
       /\ \A at \in Build!Position : \A idx \in Build!Stated(at) : Build!AcceptedIdx(idx) =>
            Build!ReadQuote(ixs, at) = IF idx = None /\ at # 2 THEN None ELSE s[Switchboard]
       /\ Build!ReadCustodies(ixs) = Custodies[p]
       /\ Build!Price(job[t].fee) = ixs[1]
       /\ ConfiguredCu[p] = None /\ s[Switchboard] # None =>
            ixs[2].value >= Build!DEFAULT_CU_LIMIT_WITH_SWITCHBOARD

(* README.md:164, the fee is the percentile of the last sample that was    *)
(* answered, through failing endpoints and empty answers; before the first *)
(* one it is 0.                                                            *)
FeeOfLastSample ==
  IF known = <<>> THEN fee = 0 ELSE Fees!IsPercentile(fee, known, Percentile)
=============================================================================
