------------------------------ MODULE Startup -------------------------------
(***************************************************************************)
(* From the pools config to the running main loop: load_pools_config,      *)
(* aggregate_provider_requirements, validate_custodies_against_chain       *)
(* (src/src/pool_config.rs) and the part of main that quarantines pools    *)
(* and spawns the pollers (src/src/client.rs).                             *)
(*                                                                         *)
(* A pool of the config is its name, its provider list and its two custody *)
(* lists; its account on chain is the two custody arrays with the number   *)
(* of slots in use, and whether the data is long enough to hold them.  The *)
(* chain belongs to someone else: custodies may be added at any moment.    *)
(* The command line is what main reads of it: whether the database         *)
(* settings, the queue key and the cluster are valid, whether a feed map   *)
(* is given, and the entries of the map in use, if it is readable.         *)
(***************************************************************************)
EXTENDS Integers, Sequences, FiniteSets, Lists

CONSTANTS
  Provider,      \* ProviderKind
  Switchboard,   \* the provider whose poller needs a feed map
  Configs,       \* contents the config file may have: sequences of pools
  Accounts,      \* states a pool's account may be in
  Default,       \* Pubkey::default(), an unused slot
  Args,          \* command lines, with the feed map they lead to
  FirstId,       \* SWITCHBOARD_RANGE.0
  LastId,        \* SWITCHBOARD_RANGE.1
  NoHash         \* a feed hash that does not decode

VARIABLES
  pc,            \* load, validate, retain, spawn, running or failed
  args,          \* the command line
  config,        \* the parsed config file
  chain,         \* chain[i]: the account of the i-th pool
  next,          \* the pool to validate next
  seen,          \* history: seen[i]: the account validation read, if any
  quarantined,   \* the names of the pools that failed validation
  pools,         \* the pools (by position) that are served
  required,      \* required_providers, over all pools of the config
  spawned,       \* the providers whose poller runs
  feedMap        \* the feed map of the Switchboard poller

vars == <<pc, args, config, chain, next, seen, quarantined, pools, required, spawned, feedMap>>

StartupAssumption ==
  /\ Switchboard \in Provider
  /\ FirstId \in Nat /\ LastId \in Nat
  /\ \A c \in Configs :
       /\ IsList(c)
       /\ \A i \in DOMAIN c : IsList(c[i].custodies) /\ IsList(c[i].synthetics)
  /\ \A account \in Accounts : account.readable =>
       /\ IsList(account.slots) /\ IsList(account.syntheticSlots)
       /\ {account.count, account.syntheticCount} \subseteq Nat
  /\ \A a \in Args : IsList(a.file) /\ \A e \in Entries(a.file) : e.id \in Nat

ASSUME StartupAssumption

Unread == [readable |-> FALSE]

----------------------------------------------------------------------------
(* Loading.                                                                *)

(* from_config: every provider known, and at least one.                    *)
Loads(p) == p.providers # {} /\ p.providers \subseteq Provider

(* Variant with a mistake: the providers every pool asks for.              *)
AggregateCommon ==
  {k \in Provider : \A i \in DOMAIN config : k \in config[i].providers}

Aggregate == UNION {config[i].providers : i \in DOMAIN config}

Load ==
  /\ pc = "load"
  /\ config # <<>>
  /\ \A i \in DOMAIN config : Loads(config[i])
  /\ pools' = DOMAIN config
  /\ required' = Aggregate
  /\ next' = 1
  /\ pc' = "validate"
  /\ UNCHANGED <<args, config, chain, seen, quarantined, spawned, feedMap>>

LoadFails ==
  /\ pc = "load"
  /\ config = <<>> \/ \E i \in DOMAIN config : ~Loads(config[i])
  /\ pc' = "failed"
  /\ UNCHANGED <<args, config, chain, next, seen, quarantined, pools, required, spawned, feedMap>>

----------------------------------------------------------------------------
(* Validation.                                                             *)

(* The first `count` slots of an array, at most all.                       *)
Used(count, slots) == SubSeq(slots, 1, IF count < Len(slots) THEN count ELSE Len(slots))

(* Variant with a mistake: unused slots are not skipped.                   *)
RegisteredWithUnused(count, slots) == Used(count, slots)

(* The keys in them, less those that are not set.                          *)
Registered(count, slots) == Without(Used(count, slots), {Default})

(* Variant with a mistake: synthetics are compared only if configured.     *)
MatchesConfigured(p, account) ==
  /\ account.readable
  /\ p.custodies = Registered(account.count, account.slots)
  /\ p.synthetics # <<>> =>
       p.synthetics = Registered(account.syntheticCount, account.syntheticSlots)

Matches(p, account) ==
  /\ account.readable
  /\ p.custodies = Registered(account.count, account.slots)
  /\ p.synthetics = Registered(account.syntheticCount, account.syntheticSlots)

(* The primary endpoint answers; the account it returns decides.           *)
Validate ==
  /\ pc = "validate"
  /\ next <= Len(config)
  /\ seen' = [seen EXCEPT ![next] = chain[next]]
  /\ quarantined' = IF Matches(config[next], chain[next]) THEN quarantined
                    ELSE quarantined \cup {config[next].name}
  /\ next' = next + 1
  /\ UNCHANGED <<pc, args, config, chain, pools, required, spawned, feedMap>>

(* The primary endpoint does not answer; no other one is asked.            *)
FetchFails ==
  /\ pc = "validate"
  /\ next <= Len(config)
  /\ quarantined' = quarantined \cup {config[next].name}
  /\ next' = next + 1
  /\ UNCHANGED <<pc, args, config, chain, seen, pools, required, spawned, feedMap>>

Validated ==
  /\ pc = "validate"
  /\ next > Len(config)
  /\ pc' = "retain"
  /\ UNCHANGED <<args, config, chain, next, seen, quarantined, pools, required, spawned, feedMap>>

Kept == {i \in DOMAIN config : config[i].name \notin quarantined}

(* Variant with a mistake: one bad pool stops the whole service.           *)
RetainAllOrNone ==
  /\ pc = "retain"
  /\ pools' = Kept
  /\ pc' = IF quarantined # {} THEN "failed" ELSE "spawn"
  /\ UNCHANGED <<args, config, chain, next, seen, quarantined, required, spawned, feedMap>>

Retain ==
  /\ pc = "retain"
  /\ pools' = Kept
  /\ pc' = IF Kept = {} THEN "failed" ELSE "spawn"
  /\ UNCHANGED <<args, config, chain, next, seen, quarantined, required, spawned, feedMap>>

----------------------------------------------------------------------------
(* Spawning.                                                               *)

(* Variant with a mistake: a poller per provider, in use or not.           *)
SpawnAny(k) ==
  /\ pc = "spawn"
  /\ k \in Provider \ spawned
  /\ spawned' = spawned \cup {k}
  /\ UNCHANGED <<pc, args, config, chain, next, seen, quarantined, pools, required, feedMap>>

FeedMap == INSTANCE SwitchboardFeedMap

(* The queue key and the map that is asked for: the operator's file, where *)
(* dummies are an error, or the embedded map of a known cluster.           *)
FeedMapLoads ==
  /\ args.queueOk
  /\ args.override \/ args.clusterOk
  /\ args.readable
  /\ FeedMap!Parses(args.file, ~args.override)

Spawn(k) ==
  /\ pc = "spawn"
  /\ args.dbOk
  /\ k \in required \ (spawned \cup {Switchboard})
  /\ spawned' = spawned \cup {k}
  /\ UNCHANGED <<pc, args, config, chain, next, seen, quarantined, pools, required, feedMap>>

(* Switchboard's poller is spawned last, once its feed map has loaded.     *)
SpawnSwitchboard ==
  /\ pc = "spawn"
  /\ args.dbOk
  /\ required \ spawned = {Switchboard}
  /\ FeedMapLoads
  /\ feedMap' = FeedMap!Active(args.file)
  /\ spawned' = required
  /\ UNCHANGED <<pc, args, config, chain, next, seen, quarantined, pools, required>>

(* The database settings are bad, or the feed map does not load: main      *)
(* returns the error, and the tasks spawned so far die with the process.   *)
SetupFails ==
  /\ pc = "spawn"
  /\ \/ ~args.dbOk
     \/ required \ spawned = {Switchboard} /\ ~FeedMapLoads
  /\ pc' = "failed"
  /\ spawned' = {}
  /\ UNCHANGED <<args, config, chain, next, seen, quarantined, pools, required, feedMap>>

(* Variant with a mistake: main waits for every kind of provider.          *)
EnterLoopWithAll ==
  /\ pc = "spawn"
  /\ Provider \subseteq spawned
  /\ pc' = "running"
  /\ UNCHANGED <<args, config, chain, next, seen, quarantined, pools, required, spawned, feedMap>>

EnterLoop ==
  /\ pc = "spawn"
  /\ required \subseteq spawned
  /\ pc' = "running"
  /\ UNCHANGED <<args, config, chain, next, seen, quarantined, pools, required, spawned, feedMap>>

(* Someone changes a pool on chain.                                        *)
ChainChanges(i) ==
  /\ \E account \in Accounts : chain' = [chain EXCEPT ![i] = account]
  /\ UNCHANGED <<pc, args, config, next, seen, quarantined, pools, required, spawned, feedMap>>

----------------------------------------------------------------------------

Init ==
  /\ pc = "load"
  /\ args \in Args
  /\ config \in Configs
  /\ chain \in [DOMAIN config -> Accounts]
  /\ next = 0
  /\ seen = [i \in DOMAIN config |-> Unread]
  /\ quarantined = {}
  /\ pools = {}
  /\ required = {}
  /\ spawned = {}
  /\ feedMap = <<>>

Boot ==
  \/ Load \/ LoadFails
  \/ Validate \/ FetchFails \/ Validated \/ Retain
  \/ (\E k \in Provider : Spawn(k)) \/ SpawnSwitchboard \/ SetupFails \/ EnterLoop

Next == Boot \/ \E i \in DOMAIN config : ChainChanges(i)

(* main runs to its loop or to an error: every await is bounded by the RPC *)
(* client's timeout.                                                       *)
Spec == Init /\ [][Next]_vars
FairSpec == Spec /\ WF_vars(Boot)

----------------------------------------------------------------------------
(* Properties.                                                             *)

TypeOK ==
  /\ pc \in {"load", "validate", "retain", "spawn", "running", "failed"}
  /\ config \in Configs
  /\ chain \in [DOMAIN config -> Accounts]
  /\ next \in 0 .. Len(config) + 1
  /\ seen \in [DOMAIN config -> Accounts \cup {Unread}]
  /\ quarantined \subseteq {config[i].name : i \in DOMAIN config}
  /\ pools \subseteq DOMAIN config
  /\ required \subseteq Provider
  /\ spawned \subseteq required
  /\ args \in Args
  /\ feedMap \in Seq(UNION {Entries(a.file) : a \in Args})

(* keys lists the used slots among the first `count`, each at its place.   *)
ListsSlots(keys, count, slots) ==
  LET used == {i \in DOMAIN slots : i <= count /\ slots[i] # Default}
      rank(i) == Cardinality({j \in used : j <= i})
  IN /\ Len(keys) = Cardinality(used)
     /\ \A i \in used : keys[rank(i)] = slots[i]

Agrees(p, account) ==
  /\ account.readable
  /\ ListsSlots(p.custodies, account.count, account.slots)
  /\ ListsSlots(p.synthetics, account.syntheticCount, account.syntheticSlots)

(* A served pool's custody lists were seen to be those registered on       *)
(* chain, all of them and in slot order, as update_pool_aum needs them;    *)
(* a list the operator forgot to configure is no exception.                *)
ServedPoolsMatched ==
  pc = "running" => \A i \in pools : Agrees(config[i], seen[i])

(* Every provider a served pool waits for has a poller: no pool is         *)
(* condemned to partial snapshots by the quarantine of another one.        *)
ServedPoolsFed ==
  pc = "running" => pools # {} /\ \A i \in pools : config[i].providers \subseteq spawned

(* pool_config.rs:282-284, only the pools that failed validation are       *)
(* quarantined; one that passed is served or startup failed later on.      *)
OnlyFailedQuarantined ==
  pc \in {"spawn", "running"} =>
    \A i \in DOMAIN config \ pools : ~Agrees(config[i], seen[i])

(* pool_config.rs:282-284, quarantine "rather than crash the whole          *)
(* service": startup fails for a config it cannot load, if no pool agrees  *)
(* with the chain, or for what main needs besides pools.  A feed map is    *)
(* needed if any pool of the config requires Switchboard, a quarantined    *)
(* one too, as the providers are counted before (client.rs:224).           *)
FailsOnlyWithCause ==
  pc = "failed" =>
    \/ config = <<>> \/ \E i \in DOMAIN config : ~Loads(config[i])
    \/ \A i \in DOMAIN config : ~Agrees(config[i], seen[i])
    \/ ~args.dbOk
    \/ Switchboard \in Aggregate /\ ~FeedMapLoads

(* switchboard.rs:171-181, the feed map the Switchboard poller submits has *)
(* one entry for each feed it names, in range, with a hash that decodes;   *)
(* it leaves out the dummies of the embedded map and nothing else, and it  *)
(* never comes from an operator's file with a dummy in it.                 *)
FeedMapSound ==
  pc = "running" /\ Switchboard \in spawned =>
    /\ feedMap # <<>>
    /\ \A i, j \in DOMAIN feedMap : feedMap[i].id = feedMap[j].id => i = j
    /\ \A i \in DOMAIN feedMap :
         /\ feedMap[i].id \in FirstId .. LastId
         /\ feedMap[i].hash # NoHash
    /\ {feedMap[i] : i \in DOMAIN feedMap} = {e \in Entries(args.file) : ~e.dummy}
    /\ args.override => feedMap = args.file

(* Startup reaches the main loop or gives up; it never hangs.              *)
Starts == <>(pc \in {"running", "failed"})
=============================================================================
