---------------------------- MODULE StartupProofs ----------------------------
(***************************************************************************)
(* Proofs about Startup, for any configs, accounts and command lines, and  *)
(* with a chain that changes while the pools are validated.                *)
(*                                                                         *)
(* Judged says what the quarantine means while validation goes on: every   *)
(* pool before `next` that is not in it matched the account that was read, *)
(* and every name in it belongs to such a pool that did not.  Stages says  *)
(* what each step leaves to the later ones.                                *)
(***************************************************************************)
EXTENDS Startup, ListsProofs, TLAPS

Loaded == pc \in {"validate", "retain", "spawn", "running"}

Shape ==
  /\ pc \in {"load", "validate", "retain", "spawn", "running", "failed"}
  /\ Len(config) \in Nat /\ DOMAIN config = 1 .. Len(config)
  /\ DOMAIN seen = DOMAIN config
  /\ Loaded => next \in Nat \ {0}

(* The pools that have been validated.                                     *)
Past == {i \in DOMAIN config : i < next}

Passed(i) == Matches(config[i], seen[i])

Judged ==
  /\ \A i \in Past : config[i].name \notin quarantined => Passed(i)
  /\ \A name \in quarantined : \E i \in Past : config[i].name = name /\ ~Passed(i)
  /\ \A i \in DOMAIN config \ Past : seen[i] = Unread

Fresh ==
  /\ quarantined = {}
  /\ \A i \in DOMAIN config : seen[i] = Unread

Stages ==
  /\ pc = "load" => Fresh
  /\ Loaded => Judged /\ required = Aggregate
  /\ pc \in {"retain", "spawn", "running"} => Past = DOMAIN config
  /\ pc \in {"spawn", "running"} => pools = Kept /\ pools # {}
  /\ pc = "running" => required \subseteq spawned

BootInv == Shape /\ Stages

----------------------------------------------------------------------------
(* The judgement.                                                          *)

LEMMA UnreadNeverMatches == \A p : ~Matches(p, Unread)
  BY DEF Matches, Unread

(* Steps that leave the books of the validation alone judge nobody.        *)
LEMMA JudgementStays ==
  ASSUME Judged, UNCHANGED <<config, next, seen, quarantined>>
  PROVE  Judged' /\ Past' = Past /\ Kept' = Kept /\ Aggregate' = Aggregate
<1>1. Past' = Past
  BY DEF Past
<1>2. \A i : Passed(i)' <=> Passed(i)
  BY DEF Passed
<1>3. Kept' = Kept /\ Aggregate' = Aggregate
  BY DEF Kept, Aggregate
<1> QED
  BY <1>1, <1>2, <1>3 DEF Judged

(* Before the first pool is validated, no one is judged.                   *)
LEMMA LoadStep == ASSUME BootInv, Load PROVE BootInv'
<1>1. /\ pc = "load" /\ pc' = "validate" /\ next' = 1 /\ required' = Aggregate
      /\ UNCHANGED <<config, seen, quarantined>>
  BY DEF Load
<1>2. Shape'
  BY <1>1 DEF BootInv, Shape, Loaded
<1>3. Past' = {}
  BY <1>1 DEF BootInv, Shape, Past
<1>4. Fresh
  BY <1>1 DEF BootInv, Stages
<1>5. Judged'
  BY <1>1, <1>3, <1>4 DEF Judged, Fresh
<1>6. required' = Aggregate'
  BY <1>1 DEF Aggregate
<1> QED
  BY <1>1, <1>2, <1>5, <1>6 DEF BootInv, Stages

(* One pool more has been judged: by the account read, or without one.     *)
LEMMA ValidationStep == ASSUME BootInv, Validate \/ FetchFails PROVE BootInv'
<1>1. /\ pc = "validate" /\ pc' = "validate" /\ next <= Len(config) /\ next' = next + 1
      /\ UNCHANGED <<config, required>>
  BY DEF Validate, FetchFails
<1>2. /\ next \in Nat \ {0} /\ DOMAIN config = 1 .. Len(config) /\ Len(config) \in Nat
      /\ DOMAIN seen = DOMAIN config
      /\ Judged /\ required = Aggregate
  BY <1>1 DEF BootInv, Shape, Stages, Loaded
<1>3. next \in DOMAIN config /\ next \notin Past
  BY <1>1, <1>2 DEF Past
<1>4. Past' = Past \cup {next}
  BY <1>1, <1>2, <1>3 DEF Past
<1>5. /\ DOMAIN seen' = DOMAIN seen
      /\ \A i \in DOMAIN seen : i # next => seen'[i] = seen[i]
  BY DEF Validate, FetchFails
<1>6. \A i \in Past : Passed(i)' <=> Passed(i)
  <2> SUFFICES ASSUME NEW i \in Past PROVE Passed(i)' <=> Passed(i)
    OBVIOUS
  <2>1. config'[i] = config[i] /\ seen'[i] = seen[i]
    BY <1>1, <1>2, <1>3, <1>5 DEF Past
  <2> QED
    BY <2>1 DEF Passed
<1>7. PICK n : n = next
  OBVIOUS
<1>8. quarantined' = IF Passed(n)' THEN quarantined
                     ELSE quarantined \cup {config[n].name}
  <2>1. CASE Validate
    <3>1. seen'[next] = chain[next] /\ config' = config
      BY <2>1, <1>2, <1>3 DEF Validate
    <3> QED
      BY <1>7, <2>1, <3>1 DEF Validate, Passed
  <2>2. CASE FetchFails
    <3>1. seen[next] = Unread
      BY <1>2, <1>3 DEF Judged
    <3>2. seen' = seen /\ config' = config /\ quarantined' = quarantined \cup {config[next].name}
      BY <2>2 DEF FetchFails
    <3> QED
      BY <1>7, <3>1, <3>2, UnreadNeverMatches DEF Passed
  <2> QED
    BY <2>1, <2>2
<1>9. \A i \in Past' : config'[i].name \notin quarantined' => Passed(i)'
  BY <1>1, <1>2, <1>4, <1>6, <1>7, <1>8 DEF Judged
<1>10. \A name \in quarantined' : \E i \in Past' : config'[i].name = name /\ ~Passed(i)'
  <2> SUFFICES ASSUME NEW name \in quarantined'
               PROVE  \E i \in Past' : config'[i].name = name /\ ~Passed(i)'
    OBVIOUS
  <2>1. CASE name \in quarantined
    <3>1. PICK i \in Past : config[i].name = name /\ ~Passed(i)
      BY <2>1, <1>2 DEF Judged
    <3> QED
      BY <3>1, <1>1, <1>4, <1>6
  <2>2. CASE name \notin quarantined
    BY <2>2, <1>1, <1>4, <1>7, <1>8
  <2> QED
    BY <2>1, <2>2
<1>11. \A i \in DOMAIN config' \ Past' : seen'[i] = Unread
  BY <1>1, <1>2, <1>4, <1>5 DEF Judged
<1>12. Judged'
  BY <1>9, <1>10, <1>11 DEF Judged
<1>13. Shape'
  BY <1>1, <1>2, <1>5 DEF Shape, Loaded
<1>14. required' = Aggregate'
  BY <1>1, <1>2 DEF Aggregate
<1> QED
  BY <1>1, <1>12, <1>13, <1>14 DEF BootInv, Stages

(* The validation ends with every pool judged, and those kept are served.  *)
LEMMA RetainStep == ASSUME BootInv, Validated \/ Retain PROVE BootInv'
<1>1. UNCHANGED <<config, next, seen, quarantined, required>> /\ Loaded /\ pc' # "running"
  BY DEF Validated, Retain, Loaded
<1>2. Judged /\ required = Aggregate /\ next \in Nat \ {0}
  BY <1>1 DEF BootInv, Shape, Stages
<1>3. Judged' /\ Past' = Past /\ Kept' = Kept /\ Aggregate' = Aggregate
  BY <1>1, <1>2, JudgementStays
<1>4. Shape'
  BY <1>1 DEF BootInv, Shape, Loaded, Validated, Retain
<1>5. Past = DOMAIN config
  <2>1. CASE Validated
    BY <2>1, <1>2 DEF Validated, Past, BootInv, Shape
  <2>2. CASE Retain
    BY <2>2 DEF Retain, BootInv, Stages
  <2> QED
    BY <2>1, <2>2
<1>6. pc' = "spawn" => pools' = Kept /\ Kept # {}
  BY DEF Validated, Retain
<1>7. pc' # "load"
  BY DEF Validated, Retain
<1> QED
  BY <1>1, <1>2, <1>3, <1>4, <1>5, <1>6, <1>7 DEF BootInv, Stages

(* Spawning adds pollers; the loop is entered with all that are required.  *)
LEMMA SpawnStep ==
  ASSUME BootInv, (\E k \in Provider : Spawn(k)) \/ SpawnSwitchboard \/ EnterLoop
  PROVE  BootInv'
<1>1. /\ UNCHANGED <<config, next, seen, quarantined, required, pools>>
      /\ pc = "spawn" /\ pc' \in {"spawn", "running"}
  BY DEF Spawn, SpawnSwitchboard, EnterLoop
<1>2. /\ Judged /\ required = Aggregate /\ Past = DOMAIN config
      /\ pools = Kept /\ pools # {} /\ Shape
  BY <1>1 DEF BootInv, Stages, Loaded
<1>3. Judged' /\ Past' = Past /\ Kept' = Kept /\ Aggregate' = Aggregate
  BY <1>1, <1>2, JudgementStays
<1>4. Shape'
  BY <1>1, <1>2 DEF Shape, Loaded
<1>5. pc' = "running" => required' \subseteq spawned'
  BY <1>1 DEF Spawn, SpawnSwitchboard, EnterLoop
<1> QED
  BY <1>1, <1>2, <1>3, <1>4, <1>5 DEF BootInv, Stages

(* A failed startup promises nothing.                                      *)
LEMMA FailureStep == ASSUME BootInv, LoadFails \/ SetupFails PROVE BootInv'
<1>1. UNCHANGED <<config, next, seen>> /\ pc' = "failed"
  BY DEF LoadFails, SetupFails
<1> QED
  BY <1>1 DEF BootInv, Shape, Stages, Loaded

(* What happens on chain, or not at all, changes nothing that was judged.  *)
LEMMA ChainStep ==
  ASSUME BootInv,
         UNCHANGED <<pc, config, next, seen, quarantined, pools, required, spawned>>
  PROVE  BootInv'
<1>1. Shape' /\ (Loaded' <=> Loaded)
  BY DEF BootInv, Shape, Loaded
<1>2. CASE Loaded
  <2>1. Judged' /\ Past' = Past /\ Kept' = Kept /\ Aggregate' = Aggregate
    BY <1>2, JudgementStays DEF BootInv, Stages
  <2> QED
    BY <1>1, <1>2, <2>1 DEF BootInv, Stages, Fresh
<1>3. CASE ~Loaded
  BY <1>1, <1>3 DEF BootInv, Stages, Fresh, Loaded
<1> QED
  BY <1>2, <1>3

LEMMA Booting == Spec => []BootInv
<1>1. Init => BootInv
  <2> SUFFICES ASSUME Init PROVE BootInv
    OBVIOUS
  <2>1. Len(config) \in Nat /\ DOMAIN config = 1 .. Len(config)
    BY StartupAssumption DEF Init, StartupAssumption
  <2>2. seen = [i \in DOMAIN config |-> Unread] /\ pc = "load" /\ quarantined = {}
    BY DEF Init
  <2> QED
    BY <2>1, <2>2 DEF BootInv, Shape, Stages, Fresh, Loaded
<1>2. BootInv /\ [Next]_vars => BootInv'
  <2> SUFFICES ASSUME BootInv, [Next]_vars PROVE BootInv'
    OBVIOUS
  <2>1. CASE Load
    BY <2>1, LoadStep
  <2>2. CASE Validate \/ FetchFails
    BY <2>2, ValidationStep
  <2>3. CASE Validated \/ Retain
    BY <2>3, RetainStep
  <2>4. CASE (\E k \in Provider : Spawn(k)) \/ SpawnSwitchboard \/ EnterLoop
    BY <2>4, SpawnStep
  <2>5. CASE LoadFails \/ SetupFails
    BY <2>5, FailureStep
  <2>6. CASE (\E i \in DOMAIN config : ChainChanges(i)) \/ UNCHANGED vars
    <3>1. UNCHANGED <<pc, config, next, seen, quarantined, pools, required, spawned>>
      BY <2>6 DEF ChainChanges, vars
    <3> QED
      BY <3>1, ChainStep
  <2> QED
    BY <2>1, <2>2, <2>3, <2>4, <2>5, <2>6 DEF Next, Boot
<1> QED
  BY <1>1, <1>2, PTL DEF Spec

----------------------------------------------------------------------------
(* What a match means.                                                     *)

(* A list equals what is registered if and only if it lists the slots, as  *)
(* the reference counts them.                                              *)
LEMMA RegisteredListsSlots ==
  ASSUME NEW keys, NEW count \in Nat, NEW slots, IsList(keys), IsList(slots)
  PROVE  keys = Registered(count, slots) <=> ListsSlots(keys, count, slots)
<1> DEFINE unset == {Default}
           used == Used(count, slots)
           places == {i \in DOMAIN slots : i <= count /\ slots[i] # Default}
           rank(i) == Cardinality({j \in places : j <= i})
<1>1. PICK n \in Nat : n = IF count < Len(slots) THEN count ELSE Len(slots)
  BY ListType
<1>2. /\ slots \in Seq(Entries(slots)) /\ DOMAIN slots = 1 .. Len(slots) /\ Len(slots) \in Nat
      /\ n <= Len(slots) /\ n <= count
      /\ \A i \in 1 .. Len(slots) : i <= count => i <= n
  BY <1>1, ListType DEF IsList
<1>3. used = SubSeq(slots, 1, n)
  BY <1>1 DEF Used
<1>4. /\ Len(used) = n /\ DOMAIN used = 1 .. n
      /\ \A i \in 1 .. n : used[i] = slots[i]
  BY <1>2, <1>3
<1>5. IsList(used)
  <2>1. used = [i \in 1 .. n |-> slots[i]]
    BY <1>2, <1>3
  <2>2. \A i \in 1 .. n : slots[i] \in Entries(used)
    BY <1>4 DEF Entries
  <2> HIDE DEF used
  <2> QED
    BY <2>1, <2>2 DEF IsList
<1> HIDE DEF used
<1>6. Picked(used, unset, n) = places
  BY <1>2, <1>4 DEF Picked
<1>7. \A i \in places : Rank(used, unset, i) = rank(i)
  <2> SUFFICES ASSUME NEW i \in places PROVE Picked(used, unset, i) = {j \in places : j <= i}
    BY DEF Rank
  <2> QED
    BY <1>2, <1>4 DEF Picked
<1>8. Rank(used, unset, n) = Cardinality(places)
  BY <1>6 DEF Rank
<1> HIDE DEF places, rank, unset
<1>9. ListsSlots(keys, count, slots) <=>
        Len(keys) = Cardinality(places) /\ \A i \in places : keys[rank(i)] = slots[i]
  BY DEF ListsSlots, places, rank
<1>10. \A i \in places : used[i] = slots[i]
  BY <1>2, <1>4 DEF places
<1>11. Registered(count, slots) = Without(used, unset)
  BY DEF Registered, used, unset
<1>12. ASSUME keys = Registered(count, slots) PROVE ListsSlots(keys, count, slots)
  <2>1. Collects(keys, used, unset, n)
    BY <1>4, <1>5, <1>11, <1>12, WithoutCollects
  <2> QED
    BY <2>1, <1>6, <1>7, <1>8, <1>9, <1>10 DEF Collects
<1>13. ASSUME ListsSlots(keys, count, slots) PROVE keys = Registered(count, slots)
  <2>1. Len(keys) = Rank(used, unset, Len(used))
    BY <1>4, <1>8, <1>9, <1>13
  <2>2. \A i \in Picked(used, unset, Len(used)) : keys[Rank(used, unset, i)] = used[i]
    BY <1>4, <1>6, <1>7, <1>9, <1>10, <1>13
  <2> QED
    BY <2>1, <2>2, <1>5, <1>11, WithoutUnique
<1> QED
  BY <1>12, <1>13

LEMMA MatchesAgrees ==
  ASSUME NEW c \in Configs, NEW i \in DOMAIN c, NEW account \in Accounts \cup {Unread}
  PROVE  Matches(c[i], account) <=> Agrees(c[i], account)
<1>1. CASE account = Unread
  BY <1>1 DEF Matches, Agrees, Unread
<1>2. CASE account \in Accounts
  <2>1. CASE account.readable
    <3>1. /\ IsList(c[i].custodies) /\ IsList(c[i].synthetics)
          /\ IsList(account.slots) /\ IsList(account.syntheticSlots)
          /\ account.count \in Nat /\ account.syntheticCount \in Nat
      BY <1>2, <2>1, StartupAssumption DEF StartupAssumption
    <3> QED
      BY <2>1, <3>1, RegisteredListsSlots DEF Matches, Agrees
  <2>2. CASE ~account.readable
    BY <2>2 DEF Matches, Agrees
  <2> QED
    BY <2>1, <2>2
<1> QED
  BY <1>1, <1>2

----------------------------------------------------------------------------
(* Types, and the feed map.                                                *)

LEMMA ActiveIsWithout ==
  ASSUME NEW file
  PROVE  FeedMap!Active(file) = Without(file, {e \in Entries(file) : e.dummy})
  BY DEF FeedMap!Active, FeedMap!Without, FeedMap!Entries, Without, Entries

LEMMA ActiveListed ==
  ASSUME NEW a \in Args
  PROVE  FeedMap!Active(a.file) \in Seq(UNION {Entries(b.file) : b \in Args})
<1> DEFINE all == UNION {Entries(b.file) : b \in Args}
           active == FeedMap!Active(a.file)
<1>1. IsList(a.file)
  BY StartupAssumption DEF StartupAssumption
<1>2. active \in Seq(Entries(a.file))
  BY <1>1, ActiveIsWithout, WithoutCollects DEF Collects
<1>3. Entries(a.file) \subseteq all
  OBVIOUS
<1> HIDE DEF all, active
<1>4. active \in Seq(all)
  BY <1>2, <1>3
<1> QED
  BY <1>4 DEF all, active

(* The Switchboard poller runs on the map that passed the parser.          *)
Mapped == Switchboard \in spawned => FeedMapLoads /\ feedMap = FeedMap!Active(args.file)

SetupInv ==
  /\ TypeOK
  /\ Mapped
  /\ pc = "load" => spawned = {}
  /\ pc = "validate" => next # 0

(* Steps that leave pollers and feed map alone.                            *)
LEMMA SetupStays ==
  ASSUME SetupInv, UNCHANGED <<args, spawned, feedMap>>
  PROVE  Mapped' /\ feedMap' \in Seq(UNION {Entries(a.file) : a \in Args})
  BY DEF SetupInv, Mapped, FeedMapLoads, TypeOK

LEMMA SetupInit == Init => SetupInv
<1> SUFFICES ASSUME Init PROVE SetupInv
  OBVIOUS
<1>1. config \in Configs /\ Len(config) \in Nat
  BY StartupAssumption, ListType DEF Init, StartupAssumption
<1>2. seen \in [DOMAIN config -> Accounts \cup {Unread}]
  BY DEF Init
<1>3. feedMap \in Seq(UNION {Entries(a.file) : a \in Args})
  BY DEF Init
<1> QED
  BY <1>1, <1>2, <1>3 DEF Init, SetupInv, TypeOK, Mapped

LEMMA SetupStep == SetupInv /\ [Next]_vars => SetupInv'
<1> SUFFICES ASSUME SetupInv, [Next]_vars PROVE SetupInv'
  OBVIOUS
<1> USE DEF SetupInv
<1>0. /\ config \in Configs /\ Len(config) \in Nat /\ DOMAIN config = 1 .. Len(config)
      /\ next \in 0 .. Len(config) + 1
  BY StartupAssumption, ListType DEF TypeOK, StartupAssumption
<1>1. CASE Load
  <2>1. \A i \in DOMAIN config : config[i].providers \subseteq Provider
    BY <1>1 DEF Load, Loads
  <2>2. Aggregate \subseteq Provider
    BY <2>1 DEF Aggregate
  <2> QED
    BY <1>0, <1>1, <2>2, SetupStays DEF Load, TypeOK
<1>2. CASE LoadFails
  BY <1>2, SetupStays DEF LoadFails, TypeOK
<1>3. CASE Validate
  <2>1. next \in DOMAIN config /\ next + 1 \in 0 .. Len(config) + 1
    BY <1>0, <1>3 DEF Validate, TypeOK
  <2>2. seen' \in [DOMAIN config -> Accounts \cup {Unread}]
    BY <1>3, <2>1 DEF Validate, TypeOK
  <2>3. quarantined' \subseteq {config[i].name : i \in DOMAIN config}
    BY <1>3, <2>1 DEF Validate, TypeOK
  <2> QED
    BY <1>3, <2>1, <2>2, <2>3, SetupStays DEF Validate, TypeOK
<1>4. CASE FetchFails
  <2>1. next \in DOMAIN config /\ next + 1 \in 0 .. Len(config) + 1
    BY <1>0, <1>4 DEF FetchFails, TypeOK
  <2>2. quarantined' \subseteq {config[i].name : i \in DOMAIN config}
    BY <1>4, <2>1 DEF FetchFails, TypeOK
  <2> QED
    BY <1>4, <2>1, <2>2, SetupStays DEF FetchFails, TypeOK
<1>5. CASE Validated
  BY <1>5, SetupStays DEF Validated, TypeOK
<1>6. CASE Retain
  BY <1>6, SetupStays DEF Retain, TypeOK, Kept
<1>7. ASSUME NEW k \in Provider, Spawn(k) PROVE SetupInv'
  BY <1>7 DEF Spawn, TypeOK, Mapped, FeedMapLoads
<1>8. CASE SpawnSwitchboard
  <2>1. feedMap' \in Seq(UNION {Entries(a.file) : a \in Args})
    BY <1>8, ActiveListed DEF SpawnSwitchboard, TypeOK
  <2>2. Mapped'
    BY <1>8 DEF SpawnSwitchboard, Mapped, FeedMapLoads
  <2> QED
    BY <1>8, <2>1, <2>2 DEF SpawnSwitchboard, TypeOK
<1>9. CASE SetupFails
  BY <1>9 DEF SetupFails, TypeOK, Mapped
<1>10. CASE EnterLoop
  BY <1>10, SetupStays DEF EnterLoop, TypeOK
<1>11. ASSUME NEW i \in DOMAIN config, ChainChanges(i) PROVE SetupInv'
  BY <1>11, SetupStays DEF ChainChanges, TypeOK
<1>12. CASE UNCHANGED vars
  BY <1>12, SetupStays DEF vars, TypeOK
<1> QED
  BY <1>1, <1>2, <1>3, <1>4, <1>5, <1>6, <1>7, <1>8, <1>9, <1>10, <1>11, <1>12
     DEF Next, Boot

LEMMA SettingUp == Spec => []SetupInv
  BY SetupInit, SetupStep, PTL DEF Spec

----------------------------------------------------------------------------
(* Failure.                                                                *)

(* A startup that failed did so for one of these reasons, and still has it.*)
Cause ==
  \/ config = <<>> \/ \E i \in DOMAIN config : ~Loads(config[i])
  \/ Judged /\ Kept = {}
  \/ ~args.dbOk
  \/ Switchboard \in Aggregate /\ ~FeedMapLoads

FailureInv == pc = "failed" => Cause

LEMMA CauseStays ==
  ASSUME Cause, UNCHANGED <<args, config, next, seen, quarantined>>
  PROVE  Cause'
<1>1. Judged /\ Kept = {} => Judged' /\ Kept' = {}
  BY JudgementStays
<1>2. Aggregate' = Aggregate /\ (FeedMapLoads' <=> FeedMapLoads)
  BY DEF Aggregate, FeedMapLoads
<1> QED
  BY <1>1, <1>2 DEF Cause

LEMMA FailureCaused == BootInv /\ FailureInv /\ [Next]_vars => FailureInv'
<1> SUFFICES ASSUME BootInv, FailureInv, [Next]_vars, pc' = "failed" PROVE Cause'
  BY DEF FailureInv
<1>1. CASE LoadFails
  <2>1. Cause
    BY <1>1 DEF LoadFails, Cause
  <2> QED
    BY <1>1, <2>1, CauseStays DEF LoadFails
<1>2. CASE Retain
  <2>1. Judged /\ Kept = {}
    BY <1>2 DEF Retain, BootInv, Stages, Loaded
  <2>2. Cause
    BY <2>1 DEF Cause
  <2> QED
    BY <1>2, <2>2, CauseStays DEF Retain
<1>3. CASE SetupFails
  <2>1. required = Aggregate
    BY <1>3 DEF SetupFails, BootInv, Stages, Loaded
  <2>2. Cause
    BY <1>3, <2>1 DEF SetupFails, Cause
  <2> QED
    BY <1>3, <2>2, CauseStays DEF SetupFails
<1>4. CASE (\E i \in DOMAIN config : ChainChanges(i)) \/ UNCHANGED vars
  <2>1. UNCHANGED <<pc, args, config, next, seen, quarantined>>
    BY <1>4 DEF ChainChanges, vars
  <2> QED
    BY <2>1, CauseStays DEF FailureInv
<1>5. CASE Load \/ Validate \/ FetchFails \/ Validated \/ EnterLoop
  BY <1>5 DEF Load, Validate, FetchFails, Validated, EnterLoop
<1>6. CASE (\E k \in Provider : Spawn(k)) \/ SpawnSwitchboard
  BY <1>6 DEF Spawn, SpawnSwitchboard
<1> QED
  BY <1>1, <1>2, <1>3, <1>4, <1>5, <1>6 DEF Next, Boot

LEMMA Failing == Spec => []FailureInv
<1>1. Init => FailureInv
  BY DEF Init, FailureInv
<1> QED
  BY <1>1, FailureCaused, Booting, PTL DEF Spec

----------------------------------------------------------------------------
(* Theorems.                                                               *)

(* client.rs:289-346, main enters its loop with a pool to serve and with a *)
(* poller for every provider that a served pool waits for.                 *)
THEOREM PoolsFed == Spec => []ServedPoolsFed
<1>1. BootInv => ServedPoolsFed
  BY DEF BootInv, Stages, ServedPoolsFed, Aggregate, Kept, Loaded
<1> QED
  BY <1>1, Booting, PTL

(* Every variable has its type; a poller is never one that no pool of the  *)
(* config requires, and no name is quarantined that the config has not.    *)
THEOREM Typed == Spec => []TypeOK
<1>1. SetupInv => TypeOK
  BY DEF SetupInv
<1> QED
  BY <1>1, SettingUp, PTL

(* client.rs:228-239, pool_config.rs:318-401, a served pool's custody      *)
(* lists are those that the validation found registered on chain, for      *)
(* arrays of any length with any count, as the reference counts the slots. *)
THEOREM PoolsMatched == Spec => []ServedPoolsMatched
<1>1. BootInv /\ SetupInv => ServedPoolsMatched
  <2> SUFFICES ASSUME BootInv, SetupInv, pc = "running", NEW i \in pools
               PROVE  Agrees(config[i], seen[i])
    BY DEF ServedPoolsMatched
  <2>1. Passed(i)
    BY DEF BootInv, Stages, Judged, Kept, Loaded
  <2>2. config \in Configs /\ i \in DOMAIN config /\ seen[i] \in Accounts \cup {Unread}
    BY DEF SetupInv, TypeOK
  <2> QED
    BY <2>1, <2>2, MatchesAgrees DEF Passed
<1> QED
  BY <1>1, Booting, SettingUp, PTL

(* The names of a config's pools identify them.                            *)
UniqueNames ==
  \A c \in Configs : \A i, j \in DOMAIN c : c[i].name = c[j].name => i = j

(* pool_config.rs:282-284, if no two pools of a config share a name then a *)
(* pool that is not served did not match what was read of its account.     *)
THEOREM PoolsDropped == ASSUME UniqueNames PROVE Spec => []OnlyFailedQuarantined
<1>1. BootInv /\ SetupInv => OnlyFailedQuarantined
  <2> SUFFICES ASSUME BootInv, SetupInv, pc \in {"spawn", "running"},
                      NEW i \in DOMAIN config \ pools
               PROVE  ~Agrees(config[i], seen[i])
    BY DEF OnlyFailedQuarantined
  <2>1. config[i].name \in quarantined
    BY DEF BootInv, Stages, Kept
  <2>2. PICK j \in Past : config[j].name = config[i].name /\ ~Passed(j)
    BY <2>1 DEF BootInv, Stages, Judged, Loaded
  <2>3. config \in Configs /\ seen[i] \in Accounts \cup {Unread}
    BY DEF SetupInv, TypeOK
  <2>4. j = i
    BY <2>2, <2>3 DEF Past, UniqueNames
  <2> QED
    BY <2>2, <2>3, <2>4, MatchesAgrees DEF Passed
<1> QED
  BY <1>1, Booting, SettingUp, PTL

(* pool_config.rs:282-284, if no two pools of a config share a name then   *)
(* one pool that agrees with the chain keeps the others from stopping the  *)
(* service: only a bad config, a bad database setting or a feed map that a *)
(* pool of the config asks for and that does not load can.                 *)
THEOREM FailureHasCause == ASSUME UniqueNames PROVE Spec => []FailsOnlyWithCause
<1>1. BootInv /\ SetupInv /\ FailureInv => FailsOnlyWithCause
  <2> SUFFICES ASSUME BootInv, SetupInv, Judged, Kept = {}, NEW i \in DOMAIN config
               PROVE  ~Agrees(config[i], seen[i])
    BY DEF FailsOnlyWithCause, FailureInv, Cause
  <2>1. PICK j \in Past : config[j].name = config[i].name /\ ~Passed(j)
    BY DEF Kept, Judged
  <2>2. config \in Configs /\ seen[i] \in Accounts \cup {Unread}
    BY DEF SetupInv, TypeOK
  <2>3. j = i
    BY <2>1, <2>2 DEF Past, UniqueNames
  <2> QED
    BY <2>1, <2>2, <2>3, MatchesAgrees DEF Passed
<1> QED
  BY <1>1, Booting, SettingUp, Failing, PTL

(* A map with one entry for each feed that a file names, in range and      *)
(* decoded, without the dummies.                                           *)
SoundMap(active, file) ==
  /\ active # <<>>
  /\ \A m, n \in DOMAIN active : active[m].id = active[n].id => m = n
  /\ \A m \in DOMAIN active :
       active[m].id \in FirstId .. LastId /\ active[m].hash # NoHash
  /\ Entries(active) = {e \in Entries(file) : ~e.dummy}

(* parse_feed_map takes no other file: if it parses, the map is sound, and *)
(* without a skipped dummy it is the file.                                 *)
LEMMA ParsedSound ==
  ASSUME NEW a \in Args, NEW skipDummy, FeedMap!Parses(a.file, skipDummy)
  PROVE  /\ SoundMap(FeedMap!Active(a.file), a.file)
         /\ ~skipDummy => FeedMap!Active(a.file) = a.file
<1> DEFINE file == a.file
           active == FeedMap!Active(file)
           dummies == {e \in Entries(file) : e.dummy}
<1>1. /\ IsList(file) /\ \A e \in Entries(file) : e.id \in Nat
      /\ FirstId \in Nat /\ LastId \in Nat
  BY StartupAssumption DEF StartupAssumption
<1>2. Len(file) \in Nat /\ DOMAIN file = 1 .. Len(file)
  BY <1>1, ListType
<1>3. active = Without(file, dummies)
  BY ActiveIsWithout
<1>4. active # <<>> /\ \A i \in DOMAIN file : ~FeedMap!Rejected(file, i, skipDummy)
  BY DEF FeedMap!Parses
<1> HIDE DEF dummies, active
<1>5. Collects(active, file, dummies, Len(file))
  BY <1>1, <1>3, WithoutCollects
<1>6. Entries(active) = Entries(file) \ dummies
  BY <1>1, <1>3, WithoutEntries
<1>7. \A i \in Picked(file, dummies, Len(file)) :
        /\ i \in DOMAIN file /\ file[i] \in Entries(file) /\ ~file[i].dummy
        /\ active[Rank(file, dummies, i)] = file[i]
  BY <1>2, <1>5 DEF Picked, dummies, Entries, Collects
<1>8. ASSUME NEW m \in DOMAIN active, NEW n \in DOMAIN active, active[m].id = active[n].id
      PROVE  m = n
  <2>1. DOMAIN active = 1 .. Len(active)
    BY <1>5 DEF Collects
  <2>2. PICK i \in Picked(file, dummies, Len(file)) : Rank(file, dummies, i) = m
    BY <1>5, <2>1 DEF Collects
  <2>3. PICK j \in Picked(file, dummies, Len(file)) : Rank(file, dummies, j) = n
    BY <1>5, <2>1 DEF Collects
  <2>4. file[i].id = file[j].id /\ ~file[i].dummy /\ ~file[j].dummy
    BY <1>7, <1>8, <2>2, <2>3
  <2>5. i \in DOMAIN file /\ j \in DOMAIN file
    BY <1>7
  <2>6. ~(i < j)
    <3>1. i < j => i \in 1 .. j - 1
      BY <1>2, <2>5
    <3> QED
      BY <1>4, <2>4, <2>5, <3>1 DEF FeedMap!Rejected
  <2>7. ~(j < i)
    <3>1. j < i => j \in 1 .. i - 1
      BY <1>2, <2>5
    <3> QED
      BY <1>4, <2>4, <2>5, <3>1 DEF FeedMap!Rejected
  <2>8. i = j
    BY <1>2, <2>5, <2>6, <2>7
  <2> QED
    BY <2>2, <2>3, <2>8
<1>9. ASSUME NEW m \in DOMAIN active
      PROVE  active[m].id \in FirstId .. LastId /\ active[m].hash # NoHash
  <2>1. PICK i \in Picked(file, dummies, Len(file)) : Rank(file, dummies, i) = m
    BY <1>5 DEF Collects
  <2>2. active[m] = file[i] /\ i \in DOMAIN file /\ ~file[i].dummy /\ file[i].id \in Nat
    BY <1>1, <1>7, <2>1
  <2>3. FirstId <= file[i].id /\ file[i].id <= LastId /\ file[i].hash # NoHash
    BY <1>4, <2>2 DEF FeedMap!Rejected, FeedMap!InRange
  <2> QED
    BY <1>1, <2>2, <2>3
<1>10. ASSUME ~skipDummy PROVE active = file
  <2>1. \A i \in DOMAIN file : ~file[i].dummy
    BY <1>4, <1>10 DEF FeedMap!Rejected
  <2>2. Entries(file) \cap dummies = {}
    BY <2>1 DEF Entries, dummies
  <2> QED
    BY <1>1, <1>3, <2>2, WithoutNone
<1>11. Entries(file) \ dummies = {e \in Entries(file) : ~e.dummy}
  BY DEF dummies
<1>12. SoundMap(active, file)
  BY <1>4, <1>6, <1>8, <1>9, <1>11 DEF SoundMap
<1> QED
  BY <1>10, <1>12 DEF active

(* switchboard.rs:171-181, for a file of any length the feed map in use has *)
(* one entry for each feed it names, in range and decoded, without the     *)
(* dummies of an embedded map; an operator's file is taken as it is.       *)
THEOREM FeedMapKnown == Spec => []FeedMapSound
<1>1. SetupInv => FeedMapSound
  <2> SUFFICES ASSUME SetupInv, pc = "running", Switchboard \in spawned
               PROVE  FeedMapSound
    BY DEF FeedMapSound
  <2>1. /\ feedMap = FeedMap!Active(args.file) /\ args \in Args
        /\ FeedMap!Parses(args.file, ~args.override)
    BY DEF SetupInv, Mapped, FeedMapLoads, TypeOK
  <2>2. SoundMap(feedMap, args.file)
    BY <2>1, ParsedSound
  <2>3. args.override => feedMap = args.file
    BY <2>1, ParsedSound
  <2> QED
    BY <2>2, <2>3 DEF FeedMapSound, SoundMap, Entries
<1> QED
  BY <1>1, SettingUp, PTL
=============================================================================
