--------------------------- MODULE MrOracleProofs ---------------------------
(***************************************************************************)
(* Proofs about MrOracle, for any pools, providers, transactions and       *)
(* numbers of batches, tasks and restarts.                                 *)
(*                                                                         *)
(* The invariant has three parts.  Jobs: what a task was given never       *)
(* exceeds what its pool has been handed, so that two tasks of one run     *)
(* that serve the same pool hold newer and newer batches.  Books: a        *)
(* transaction that left unknown is the acknowledged one or one whose      *)
(* answer was lost, and what a call reported agrees with the ledger.       *)
(* Chain: what has landed is in the ledger as landed, once.                *)
(***************************************************************************)
EXTENDS MrOracle, TLAPS

Samples == INSTANCE PriorityFeeProofs

LEMMA Constants ==
  /\ MaxTasks \in Nat
  /\ None \notin Nat /\ None \notin Tx
  /\ Required \in [Pool -> SUBSET Kind]
  BY OracleAssumption DEF OracleAssumption

(* The calls that can no longer tell anything.                              *)
Over == Calls!Outcome \ {"idle", "running"}

Types ==
  /\ sent \in [Kind -> Nat]
  /\ fired \in [Pool -> [Kind -> Nat]]
  /\ base \in [Kind -> Nat]
  /\ run \in Nat
  /\ count \in 0 .. MaxTasks
  /\ acked \in [Task -> Tx \cup {None}]
  /\ outcome \in [Task -> Calls!Outcome]
  /\ ledger \in [Task -> [Tx -> Calls!Fate]]
  /\ lost \in [Task -> SUBSET Tx]
  /\ landed \in Seq([task : Task, tx : Tx])
  /\ job = [t \in Task |-> job[t]]

JobTypes ==
  \A t \in 1 .. count :
    /\ job[t].pool \in Pool
    /\ job[t].run \in Nat
    /\ job[t].snapshot \in [Kind -> Nat \cup {None}]
    /\ job[t].ended \subseteq Task
    /\ \A k \in Kind : job[t].snapshot[k] # None => k \in Required[job[t].pool]

(* No task was given more than its pool has been handed in its run.        *)
JobsHanded ==
  \A t \in 1 .. count :
    /\ job[t].run <= run
    /\ job[t].run = run =>
         \A k \in Kind : job[t].snapshot[k] # None =>
           job[t].snapshot[k] <= base[k] + fired[job[t].pool][k]

JobsGrow ==
  \A t, u \in 1 .. count :
    t < u /\ job[t].pool = job[u].pool /\ job[t].run = job[u].run =>
      \A k \in Kind : job[t].snapshot[k] # None /\ job[u].snapshot[k] # None =>
        job[t].snapshot[k] < job[u].snapshot[k]

Jobs == JobTypes /\ JobsHanded /\ JobsGrow

(* What reached a node is the acknowledged transaction or a lost one.      *)
Accounted ==
  \A t \in Task : \A h \in Tx :
    ledger[t][h] # "unknown" => h = acked[t] \/ h \in lost[t]

(* A call that reported a confirmation or a rejection knows a transaction  *)
(* of that fate; one that failed knows none.                               *)
Truthful ==
  \A t \in Task :
    /\ outcome[t] = "confirmed" => acked[t] \in Tx /\ ledger[t][acked[t]] = "landed"
    /\ outcome[t] = "rejected" => acked[t] \in Tx /\ ledger[t][acked[t]] = "failed"
    /\ outcome[t] = "failed" => acked[t] = None

EndedOver ==
  \A t \in 1 .. count : \A u \in job[t].ended : outcome[u] \in Over

(* A task that was not spawned has sent nothing.                           *)
IdleSilent ==
  \A t \in Task :
    /\ t > count => outcome[t] = "idle"
    /\ outcome[t] = "idle" => \A h \in Tx : ledger[t][h] = "unknown"

Books == Accounted /\ Truthful /\ EndedOver /\ IdleSilent

(* The chain holds what the ledger calls landed, each transaction once.    *)
Chain ==
  /\ \A i \in DOMAIN landed :
       /\ landed[i].task \in 1 .. count
       /\ ledger[landed[i].task][landed[i].tx] = "landed"
  /\ \A i, j \in DOMAIN landed : landed[i] = landed[j] => i = j
  /\ \A t \in Task : \A h \in Tx :
       ledger[t][h] = "landed" => \E i \in DOMAIN landed : landed[i] = [task |-> t, tx |-> h]

OracleInv == Types /\ Jobs /\ Books /\ Chain /\ NewerStays

----------------------------------------------------------------------------
(* What the steps have in common.                                          *)

LEMMA JobsKept ==
  ASSUME Jobs, UNCHANGED <<fired, taskVars, runVars>>
  PROVE  Jobs'
<1>1. fired' = fired /\ count' = count /\ job' = job /\ run' = run /\ base' = base
  BY DEF taskVars, runVars
<1>2. JobTypes'
  BY <1>1 DEF Jobs, JobTypes, Task
<1>3. JobsHanded'
  BY <1>1 DEF Jobs, JobsHanded
<1>4. JobsGrow'
  BY <1>1 DEF Jobs, JobsGrow
<1> QED
  BY <1>2, <1>3, <1>4 DEF Jobs

LEMMA BooksKept ==
  ASSUME Books, UNCHANGED <<callVars, taskVars>>
  PROVE  Books'
<1>1. /\ acked' = acked /\ outcome' = outcome /\ ledger' = ledger /\ lost' = lost
      /\ count' = count /\ job' = job
  BY DEF callVars, taskVars
<1>2. Accounted'
  BY <1>1 DEF Books, Accounted, Task
<1>3. Truthful'
  BY <1>1 DEF Books, Truthful, Task
<1>4. EndedOver'
  BY <1>1 DEF Books, EndedOver
<1>5. IdleSilent'
  BY <1>1 DEF Books, IdleSilent, Task
<1> QED
  BY <1>2, <1>3, <1>4, <1>5 DEF Books

LEMMA ChainKept ==
  ASSUME Chain, UNCHANGED <<ledger, count, landed>>
  PROVE  Chain'
  BY DEF Chain, Task

LEMMA Elements ==
  ASSUME NEW S, NEW s \in Seq(S), NEW i \in DOMAIN s
  PROVE  s[i] \in S
  OBVIOUS

LEMMA ElementsIn ==
  ASSUME NEW S, NEW T, NEW s \in Seq(S), \A i \in DOMAIN s : s[i] \in T
  PROVE  s \in Seq(T)
  OBVIOUS

LEMMA LandedTypes ==
  ASSUME Types, NEW i \in DOMAIN landed
  PROVE  landed[i].task \in Task /\ landed[i].tx \in Tx
<1>1. landed[i] \in [task : Task, tx : Tx]
  BY Elements DEF Types
<1> QED
  BY <1>1

(* A step that puts nothing on chain undoes no end of a call.              *)
CallsOver ==
  \A t \in Task :
    /\ lost[t] \subseteq lost'[t]
    /\ outcome[t] \in Over => outcome'[t] = outcome[t] /\ acked'[t] = acked[t]

LEMMA NewerKept ==
  ASSUME NewerStays, Types, Chain, EndedOver, UNCHANGED <<job, landed>>, CallsOver
  PROVE  NewerStays'
<1> SUFFICES ASSUME NEW i \in DOMAIN landed, NEW j \in DOMAIN landed, i < j,
                    landed[j].task \in job[landed[i].task].ended
             PROVE  \/ landed[j].tx \in lost'[landed[j].task]
                    \/ /\ landed[j].tx = acked'[landed[j].task]
                       /\ outcome'[landed[j].task] \in {"besteffort", "killed"}
  BY DEF NewerStays
<1>1. landed[j].task \in Task /\ outcome[landed[j].task] \in Over
  BY LandedTypes DEF Chain, EndedOver
<1>2. \/ landed[j].tx \in lost[landed[j].task]
      \/ /\ landed[j].tx = acked[landed[j].task]
         /\ outcome[landed[j].task] \in {"besteffort", "killed"}
  BY DEF NewerStays
<1> QED
  BY <1>1, <1>2 DEF CallsOver

(* Where the calls are left alone, all of this holds.                      *)
LEMMA NewerAlone ==
  ASSUME NewerStays, UNCHANGED <<job, landed, acked, outcome, lost>>
  PROVE  NewerStays'
  BY DEF NewerStays

----------------------------------------------------------------------------
(* The calls.                                                              *)

LEMMA ReachesOne ==
  ASSUME Types, NEW t \in Task, NEW h \in Tx, Calls!Reaches(t, h)
  PROVE  /\ ledger' \in [Task -> [Tx -> Calls!Fate]]
         /\ \A u \in Task : \A g \in Tx :
              ledger'[u][g] = IF u = t /\ g = h /\ ledger[u][g] = "unknown"
                                THEN "inflight" ELSE ledger[u][g]
  BY DEF Types, Calls!Reaches, Calls!Fate

(* A step of the call of a spawned task changes neither jobs nor chain.    *)
LEMMA CallKeeps ==
  ASSUME OracleInv, NEW t \in Task, CallStep(t)
  PROVE  OracleInv'
<1> USE DEF OracleInv
<1>0. UNCHANGED <<feedVars, feeVars, taskVars, runVars, landed>>
  BY DEF CallStep
<1>1. /\ outcome[t] = "running"
      /\ \A u \in Task : u # t => outcome'[u] = outcome[u] /\ acked'[u] = acked[u]
      /\ \A u \in Task : lost[u] \subseteq lost'[u]
      /\ outcome'[t] \in {"running", "failed", "besteffort", "confirmed", "rejected"}
  <2>1. ASSUME NEW h \in Tx, Calls!Take(t, h) PROVE <1>1!:
    BY <2>1 DEF Types, Calls!Take
  <2>2. ASSUME NEW h \in Tx, Calls!Ack(t, h) PROVE <1>1!:
    BY <2>2 DEF Types, Calls!Ack
  <2>3. CASE Calls!Return(t)
    BY <2>3 DEF Types, Calls!Return, Calls!Deserved
  <2> QED
    BY <2>1, <2>2, <2>3 DEF CallStep
<1>2. Types'
  <2>1. ASSUME NEW h \in Tx, Calls!Take(t, h) PROVE Types'
    BY <1>0, <2>1 DEF Types, Calls!Take, Calls!Reaches, Calls!Outcome, Calls!Fate,
       feedVars, taskVars, runVars
  <2>2. ASSUME NEW h \in Tx, Calls!Ack(t, h) PROVE Types'
    BY <1>0, <2>2 DEF Types, Calls!Ack, Calls!Reaches, Calls!Fate, feedVars, taskVars, runVars
  <2>3. CASE Calls!Return(t)
    BY <1>0, <2>3 DEF Types, Calls!Return, Calls!Deserved, Calls!Outcome,
       feedVars, taskVars, runVars
  <2> QED
    BY <2>1, <2>2, <2>3 DEF CallStep
<1>3. Jobs'
  BY <1>0, JobsKept DEF feedVars
<1>4. \A u \in Task : \A h \in Tx :
        /\ ledger[u][h] # "unknown" => ledger'[u][h] = ledger[u][h]
        /\ ledger'[u][h] = "landed" => ledger[u][h] = "landed"
        /\ u # t => ledger'[u][h] = ledger[u][h]
  <2>1. ASSUME NEW h \in Tx, Calls!Take(t, h) \/ Calls!Ack(t, h) PROVE <1>4!:
    BY <2>1, ReachesOne DEF Calls!Take, Calls!Ack
  <2>2. CASE Calls!Return(t)
    BY <2>2 DEF Calls!Return
  <2> QED
    BY <2>1, <2>2 DEF CallStep
<1>5. Accounted'
  <2>1. ASSUME NEW h \in Tx, Calls!Take(t, h) PROVE Accounted'
    <3>1. /\ acked' = acked /\ h \in lost'[t]
          /\ Calls!Reaches(t, h)
      BY <2>1 DEF Types, Calls!Take
    <3> QED
      BY <1>1, <3>1, ReachesOne DEF Books, Accounted
  <2>2. ASSUME NEW h \in Tx, Calls!Ack(t, h) PROVE Accounted'
    <3>1. /\ acked'[t] = h /\ acked[t] = None /\ lost' = lost
          /\ Calls!Reaches(t, h)
      BY <2>2 DEF Types, Calls!Ack
    <3> QED
      BY <1>1, <3>1, ReachesOne, Constants DEF Books, Accounted
  <2>3. CASE Calls!Return(t)
    BY <2>3 DEF Books, Accounted, Calls!Return
  <2> QED
    BY <2>1, <2>2, <2>3 DEF CallStep
<1>6. Truthful'
  <2>1. ASSUME NEW u \in Task, u # t
        PROVE  /\ outcome'[u] = "confirmed" => acked'[u] \in Tx /\ ledger'[u][acked'[u]] = "landed"
               /\ outcome'[u] = "rejected" => acked'[u] \in Tx /\ ledger'[u][acked'[u]] = "failed"
               /\ outcome'[u] = "failed" => acked'[u] = None
    BY <1>1, <1>4, <2>1 DEF Books, Truthful
  <2>2. /\ outcome'[t] = "confirmed" => acked'[t] \in Tx /\ ledger'[t][acked'[t]] = "landed"
        /\ outcome'[t] = "rejected" => acked'[t] \in Tx /\ ledger'[t][acked'[t]] = "failed"
        /\ outcome'[t] = "failed" => acked'[t] = None
    <3>1. ASSUME NEW h \in Tx, Calls!Take(t, h) \/ Calls!Ack(t, h)
          PROVE  outcome'[t] \in {"running", "failed"} /\ (outcome'[t] = "failed" => acked'[t] = None)
      BY <1>1, <3>1 DEF Types, Calls!Take, Calls!Ack
    <3>2. CASE Calls!Return(t)
      <4>1. outcome'[t] \in Calls!Deserved(t) /\ UNCHANGED <<acked, ledger>>
        BY <3>2 DEF Types, Calls!Return
      <4> QED
        BY <4>1 DEF Types, Calls!Deserved
    <3> QED
      BY <3>1, <3>2 DEF CallStep
  <2> QED
    BY <2>1, <2>2 DEF Truthful
<1>7. EndedOver'
  <2>1. outcome'[t] \in Over \/ outcome[t] \notin Over
    BY <1>1 DEF Over
  <2> QED
    BY <1>0, <1>1, <2>1 DEF Books, EndedOver, Jobs, JobTypes, taskVars
<1>8. IdleSilent'
  <2>1. outcome'[t] # "idle"
    BY <1>1
  <2> QED
    BY <1>0, <1>1, <1>4, <2>1 DEF Books, IdleSilent, taskVars, Types
<1>9. Chain'
  BY <1>0, <1>4, LandedTypes DEF Chain, taskVars, Task
<1>10. NewerStays'
  <2>1. CallsOver
    BY <1>1 DEF CallsOver, Over
  <2> QED
    BY <1>0, <2>1, NewerKept DEF Books, taskVars
<1> QED
  BY <1>2, <1>3, <1>5, <1>6, <1>7, <1>8, <1>9, <1>10 DEF Books

----------------------------------------------------------------------------
(* The cluster.                                                            *)

LEMMA SettleOne ==
  ASSUME Types, NEW t \in Task, NEW h \in Tx, NEW fate \in {"landed", "failed"},
         Calls!Settle(t, h, fate)
  PROVE  /\ ledger' \in [Task -> [Tx -> Calls!Fate]]
         /\ ledger[t][h] = "inflight"
         /\ \A u \in Task : \A g \in Tx :
              ledger'[u][g] = IF u = t /\ g = h THEN fate ELSE ledger[u][g]
         /\ acked' = acked /\ outcome' = outcome /\ lost' = lost
  BY DEF Types, Calls!Settle, Calls!Fate

(* A fate decided changes no book: what a call reported was decided before.*)
LEMMA SettleKeepsBooks ==
  ASSUME Types, Books, NEW t \in Task, NEW h \in Tx, NEW fate \in {"landed", "failed"},
         Calls!Settle(t, h, fate), UNCHANGED taskVars
  PROVE  Books'
<1>1. count' = count /\ job' = job
  BY DEF taskVars
<1>2. Accounted'
  BY SettleOne DEF Books, Accounted
<1>3. Truthful'
  BY SettleOne DEF Books, Truthful
<1>4. EndedOver'
  BY SettleOne, <1>1 DEF Books, EndedOver
<1>5. IdleSilent'
  BY SettleOne, <1>1 DEF Books, IdleSilent
<1> QED
  BY <1>2, <1>3, <1>4, <1>5 DEF Books

LEMMA FailsKeeps ==
  ASSUME OracleInv, NEW t \in Task, NEW h \in Tx, Fails(t, h)
  PROVE  OracleInv'
<1> USE DEF OracleInv
<1>1. Calls!Settle(t, h, "failed") /\ UNCHANGED <<feedVars, taskVars, runVars, landed>>
  BY DEF Fails
<1>2. Types'
  BY <1>1, SettleOne DEF Types, feedVars, taskVars, runVars
<1>3. Jobs'
  BY <1>1, JobsKept DEF feedVars
<1>4. Books'
  BY <1>1, SettleKeepsBooks
<1>5. Chain'
  BY <1>1, SettleOne, LandedTypes DEF Chain, taskVars, Task
<1>6. NewerStays'
  BY <1>1, SettleOne, NewerAlone DEF taskVars
<1> QED
  BY <1>2, <1>3, <1>4, <1>5, <1>6

(* A transaction that lands is new on chain; if its call had ended when an *)
(* earlier entry's task fired, it is a lost one, or the acknowledged one   *)
(* of a call that did not know its fate.                                   *)
LEMMA LandsKeeps ==
  ASSUME OracleInv, NEW t \in Task, NEW h \in Tx, Lands(t, h)
  PROVE  OracleInv'
<1> USE DEF OracleInv
<1> DEFINE entry == [task |-> t, tx |-> h]
<1>1. Calls!Settle(t, h, "landed") /\ UNCHANGED <<feedVars, taskVars, runVars>>
  BY DEF Lands
<1>2. count' = count /\ job' = job
  BY <1>1 DEF taskVars
<1>3. /\ landed' \in Seq([task : Task, tx : Tx])
      /\ DOMAIN landed = 1 .. Len(landed) /\ Len(landed) \in Nat
      /\ DOMAIN landed' = 1 .. Len(landed) + 1
      /\ \A i \in DOMAIN landed : landed'[i] = landed[i]
      /\ landed'[Len(landed) + 1] = entry
  BY DEF Lands, Types
<1>4. Types'
  BY <1>1, <1>3, SettleOne DEF Types, feedVars, taskVars, runVars
<1>5. Jobs'
  BY <1>1, JobsKept DEF feedVars
<1>6. Books'
  BY <1>1, SettleKeepsBooks
<1>7. t \in 1 .. count /\ outcome[t] # "idle"
  BY <1>1, SettleOne DEF Books, IdleSilent, Types, Task
<1>8. \A i \in DOMAIN landed : landed[i] # entry
  BY <1>1, SettleOne DEF Chain
<1>9. Chain'
  <2>1. ASSUME NEW i \in DOMAIN landed'
        PROVE  landed'[i].task \in 1 .. count /\ ledger'[landed'[i].task][landed'[i].tx] = "landed"
    <3>1. CASE i \in DOMAIN landed
      BY <3>1, <1>1, <1>3, SettleOne, LandedTypes DEF Chain
    <3>2. CASE i = Len(landed) + 1
      BY <3>2, <1>1, <1>3, <1>7, SettleOne
    <3> QED
      BY <3>1, <3>2, <1>3
  <2>2. ASSUME NEW i \in DOMAIN landed', NEW j \in DOMAIN landed', landed'[i] = landed'[j]
        PROVE  i = j
    BY <2>2, <1>3, <1>8 DEF Chain
  <2>3. ASSUME NEW u \in Task, NEW g \in Tx, ledger'[u][g] = "landed"
        PROVE  \E i \in DOMAIN landed' : landed'[i] = [task |-> u, tx |-> g]
    <3>1. CASE u = t /\ g = h
      BY <3>1, <1>3
    <3>2. CASE ~(u = t /\ g = h)
      <4>1. PICK i \in DOMAIN landed : landed[i] = [task |-> u, tx |-> g]
        BY <3>2, <2>3, <1>1, SettleOne DEF Chain
      <4> QED
        BY <4>1, <1>3
    <3> QED
      BY <3>1, <3>2
  <2> QED
    BY <2>1, <2>2, <2>3, <1>2 DEF Chain
<1>10. NewerStays'
  <2> SUFFICES ASSUME NEW i \in DOMAIN landed', NEW j \in DOMAIN landed', i < j,
                      landed'[j].task \in job[landed'[i].task].ended
               PROVE  \/ landed'[j].tx \in lost[landed'[j].task]
                      \/ /\ landed'[j].tx = acked[landed'[j].task]
                         /\ outcome[landed'[j].task] \in {"besteffort", "killed"}
    BY <1>1, <1>2, SettleOne DEF NewerStays
  <2>1. CASE j \in DOMAIN landed
    BY <2>1, <1>3 DEF NewerStays
  <2>2. CASE j = Len(landed) + 1
    <3>1. i \in DOMAIN landed /\ landed'[i] = landed[i] /\ landed'[j] = entry
      BY <2>2, <1>3
    <3>2. outcome[t] \in Over
      BY <3>1 DEF Chain, Books, EndedOver
    <3>3. ledger[t][h] = "inflight" /\ (h = acked[t] \/ h \in lost[t])
      BY <1>1, SettleOne DEF Books, Accounted
    <3>4. h = acked[t] => outcome[t] \in {"besteffort", "killed"}
      BY <3>2, <3>3, Constants DEF Books, Truthful, Over, Calls!Outcome
    <3> QED
      BY <3>1, <3>3, <3>4
  <2> QED
    BY <2>1, <2>2, <1>3
<1> QED
  BY <1>4, <1>5, <1>6, <1>9, <1>10

----------------------------------------------------------------------------
(* The process.                                                            *)

LEMMA PublishKeeps ==
  ASSUME OracleInv, NEW k \in Kind, Publish(k)
  PROVE  OracleInv'
<1> USE DEF OracleInv
<1>1. /\ sent' = [sent EXCEPT ![k] = @ + 1]
      /\ UNCHANGED <<fired, callVars, taskVars, runVars, landed>>
  BY DEF Publish, Feed!Publish
<1>2. Types'
  BY <1>1 DEF Types, callVars, taskVars, runVars
<1>3. Jobs' /\ Books' /\ Chain'
  BY <1>1, JobsKept, BooksKept, ChainKept DEF callVars, taskVars
<1>4. NewerStays'
  BY <1>1, NewerAlone DEF callVars, taskVars
<1> QED
  BY <1>2, <1>3, <1>4

LEMMA FeeKeeps ==
  ASSUME OracleInv, UNCHANGED <<feedVars, callVars, taskVars, runVars, landed>>
  PROVE  OracleInv'
<1> USE DEF OracleInv
<1>1. Types'
  BY DEF Types, feedVars, callVars, taskVars, runVars
<1>2. Jobs' /\ Books' /\ Chain'
  BY JobsKept, BooksKept, ChainKept DEF feedVars, callVars, taskVars
<1>3. NewerStays'
  BY NewerAlone DEF callVars, taskVars
<1> QED
  BY <1>1, <1>2, <1>3

(* A restart touches no job, and no job belongs to the new run yet.        *)
LEMMA RestartKeeps ==
  ASSUME OracleInv, Restart
  PROVE  OracleInv'
<1> USE DEF OracleInv
<1>1. PICK again \in SUBSET {k \in Kind : Forwarded(k) > 0} :
        base' = [k \in Kind |-> Forwarded(k) - (IF k \in again THEN 1 ELSE 0)]
  BY DEF Restart
<1>2. /\ run' = run + 1
      /\ sent' = [k \in Kind |-> 0]
      /\ fired' = [p \in Pool |-> [k \in Kind |-> 0]]
      /\ count' = count /\ job' = job /\ landed' = landed
      /\ acked' = acked /\ ledger' = ledger /\ lost' = lost
      /\ outcome' = [t \in Task |-> IF outcome[t] = "running" THEN "killed" ELSE outcome[t]]
  BY DEF Restart, Calls!Die, taskVars
<1>3. Types'
  <2>1. base' \in [Kind -> Nat]
    BY <1>1 DEF Types, Forwarded
  <2>2. outcome' \in [Task -> Calls!Outcome]
    BY <1>2 DEF Types, Calls!Outcome
  <2> QED
    BY <1>2, <2>1, <2>2 DEF Types
<1>4. JobTypes'
  BY <1>2 DEF Jobs, JobTypes, Task
<1>5. JobsHanded'
  <2>1. run \in Nat /\ \A t \in 1 .. count : job[t].run \in Nat /\ job[t].run <= run
    BY DEF Types, Jobs, JobTypes, JobsHanded
  <2>2. \A t \in 1 .. count : job[t].run <= run + 1 /\ job[t].run # run + 1
    BY <2>1
  <2> QED
    BY <1>2, <2>2 DEF JobsHanded
<1>6. JobsGrow'
  BY <1>2 DEF Jobs, JobsGrow
<1>7. Accounted'
  BY <1>2 DEF Books, Accounted, Task
<1>8. Truthful'
  BY <1>2 DEF Books, Truthful, Task
<1>9. EndedOver'
  BY <1>2 DEF Books, EndedOver, Over, Jobs, JobTypes
<1>10. IdleSilent'
  BY <1>2, Constants DEF Books, IdleSilent, Types, Task
<1>11. CallsOver
  BY <1>2 DEF CallsOver, Over
<1>12. Chain' /\ NewerStays'
  BY <1>2, <1>11, ChainKept, NewerKept DEF Books
<1> QED
  BY <1>3, <1>4, <1>5, <1>6, <1>7, <1>8, <1>9, <1>10, <1>12 DEF Jobs, Books

(* A fire hands its task what the pool had not been handed before.         *)
LEMMA FireKeeps ==
  ASSUME OracleInv, NEW p \in Pool, NEW S \in SUBSET Required[p], Fire(p, S)
  PROVE  OracleInv'
<1> USE DEF OracleInv
<1> DEFINE new == count + 1
           given == [pool |-> p, run |-> run, snapshot |-> Snapshot(p, S), fee |-> fee,
                     ended |-> Ended]
<1>1. /\ count < MaxTasks /\ count' = new
      /\ job' = [job EXCEPT ![new] = given]
      /\ UNCHANGED <<feeVars, runVars, landed>>
      /\ sent' = sent
  BY DEF Fire, Feed!Deliver
<1>2. /\ count \in Nat /\ new \in Task
      /\ job' = [t \in Task |-> job'[t]]
      /\ job'[new] = given
      /\ \A t \in 1 .. count : t \in Task /\ job'[t] = job[t]
      /\ 1 .. new = (1 .. count) \cup {new}
  <2>1. count \in Nat /\ new \in Task /\ 1 .. new = (1 .. count) \cup {new}
    BY <1>1, Constants DEF Types, Task
  <2>2. job = [t \in Task |-> job[t]] /\ new \notin 1 .. count /\ 1 .. count \subseteq Task
    BY <2>1, Constants DEF Types, Task
  <2> HIDE DEF given, new
  <2>3. /\ job' = [t \in Task |-> job'[t]]
        /\ job'[new] = given
        /\ \A t \in Task : t # new => job'[t] = job[t]
    BY <1>1, <2>1, <2>2
  <2> QED
    BY <2>1, <2>2, <2>3
<1>3. /\ \A q \in Pool : q # p => fired'[q] = fired[q]
      /\ \A k \in Kind : k \notin S => fired'[p][k] = fired[p][k]
      /\ \A k \in S : fired'[p][k] \in Nat /\ fired[p][k] < fired'[p][k]
      /\ fired' \in [Pool -> [Kind -> Nat]]
  <2>1. S \subseteq Kind
    BY Constants
  <2>2. PICK n \in [S -> UNION {1 .. sent[k] : k \in S}] :
          /\ \A k \in S : fired[p][k] < n[k] /\ n[k] <= sent[k]
          /\ fired' = [fired EXCEPT ![p] = [k \in Kind |-> IF k \in S THEN n[k] ELSE @[k]]]
    BY DEF Fire, Feed!Deliver
  <2>3. \A k \in S : n[k] \in Nat
    BY <2>1, <2>2 DEF Types
  <2> QED
    BY <2>1, <2>2, <2>3 DEF Types
<1>4. /\ given.snapshot \in [Kind -> Nat \cup {None}]
      /\ \A k \in Kind : given.snapshot[k] # None =>
           /\ k \in S
           /\ given.snapshot[k] = base[k] + fired'[p][k]
           /\ base[k] + fired[p][k] < given.snapshot[k]
  BY <1>3 DEF Types, Snapshot
<1>5. /\ acked' = acked /\ ledger' = ledger /\ lost' = lost
      /\ outcome' \in [Task -> Calls!Outcome]
      /\ \A t \in Task : t # new => outcome'[t] = outcome[t]
      /\ outcome[new] = "idle" /\ outcome'[new] \in {"idle", "running"}
  <2>1. outcome[new] = "idle"
    BY <1>2 DEF Books, IdleSilent
  <2>2. CASE UNCHANGED callVars
    BY <2>1, <2>2 DEF callVars, Types
  <2>3. CASE Calls!Start(new)
    BY <2>1, <2>3, <1>2 DEF Calls!Start, Types, Calls!Outcome
  <2> QED
    BY <2>2, <2>3 DEF Fire
<1>6. Types'
  BY <1>1, <1>2, <1>3, <1>5 DEF Types, runVars, Task
<1>7. JobTypes'
  <2>1. given.ended \subseteq Task
    BY DEF Ended
  <2>2. \A k \in Kind : given.snapshot[k] # None => k \in Required[p]
    BY <1>4
  <2>3. /\ given.pool \in Pool /\ given.run \in Nat
        /\ given.snapshot \in [Kind -> Nat \cup {None}]
        /\ given.pool = p
    BY <1>4 DEF Types
  <2> HIDE DEF given, new
  <2> QED
    BY <1>1, <1>2, <2>1, <2>2, <2>3 DEF Jobs, JobTypes
<1>8. JobsHanded'
  <2>1. ASSUME NEW t \in 1 .. count
        PROVE  /\ job[t].run <= run
               /\ job[t].run = run =>
                    \A k \in Kind : job[t].snapshot[k] # None =>
                      job[t].snapshot[k] <= base[k] + fired'[job[t].pool][k]
    <3>1. \A q \in Pool : \A k \in Kind : base[k] + fired[q][k] <= base[k] + fired'[q][k]
      <4> SUFFICES ASSUME NEW q \in Pool, NEW k \in Kind
                   PROVE  base[k] + fired[q][k] <= base[k] + fired'[q][k]
        OBVIOUS
      <4>1. base[k] \in Nat /\ fired[q][k] \in Nat /\ fired'[q][k] \in Nat
        BY <1>3 DEF Types
      <4>2. fired[q][k] <= fired'[q][k]
        <5>1. CASE q = p /\ k \in S
          BY <1>3, <5>1, <4>1
        <5>2. CASE ~(q = p /\ k \in S)
          BY <1>3, <5>2, <4>1
        <5> QED
          BY <5>1, <5>2
      <4> QED
        BY <4>1, <4>2
    <3>2. /\ job[t].pool \in Pool /\ job[t].run <= run
          /\ job[t].run = run => \A k \in Kind : job[t].snapshot[k] # None =>
               /\ job[t].snapshot[k] \in Nat
               /\ job[t].snapshot[k] <= base[k] + fired[job[t].pool][k]
      BY DEF Jobs, JobTypes, JobsHanded
    <3>3. \A q \in Pool : \A k \in Kind :
            base[k] + fired[q][k] \in Nat /\ base[k] + fired'[q][k] \in Nat
      BY <1>3 DEF Types
    <3> QED
      BY <3>1, <3>2, <3>3
  <2>2. /\ given.run <= run
        /\ \A k \in Kind : given.snapshot[k] # None =>
             given.snapshot[k] <= base[k] + fired'[p][k]
    BY <1>3, <1>4 DEF Types
  <2> QED
    BY <1>1, <1>2, <2>1, <2>2 DEF JobsHanded, runVars
<1>9. JobsGrow'
  <2>1. ASSUME NEW t \in 1 .. count, job[t].pool = p, job[t].run = run, NEW k \in Kind,
               job[t].snapshot[k] # None, given.snapshot[k] # None
        PROVE  job[t].snapshot[k] < given.snapshot[k]
    <3>1. base[k] + fired[p][k] \in Nat
      BY DEF Types
    <3>2. job[t].snapshot[k] \in Nat
      BY <2>1 DEF Jobs, JobTypes
    <3>3. given.snapshot[k] \in Nat
      BY <2>1, <1>4
    <3>4. job[t].snapshot[k] <= base[k] + fired[p][k]
      BY <2>1 DEF Jobs, JobsHanded
    <3>5. base[k] + fired[p][k] < given.snapshot[k]
      BY <2>1, <1>4
    <3> HIDE DEF given
    <3> QED
      BY <3>1, <3>2, <3>3, <3>4, <3>5
  <2> QED
    BY <1>1, <1>2, <2>1 DEF Jobs, JobsGrow
<1>10. Accounted'
  BY <1>5 DEF Books, Accounted, Task
<1>11. Truthful'
  BY <1>5 DEF Books, Truthful, Task
<1>12. EndedOver'
  <2>1. \A u \in Ended : outcome'[u] \in Over
    BY <1>5 DEF Ended, Over
  <2>2. \A t \in 1 .. count : \A u \in job[t].ended : outcome'[u] \in Over
    BY <1>5 DEF Books, EndedOver, Over, Jobs, JobTypes
  <2> QED
    BY <1>1, <1>2, <2>1, <2>2 DEF EndedOver
<1>13. IdleSilent'
  BY <1>1, <1>2, <1>5 DEF Books, IdleSilent, Task
<1>14. Chain'
  BY <1>1, <1>2, <1>5 DEF Chain, Task
<1>15. NewerStays'
  <2>1. \A i \in DOMAIN landed : job'[landed[i].task] = job[landed[i].task]
    BY <1>2 DEF Chain
  <2>2. \A j \in DOMAIN landed : outcome'[landed[j].task] = outcome[landed[j].task]
    BY <1>2, <1>5 DEF Chain
  <2> QED
    BY <1>1, <1>5, <2>1, <2>2 DEF NewerStays
<1> QED
  BY <1>6, <1>7, <1>8, <1>9, <1>10, <1>11, <1>12, <1>13, <1>14, <1>15 DEF Jobs, Books

----------------------------------------------------------------------------

LEMMA InitInv == Init => OracleInv
<1> SUFFICES ASSUME Init PROVE OracleInv
  OBVIOUS
<1>1. Types
  BY Constants DEF Init, Types, Feed!Init, Calls!Init, Calls!Outcome, Calls!Fate, Task
<1>2. Jobs /\ Chain /\ NewerStays
  BY Constants DEF Init, Calls!Init, Jobs, JobTypes, JobsHanded, JobsGrow, Chain, NewerStays, Task
<1>3. Books
  BY Constants DEF Init, Calls!Init, Books, Accounted, Truthful, EndedOver, IdleSilent, Task
<1> QED
  BY <1>1, <1>2, <1>3 DEF OracleInv

LEMMA StepInv == OracleInv /\ [Next]_vars => OracleInv'
<1> SUFFICES ASSUME OracleInv, [Next]_vars PROVE OracleInv'
  OBVIOUS
<1>1. ASSUME NEW k \in Kind, Publish(k) PROVE OracleInv'
  BY <1>1, PublishKeeps
<1>2. ASSUME NEW p \in Pool, NEW S \in SUBSET Required[p], Fire(p, S) PROVE OracleInv'
  BY <1>2, FireKeeps
<1>3. ASSUME NEW t \in Task, CallStep(t) PROVE OracleInv'
  BY <1>3, CallKeeps
<1>4. CASE FeeStep
  BY <1>4, FeeKeeps DEF FeeStep
<1>5. CASE Restart
  BY <1>5, RestartKeeps
<1>6. ASSUME NEW t \in Task, NEW h \in Tx, Lands(t, h) \/ Fails(t, h) PROVE OracleInv'
  BY <1>6, LandsKeeps, FailsKeeps
<1>7. CASE UNCHANGED vars
  BY <1>7, FeeKeeps DEF vars
<1> QED
  BY <1>1, <1>2, <1>3, <1>4, <1>5, <1>6, <1>7 DEF Next

(* The inductive invariant of the running program: what tasks were given,  *)
(* what their calls know and what is on chain fit together after every     *)
(* step, whatever dies, lands or fails in between.                         *)
THEOREM Invariant == Spec => []OracleInv
  BY InitInv, StepInv, PTL DEF Spec

----------------------------------------------------------------------------
(* The fee, and the types of what only the process keeps.                  *)

(* The percentile of a sample, as it is proved of PriorityFee.             *)
LEMMA SameReference ==
  ASSUME NEW v, NEW fees, NEW bps, Samples!IsPercentile(v, fees, bps)
  PROVE  Fees!IsPercentile(v, fees, bps)
<1>1. Fees!Whole = Samples!Whole
  BY DEF Fees!Whole, Samples!Whole
<1>2. \A u, i : Fees!StandsAt(u, i, fees) <=> Samples!StandsAt(u, i, fees)
  <2>1. \A T : Fees!Cardinality(T) = Samples!Cardinality(T)
    BY DEF Fees!Cardinality, Samples!Cardinality
  <2> QED
    BY <2>1, Zenon DEF Fees!StandsAt, Samples!StandsAt
<1> QED
  BY <1>1, <1>2, SMT DEF Fees!IsPercentile, Samples!IsPercentile

LEMMA FeesExact ==
  ASSUME NEW fees \in Seq(Nat), fees # <<>>
  PROVE  /\ Fees!PercentileOf(fees, Percentile) \in Nat
         /\ Fees!IsPercentile(Fees!PercentileOf(fees, Percentile), fees, Percentile)
<1>1. Percentile \in 0 .. Samples!Whole
  BY OracleAssumption DEF OracleAssumption, Samples!Whole
<1>2. Fees!PercentileOf(fees, Percentile) = Samples!PercentileOf(fees, Percentile)
  BY DEF Fees!PercentileOf, Samples!PercentileOf, Fees!Sorted, Samples!Sorted,
         Fees!Whole, Samples!Whole, Fees!Smaller, Samples!Smaller
<1> QED
  BY <1>1, <1>2, SameReference, Samples!PercentileExact

(* The fee is 0 or the percentile of a sample that holds fees.             *)
FeeRight ==
  /\ fee \in Nat /\ known \in Seq(Nat)
  /\ FeeOfLastSample

LEMMA RefreshRight == ASSUME FeeRight, Fees!Next PROVE FeeRight'
<1>1. PICK answers \in [Fees!Endpoint -> Sample \cup {None}] :
        IF Fees!FirstAnswer(answers) \subseteq {<<>>}
          THEN UNCHANGED <<fee, known>>
          ELSE \E fees \in Fees!FirstAnswer(answers) :
                 fee' = Fees!PercentileOf(fees, Percentile) /\ known' = fees
  BY DEF Fees!Next, Fees!Refresh, Fees!feeVars
<1>2. CASE Fees!FirstAnswer(answers) \subseteq {<<>>}
  BY <1>1, <1>2, Zenon DEF FeeRight, FeeOfLastSample
<1>3. CASE ~(Fees!FirstAnswer(answers) \subseteq {<<>>})
  <2>1. PICK fees \in Fees!FirstAnswer(answers) :
          fee' = Fees!PercentileOf(fees, Percentile) /\ known' = fees
    BY <1>1, <1>3
  <2>2. \A a, b \in Fees!FirstAnswer(answers) : a = b
    <3> SUFFICES ASSUME NEW i \in Fees!Endpoint, NEW j \in Fees!Endpoint,
                        answers[i] # None, answers[j] # None,
                        \A before \in 1 .. i - 1 : answers[before] = None,
                        \A before \in 1 .. j - 1 : answers[before] = None
                 PROVE  i = j
      BY DEF Fees!FirstAnswer
    <3> QED
      BY DEF Fees!Endpoint
  <2>3. fees # <<>>
    BY <1>3, <2>2
  <2>4. fees \in Seq(Nat)
    BY OracleAssumption DEF OracleAssumption, Fees!FirstAnswer
  <2>5. /\ Fees!PercentileOf(fees, Percentile) \in Nat
        /\ Fees!IsPercentile(Fees!PercentileOf(fees, Percentile), fees, Percentile)
    BY <2>3, <2>4, FeesExact
  <2>6. fee' \in Nat /\ known' \in Seq(Nat) /\ known' # <<>>
        /\ Fees!IsPercentile(fee', known', Percentile)
    BY <2>1, <2>3, <2>4, <2>5
  <2> QED
    BY <2>6, Zenon DEF FeeRight, FeeOfLastSample
<1> QED
  BY <1>2, <1>3

(* What was published fits the bound, and a task has a job once spawned.   *)
ProcessTyped ==
  /\ Forwarded(ChaosLabs) + Forwarded(Autonom) + Forwarded(Switchboard) <= MaxBatches
  /\ open \in BOOLEAN
  /\ run \in 1 .. MaxRestarts + 1
  /\ \A t \in 1 .. count : job[t] \in Job
  /\ \A t \in Task : t > count => job[t] = None

ProcessInv == FeeRight /\ ProcessTyped

LEMMA ProcessInit == Init => ProcessInv
<1> SUFFICES ASSUME Init PROVE ProcessInv
  OBVIOUS
<1>1. fee = 0 /\ known = <<>>
  BY DEF Init, Fees!Init
<1>2. FeeRight
  BY <1>1, SMT DEF FeeRight, FeeOfLastSample
<1>3. /\ open = TRUE /\ run = 1 /\ count = 0
      /\ \A t \in Task : job[t] = None
      /\ \A k \in Kind : sent[k] = 0 /\ base[k] = 0
  BY DEF Init, Feed!Init
<1>4. MaxRestarts \in Nat /\ MaxBatches \in Nat
  BY OracleAssumption DEF OracleAssumption
<1>5. Forwarded(ChaosLabs) + Forwarded(Autonom) + Forwarded(Switchboard) = 0
  BY <1>3 DEF Forwarded, Kind
<1> QED
  BY <1>2, <1>3, <1>4, <1>5 DEF ProcessInv, ProcessTyped

LEMMA FeeStays == ASSUME FeeRight, UNCHANGED feeVars PROVE FeeRight'
  BY Zenon DEF FeeRight, FeeOfLastSample, feeVars

LEMMA TypedStays ==
  ASSUME ProcessTyped, UNCHANGED <<sent, open, taskVars, runVars>>
  PROVE  ProcessTyped'
  BY DEF ProcessTyped, Forwarded, taskVars, runVars

LEMMA PublishTyped ==
  ASSUME OracleInv, ProcessTyped, NEW k \in Kind, Publish(k)
  PROVE  ProcessTyped'
<1>1. /\ sent' = [sent EXCEPT ![k] = @ + 1]
      /\ UNCHANGED <<open, taskVars, runVars>>
      /\ Forwarded(ChaosLabs) + Forwarded(Autonom) + Forwarded(Switchboard) < MaxBatches
  BY DEF Publish, Feed!Publish
<1>2. sent \in [Kind -> Nat] /\ base \in [Kind -> Nat] /\ base' = base /\ MaxBatches \in Nat
  BY <1>1, OracleAssumption DEF OracleInv, Types, runVars, OracleAssumption
<1>3. \A l \in Kind : /\ Forwarded(l) \in Nat
                      /\ Forwarded(l)' = IF l = k THEN Forwarded(l) + 1 ELSE Forwarded(l)
  <2> SUFFICES ASSUME NEW l \in Kind
               PROVE  /\ Forwarded(l) \in Nat
                      /\ Forwarded(l)' = IF l = k THEN Forwarded(l) + 1 ELSE Forwarded(l)
    OBVIOUS
  <2>1. sent'[l] = IF l = k THEN sent[l] + 1 ELSE sent[l]
    BY <1>1, <1>2
  <2>2. sent[l] \in Nat /\ base[l] \in Nat /\ base'[l] = base[l]
    BY <1>2
  <2> QED
    BY <2>1, <2>2 DEF Forwarded
<1>4. ChaosLabs # Autonom /\ ChaosLabs # Switchboard /\ Autonom # Switchboard
  BY OracleAssumption DEF OracleAssumption
<1>5. Forwarded(ChaosLabs)' + Forwarded(Autonom)' + Forwarded(Switchboard)' <= MaxBatches
  BY <1>1, <1>2, <1>3, <1>4 DEF Kind
<1> QED
  BY <1>1, <1>5 DEF ProcessTyped, taskVars, runVars

LEMMA FireTyped ==
  ASSUME OracleInv, ProcessInv, NEW p \in Pool, NEW S \in SUBSET Required[p], Fire(p, S)
  PROVE  ProcessTyped'
<1> DEFINE given == [pool |-> p, run |-> run, snapshot |-> Snapshot(p, S), fee |-> fee,
                     ended |-> Ended]
<1>1. /\ count' = count + 1
      /\ job' = [job EXCEPT ![count + 1] = given]
      /\ UNCHANGED <<sent, open, runVars>>
      /\ count < MaxTasks
  BY DEF Fire, Feed!Deliver
<1>2. given \in Job
  <2>1. fired' \in [Pool -> [Kind -> Nat]]
    BY FireKeeps DEF OracleInv, Types
  <2>2. Snapshot(p, S) \in [Kind -> Batch]
    BY <2>1 DEF OracleInv, Types, Snapshot, Batch
  <2>3. Ended \in SUBSET Task /\ run \in Nat /\ fee \in Nat
    BY DEF Ended, OracleInv, Types, ProcessInv, FeeRight
  <2> QED
    BY <2>2, <2>3 DEF Job
<1> HIDE DEF given
<1>3. /\ count \in 0 .. MaxTasks /\ MaxTasks \in Nat
      /\ job = [t \in Task |-> job[t]]
  BY Constants DEF OracleInv, Types
<1>4. \A t \in 1 .. count + 1 : job'[t] \in Job
  BY <1>1, <1>2, <1>3 DEF ProcessInv, ProcessTyped, Task
<1>5. \A t \in Task : t > count + 1 => job'[t] = None
  BY <1>1, <1>3 DEF ProcessInv, ProcessTyped, Task
<1>6. /\ Forwarded(ChaosLabs)' = Forwarded(ChaosLabs)
      /\ Forwarded(Autonom)' = Forwarded(Autonom)
      /\ Forwarded(Switchboard)' = Forwarded(Switchboard)
  BY <1>1 DEF Forwarded, runVars
<1> QED
  BY <1>1, <1>4, <1>5, <1>6 DEF ProcessInv, ProcessTyped, runVars

LEMMA RestartTyped ==
  ASSUME OracleInv, ProcessTyped, Restart
  PROVE  ProcessTyped' /\ FeeRight'
<1>1. PICK again \in SUBSET {k \in Kind : Forwarded(k) > 0} :
        base' = [k \in Kind |-> Forwarded(k) - (IF k \in again THEN 1 ELSE 0)]
  BY DEF Restart
<1>2. /\ run <= MaxRestarts /\ run' = run + 1
      /\ sent' = [k \in Kind |-> 0]
      /\ UNCHANGED <<open, taskVars>>
      /\ fee' = 0 /\ known' = <<>>
  BY DEF Restart
<1>3. \A k \in Kind : /\ Forwarded(k) \in Nat /\ Forwarded(k)' \in Int
                      /\ Forwarded(k)' <= Forwarded(k)
  BY <1>1, <1>2 DEF Forwarded, OracleInv, Types
<1>4. MaxBatches \in Nat /\ MaxRestarts \in Nat
  BY OracleAssumption DEF OracleAssumption
<1>5. Forwarded(ChaosLabs)' + Forwarded(Autonom)' + Forwarded(Switchboard)' <= MaxBatches
  BY <1>3, <1>4 DEF Kind, ProcessTyped
<1>6. ProcessTyped'
  BY <1>2, <1>4, <1>5 DEF ProcessTyped, taskVars
<1>7. FeeRight'
  BY <1>2, SMT DEF FeeRight, FeeOfLastSample
<1> QED
  BY <1>6, <1>7

LEMMA ProcessStep == OracleInv /\ ProcessInv /\ [Next]_vars => ProcessInv'
<1> SUFFICES ASSUME OracleInv, ProcessInv, [Next]_vars PROVE ProcessInv'
  OBVIOUS
<1> USE DEF ProcessInv
<1>1. ASSUME NEW k \in Kind, Publish(k) PROVE ProcessInv'
  BY <1>1, PublishTyped, FeeStays DEF Publish
<1>2. ASSUME NEW p \in Pool, NEW S \in SUBSET Required[p], Fire(p, S) PROVE ProcessInv'
  BY <1>2, FireTyped, FeeStays DEF Fire
<1>3. ASSUME UNCHANGED <<feedVars, feeVars, taskVars, runVars>> PROVE ProcessInv'
  BY <1>3, TypedStays, FeeStays DEF feedVars
<1>4. CASE FeeStep
  BY <1>4, TypedStays, RefreshRight DEF FeeStep, feedVars
<1>5. CASE Restart
  BY <1>5, RestartTyped
<1>6. ASSUME NEW t \in Task, CallStep(t) PROVE ProcessInv'
  BY <1>3, <1>6 DEF CallStep
<1>7. ASSUME NEW t \in Task, NEW h \in Tx, Lands(t, h) \/ Fails(t, h) PROVE ProcessInv'
  BY <1>3, <1>7 DEF Lands, Fails
<1>8. CASE UNCHANGED vars
  BY <1>3, <1>8 DEF vars
<1> QED
  BY <1>1, <1>2, <1>4, <1>5, <1>6, <1>7, <1>8 DEF Next

LEMMA ProcessInvariant == Spec => []ProcessInv
  BY Invariant, ProcessInit, ProcessStep, PTL DEF Spec

(* Every variable has its type and every bound holds: batches forwarded,   *)
(* tasks, runs; a task has a job from its spawn on, and what is on chain   *)
(* comes from a task that was spawned.                                     *)
THEOREM Typed == Spec => []TypeOK
<1>1. OracleInv /\ ProcessInv => TypeOK
  <2> SUFFICES ASSUME OracleInv, ProcessInv PROVE TypeOK
    OBVIOUS
  <2>1. \A t \in Task : job[t] \in Job \cup {None} /\ (job[t] # None <=> t <= count)
    <3> SUFFICES ASSUME NEW t \in Task
                 PROVE  job[t] \in Job \cup {None} /\ (job[t] # None <=> t <= count)
      OBVIOUS
    <3>1. t \in Nat /\ t >= 1 /\ count \in Nat
      BY Constants DEF Task, OracleInv, Types
    <3>2. CASE t <= count
      BY <3>1, <3>2, OracleAssumption DEF ProcessInv, ProcessTyped, OracleAssumption
    <3>3. CASE ~(t <= count)
      BY <3>1, <3>3 DEF ProcessInv, ProcessTyped
    <3> QED
      BY <3>2, <3>3
  <2>2. job \in [Task -> Job \cup {None}]
    BY <2>1 DEF OracleInv, Types
  <2>3. landed \in Seq([task : 1 .. count, tx : Tx])
    <3>1. \A i \in DOMAIN landed : landed[i] \in [task : 1 .. count, tx : Tx]
      <4> SUFFICES ASSUME NEW i \in DOMAIN landed
                   PROVE  landed[i] \in [task : 1 .. count, tx : Tx]
        OBVIOUS
      <4>1. landed[i] \in [task : Task, tx : Tx]
        BY Elements DEF OracleInv, Types
      <4>2. landed[i].task \in 1 .. count
        BY DEF OracleInv, Chain
      <4> QED
        BY <4>1, <4>2
    <3>2. landed \in Seq([task : Task, tx : Tx])
      BY DEF OracleInv, Types
    <3> QED
      BY <3>1, <3>2, ElementsIn
  <2> QED
    BY <2>1, <2>2, <2>3 DEF TypeOK, OracleInv, Types, ProcessInv, ProcessTyped, FeeRight
<1> QED
  BY <1>1, Invariant, ProcessInvariant, PTL

(* README.md:164, the fee is the exact percentile of the last answer that  *)
(* held fees, whatever the endpoints answer and whichever fail.            *)
THEOREM FeeRightlyTaken == Spec => []FeeOfLastSample
<1>1. ProcessInv => FeeOfLastSample
  BY Zenon DEF ProcessInv, FeeRight
<1> QED
  BY <1>1, ProcessInvariant, PTL

----------------------------------------------------------------------------
(* Building a transaction and reading it back.                             *)

Snapshots == [Kind -> Nat \cup {None}]

(* Sequences put together from short ones.                                 *)
LEMMA TwoEmptyOne ==
  ASSUME NEW a, NEW b, NEW c, NEW x, x = <<a, b>> \o <<>> \o <<c>>
  PROVE  Len(x) = 3 /\ x[1] = a /\ x[2] = b /\ x[3] = c
  OBVIOUS

LEMMA TwoTwoOne ==
  ASSUME NEW a, NEW b, NEW c, NEW d, NEW e, NEW x, x = <<a, b>> \o <<c, d>> \o <<e>>
  PROVE  Len(x) = 5 /\ x[1] = a /\ x[2] = b /\ x[3] = c /\ x[4] = d /\ x[5] = e
  OBVIOUS

LEMMA HeadAndTail ==
  ASSUME NEW A, NEW c \in Seq(A), NEW q
  PROVE  Head(<<q>> \o c) = q /\ Tail(<<q>> \o c) = c
<1>1. c \in Seq(A \cup {q}) /\ <<q>> \in Seq(A \cup {q})
  OBVIOUS
<1> QED
  BY <1>1

LEMMA AfterFive ==
  ASSUME NEW A, NEW c \in Seq(A), NEW a, NEW b, NEW d, NEW e, NEW f,
         NEW all, all = <<a, b, d, e, f>> \o <<>> \o c
  PROVE  SubSeq(all, 6, Len(all)) = c
<1> DEFINE B == A \cup {a, b, d, e, f}
<1>1. c \in Seq(B) /\ <<>> \in Seq(B) /\ <<a, b, d, e, f>> \in Seq(B)
  OBVIOUS
<1> HIDE DEF B
<1> QED
  BY <1>1

LEMMA AfterFiveQuoted ==
  ASSUME NEW A, NEW c \in Seq(A), NEW a, NEW b, NEW d, NEW e, NEW f, NEW q,
         NEW all, all = <<a, b, d, e, f>> \o <<q>> \o c
  PROVE  SubSeq(all, 6, Len(all)) = <<q>> \o c
<1> DEFINE B == A \cup {a, b, d, e, f, q}
<1>1. c \in Seq(B) /\ <<q>> \in Seq(B) /\ <<a, b, d, e, f>> \in Seq(B)
  OBVIOUS
<1> HIDE DEF B
<1> QED
  BY <1>1

(* Where the instructions are.                                             *)
LEMMA Layout ==
  ASSUME NEW pool, NEW s \in Snapshots, NEW f,
         NEW ixs, ixs = Build!Instructions(pool, s, f)
  PROVE  /\ ixs[1] = Build!Price(f) /\ ixs[2] = Build!Limit(pool)
         /\ Build!Update(ixs) = Build!UpdateIx(pool, s)
         /\ s[Switchboard] # None =>
              Len(ixs) = 5 /\ ixs[3] = Build!Ed25519(s) /\ ixs[4] = Build!QuoteStore(s)
<1>1. CASE s[Switchboard] = None
  <2>1. ixs = <<Build!Price(f), Build!Limit(pool)>> \o <<>> \o <<Build!UpdateIx(pool, s)>>
    BY <1>1 DEF Build!Instructions
  <2>2. /\ Len(ixs) = 3 /\ ixs[1] = Build!Price(f) /\ ixs[2] = Build!Limit(pool)
        /\ ixs[3] = Build!UpdateIx(pool, s)
    BY <2>1, TwoEmptyOne
  <2> QED
    BY <1>1, <2>2 DEF Build!Update
<1>2. CASE s[Switchboard] # None
  <2>1. ixs = <<Build!Price(f), Build!Limit(pool)>>
                \o <<Build!Ed25519(s), Build!QuoteStore(s)>> \o <<Build!UpdateIx(pool, s)>>
    BY <1>2 DEF Build!Instructions
  <2>2. /\ Len(ixs) = 5 /\ ixs[1] = Build!Price(f) /\ ixs[2] = Build!Limit(pool)
        /\ ixs[3] = Build!Ed25519(s) /\ ixs[4] = Build!QuoteStore(s)
        /\ ixs[5] = Build!UpdateIx(pool, s)
    BY <2>1, TwoTwoOne
  <2> QED
    BY <1>2, <2>2 DEF Build!Update
<1> QED
  BY <1>1, <1>2

(* The accounts after the fixed ones: the quote, if any, and the custodies.*)
LEMMA RemainingAccounts ==
  ASSUME NEW pool, NEW A, pool.custodies \in Seq(A), NEW s \in Snapshots, NEW ixs,
         Build!Update(ixs) = Build!UpdateIx(pool, s)
  PROVE  /\ Build!ReadCustodies(ixs) = pool.custodies
         /\ s[Switchboard] # None => Head(Build!Remaining(ixs)).quote = s[Switchboard]
<1> DEFINE accounts == Build!Update(ixs).accounts
           quote == [quote |-> s[Switchboard]]
<1>1. Build!Update(ixs).quoted = (s[Switchboard] # None)
  BY DEF Build!UpdateIx
<1>2. CASE s[Switchboard] = None
  <2>1. accounts = <<"payer", "cortex", pool.name, "oracle", "lp_token_mint">> \o <<>> \o pool.custodies
    BY <1>2 DEF Build!UpdateIx, Build!Quote, Build!Fixed
  <2>2. Build!Remaining(ixs) = SubSeq(accounts, 6, Len(accounts))
    BY DEF Build!Remaining
  <2> HIDE DEF accounts
  <2>3. Build!Remaining(ixs) = pool.custodies
    BY <2>1, <2>2, AfterFive
  <2> QED
    BY <1>1, <1>2, <2>3 DEF Build!ReadCustodies
<1>3. CASE s[Switchboard] # None
  <2>1. accounts = <<"payer", "cortex", pool.name, "oracle", "lp_token_mint">> \o <<quote>> \o pool.custodies
    BY <1>3 DEF Build!UpdateIx, Build!Quote, Build!Fixed
  <2>2. Build!Remaining(ixs) = SubSeq(accounts, 6, Len(accounts))
    BY DEF Build!Remaining
  <2>3. quote.quote = s[Switchboard]
    OBVIOUS
  <2> HIDE DEF accounts, quote
  <2>4. Build!Remaining(ixs) = <<quote>> \o pool.custodies
    BY <2>1, <2>2, AfterFiveQuoted
  <2>5. Head(Build!Remaining(ixs)) = quote /\ Tail(Build!Remaining(ixs)) = pool.custodies
    BY <2>4, HeadAndTail
  <2>6. Build!ReadCustodies(ixs) = Tail(Build!Remaining(ixs))
    BY <1>1, <1>3 DEF Build!ReadCustodies
  <2> QED
    BY <2>3, <2>5, <2>6
<1> QED
  BY <1>2, <1>3

(* The signed batches are found under their own tags.                      *)
LEMMA BatchesRead ==
  ASSUME NEW pool, NEW s \in Snapshots, NEW ixs, NEW k \in {ChaosLabs, Autonom},
         Build!Update(ixs) = Build!UpdateIx(pool, s)
  PROVE  Build!ReadBatch(ixs, k) = s[k]
<1> DEFINE all == Build!Batches(s)
           tagged(p) == [provider |-> p, batch |-> s[p]]
<1>1. Build!Update(ixs).multi = all /\ ChaosLabs # Autonom
  BY OracleAssumption DEF Build!UpdateIx, OracleAssumption
<1>2. /\ \A i \in DOMAIN all : all[i].provider = k => all[i].batch = s[k]
      /\ s[k] # None => \E i \in DOMAIN all : all[i].provider = k
      /\ s[k] = None => \A i \in DOMAIN all : all[i].provider # k
  <2>1. CASE s[ChaosLabs] = None /\ s[Autonom] = None
    BY <2>1 DEF Build!Batches, Build!Tagged
  <2>2. CASE s[ChaosLabs] # None /\ s[Autonom] = None
    <3>1. all = <<tagged(ChaosLabs)>> \o <<>>
      BY <2>2 DEF Build!Batches, Build!Tagged
    <3> HIDE DEF all
    <3>2. DOMAIN all = {1} /\ all[1] = tagged(ChaosLabs)
      BY <3>1
    <3> QED
      BY <1>1, <2>2, <3>2
  <2>3. CASE s[ChaosLabs] = None /\ s[Autonom] # None
    <3>1. all = <<>> \o <<tagged(Autonom)>>
      BY <2>3 DEF Build!Batches, Build!Tagged
    <3> HIDE DEF all
    <3>2. DOMAIN all = {1} /\ all[1] = tagged(Autonom)
      BY <3>1
    <3> QED
      BY <1>1, <2>3, <3>2
  <2>4. CASE s[ChaosLabs] # None /\ s[Autonom] # None
    <3>1. all = <<tagged(ChaosLabs)>> \o <<tagged(Autonom)>>
      BY <2>4 DEF Build!Batches, Build!Tagged
    <3> HIDE DEF all
    <3>2. DOMAIN all = {1, 2} /\ all[1] = tagged(ChaosLabs) /\ all[2] = tagged(Autonom)
      BY <3>1
    <3> QED
      BY <1>1, <2>4, <3>2
  <2> QED
    BY <2>1, <2>2, <2>3, <2>4
<1> HIDE DEF all
<1> QED
  BY <1>1, <1>2 DEF Build!ReadBatch

(* The quote is found where the sidecar's instructions are, and nowhere    *)
(* else: what stands there is another program's instruction, or none.      *)
LEMMA QuoteRead ==
  ASSUME NEW pool, NEW A, pool.custodies \in Seq(A), NEW s \in Snapshots, NEW f,
         NEW ixs, ixs = Build!Instructions(pool, s, f), NEW at \in Build!Position
  PROVE  Build!ReadQuote(ixs, at) = IF at = 2 THEN s[Switchboard] ELSE None
<1>1. /\ ixs[1] = Build!Price(f) /\ ixs[2] = Build!Limit(pool)
      /\ Build!Update(ixs) = Build!UpdateIx(pool, s)
      /\ s[Switchboard] # None =>
           Len(ixs) = 5 /\ ixs[3] = Build!Ed25519(s) /\ ixs[4] = Build!QuoteStore(s)
  BY Layout
<1>2. Build!Update(ixs).quoted = (s[Switchboard] # None)
  BY <1>1 DEF Build!UpdateIx
<1>3. CASE s[Switchboard] = None
  BY <1>2, <1>3 DEF Build!ReadQuote
<1>4. CASE s[Switchboard] # None
  <2>1. Head(Build!Remaining(ixs)).quote = s[Switchboard]
    BY <1>1, <1>4, RemainingAccounts
  <2>2. Build!Verified(ixs, 2, s[Switchboard])
    BY <1>1, <1>4 DEF Build!Verified, Build!Ed25519, Build!QuoteStore
  <2>3. ASSUME at # 2 PROVE ~Build!Verified(ixs, at, s[Switchboard])
    <3>1. at \in {0, 1, 3, 4}
      BY <2>3 DEF Build!Position
    <3>2. ASSUME Build!Verified(ixs, at, s[Switchboard])
          PROVE  at # 4 /\ ixs[at + 1].program = "ed25519"
      <4>1. at + 1 < Len(ixs) /\ Len(ixs) = 5
        BY <1>1, <1>4, <3>2 DEF Build!Verified
      <4>2. ixs[at + 1] = [program |-> "ed25519", update |-> s[Switchboard]]
        BY <3>2 DEF Build!Verified
      <4>3. at # 4
        BY <3>1, <4>1
      <4> QED
        BY <4>2, <4>3
    <3>3. /\ ixs[1].program = "set_compute_unit_price"
          /\ ixs[2].program = "set_compute_unit_limit"
          /\ ixs[4].program = "quote_store"
      BY <1>1, <1>4 DEF Build!Price, Build!Limit, Build!QuoteStore
    <3>4. at # 4 => ixs[at + 1].program # "ed25519"
      BY <3>1, <3>3
    <3> QED
      BY <3>2, <3>4
  <2> QED
    BY <1>2, <1>4, <2>1, <2>2, <2>3 DEF Build!ReadQuote
<1> QED
  BY <1>3, <1>4

(* The program reads back the snapshot that went in.                       *)
LEMMA RoundTrip ==
  ASSUME NEW pool, NEW A, pool.custodies \in Seq(A), NEW s \in Snapshots, NEW f,
         NEW ixs, ixs = Build!Instructions(pool, s, f)
  PROVE  /\ \A k \in {ChaosLabs, Autonom} : Build!ReadBatch(ixs, k) = s[k]
         /\ Build!Reads(ixs, 2) = s
<1>1. \A k \in {ChaosLabs, Autonom} : Build!ReadBatch(ixs, k) = s[k]
  <2>1. Build!Update(ixs) = Build!UpdateIx(pool, s)
    BY Layout
  <2> QED
    BY <2>1, BatchesRead
<1>2. Build!ReadQuote(ixs, 2) = s[Switchboard]
  BY QuoteRead DEF Build!Position
<1>3. \A k \in Kind : Build!Reads(ixs, 2)[k] = s[k]
  BY <1>1, <1>2 DEF Build!Reads, Build!Kind, Kind
<1>4. Build!Reads(ixs, 2) = [k \in Kind |-> Build!Reads(ixs, 2)[k]]
  BY DEF Build!Reads, Build!Kind, Kind
<1> QED
  BY <1>1, <1>3, <1>4 DEF Snapshots

LEMMA TransactionRead ==
  ASSUME JobTypes, NEW t \in 1 .. count
  PROVE  LET ixs == Build!Instructions(PoolOf(job[t].pool), job[t].snapshot, job[t].fee) IN
         /\ Build!Reads(ixs, 2) = job[t].snapshot
         /\ \A k \in {ChaosLabs, Autonom} : Build!ReadBatch(ixs, k) = job[t].snapshot[k]
         /\ \A at \in Build!Position :
              Build!ReadQuote(ixs, at) = IF at = 2 THEN job[t].snapshot[Switchboard] ELSE None
         /\ Build!ReadCustodies(ixs) = Custodies[job[t].pool]
         /\ ixs[1] = Build!Price(job[t].fee)
         /\ ixs[2] = Build!Limit(PoolOf(job[t].pool))
<1> DEFINE pool == PoolOf(job[t].pool)
           ixs == Build!Instructions(pool, job[t].snapshot, job[t].fee)
<1>1. pool.custodies = Custodies[job[t].pool] /\ Custodies[job[t].pool] \in Seq(Account)
  BY OracleAssumption DEF OracleAssumption, PoolOf, JobTypes
<1>2. job[t].snapshot \in Snapshots
  BY DEF JobTypes, Snapshots
<1> HIDE DEF pool
<1>3. /\ Build!Reads(ixs, 2) = job[t].snapshot
      /\ \A k \in {ChaosLabs, Autonom} : Build!ReadBatch(ixs, k) = job[t].snapshot[k]
      /\ \A at \in Build!Position :
           Build!ReadQuote(ixs, at) = IF at = 2 THEN job[t].snapshot[Switchboard] ELSE None
  BY <1>1, <1>2, RoundTrip, QuoteRead
<1>4. /\ ixs[1] = Build!Price(job[t].fee) /\ ixs[2] = Build!Limit(pool)
      /\ Build!Update(ixs) = Build!UpdateIx(pool, job[t].snapshot)
  BY <1>2, Layout
<1> HIDE DEF ixs
<1>5. Build!ReadCustodies(ixs) = pool.custodies
  BY <1>1, <1>2, <1>4, RemainingAccounts
<1> QED
  BY <1>1, <1>3, <1>4, <1>5 DEF ixs, pool

(* No batch reaches a pool on chain twice, except across a restart or by a *)
(* call one of whose sends was taken without an answer: two tasks of one   *)
(* run never share a batch, and one task has one acknowledged transaction. *)
THEOREM UpdatesLandOnce == Spec => []NoUpdateTwice
<1>1. OracleInv => NoUpdateTwice
  <2> SUFFICES ASSUME OracleInv, NEW i \in DOMAIN landed, NEW j \in DOMAIN landed, i < j,
                      SameBatch(landed[i].task, landed[j].task),
                      job[landed[i].task].run = job[landed[j].task].run
               PROVE  /\ landed[i].task = landed[j].task
                      /\ \E h \in {landed[i].tx, landed[j].tx} : h \in lost[landed[i].task]
    BY DEF NoUpdateTwice
  <2> DEFINE t == landed[i].task
             u == landed[j].task
  <2>1. /\ t \in 1 .. count /\ u \in 1 .. count /\ t \in Task
        /\ landed[i].tx \in Tx /\ landed[j].tx \in Tx
        /\ ledger[t][landed[i].tx] = "landed" /\ ledger[u][landed[j].tx] = "landed"
    BY LandedTypes DEF OracleInv, Chain
  <2>2. PICK k \in Kind : job[t].snapshot[k] # None /\ job[t].snapshot[k] = job[u].snapshot[k]
    BY DEF SameBatch
  <2>3. job[t].snapshot[k] \in Nat
    BY <2>1, <2>2 DEF OracleInv, Jobs, JobTypes
  <2>4. t = u
    <3>1. ~(t < u) /\ ~(u < t)
      BY <2>1, <2>2, <2>3 DEF OracleInv, Jobs, JobsGrow, SameBatch
    <3>2. t \in Int /\ u \in Int
      BY <2>1
    <3> HIDE DEF t, u
    <3> QED
      BY <3>1, <3>2
  <2>5. landed[i].tx # landed[j].tx
    <3>1. landed[i] \in [task : Task, tx : Tx] /\ landed[j] \in [task : Task, tx : Tx]
      BY Elements DEF OracleInv, Types
    <3>2. landed[i] # landed[j]
      <4>1. i \in Int /\ j \in Int
        BY DEF OracleInv, Types
      <4> QED
        BY <4>1 DEF OracleInv, Chain
    <3> QED
      BY <3>1, <3>2, <2>4
  <2>6. \A h \in Tx : ledger[t][h] = "landed" => h = acked[t] \/ h \in lost[t]
    BY <2>1 DEF OracleInv, Books, Accounted
  <2> QED
    BY <2>1, <2>4, <2>5, <2>6
<1> QED
  BY <1>1, Invariant, PTL

(* Nothing of a task whose call had ended gets on chain after a            *)
(* transaction of a task spawned since, except what a node took without    *)
(* answering, and the acknowledged transaction of a call that ended        *)
(* without knowing its fate: best effort, or killed.                       *)
THEOREM NewerOnTop == Spec => []NewerStays
<1>1. OracleInv => NewerStays
  BY DEF OracleInv
<1> QED
  BY <1>1, Invariant, PTL

(* The pending batches were rightly dropped before the send: what a        *)
(* confirmed call delivered is on chain and reads back as the snapshot.    *)
THEOREM ConfirmedMeansApplied == Spec => []ConfirmedApplied
<1>1. OracleInv => ConfirmedApplied
  <2> SUFFICES ASSUME OracleInv, NEW t \in Task, outcome[t] = "confirmed"
               PROVE  /\ \E i \in DOMAIN landed : landed[i] = [task |-> t, tx |-> acked[t]]
                      /\ Build!Reads(Transaction(t), 2) = job[t].snapshot
    BY DEF ConfirmedApplied
  <2>1. \E i \in DOMAIN landed : landed[i] = [task |-> t, tx |-> acked[t]]
    BY DEF OracleInv, Books, Truthful, Chain
  <2>2. t \in 1 .. count
    <3>1. ~(t > count)
      BY DEF OracleInv, Books, IdleSilent
    <3>2. t \in 1 .. MaxTasks /\ count \in 0 .. MaxTasks
      BY DEF OracleInv, Types, Task
    <3> QED
      BY <3>1, <3>2, Constants
  <2>3. Build!Reads(Transaction(t), 2) = job[t].snapshot
    BY <2>2, TransactionRead DEF OracleInv, Jobs, Transaction
  <2> QED
    BY <2>1, <2>3
<1> QED
  BY <1>1, Invariant, PTL

(* Every transaction built reads back as what went into it: the signed     *)
(* batches, the custodies, the fee price, and the quote for every sidecar  *)
(* let through that stated its index; under one that stated none, the      *)
(* quote or nothing.  And it has room for the ed25519 precompile.          *)
THEOREM TransactionsAreFaithful == Spec => []TransactionsFaithful
<1>1. OracleInv => TransactionsFaithful
  <2> SUFFICES ASSUME OracleInv, NEW t \in 1 .. count
               PROVE  LET ixs == Transaction(t)
                          p == job[t].pool
                          s == job[t].snapshot
                      IN /\ \A k \in Kind \ {Switchboard} : Build!ReadBatch(ixs, k) = s[k]
                         /\ \A at \in Build!Position : \A idx \in Build!Stated(at) :
                              Build!AcceptedIdx(idx) =>
                                Build!ReadQuote(ixs, at) =
                                  IF idx = None /\ at # 2 THEN None ELSE s[Switchboard]
                         /\ Build!ReadCustodies(ixs) = Custodies[p]
                         /\ Build!Price(job[t].fee) = ixs[1]
                         /\ ConfiguredCu[p] = None /\ s[Switchboard] # None =>
                              ixs[2].value >= Build!DEFAULT_CU_LIMIT_WITH_SWITCHBOARD
    BY DEF TransactionsFaithful
  <2> DEFINE ixs == Transaction(t)
             p == job[t].pool
             s == job[t].snapshot
  <2>1. JobTypes
    BY DEF OracleInv, Jobs
  <2>2. \A at \in Build!Position : \A idx \in Build!Stated(at) :
          Build!AcceptedIdx(idx) => idx = None \/ at = 2
    BY Constants DEF Build!AcceptedIdx, Build!Stated
  <2>3. /\ \A k \in {ChaosLabs, Autonom} : Build!ReadBatch(ixs, k) = s[k]
        /\ \A at \in Build!Position :
             Build!ReadQuote(ixs, at) = IF at = 2 THEN s[Switchboard] ELSE None
        /\ Build!ReadCustodies(ixs) = Custodies[p]
        /\ ixs[1] = Build!Price(job[t].fee)
        /\ ixs[2] = Build!Limit(PoolOf(p))
    BY <2>1, TransactionRead DEF Transaction
  <2>4. ConfiguredCu[p] = None /\ s[Switchboard] # None =>
          Build!Limit(PoolOf(p)).value = Build!DEFAULT_CU_LIMIT_WITH_SWITCHBOARD
    BY <2>1 DEF JobTypes, Build!Limit, PoolOf, Build!CuLimit, Kind
  <2>5. Build!DEFAULT_CU_LIMIT_WITH_SWITCHBOARD \in Nat
    BY DEF Build!DEFAULT_CU_LIMIT_WITH_SWITCHBOARD
  <2>6. Kind \ {Switchboard} \subseteq {ChaosLabs, Autonom}
    BY DEF Kind
  <2> HIDE DEF ixs, p, s
  <2>7. ConfiguredCu[p] = None /\ s[Switchboard] # None =>
          ixs[2].value >= Build!DEFAULT_CU_LIMIT_WITH_SWITCHBOARD
    BY <2>3, <2>4, <2>5
  <2>8. \A at \in Build!Position : \A idx \in Build!Stated(at) : Build!AcceptedIdx(idx) =>
          Build!ReadQuote(ixs, at) = IF idx = None /\ at # 2 THEN None ELSE s[Switchboard]
    BY <2>2, <2>3
  <2> QED
    BY <2>3, <2>6, <2>7, <2>8 DEF ixs, p, s
<1> QED
  BY <1>1, Invariant, PTL
=============================================================================
