--------------------------- MODULE ProviderPoller ---------------------------
(***************************************************************************)
(* One provider poller: run_provider_poller (src/src/oracle_poller.rs)     *)
(* around a cycle that reads the provider's latest row of oracle_batches   *)
(* and its price rows (src/src/db/get_oracle_batch.rs), validates them     *)
(* (src/src/providers/*.rs) and hands the batch to the dispatch channel.   *)
(*                                                                         *)
(* The database is written by another program; all the poller sees of it   *)
(* is that rows appear, the price rows with or after the batch row.  A row *)
(* is its two timestamps, whether its price rows are there, and whether it *)
(* decodes (signature, recovery id, feed ids, prices, sidecar metadata).   *)
(* Its position in the table is its oracle_batch_id.                       *)
(*                                                                         *)
(* Time is counted in units, UnitsPerSecond to the second: the checks work *)
(* on whole seconds, the clock does not.                                   *)
(***************************************************************************)
EXTENDS Integers, Sequences

CONSTANTS
  Signed,          \* ChaosLabs and Autonom; FALSE for Switchboard
  MaxAge,          \* ORACLE_BATCH_MAX_AGE_SECONDS
  MaxDrift,        \* ORACLE_BATCH_FUTURE_DRIFT_SECONDS
  UnitsPerSecond,  \* units of time in a second
  PollInterval,    \* poll_interval, in units
  ReadDelay,       \* BOUND: units one database query may take
  SendDelay,       \* BOUND: units a send may wait for room in the channel
  NewRow,          \* rows that may be written, timestamps relative to now
  MaxRows,         \* BOUND: rows written
  MaxRestarts,     \* BOUND: restarts of the process
  MaxTime          \* BOUND: units the run lasts

PollerAssumption ==
  /\ Signed \in BOOLEAN
  /\ MaxAge \in Nat /\ MaxDrift \in Nat
  /\ UnitsPerSecond \in Nat \ {0}
  /\ {PollInterval, ReadDelay, SendDelay} \subseteq Nat
  /\ NewRow \subseteq [ts : Int, priceTs : Int, prices : BOOLEAN, good : BOOLEAN]
  /\ {MaxRows, MaxRestarts, MaxTime} \subseteq Nat

ASSUME PollerAssumption

VARIABLES
  now,       \* the wall clock
  table,     \* oracle_batches of this provider, in oracle_batch_id order
  pc,        \* the poller's next step: read, prices, send, sleep or dead
  row,       \* the batch in hand, 0 for none
  lastKey,   \* last_dedup_key, 0 for None
  timer,     \* units left of the sleep
  lag,       \* units the current await has taken
  last,      \* history: the last batch that entered the channel
  done,      \* history: every batch that entered the channel
  run,       \* history: number of the process's run
  since      \* history: when the last restart or query failure happened

vars == <<now, table, pc, row, lastKey, timer, lag, last, done, run, since>>

Row == [ts : Int, priceTs : Int, prices : BOOLEAN, good : BOOLEAN, seen : Nat]

----------------------------------------------------------------------------
(* The database.                                                           *)

Insert(r) ==
  /\ Len(table) < MaxRows
  /\ table' = Append(table, [ts |-> now + r.ts, priceTs |-> now + r.priceTs,
                             prices |-> r.prices, good |-> r.good, seen |-> now])
  /\ UNCHANGED <<now, pc, row, lastKey, timer, lag, last, done, run, since>>

AddPrices(i) ==
  /\ ~table[i].prices
  /\ table' = [table EXCEPT ![i].prices = TRUE, ![i].seen = now]
  /\ UNCHANGED <<now, pc, row, lastKey, timer, lag, last, done, run, since>>

(* Variant with a mistake: ORDER BY oracle_batch_id DESC LIMIT 1.          *)
LastInserted == IF table = <<>> THEN {} ELSE {Len(table)}

(* ORDER BY latest_timestamp DESC LIMIT 1: any of the newest rows.         *)
Newest == {i \in DOMAIN table : \A j \in DOMAIN table : table[j].ts <= table[i].ts}

----------------------------------------------------------------------------
(* The checks of a cycle.                                                  *)

(* chrono's num_seconds truncates towards zero.                            *)
Seconds(units) ==
  IF units >= 0 THEN units \div UnitsPerSecond ELSE -((-units) \div UnitsPerSecond)

InTime(ts) == Seconds(now - ts) \in -MaxDrift .. MaxAge

(* decode_signature, feed id ranges, price bounds; the sidecar metadata.   *)
Decodes(r) == r.good

(* Variant with a mistake: the per-price timestamps are not checked.       *)
SignedAcceptsByHeader(r) == Decodes(r) /\ r.prices /\ InTime(r.ts)

(* ChaosLabs and Autonom: prices there, in time, and everything decodes.   *)
SignedAccepts(r) == Decodes(r) /\ r.prices /\ InTime(r.ts) /\ InTime(r.priceTs)

(* Switchboard: the metadata decode; neither prices nor times are read.    *)
SwitchboardAccepts(r) == Decodes(r)

Accepts(r) == IF Signed THEN SignedAccepts(r) ELSE SwitchboardAccepts(r)

----------------------------------------------------------------------------
(* The poller.                                                             *)

(* Variant with a mistake: the batch in hand is kept over the sleep.       *)
SleepHolding ==
  /\ pc' = "sleep"
  /\ row' = row
  /\ timer' = PollInterval
  /\ lag' = 0

Sleep ==
  /\ pc' = "sleep"
  /\ row' = 0
  /\ timer' = PollInterval
  /\ lag' = 0

ReadHeader ==
  /\ pc = "read"
  /\ \E i \in Newest : row' = i
  /\ pc' = "prices"
  /\ lag' = 0
  /\ UNCHANGED <<now, table, lastKey, timer, last, done, run, since>>

ReadNothing ==
  /\ pc = "read"
  /\ table = <<>>
  /\ Sleep
  /\ UNCHANGED <<now, table, lastKey, last, done, run, since>>

(* The pool, the connection or a query fails: Err, logged.                 *)
QueryFails ==
  /\ pc \in {"read", "prices"}
  /\ Sleep
  /\ since' = now
  /\ UNCHANGED <<now, table, lastKey, last, done, run>>

(* Variant with a mistake: a rejected batch counts as seen.                *)
RejectRemembering ==
  /\ pc = "prices"
  /\ ~Accepts(table[row])
  /\ lastKey' = row
  /\ Sleep
  /\ UNCHANGED <<now, table, last, done, run, since>>

(* Ok(None) or Err: stale, future-dated, without prices, malformed.        *)
Reject ==
  /\ pc = "prices"
  /\ ~Accepts(table[row])
  /\ Sleep
  /\ UNCHANGED <<now, table, lastKey, last, done, run, since>>

SkipDuplicate ==
  /\ pc = "prices"
  /\ Accepts(table[row])
  /\ row = lastKey
  /\ Sleep
  /\ UNCHANGED <<now, table, lastKey, last, done, run, since>>

(* Variant with a mistake: the key is never remembered.                    *)
AcceptForgetting ==
  /\ pc = "prices"
  /\ Accepts(table[row])
  /\ row # lastKey
  /\ pc' = "send"
  /\ lag' = 0
  /\ UNCHANGED <<now, table, row, lastKey, timer, last, done, run, since>>

(* The key is remembered before the send, which may wait for room.         *)
Accept ==
  /\ pc = "prices"
  /\ Accepts(table[row])
  /\ row # lastKey
  /\ lastKey' = row
  /\ pc' = "send"
  /\ lag' = 0
  /\ UNCHANGED <<now, table, row, timer, last, done, run, since>>

Send ==
  /\ pc = "send"
  /\ last' = [id |-> row, run |-> run]
  /\ done' = done \cup {row}
  /\ Sleep
  /\ UNCHANGED <<now, table, lastKey, run, since>>

(* A column that does not decode panics in the cycle and ends the task.    *)
Panics ==
  /\ pc \in {"read", "prices"}
  /\ table # <<>>
  /\ pc' = "dead"
  /\ row' = 0
  /\ UNCHANGED <<now, table, lastKey, timer, lag, last, done, run, since>>

Wake ==
  /\ pc = "sleep"
  /\ timer = 0
  /\ pc' = "read"
  /\ UNCHANGED <<now, table, row, lastKey, timer, lag, last, done, run, since>>

(* The process dies and is started again; nothing it held survives.        *)
Restart ==
  /\ run <= MaxRestarts
  /\ run' = run + 1
  /\ pc' = "read"
  /\ row' = 0
  /\ lastKey' = 0
  /\ timer' = 0
  /\ lag' = 0
  /\ since' = now
  /\ UNCHANGED <<now, table, last, done>>

Tick ==
  /\ now < MaxTime
  /\ now' = now + 1
  /\ \/ pc = "sleep" /\ timer > 0 /\ timer' = timer - 1 /\ lag' = lag
     \/ pc = "dead" /\ timer' = timer /\ lag' = lag
     \/ pc \in {"read", "prices"} /\ lag < ReadDelay /\ lag' = lag + 1 /\ timer' = timer
     \/ pc = "send" /\ lag < SendDelay /\ lag' = lag + 1 /\ timer' = timer
  /\ UNCHANGED <<table, pc, row, lastKey, last, done, run, since>>

(* The end of the bounded run.                                             *)
TimeUp == now = MaxTime /\ pc \in {"sleep", "dead"} /\ UNCHANGED vars

----------------------------------------------------------------------------

Init ==
  /\ now = 0
  /\ table = <<>>
  /\ pc = "read"
  /\ row = 0
  /\ lastKey = 0
  /\ timer = 0
  /\ lag = 0
  /\ last = [id |-> 0, run |-> 0]
  /\ done = {}
  /\ run = 1
  /\ since = 0

Next ==
  \/ \E r \in NewRow : Insert(r)
  \/ \E i \in DOMAIN table : AddPrices(i)
  \/ ReadHeader \/ ReadNothing \/ QueryFails \/ Panics
  \/ Reject \/ SkipDuplicate \/ Accept \/ Send
  \/ Wake \/ Restart \/ Tick \/ TimeUp

Spec == Init /\ [][Next]_vars

----------------------------------------------------------------------------
(* Properties.                                                             *)

TypeOK ==
  /\ now \in 0 .. MaxTime
  /\ table \in Seq(Row) /\ Len(table) <= MaxRows
  /\ pc \in {"read", "prices", "send", "sleep", "dead"}
  /\ row \in 0 .. Len(table)
  /\ pc \in {"prices", "send"} <=> row # 0
  /\ lastKey \in 0 .. Len(table)
  /\ timer \in 0 .. PollInterval
  /\ lag \in Nat
  /\ last \in [id : 0 .. Len(table), run : 0 .. run]
  /\ done \subseteq DOMAIN table
  /\ run \in 1 .. MaxRestarts + 1
  /\ since \in 0 .. now

(* How old a forwarded batch and its prices can be as they enter the       *)
(* channel: less than a second over the limit, for the truncation, plus    *)
(* what the send waited.  No restart, delay or late price row adds to it.  *)
AgeLimit == (MaxAge + 1) * UnitsPerSecond + SendDelay

ForwardedInTime ==
  [][Send => \A ts \in {table[row].ts, table[row].priceTs} : now - ts < AgeLimit]_vars

(* oracle_poller.rs:24-25, the same batch is not forwarded twice in a row  *)
(* by one run of the process.                                              *)
NoRepeat == [][Send => last # [id |-> row, run |-> run]]_vars

(* What is forwarded never goes back in time, not even across a restart.   *)
NeverBackwards ==
  [][Send /\ last.id # 0 => table[last.id].ts <= table[row].ts]_vars

(* No acceptable batch is missed: one that has been complete, in time and  *)
(* the newest for a whole cycle, without a restart, a failing query or a   *)
(* panic, has been forwarded or is being sent.  In particular a batch      *)
(* first seen without its prices, or dated too far ahead, is tried again.  *)
Cycle == 3 * ReadDelay + SendDelay + PollInterval

(* When a timestamp ahead of the clock comes to be accepted.               *)
DueAt(ts) == ts - (MaxDrift + 1) * UnitsPerSecond + 1

NoneMissed ==
  pc # "dead" => \A i \in DOMAIN table :
    LET r == table[i] IN
      /\ Accepts(r)
      /\ Newest = {i}
      /\ \A start \in {r.seen, DueAt(r.ts), DueAt(r.priceTs), since} : now - start > Cycle
      => i \in done \/ (pc = "send" /\ row = i)

(* chaoslabs.rs:30-33, a batch whose latest_timestamp or per-price         *)
(* timestamp is older than the limit is rejected.                          *)
NeverOlderThanMaxAge ==
  [][Accept => \A ts \in {table[row].ts, table[row].priceTs} :
       now - ts <= MaxAge * UnitsPerSecond]_vars
=============================================================================
