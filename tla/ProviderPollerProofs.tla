------------------------ MODULE ProviderPollerProofs ------------------------
(***************************************************************************)
(* Proofs about ProviderPoller, for any limits, delays, rows and restarts. *)
(*                                                                         *)
(* InHand says what the poller may rely on about the batch it holds from   *)
(* the read to the send, while the writer and the clock go on: it was the  *)
(* newest row when it was read, so nothing forwarded before it is newer;   *)
(* it was in time when it was accepted, and has aged since by the lag of   *)
(* the send; and it is not the last batch of this run.                     *)
(***************************************************************************)
EXTENDS ProviderPoller, TLAPS

LEMMA Bounds ==
  /\ Signed \in BOOLEAN
  /\ MaxAge \in Nat /\ MaxDrift \in Nat /\ UnitsPerSecond \in Nat /\ UnitsPerSecond > 0
  /\ PollInterval \in Nat /\ ReadDelay \in Nat /\ SendDelay \in Nat
  /\ NewRow \subseteq [ts : Int, priceTs : Int, prices : BOOLEAN, good : BOOLEAN]
  /\ MaxRows \in Nat /\ MaxRestarts \in Nat /\ MaxTime \in Nat
  BY PollerAssumption DEF PollerAssumption

LEMMA Quotients ==
  ASSUME NEW a \in Nat, NEW n \in Nat, NEW U \in Nat, U > 0
  PROVE  a \div U <= n <=> a < (n + 1) * U
<1> DEFINE q == a \div U
<1>1. q \in Nat /\ q * U <= a /\ a < (q + 1) * U
  OBVIOUS
<1> HIDE DEF q
<1>2. CASE q <= n
  <2>1. (q + 1) * U <= (n + 1) * U /\ (q + 1) * U \in Int /\ (n + 1) * U \in Int
    BY <1>1, <1>2
  <2> QED
    BY <1>1, <1>2, <2>1 DEF q
<1>3. CASE ~(q <= n)
  <2>1. n + 1 <= q
    BY <1>1, <1>3
  <2>2. (n + 1) * U <= q * U /\ q * U \in Int /\ (n + 1) * U \in Int
    BY <1>1, <2>1
  <2> QED
    BY <1>1, <1>3, <2>2 DEF q
<1> QED
  BY <1>2, <1>3

(* The limits that the truncated comparison really sets.                   *)
LEMMA InTimeIs ==
  ASSUME NEW clock \in Int, NEW ts \in Int
  PROVE  Seconds(clock - ts) \in -MaxDrift .. MaxAge
         <=> /\ ts - clock < (MaxDrift + 1) * UnitsPerSecond
             /\ clock - ts < (MaxAge + 1) * UnitsPerSecond
<1> DEFINE U == UnitsPerSecond
<1>1. U \in Nat /\ U > 0 /\ MaxAge \in Nat /\ MaxDrift \in Nat
  BY Bounds
<1>2. (MaxAge + 1) * U \in Nat /\ (MaxDrift + 1) * U \in Nat
      /\ (MaxAge + 1) * U > 0 /\ (MaxDrift + 1) * U > 0
  BY <1>1
<1>3. CASE clock - ts >= 0
  <2>1. (clock - ts) \div U <= MaxAge <=> clock - ts < (MaxAge + 1) * U
    BY <1>1, <1>3, Quotients
  <2>2. (clock - ts) \div U \in Nat /\ Seconds(clock - ts) = (clock - ts) \div U
    BY <1>1, <1>3 DEF Seconds
  <2> HIDE DEF U
  <2>3. Seconds(clock - ts) \in -MaxDrift .. MaxAge <=> clock - ts < (MaxAge + 1) * U
    BY <1>1, <2>1, <2>2
  <2> QED
    BY <1>2, <1>3, <2>3 DEF U
<1>4. CASE clock - ts < 0
  <2> DEFINE ahead == -(clock - ts)
  <2>1. ahead \in Nat /\ ahead = ts - clock
    BY <1>4
  <2>2. ahead \div U <= MaxDrift <=> ahead < (MaxDrift + 1) * U
    BY <1>1, <2>1, Quotients
  <2>3. ahead \div U \in Nat /\ Seconds(clock - ts) = -(ahead \div U)
    BY <1>1, <1>4, <2>1 DEF Seconds
  <2> HIDE DEF U, ahead
  <2>4. Seconds(clock - ts) \in -MaxDrift .. MaxAge <=> ahead < (MaxDrift + 1) * U
    BY <1>1, <2>2, <2>3
  <2> QED
    BY <1>2, <1>4, <2>1, <2>4 DEF U
<1> QED
  BY <1>3, <1>4

(* The age of a batch that a check let through, the truncation included.   *)
LEMMA InTimeMeans ==
  ASSUME now \in Int, NEW ts \in Int, InTime(ts)
  PROVE  now - ts < (MaxAge + 1) * UnitsPerSecond
  BY InTimeIs DEF InTime

----------------------------------------------------------------------------
(* The invariant.                                                          *)

(* Nothing forwarded is newer than the batch in hand.                      *)
Newer == row # 0 /\ last.id # 0 => table[last.id].ts <= table[row].ts

(* What this run forwarded last is what it remembers.                      *)
Remembered ==
  /\ pc # "send" /\ last.run = run => last.id = lastKey
  /\ pc = "send" => lastKey = row /\ last # [id |-> row, run |-> run]

(* A batch waiting to be sent was in time when it was accepted.            *)
Timely ==
  pc = "send" /\ Signed =>
    /\ lag <= SendDelay
    /\ now - table[row].ts < (MaxAge + 1) * UnitsPerSecond + lag
    /\ now - table[row].priceTs < (MaxAge + 1) * UnitsPerSecond + lag

PollerInv == TypeOK /\ Newer /\ Remembered /\ Timely

LEMMA Elements ==
  ASSUME NEW S, NEW s \in Seq(S), NEW i \in DOMAIN s
  PROVE  s[i] \in S
  OBVIOUS

LEMMA RowTypes ==
  ASSUME TypeOK, NEW i \in DOMAIN table
  PROVE  /\ table[i].ts \in Int /\ table[i].priceTs \in Int /\ table[i].seen \in Int
         /\ i \in 1 .. Len(table) /\ Len(table) \in Nat
<1>1. table[i] \in Row
  BY Elements DEF TypeOK
<1> QED
  BY <1>1 DEF Row, TypeOK

(* The writer adds rows and price rows; the timestamps of a row stay.      *)
LEMMA WriterKeepsRows ==
  ASSUME TypeOK,
         (\E r \in NewRow : Insert(r)) \/ (\E i \in DOMAIN table : AddPrices(i))
  PROVE  /\ table' \in Seq(Row) /\ Len(table') <= MaxRows /\ Len(table) <= Len(table')
         /\ DOMAIN table \subseteq DOMAIN table'
         /\ \A j \in DOMAIN table :
              table'[j].ts = table[j].ts /\ table'[j].priceTs = table[j].priceTs
         /\ UNCHANGED <<now, pc, row, lastKey, timer, lag, last, done, run, since>>
<1>1. ASSUME NEW r \in NewRow, Insert(r)
      PROVE  /\ table' \in Seq(Row) /\ Len(table') = Len(table) + 1 /\ Len(table) < MaxRows
             /\ DOMAIN table \subseteq DOMAIN table'
             /\ \A j \in DOMAIN table : table'[j] = table[j]
  <2> DEFINE new == [ts |-> now + r.ts, priceTs |-> now + r.priceTs,
                     prices |-> r.prices, good |-> r.good, seen |-> now]
  <2>1. new \in Row
    BY Bounds DEF TypeOK, Row
  <2>2. table' = Append(table, new) /\ Len(table) < MaxRows /\ table \in Seq(Row)
    BY <1>1 DEF Insert, TypeOK
  <2> HIDE DEF new
  <2> QED
    BY <2>1, <2>2
<1>2. ASSUME NEW i \in DOMAIN table, AddPrices(i)
      PROVE  /\ table' \in Seq(Row) /\ Len(table') = Len(table)
             /\ DOMAIN table' = DOMAIN table
             /\ \A j \in DOMAIN table :
                  table'[j].ts = table[j].ts /\ table'[j].priceTs = table[j].priceTs
  <2> DEFINE new == [table[i] EXCEPT !.prices = TRUE, !.seen = now]
  <2>1. new \in Row /\ new.ts = table[i].ts /\ new.priceTs = table[i].priceTs
    <3>1. table[i] \in Row /\ now \in Nat
      BY Elements DEF TypeOK
    <3> QED
      BY <3>1 DEF Row
  <2>2. table' = [table EXCEPT ![i] = new] /\ table \in Seq(Row)
    BY <1>2 DEF AddPrices, TypeOK
  <2> HIDE DEF new
  <2> QED
    BY <2>1, <2>2
<1>3. Len(table) \in Nat /\ Len(table) <= MaxRows /\ MaxRows \in Nat
  BY Bounds DEF TypeOK
<1>4. UNCHANGED <<now, pc, row, lastKey, timer, lag, last, done, run, since>>
  BY DEF Insert, AddPrices
<1>5. CASE \E r \in NewRow : Insert(r)
  <2>1. PICK r \in NewRow : Insert(r)
    BY <1>5
  <2> QED
    BY <2>1, <1>1, <1>3, <1>4
<1>6. CASE \E i \in DOMAIN table : AddPrices(i)
  <2>1. PICK i \in DOMAIN table : AddPrices(i)
    BY <1>6
  <2> QED
    BY <2>1, <1>2, <1>3, <1>4
<1> QED
  BY <1>5, <1>6

LEMMA WriterKeeps ==
  ASSUME PollerInv,
         (\E r \in NewRow : Insert(r)) \/ (\E i \in DOMAIN table : AddPrices(i))
  PROVE  PollerInv'
<1> USE DEF PollerInv
<1>1. TypeOK'
  BY WriterKeepsRows DEF TypeOK
<1>2. DOMAIN table = 1 .. Len(table) /\ Len(table) \in Nat
  BY DEF TypeOK
<1>3. Newer'
  BY <1>2, WriterKeepsRows DEF Newer, TypeOK
<1>4. Remembered'
  BY WriterKeepsRows DEF Remembered
<1>5. Timely'
  BY <1>2, WriterKeepsRows DEF Timely, TypeOK
<1> QED
  BY <1>1, <1>3, <1>4, <1>5

(* Whatever ends a cycle drops the batch in hand.                          *)
LEMMA SleepKeeps ==
  ASSUME PollerInv, Sleep, pc # "send", UNCHANGED <<now, table, lastKey, last, done, run>>,
         since' \in {since, now}
  PROVE  PollerInv'
<1> USE DEF PollerInv
<1>1. TypeOK'
  BY Bounds DEF TypeOK, Sleep
<1>2. Newer' /\ Remembered' /\ Timely'
  BY DEF Sleep, Newer, Remembered, Timely
<1> QED
  BY <1>1, <1>2

LEMMA ReadKeeps ==
  ASSUME PollerInv, ReadHeader
  PROVE  PollerInv'
<1> USE DEF PollerInv
<1>1. PICK i \in Newest : row' = i
  BY DEF ReadHeader
<1>2. /\ pc' = "prices" /\ lag' = 0 /\ pc = "read"
      /\ UNCHANGED <<now, table, lastKey, timer, last, done, run, since>>
  BY DEF ReadHeader
<1>3. i \in 1 .. Len(table) /\ Len(table) \in Nat /\ i # 0
  BY RowTypes DEF Newest
<1>4. TypeOK'
  BY <1>1, <1>2, <1>3 DEF TypeOK
<1>5. Newer'
  <2>1. last.id # 0 => last.id \in DOMAIN table
    BY DEF TypeOK
  <2> QED
    BY <1>1, <1>2, <2>1 DEF Newer, Newest
<1>6. Remembered' /\ Timely'
  BY <1>2 DEF Remembered, Timely
<1> QED
  BY <1>4, <1>5, <1>6

(* The key is remembered, and the batch is in time now.                    *)
LEMMA AcceptKeeps ==
  ASSUME PollerInv, Accept
  PROVE  PollerInv'
<1> USE DEF PollerInv
<1>1. /\ pc = "prices" /\ pc' = "send" /\ lag' = 0 /\ lastKey' = row /\ row # lastKey
      /\ Accepts(table[row])
      /\ UNCHANGED <<now, table, row, timer, last, done, run, since>>
  BY DEF Accept
<1>2. row \in DOMAIN table /\ now \in Int
  BY <1>1 DEF TypeOK
<1>3. TypeOK'
  BY <1>1 DEF TypeOK
<1>4. Newer'
  BY <1>1 DEF Newer
<1>5. Remembered'
  BY <1>1 DEF Remembered
<1>6. Timely'
  <2> SUFFICES ASSUME Signed
               PROVE  /\ 0 <= SendDelay
                      /\ now - table[row].ts < (MaxAge + 1) * UnitsPerSecond + 0
                      /\ now - table[row].priceTs < (MaxAge + 1) * UnitsPerSecond + 0
    BY <1>1 DEF Timely
  <2>1. /\ now - table[row].ts < (MaxAge + 1) * UnitsPerSecond
        /\ now - table[row].priceTs < (MaxAge + 1) * UnitsPerSecond
    BY <1>1, <1>2, RowTypes, InTimeMeans DEF Accepts, SignedAccepts
  <2>2. (MaxAge + 1) * UnitsPerSecond \in Nat /\ SendDelay \in Nat
    BY Bounds
  <2> QED
    BY <2>1, <2>2
<1> QED
  BY <1>3, <1>4, <1>5, <1>6

LEMMA SendKeeps ==
  ASSUME PollerInv, Send
  PROVE  PollerInv'
<1> USE DEF PollerInv
<1>1. /\ pc = "send" /\ pc' = "sleep" /\ row' = 0 /\ timer' = PollInterval /\ lag' = 0
      /\ last' = [id |-> row, run |-> run] /\ done' = done \cup {row}
      /\ UNCHANGED <<now, table, lastKey, run, since>>
  BY DEF Send, Sleep
<1>2. TypeOK'
  BY <1>1, Bounds DEF TypeOK
<1>3. Newer' /\ Remembered' /\ Timely'
  BY <1>1 DEF Newer, Remembered, Timely
<1> QED
  BY <1>2, <1>3

(* A new run remembers nothing and has forwarded nothing.                  *)
LEMMA RestartKeeps ==
  ASSUME PollerInv, Restart
  PROVE  PollerInv'
<1> USE DEF PollerInv
<1>1. /\ run <= MaxRestarts /\ run' = run + 1 /\ pc' = "read" /\ row' = 0 /\ lastKey' = 0
      /\ timer' = 0 /\ lag' = 0 /\ since' = now
      /\ UNCHANGED <<now, table, last, done>>
  BY DEF Restart
<1>2. TypeOK'
  BY <1>1, Bounds DEF TypeOK
<1>3. last.run # run'
  BY <1>1 DEF TypeOK
<1>4. Newer' /\ Remembered' /\ Timely'
  BY <1>1, <1>3 DEF Newer, Remembered, Timely
<1> QED
  BY <1>2, <1>4

(* A batch that waits to be sent ages with the lag.                        *)
LEMMA TickKeeps ==
  ASSUME PollerInv, Tick
  PROVE  PollerInv'
<1> USE DEF PollerInv
<1>1. /\ now < MaxTime /\ now' = now + 1
      /\ UNCHANGED <<table, pc, row, lastKey, last, done, run, since>>
  BY DEF Tick
<1>2. lag' \in Nat /\ timer' \in 0 .. PollInterval
  BY Bounds DEF Tick, TypeOK
<1>3. TypeOK'
  BY <1>1, <1>2, Bounds DEF TypeOK
<1>4. Newer' /\ Remembered'
  BY <1>1 DEF Newer, Remembered
<1>5. Timely'
  <2> SUFFICES ASSUME pc = "send", Signed
               PROVE  /\ lag' <= SendDelay
                      /\ now' - table[row].ts < (MaxAge + 1) * UnitsPerSecond + lag'
                      /\ now' - table[row].priceTs < (MaxAge + 1) * UnitsPerSecond + lag'
    BY <1>1 DEF Timely
  <2>1. lag < SendDelay /\ lag' = lag + 1
    BY DEF Tick
  <2>2. row \in DOMAIN table /\ now \in Int /\ lag \in Nat
    BY DEF TypeOK
  <2>3. table[row].ts \in Int /\ table[row].priceTs \in Int
    BY <2>2, RowTypes
  <2>4. (MaxAge + 1) * UnitsPerSecond \in Nat /\ SendDelay \in Nat
    BY Bounds
  <2>5. /\ now - table[row].ts < (MaxAge + 1) * UnitsPerSecond + lag
        /\ now - table[row].priceTs < (MaxAge + 1) * UnitsPerSecond + lag
    BY DEF Timely
  <2> QED
    BY <1>1, <2>1, <2>2, <2>3, <2>4, <2>5
<1> QED
  BY <1>3, <1>4, <1>5

(* A poller that panics or wakes holds nothing.                            *)
LEMMA EmptyHandedKeeps ==
  ASSUME PollerInv, Panics \/ Wake
  PROVE  PollerInv'
<1> USE DEF PollerInv
<1>1. /\ pc # "send" /\ pc' \in {"read", "dead"} /\ row' = 0
      /\ UNCHANGED <<now, table, lastKey, timer, lag, last, done, run, since>>
  BY DEF Panics, Wake, TypeOK
<1>2. TypeOK'
  BY <1>1 DEF TypeOK
<1>3. Newer' /\ Remembered' /\ Timely'
  BY <1>1 DEF Newer, Remembered, Timely
<1> QED
  BY <1>2, <1>3

LEMMA InitInv == Init => PollerInv
<1> SUFFICES ASSUME Init PROVE PollerInv
  OBVIOUS
<1>1. TypeOK
  BY Bounds DEF Init, TypeOK
<1>2. Newer /\ Remembered /\ Timely
  BY DEF Init, Newer, Remembered, Timely
<1> QED
  BY <1>1, <1>2 DEF PollerInv

LEMMA StepInv == PollerInv /\ [Next]_vars => PollerInv'
<1> SUFFICES ASSUME PollerInv, [Next]_vars PROVE PollerInv'
  OBVIOUS
<1>1. CASE (\E r \in NewRow : Insert(r)) \/ (\E i \in DOMAIN table : AddPrices(i))
  BY <1>1, WriterKeeps
<1>2. CASE ReadHeader
  BY <1>2, ReadKeeps
<1>3. CASE ReadNothing \/ QueryFails \/ Reject \/ SkipDuplicate
  BY <1>3, SleepKeeps DEF ReadNothing, QueryFails, Reject, SkipDuplicate
<1>4. CASE Accept
  BY <1>4, AcceptKeeps
<1>5. CASE Send
  BY <1>5, SendKeeps
<1>6. CASE Panics \/ Wake
  BY <1>6, EmptyHandedKeeps
<1>7. CASE Restart
  BY <1>7, RestartKeeps
<1>8. CASE Tick
  BY <1>8, TickKeeps
<1>9. CASE TimeUp \/ UNCHANGED vars
  BY <1>9 DEF TimeUp, vars, PollerInv, TypeOK, Newer, Remembered, Timely
<1> QED
  BY <1>1, <1>2, <1>3, <1>4, <1>5, <1>6, <1>7, <1>8, <1>9 DEF Next

LEMMA Invariance == Spec => []PollerInv
  BY InitInv, StepInv, PTL DEF Spec

----------------------------------------------------------------------------

(* Every reachable state of the poller is well typed.                      *)
THEOREM TypeCorrect == Spec => []TypeOK
  BY Invariance, PTL DEF PollerInv

(* Neither a restart nor a late price row nor a wait for the channel makes *)
(* a signed provider's poller forward a batch beyond the age limit.        *)
THEOREM AlwaysInTime == ASSUME Signed PROVE Spec => ForwardedInTime
<1>1. PollerInv /\ [Next]_vars =>
        [Send => \A ts \in {table[row].ts, table[row].priceTs} : now - ts < AgeLimit]_vars
  <2> SUFFICES ASSUME PollerInv, Send, NEW ts \in {table[row].ts, table[row].priceTs}
               PROVE  now - ts < AgeLimit
    OBVIOUS
  <2>1. row \in DOMAIN table /\ now \in Int /\ lag \in Nat
    BY DEF Send, PollerInv, TypeOK
  <2>2. ts \in Int
    BY <2>1, RowTypes DEF PollerInv
  <2>3. lag <= SendDelay /\ now - ts < (MaxAge + 1) * UnitsPerSecond + lag
    BY DEF Send, PollerInv, Timely
  <2>4. (MaxAge + 1) * UnitsPerSecond \in Nat /\ SendDelay \in Nat
    BY Bounds
  <2> QED
    BY <2>1, <2>2, <2>3, <2>4 DEF AgeLimit
<1> QED
  BY <1>1, Invariance, PTL DEF Spec, ForwardedInTime

(* One run never forwards the same batch twice in a row.                   *)
THEOREM NeverRepeats == Spec => NoRepeat
<1>1. PollerInv /\ [Next]_vars => [Send => last # [id |-> row, run |-> run]]_vars
  BY DEF PollerInv, Remembered, Send
<1> QED
  BY <1>1, Invariance, PTL DEF Spec, NoRepeat

(* The stream a poller forwards never goes back in time, over any number   *)
(* of restarts and with a writer that inserts in any order.                *)
THEOREM StreamMovesOn == Spec => NeverBackwards
<1>1. PollerInv /\ [Next]_vars =>
        [Send /\ last.id # 0 => table[last.id].ts <= table[row].ts]_vars
  BY DEF PollerInv, TypeOK, Newer, Send
<1> QED
  BY <1>1, Invariance, PTL DEF Spec, NeverBackwards
----------------------------------------------------------------------------
(* No acceptable batch is missed.  Awaited is the time table: as long as   *)
(* the only newest batch is neither sent nor in hand, the time since it    *)
(* could first be accepted is bounded by where the poller is in its cycle. *)
(* A header read before that time costs a whole cycle.                     *)

Starts(i) == {table[i].seen, DueAt(table[i].ts), DueAt(table[i].priceTs), since}

Within(i, d) == \E start \in Starts(i) : now - start <= d

Only(i) == \A j \in DOMAIN table : j # i => table[j].ts < table[i].ts

Open(i) ==
  /\ pc # "dead" /\ Accepts(table[i]) /\ Only(i)
  /\ i \notin done /\ ~(pc = "send" /\ row = i)

Rest == ReadDelay + SendDelay + PollInterval

Slack(i) ==
  IF pc = "sleep" THEN Rest - timer
  ELSE IF pc = "read" THEN Rest + lag
  ELSE IF pc = "send" THEN ReadDelay + lag
  ELSE IF row = i THEN Rest + ReadDelay + lag
  ELSE lag

Awaited == \A i \in DOMAIN table : Open(i) => Within(i, Slack(i))

LagBound ==
  /\ pc \in {"read", "prices"} => lag <= ReadDelay
  /\ pc = "send" => lag <= SendDelay
  /\ pc = "sleep" => lag = 0

KeyDone == lastKey # 0 => lastKey \in done \/ (pc = "send" /\ row = lastKey)

ChaseInv == TypeOK /\ LagBound /\ KeyDone /\ Awaited

LEMMA StartsAreTimes ==
  ASSUME TypeOK, NEW i \in DOMAIN table
  PROVE  now \in Nat /\ Starts(i) \subseteq Int
<1>1. \A ts \in Int : DueAt(ts) \in Int
  BY Bounds DEF DueAt
<1>2. /\ table[i].seen \in Int /\ DueAt(table[i].ts) \in Int
      /\ DueAt(table[i].priceTs) \in Int /\ since \in Int /\ now \in Nat
  <2>1. table[i].seen \in Int /\ table[i].ts \in Int /\ table[i].priceTs \in Int
    BY RowTypes
  <2>2. since \in Int /\ now \in Nat
    BY Bounds DEF TypeOK
  <2> QED
    BY <1>1, <2>1, <2>2
<1> QED
  BY <1>2 DEF Starts

LEMMA Delays ==
  ASSUME TypeOK, LagBound, NEW i
  PROVE  /\ Rest \in Nat /\ ReadDelay \in Nat /\ SendDelay \in Nat /\ lag \in Nat
         /\ Rest = ReadDelay + SendDelay + PollInterval /\ PollInterval \in Nat
         /\ timer \in 0 .. PollInterval
         /\ pc # "dead" => Slack(i) \in Nat /\ Slack(i) <= Cycle
<1>1. /\ Rest \in Nat /\ ReadDelay \in Nat /\ SendDelay \in Nat /\ lag \in Nat
      /\ PollInterval \in Nat /\ timer \in 0 .. PollInterval
      /\ Rest = ReadDelay + SendDelay + PollInterval
  BY Bounds DEF TypeOK, Rest
<1>2. Cycle = Rest + ReadDelay + ReadDelay
  BY <1>1 DEF Cycle
<1>3. pc \in {"read", "prices", "send", "sleep", "dead"}
  BY DEF TypeOK
<1>4. pc # "dead" => Slack(i) \in Nat /\ Slack(i) <= Cycle
  BY <1>1, <1>2, <1>3 DEF LagBound, Slack
<1> QED
  BY <1>1, <1>4

LEMMA WithinMore ==
  ASSUME TypeOK, NEW i \in DOMAIN table, NEW d \in Int, NEW e \in Int, d <= e, Within(i, d)
  PROVE  Within(i, e)
<1>1. PICK start \in Starts(i) : now - start <= d
  BY DEF Within
<1>2. start \in Int /\ now \in Int
  BY StartsAreTimes
<1>3. now - start <= e
  BY <1>1, <1>2
<1> QED
  BY <1>1, <1>3 DEF Within

(* A step of the poller that leaves rows, clock and what was sent alone.   *)
LEMMA PollerStep ==
  ASSUME ChaseInv, TypeOK', LagBound', UNCHANGED <<now, table, since>>,
         done \subseteq done',
         NEW i \in DOMAIN table, Open(i)',
         pc # "dead", ~(pc = "send" /\ row = i),
         Slack(i) <= Slack(i)'
  PROVE  Within(i, Slack(i))'
<1>1. i \in DOMAIN table' /\ Open(i)
  BY DEF Open, Accepts, SignedAccepts, SwitchboardAccepts, InTime, Seconds, Decodes, Only
<1>2. Slack(i) \in Int /\ Slack(i)' \in Int
  <2>1. Slack(i) \in Int
    BY Delays DEF ChaseInv
  <2>2. Slack(i)' \in Int
    <3>1. pc' # "dead" /\ pc' \in {"read", "prices", "send", "sleep", "dead"}
      BY DEF Open, TypeOK
    <3>2. lag' \in Nat /\ timer' \in 0 .. PollInterval /\ Rest \in Nat /\ ReadDelay \in Nat
          /\ PollInterval \in Nat
      BY Bounds DEF TypeOK, Rest
    <3> QED
      BY <3>1, <3>2 DEF Slack, Rest
  <2> QED
    BY <2>1, <2>2
<1>3. Within(i, Slack(i))
  BY <1>1 DEF ChaseInv, Awaited
<1>4. PICK start \in Starts(i) : now - start <= Slack(i)
  BY <1>3 DEF Within
<1>5. start \in Int /\ now \in Int
  BY StartsAreTimes DEF ChaseInv
<1>6. now - start <= Slack(i)'
  BY <1>2, <1>4, <1>5
<1>7. start \in Starts(i)'
  BY DEF Starts
<1> QED
  BY <1>6, <1>7 DEF Within
(* A start that is not in the past bounds everything.                      *)
LEMMA StartsNow ==
  ASSUME NEW i, NEW start \in Starts(i), NEW d \in Nat, start \in Int, now \in Int, now <= start
  PROVE  Within(i, d)
<1>1. now - start <= d
  OBVIOUS
<1> QED
  BY <1>1 DEF Within

(* The header and the query that fail, and what is rejected or a duplicate *)
(* end the cycle; none of them had the awaited batch in hand.              *)
LEMMA SleepChases ==
  ASSUME ChaseInv, TypeOK', pc \in {"read", "prices"}, Sleep,
         UNCHANGED <<now, table, lastKey, last, done, run, since>>,
         pc = "prices" => ~Accepts(table[row]) \/ row = lastKey,
         pc = "read" => table = <<>>
  PROVE  ChaseInv'
<1>1. LagBound' /\ KeyDone'
  BY DEF Sleep, ChaseInv, LagBound, KeyDone
<1>2. Awaited'
  <2> SUFFICES ASSUME NEW i \in DOMAIN table', Open(i)' PROVE Within(i, Slack(i))'
    BY DEF Awaited
  <2>1. i \in DOMAIN table /\ pc = "prices"
    BY DEF ChaseInv, TypeOK
  <2>2. row # i
    <3>1. Accepts(table[i]) /\ i \notin done
      BY DEF Open, Accepts, SignedAccepts, SwitchboardAccepts, InTime, Seconds, Decodes
    <3>2. i # 0 /\ (row = lastKey => lastKey \in done \/ row # i)
      BY <2>1, RowTypes DEF ChaseInv, KeyDone
    <3> QED
      BY <2>1, <3>1, <3>2
  <2>3. Slack(i) = lag /\ lag <= ReadDelay
    BY <2>1, <2>2 DEF Slack, ChaseInv, LagBound
  <2>4. Slack(i)' = Rest - PollInterval
    BY DEF Slack, Sleep, Rest
  <2>5. Slack(i) <= Slack(i)'
    BY <2>1, <2>3, <2>4, Delays DEF ChaseInv
  <2> QED
    BY <1>1, <2>1, <2>5, PollerStep
<1> QED
  BY <1>1, <1>2 DEF ChaseInv

(* A failing query starts the time table anew.                             *)
LEMMA FailChases ==
  ASSUME ChaseInv, TypeOK', QueryFails
  PROVE  ChaseInv'
<1>1. LagBound' /\ KeyDone'
  BY DEF QueryFails, Sleep, ChaseInv, LagBound, KeyDone
<1>2. Awaited'
  <2> SUFFICES ASSUME NEW i \in DOMAIN table', Open(i)' PROVE Within(i, Slack(i))'
    BY DEF Awaited
  <2>1. since' = now /\ now' = now /\ now \in Nat
    BY DEF QueryFails, ChaseInv, TypeOK
  <2>2. Slack(i)' = Rest - PollInterval
    BY DEF QueryFails, Slack, Sleep, Rest
  <2>3. Slack(i)' >= 0 /\ Slack(i)' \in Int
    BY <2>2, Bounds DEF Rest
  <2>4. since' \in Starts(i)' /\ now' - since' <= Slack(i)'
    BY <2>1, <2>3 DEF Starts
  <2> QED
    BY <2>4 DEF Within
<1> QED
  BY <1>1, <1>2 DEF ChaseInv

LEMMA RestartChases ==
  ASSUME ChaseInv, TypeOK', Restart
  PROVE  ChaseInv'
<1>1. /\ pc' = "read" /\ lag' = 0 /\ lastKey' = 0 /\ since' = now /\ now' = now /\ now \in Nat
  BY DEF Restart, ChaseInv, TypeOK
<1>2. LagBound' /\ KeyDone'
  BY <1>1, Bounds DEF LagBound, KeyDone
<1>3. Awaited'
  <2> SUFFICES ASSUME NEW i \in DOMAIN table', Open(i)' PROVE Within(i, Slack(i))'
    BY DEF Awaited
  <2>1. Slack(i)' = Rest + 0 /\ Rest \in Nat
    BY <1>1, Bounds DEF Slack, Rest
  <2>2. since' \in Starts(i)' /\ now' - since' <= Slack(i)'
    BY <1>1, <2>1 DEF Starts
  <2> QED
    BY <2>2 DEF Within
<1> QED
  BY <1>2, <1>3 DEF ChaseInv

(* The header read picks the only newest row.                              *)
LEMMA ReadChases ==
  ASSUME ChaseInv, TypeOK', ReadHeader
  PROVE  ChaseInv'
<1>1. /\ pc = "read" /\ pc' = "prices" /\ lag' = 0 /\ row' \in Newest
      /\ UNCHANGED <<now, table, lastKey, timer, last, done, run, since>>
  BY DEF ReadHeader
<1>2. LagBound' /\ KeyDone'
  BY <1>1, Bounds DEF ChaseInv, LagBound, KeyDone
<1>3. Awaited'
  <2> SUFFICES ASSUME NEW i \in DOMAIN table', Open(i)' PROVE Within(i, Slack(i))'
    BY DEF Awaited
  <2>1. i \in DOMAIN table /\ Only(i)
    BY <1>1 DEF Open, Only
  <2>2. row' = i
    <3>1. row' \in DOMAIN table /\ table[i].ts <= table[row'].ts
      BY <1>1, <2>1 DEF Newest
    <3>2. table[i].ts \in Int /\ table[row'].ts \in Int
      BY <2>1, <3>1, RowTypes DEF ChaseInv
    <3> QED
      BY <2>1, <3>1, <3>2 DEF Only
  <2>3. Slack(i) = Rest + lag /\ Slack(i)' = Rest + ReadDelay + 0
    BY <1>1, <2>2 DEF Slack, Rest
  <2>4. Slack(i) <= Slack(i)'
    BY <1>1, <2>1, <2>3, Delays DEF ChaseInv, LagBound
  <2> QED
    BY <1>1, <1>2, <2>1, <2>4, PollerStep
<1> QED
  BY <1>2, <1>3 DEF ChaseInv

(* Another batch is accepted while the awaited one has become the newest.  *)
LEMMA AcceptChases ==
  ASSUME ChaseInv, TypeOK', Accept
  PROVE  ChaseInv'
<1>1. /\ pc = "prices" /\ pc' = "send" /\ lag' = 0 /\ lastKey' = row /\ row' = row
      /\ UNCHANGED <<now, table, timer, last, done, run, since>>
  BY DEF Accept
<1>2. LagBound' /\ KeyDone'
  BY <1>1, Bounds DEF LagBound, KeyDone
<1>3. Awaited'
  <2> SUFFICES ASSUME NEW i \in DOMAIN table', Open(i)' PROVE Within(i, Slack(i))'
    BY DEF Awaited
  <2>1. i \in DOMAIN table /\ row # i
    BY <1>1 DEF Open
  <2>2. Slack(i) = lag /\ Slack(i)' = ReadDelay + 0
    BY <1>1, <2>1 DEF Slack
  <2>3. Slack(i) <= Slack(i)'
    BY <1>1, <2>1, <2>2, Delays DEF ChaseInv, LagBound
  <2> QED
    BY <1>1, <1>2, <2>1, <2>3, PollerStep
<1> QED
  BY <1>2, <1>3 DEF ChaseInv

LEMMA SendChases ==
  ASSUME ChaseInv, TypeOK', Send
  PROVE  ChaseInv'
<1>1. /\ pc = "send" /\ pc' = "sleep" /\ lag' = 0 /\ timer' = PollInterval
      /\ done' = done \cup {row}
      /\ UNCHANGED <<now, table, lastKey, run, since>>
  BY DEF Send, Sleep
<1>2. LagBound' /\ KeyDone'
  BY <1>1 DEF ChaseInv, LagBound, KeyDone
<1>3. Awaited'
  <2> SUFFICES ASSUME NEW i \in DOMAIN table', Open(i)' PROVE Within(i, Slack(i))'
    BY DEF Awaited
  <2>1. i \in DOMAIN table /\ row # i
    BY <1>1 DEF Open
  <2>2. Slack(i) = ReadDelay + lag /\ Slack(i)' = Rest - PollInterval
    BY <1>1 DEF Slack, Rest
  <2>3. Slack(i) <= Slack(i)'
    BY <1>1, <2>1, <2>2, Delays DEF ChaseInv, LagBound
  <2> QED
    BY <1>1, <1>2, <2>1, <2>3, PollerStep
<1> QED
  BY <1>2, <1>3 DEF ChaseInv

LEMMA WakeChases ==
  ASSUME ChaseInv, TypeOK', Wake
  PROVE  ChaseInv'
<1>1. /\ pc = "sleep" /\ pc' = "read" /\ timer = 0
      /\ UNCHANGED <<now, table, row, lastKey, timer, lag, last, done, run, since>>
  BY DEF Wake
<1>2. LagBound' /\ KeyDone'
  BY <1>1, Bounds DEF ChaseInv, LagBound, KeyDone
<1>3. Awaited'
  <2> SUFFICES ASSUME NEW i \in DOMAIN table', Open(i)' PROVE Within(i, Slack(i))'
    BY DEF Awaited
  <2>1. i \in DOMAIN table
    BY <1>1
  <2>2. Slack(i) = Rest - 0 /\ Slack(i)' = Rest + lag
    BY <1>1 DEF Slack, Rest
  <2>3. Slack(i) <= Slack(i)'
    BY <1>1, <2>1, <2>2, Delays DEF ChaseInv, LagBound
  <2> QED
    BY <1>1, <1>2, <2>1, <2>3, PollerStep
<1> QED
  BY <1>2, <1>3 DEF ChaseInv

LEMMA PanicChases ==
  ASSUME ChaseInv, TypeOK', Panics
  PROVE  ChaseInv'
<1>1. /\ pc \in {"read", "prices"} /\ pc' = "dead"
      /\ UNCHANGED <<lastKey, done>>
  BY DEF Panics
<1>2. LagBound' /\ KeyDone' /\ Awaited'
  BY <1>1 DEF ChaseInv, LagBound, KeyDone, Awaited, Open
<1> QED
  BY <1>2 DEF ChaseInv
(* A tick lets every bound grow by one; what it lets be accepted was due   *)
(* just now.                                                               *)
LEMMA TickChases ==
  ASSUME ChaseInv, TypeOK', Tick
  PROVE  ChaseInv'
<1>1. /\ now' = now + 1 /\ now \in Nat
      /\ UNCHANGED <<table, pc, row, lastKey, last, done, run, since>>
  BY Bounds DEF Tick, ChaseInv, TypeOK
<1>2. LagBound' /\ KeyDone'
  BY <1>1, Bounds DEF Tick, ChaseInv, TypeOK, LagBound, KeyDone
<1>3. Awaited'
  <2> SUFFICES ASSUME NEW i \in DOMAIN table', Open(i)' PROVE Within(i, Slack(i))'
    BY DEF Awaited
  <2>1. i \in DOMAIN table /\ pc # "dead" /\ Starts(i)' = Starts(i)
    BY <1>1 DEF Open, Starts
  <2>2. Slack(i) \in Nat /\ Slack(i)' = Slack(i) + 1
    <3>1. Slack(i) \in Nat /\ lag \in Nat /\ timer \in Nat /\ Rest \in Nat /\ ReadDelay \in Nat
      BY <2>1, Delays DEF ChaseInv
    <3>2. pc \in {"read", "prices", "send", "sleep"}
      BY <2>1 DEF ChaseInv, TypeOK
    <3>3. /\ pc = "sleep" => timer' = timer - 1
          /\ pc # "sleep" => lag' = lag + 1
      BY <2>1 DEF Tick
    <3>4. Slack(i)' = Slack(i) + 1
      BY <1>1, <3>1, <3>2, <3>3 DEF Slack, Rest
    <3> QED
      BY <3>1, <3>4
  <2>3. CASE Accepts(table[i])
    <3>1. Open(i)
      BY <1>1, <2>3 DEF Open, Only
    <3>2. PICK start \in Starts(i) : now - start <= Slack(i)
      BY <2>1, <3>1 DEF ChaseInv, Awaited, Within
    <3>3. start \in Int
      BY <2>1, StartsAreTimes DEF ChaseInv
    <3>4. now' - start <= Slack(i)'
      BY <1>1, <2>2, <3>2, <3>3
    <3> QED
      BY <2>1, <3>2, <3>4 DEF Within
  <2>4. CASE ~Accepts(table[i])
    <3>1. /\ Decodes(table[i]) /\ table[i].prices
          /\ InTime(table[i].ts)' /\ InTime(table[i].priceTs)'
      BY <1>1, <2>4 DEF Open, Accepts, SignedAccepts, SwitchboardAccepts, Decodes
    <3>2. PICK ts \in {table[i].ts, table[i].priceTs} : ~InTime(ts)
      BY <2>4, <3>1 DEF Accepts, SignedAccepts, SwitchboardAccepts
    <3>3. ts \in Int /\ InTime(ts)'
      BY <1>1, <2>1, <3>1, <3>2, RowTypes DEF ChaseInv, InTime, Seconds
    <3>4. /\ ts - now' < (MaxDrift + 1) * UnitsPerSecond
          /\ now' - ts < (MaxAge + 1) * UnitsPerSecond
      <4>1. Seconds(now' - ts) \in -MaxDrift .. MaxAge /\ now' \in Int
        BY <1>1, <3>3 DEF InTime, Seconds
      <4> QED
        BY <3>3, <4>1, InTimeIs
    <3>5. ~(/\ ts - now < (MaxDrift + 1) * UnitsPerSecond
            /\ now - ts < (MaxAge + 1) * UnitsPerSecond)
      <4>1. ~(Seconds(now - ts) \in -MaxDrift .. MaxAge) /\ now \in Int
        BY <1>1, <3>2 DEF InTime
      <4> QED
        BY <3>3, <4>1, InTimeIs
    <3>6. (MaxDrift + 1) * UnitsPerSecond \in Nat /\ (MaxAge + 1) * UnitsPerSecond \in Nat
      BY Bounds
    <3>7. DueAt(ts) = now'
      <4>1. ts - (MaxDrift + 1) * UnitsPerSecond = now
        BY <1>1, <3>3, <3>4, <3>5, <3>6
      <4> QED
        BY <1>1, <4>1 DEF DueAt
    <3>8. DueAt(ts) \in Starts(i)
      BY <3>2 DEF Starts
    <3>9. now' - DueAt(ts) <= Slack(i)'
      BY <1>1, <2>2, <3>7
    <3> QED
      BY <2>1, <3>8, <3>9 DEF Within
  <2> QED
    BY <2>3, <2>4
<1> QED
  BY <1>2, <1>3 DEF ChaseInv

(* A row the writer touches starts anew; every other one that is the only  *)
(* newest afterwards was so before.                                        *)
LEMMA WriterChases ==
  ASSUME ChaseInv, TypeOK', TypeOK,
         (\E r \in NewRow : Insert(r)) \/ (\E j \in DOMAIN table : AddPrices(j))
  PROVE  ChaseInv'
<1>1. /\ UNCHANGED <<now, pc, row, lastKey, timer, lag, last, done, run, since>>
      /\ DOMAIN table \subseteq DOMAIN table'
      /\ \A j \in DOMAIN table :
           table'[j].ts = table[j].ts /\ table'[j].priceTs = table[j].priceTs
  BY WriterKeepsRows
<1>2. LagBound' /\ KeyDone'
  BY <1>1 DEF ChaseInv, LagBound, KeyDone
<1>3. \A i \in DOMAIN table' : table'[i].seen = now \/ (i \in DOMAIN table /\ table'[i] = table[i])
  <2>1. ASSUME NEW r \in NewRow, Insert(r) PROVE <1>3!:
    <3> DEFINE new == [ts |-> now + r.ts, priceTs |-> now + r.priceTs,
                       prices |-> r.prices, good |-> r.good, seen |-> now]
    <3>1. table' = Append(table, new) /\ table \in Seq(Row) /\ new \in Row /\ new.seen = now
      BY <2>1, Bounds DEF Insert, TypeOK, Row
    <3> HIDE DEF new
    <3> QED
      BY <3>1
  <2>2. ASSUME NEW j \in DOMAIN table, AddPrices(j) PROVE <1>3!:
    <3> DEFINE new == [table[j] EXCEPT !.prices = TRUE, !.seen = now]
    <3>1. table[j] \in Row
      BY Elements DEF TypeOK
    <3>2. table' = [table EXCEPT ![j] = new] /\ table \in Seq(Row) /\ new.seen = now
      BY <2>2, <3>1 DEF AddPrices, TypeOK, Row
    <3> HIDE DEF new
    <3> QED
      BY <3>2
  <2> QED
    BY <2>1, <2>2
<1>4. Awaited'
  <2> SUFFICES ASSUME NEW i \in DOMAIN table', Open(i)' PROVE Within(i, Slack(i))'
    BY DEF Awaited
  <2>1. Slack(i)' = Slack(i) /\ pc # "dead"
    BY <1>1 DEF Slack, Open, Rest
  <2>2. CASE table'[i].seen = now
    <3>1. Slack(i)' \in Nat
      BY <2>1, Delays DEF ChaseInv
    <3>2. now' \in Nat /\ now' - table'[i].seen = 0 /\ table'[i].seen \in Starts(i)'
      BY <1>1, <2>2, Bounds DEF TypeOK, Starts
    <3> QED
      BY <3>1, <3>2 DEF Within
  <2>3. CASE i \in DOMAIN table /\ table'[i] = table[i]
    <3>1. Open(i)
      <4>1. Only(i)
        BY <1>1, <2>3 DEF Open, Only
      <4> QED
        BY <1>1, <2>3, <4>1 DEF Open, Accepts, SignedAccepts, SwitchboardAccepts, InTime, Seconds, Decodes
    <3>2. PICK start \in Starts(i) : now - start <= Slack(i)
      BY <2>3, <3>1 DEF ChaseInv, Awaited, Within
    <3>3. start \in Starts(i)'
      BY <1>1, <2>3, <3>2 DEF Starts, DueAt
    <3> QED
      BY <1>1, <2>1, <3>2, <3>3 DEF Within
  <2> QED
    BY <1>3, <2>2, <2>3
<1> QED
  BY <1>2, <1>4 DEF ChaseInv

LEMMA ChaseStep == ChaseInv /\ TypeOK' /\ [Next]_vars => ChaseInv'
<1> SUFFICES ASSUME ChaseInv, TypeOK', [Next]_vars PROVE ChaseInv'
  OBVIOUS
<1>1. CASE (\E r \in NewRow : Insert(r)) \/ (\E i \in DOMAIN table : AddPrices(i))
  BY <1>1, WriterChases DEF ChaseInv
<1>2. CASE ReadHeader
  BY <1>2, ReadChases
<1>3. CASE ReadNothing \/ Reject \/ SkipDuplicate
  BY <1>3, SleepChases DEF ReadNothing, Reject, SkipDuplicate
<1>4. CASE QueryFails
  BY <1>4, FailChases
<1>5. CASE Accept
  BY <1>5, AcceptChases
<1>6. CASE Send
  BY <1>6, SendChases
<1>7. CASE Panics
  BY <1>7, PanicChases
<1>8. CASE Wake
  BY <1>8, WakeChases
<1>9. CASE Restart
  BY <1>9, RestartChases
<1>10. CASE Tick
  BY <1>10, TickChases
<1>11. CASE TimeUp \/ UNCHANGED vars
  <2>1. UNCHANGED vars
    BY <1>11 DEF TimeUp
  <2>2. LagBound' /\ KeyDone'
    BY <2>1 DEF vars, ChaseInv, LagBound, KeyDone
  <2>3. Awaited'
    BY <2>1 DEF vars, ChaseInv, Awaited, Open, Accepts, SignedAccepts, SwitchboardAccepts, InTime,
       Seconds, Decodes, Only, Within, Starts, Slack, Rest
  <2> QED
    BY <2>2, <2>3 DEF ChaseInv
<1> QED
  BY <1>1, <1>2, <1>3, <1>4, <1>5, <1>6, <1>7, <1>8, <1>9, <1>10, <1>11 DEF Next

(* A batch that has been complete, in time and the only newest one for a   *)
(* whole cycle, undisturbed by restarts, failures and panics, has been     *)
(* forwarded or is being sent, for any delays and any writer.              *)
THEOREM NoneIsMissed == Spec => []NoneMissed
<1>1. Init => ChaseInv
  <2> SUFFICES ASSUME Init PROVE ChaseInv
    OBVIOUS
  <2>1. TypeOK
    BY InitInv DEF PollerInv
  <2>2. LagBound /\ KeyDone /\ Awaited
    BY Bounds DEF Init, LagBound, KeyDone, Awaited
  <2> QED
    BY <2>1, <2>2 DEF ChaseInv
<1>2. ChaseInv /\ PollerInv' /\ [Next]_vars => ChaseInv'
  BY ChaseStep DEF PollerInv
<1>3. ChaseInv => NoneMissed
  <2> SUFFICES ASSUME ChaseInv, pc # "dead", NEW i \in DOMAIN table, Accepts(table[i]), Newest = {i},
                      \A start \in Starts(i) : now - start > Cycle,
                      ~(i \in done \/ (pc = "send" /\ row = i))
               PROVE  FALSE
    BY DEF NoneMissed, Starts
  <2>1. Only(i)
    <3> SUFFICES ASSUME NEW j \in DOMAIN table, j # i, ~(table[j].ts < table[i].ts)
                 PROVE  j \in Newest
      BY DEF Only
    <3>1. \A k \in DOMAIN table : table[k].ts \in Int
      BY RowTypes DEF ChaseInv
    <3>2. \A k \in DOMAIN table : table[k].ts <= table[i].ts
      BY DEF Newest
    <3> QED
      BY <3>1, <3>2 DEF Newest
  <2>2. PICK start \in Starts(i) : now - start <= Slack(i)
    BY <2>1 DEF ChaseInv, Awaited, Open, Within
  <2>3. Slack(i) <= Cycle /\ Slack(i) \in Nat /\ start \in Int /\ now \in Nat
    BY Delays, StartsAreTimes DEF ChaseInv
  <2>4. Cycle \in Nat
    BY Bounds DEF Cycle
  <2> QED
    BY <2>2, <2>3, <2>4
<1> QED
  BY <1>1, <1>2, <1>3, Invariance, PTL DEF Spec
=============================================================================
