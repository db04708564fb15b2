-------------------------- MODULE DispatcherProofs --------------------------
(***************************************************************************)
(* Proofs about Dispatcher, for every value of its constants.              *)
(*                                                                         *)
(* The invariant IInv has three groups.  Windows: a window is open exactly *)
(* while a batch is pending, and Scanned, what a scan leaves behind, gives *)
(* each open window room for the coming sleep, which is what makes         *)
(* WindowBound inductive.  Ages: ChannelAge bounds what waits for a drain, *)
(* AgeBound carries that bound into the pending state.  Order: numbers     *)
(* increase from the snapshots over the pending state to the channel, and  *)
(* the newest is always somewhere on that way.                             *)
(***************************************************************************)
EXTENDS Dispatcher, TLAPS

USE DispatcherAssumption DEF DispatcherAssumption

(* Every action keeps every variable in its type.                           *)
LEMMA TypeStep == TypeOK /\ [Next]_vars => TypeOK'
<1> SUFFICES ASSUME TypeOK, [Next]_vars PROVE TypeOK'
  OBVIOUS
<1> USE DEF TypeOK
<1>1. ASSUME NEW k \in Provider, NEW a \in ReadAge[k], Send(k, a) PROVE TypeOK'
  BY <1>1 DEF Send, Message
<1>2. ASSUME NEW k \in Provider, PollerDies(k) PROVE TypeOK'
  BY <1>2 DEF PollerDies
<1>3. CASE Receive
  <2>1. Head(channel) \in Message /\ Tail(channel) \in Seq(Message)
        /\ Len(Tail(channel)) = Len(channel) - 1
    BY <1>3 DEF Receive
  <2>2. channel' \in Seq(Message) /\ Len(channel') <= Capacity
    BY <1>3, <2>1 DEF Receive
  <2>3. \A p \in Pool : Ingest(pending[p], Head(channel)) \in [Provider -> Batch \cup {None}]
    BY <2>1 DEF Ingest, Batch, Message
  <2>4. pending' \in [Pool -> [Provider -> Batch \cup {None}]]
    BY <1>3, <2>3 DEF Receive
  <2>5. waited' \in [Pool -> Nat \cup {None}]
    BY <1>3 DEF Receive, Opened
  <2> QED
    BY <1>3, <2>2, <2>4, <2>5 DEF Receive
<1>4. CASE DrainEmpty
  BY <1>4 DEF DrainEmpty
<1>5. CASE Disconnected
  BY <1>5 DEF Disconnected
<1>6. ASSUME NEW p \in Pool, Fire(p) PROVE TypeOK'
  BY <1>6 DEF Fire, TakeSnapshot, Nothing, Batch
<1>7. ASSUME NEW p \in Pool, Skip(p) PROVE TypeOK'
  BY <1>7 DEF Skip
<1>8. CASE StartSleep
  BY <1>8 DEF StartSleep
<1>9. CASE Wake
  BY <1>9 DEF Wake
<1>10. CASE Pass
  <2>1. channel' \in Seq(Message) /\ Len(channel') = Len(channel)
    <3>1. \A i \in 1 .. Len(channel) : OlderMessage(channel[i]) \in Message
      <4>1. \A i \in 1 .. Len(channel) : channel[i] \in Message
        OBVIOUS
      <4>2. \A m \in Message : OlderMessage(m) \in Message
        BY DEF Message, OlderMessage
      <4> QED
        BY <4>1, <4>2
    <3>2. channel' = [i \in 1 .. Len(channel) |-> OlderMessage(channel[i])]
      BY <1>10 DEF Pass
    <3>3. Len(channel) \in Nat
      OBVIOUS
    <3> QED
      BY <3>1, <3>2, <3>3
  <2>2. \A p \in Pool : \A k \in Provider :
          Older(pending[p][k]) \in Batch \cup {None}
    BY DEF Older, Batch
  <2>3. pending' \in [Pool -> [Provider -> Batch \cup {None}]]
    BY <1>10, <2>2 DEF Pass
  <2>4. waited' \in [Pool -> Nat \cup {None}]
    BY <1>10 DEF Pass
  <2>5. timer' \in 0 .. PollTick
    BY <1>10 DEF Pass
  <2>6. idle' \in [Pool -> 0 .. Window]
    BY <1>10 DEF Pass
  <2> QED
    BY <1>10, <2>1, <2>3, <2>4, <2>5, <2>6 DEF Pass
<1>11. CASE UNCHANGED vars
  BY <1>11 DEF vars
<1> QED
  BY <1>1, <1>2, <1>3, <1>4, <1>5, <1>6, <1>7, <1>8, <1>9, <1>10, <1>11
  DEF Next, MainTask, Terminated

(* What the steps that move data do, pointwise.  Send: one message more.   *)
LEMMA SendFacts ==
  ASSUME TypeOK, NEW k \in Provider, NEW a \in ReadAge[k], Send(k, a)
  PROVE  /\ DOMAIN channel = 1 .. Len(channel)
         /\ DOMAIN channel' = 1 .. Len(channel) + 1
         /\ \A i \in DOMAIN channel : channel'[i] = channel[i]
         /\ channel'[Len(channel) + 1] = [kind |-> k, seq |-> sent[k] + 1, age |-> a]
BY DEF TypeOK, Send

(* Receive: the head goes to every pool that requires its provider, all    *)
(* other pools and the rest of the channel stay as they are.               *)
LEMMA ReceiveFacts ==
  ASSUME TypeOK, Receive
  PROVE  /\ channel[1] \in Message
         /\ 1 \in DOMAIN channel
         /\ DOMAIN channel = 1 .. Len(channel)
         /\ DOMAIN channel' = 1 .. Len(channel) - 1
         /\ \A i \in DOMAIN channel' : channel'[i] = channel[i + 1]
         /\ \A p \in Pool : \A k \in Provider :
              pending'[p][k] =
                IF channel[1].kind \in Required[p] /\ k = channel[1].kind
                  THEN [seq |-> channel[1].seq, age |-> channel[1].age]
                  ELSE pending[p][k]
         /\ \A p \in Pool :
              waited'[p] =
                IF channel[1].kind \in Required[p] /\ waited[p] = None
                  THEN 0 ELSE waited[p]
         /\ \A p \in Pool : channel[1].kind \in Required[p] =>
              pending'[p][channel[1].kind] # None /\ waited'[p] \in Nat
         /\ \A p \in Pool : channel[1].kind \notin Required[p] =>
              pending'[p] = pending[p] /\ waited'[p] = waited[p]
<1>1. Head(channel) = channel[1] /\ channel[1] \in Message
  BY DEF TypeOK, Receive
<1>2. /\ 1 \in DOMAIN channel
      /\ DOMAIN channel = 1 .. Len(channel)
      /\ DOMAIN channel' = 1 .. Len(channel) - 1
      /\ \A i \in DOMAIN channel' : channel'[i] = channel[i + 1]
  BY DEF TypeOK, Receive
<1>3. ASSUME NEW p \in Pool, NEW k \in Provider
      PROVE  pending'[p][k] =
               IF channel[1].kind \in Required[p] /\ k = channel[1].kind
                 THEN [seq |-> channel[1].seq, age |-> channel[1].age]
                 ELSE pending[p][k]
  <2>1. pending'[p] = IF channel[1].kind \in Required[p]
                        THEN Ingest(pending[p], channel[1]) ELSE pending[p]
    BY <1>1 DEF Receive
  <2>2. pending[p] \in [Provider -> Batch \cup {None}]
    BY DEF TypeOK
  <2> QED
    BY <2>1, <2>2 DEF Ingest
<1>4. ASSUME NEW p \in Pool
      PROVE  waited'[p] = IF channel[1].kind \in Required[p] /\ waited[p] = None
                            THEN 0 ELSE waited[p]
  BY <1>1 DEF Receive, Opened
<1>5. ASSUME NEW p \in Pool, channel[1].kind \in Required[p]
      PROVE  pending'[p][channel[1].kind] # None /\ waited'[p] \in Nat
  <2>1. [seq |-> channel[1].seq, age |-> channel[1].age] \in Batch
    BY <1>1 DEF Message, Batch
  <2>2. None \notin Batch
    BY DEF Batch
  <2>3. channel[1].kind \in Provider
    BY <1>1 DEF Message
  <2>4. waited[p] \in Nat \cup {None}
    BY DEF TypeOK
  <2> QED
    BY <1>3, <1>4, <1>5, <2>1, <2>2, <2>3, <2>4
<1>6. ASSUME NEW p \in Pool, channel[1].kind \notin Required[p]
      PROVE  pending'[p] = pending[p] /\ waited'[p] = waited[p]
  BY <1>1, <1>6 DEF Receive
<1> QED
  BY <1>1, <1>2, <1>3, <1>4, <1>5, <1>6

(* Pass: every age and every open window advances by one unit.             *)
LEMMA PassFacts ==
  ASSUME TypeOK, Pass
  PROVE  /\ DOMAIN channel' = DOMAIN channel
         /\ \A i \in DOMAIN channel :
              /\ channel'[i].kind = channel[i].kind
              /\ channel'[i].seq = channel[i].seq
              /\ channel'[i].age = channel[i].age + 1
         /\ \A p \in Pool : \A k \in Provider :
              /\ pending'[p][k] = None <=> pending[p][k] = None
              /\ pending[p][k] # None =>
                   /\ pending'[p][k].seq = pending[p][k].seq
                   /\ pending'[p][k].age = pending[p][k].age + 1
         /\ \A p \in Pool :
              /\ waited'[p] = IF waited[p] = None THEN None ELSE waited[p] + 1
              /\ waited'[p] = None <=> waited[p] = None
<1>1. /\ DOMAIN channel' = DOMAIN channel
      /\ \A i \in DOMAIN channel : channel'[i] = OlderMessage(channel[i])
  BY DEF Pass
<1>2. ASSUME NEW p \in Pool, NEW k \in Provider
      PROVE  /\ pending'[p][k] = None <=> pending[p][k] = None
             /\ pending[p][k] # None =>
                  /\ pending'[p][k].seq = pending[p][k].seq
                  /\ pending'[p][k].age = pending[p][k].age + 1
  <2>1. pending'[p][k] = Older(pending[p][k])
    BY DEF Pass
  <2>2. pending[p][k] # None => pending[p][k] \in Batch
    BY DEF TypeOK
  <2>3. pending[p][k] # None => Older(pending[p][k]) \in Batch
    BY <2>2 DEF Older, Batch
  <2>4. None \notin Batch
    BY DEF Batch
  <2> QED
    BY <2>1, <2>2, <2>3, <2>4 DEF Older
<1>3. ASSUME NEW p \in Pool
      PROVE  /\ waited'[p] = IF waited[p] = None THEN None ELSE waited[p] + 1
             /\ waited'[p] = None <=> waited[p] = None
  <2>1. waited'[p] = IF waited[p] = None THEN None ELSE waited[p] + 1
    BY DEF Pass
  <2>2. waited[p] \in Nat \cup {None}
    BY DEF TypeOK
  <2>3. waited[p] \in Nat => waited[p] + 1 \in Int
    OBVIOUS
  <2> QED
    BY <2>1, <2>2, <2>3
<1> QED
  BY <1>1, <1>2, <1>3 DEF OlderMessage

(* Readiness depends on the pending state alone.                           *)
LEMMA ReadyUnchanged ==
  ASSUME NEW p \in Pool, pending'[p] = pending[p], waited'[p] = waited[p]
  PROVE  /\ Ready(p)' = Ready(p)
         /\ IsComplete(p)' = IsComplete(p)
BY DEF Ready, IsComplete, IsWindowExpired, HasAnything, Held

(* ingest opens the window of every pool it gives a batch, take_snapshot    *)
(* closes the window with the batches, and nothing else touches either.     *)
LEMMA WindowOpenStep ==
  TypeOK /\ WindowOpenIffPending /\ [Next]_vars => WindowOpenIffPending'
<1> SUFFICES ASSUME TypeOK, WindowOpenIffPending, [Next]_vars PROVE WindowOpenIffPending'
  OBVIOUS
<1> USE DEF WindowOpenIffPending, HasAnything, Held
<1>1. ASSUME NEW k \in Provider, NEW a \in ReadAge[k], Send(k, a) PROVE WindowOpenIffPending'
  BY <1>1 DEF Send
<1>2. ASSUME NEW k \in Provider, PollerDies(k) PROVE WindowOpenIffPending'
  BY <1>2 DEF PollerDies
<1>3. CASE Receive
  <2> SUFFICES ASSUME NEW p \in Pool
               PROVE  (waited'[p] # None) <=> \E k \in Provider : pending'[p][k] # None
    BY DEF WindowOpenIffPending, HasAnything, Held
  <2>1. CASE channel[1].kind \in Required[p]
    <3>1. channel[1].kind \in Provider /\ pending'[p][channel[1].kind] # None
      BY <1>3, <2>1, ReceiveFacts
    <3>2. waited'[p] # None
      BY <1>3, <2>1, ReceiveFacts
    <3> QED
      BY <3>1, <3>2
  <2>2. CASE channel[1].kind \notin Required[p]
    <3>1. pending'[p] = pending[p] /\ waited'[p] = waited[p]
      BY <1>3, <2>2, ReceiveFacts
    <3>2. (waited[p] # None) <=> \E k \in Provider : pending[p][k] # None
      OBVIOUS
    <3> QED
      BY <3>1, <3>2
  <2> QED
    BY <2>1, <2>2
<1>4. CASE DrainEmpty
  BY <1>4 DEF DrainEmpty
<1>5. CASE Disconnected
  BY <1>5 DEF Disconnected
<1>6. ASSUME NEW p \in Pool, Fire(p) PROVE WindowOpenIffPending'
  BY <1>6 DEF Fire, TakeSnapshot, Nothing, TypeOK
<1>7. ASSUME NEW p \in Pool, Skip(p) PROVE WindowOpenIffPending'
  BY <1>7 DEF Skip
<1>8. CASE StartSleep
  BY <1>8 DEF StartSleep
<1>9. CASE Wake
  BY <1>9 DEF Wake
<1>10. CASE Pass
  <2> SUFFICES ASSUME NEW p \in Pool
               PROVE  (waited'[p] # None) <=> \E k \in Provider : pending'[p][k] # None
    BY DEF WindowOpenIffPending, HasAnything, Held
  <2> QED
    BY <1>10, PassFacts
<1>11. CASE UNCHANGED vars
  BY <1>11 DEF vars
<1> QED
  BY <1>1, <1>2, <1>3, <1>4, <1>5, <1>6, <1>7, <1>8, <1>9, <1>10, <1>11
  DEF Next, MainTask, Terminated

(* Between the scan and the sleep nothing makes a visited pool ready, and   *)
(* the sleep is shorter than what is left of its window plus a tick.        *)
LEMMA ScannedStep ==
  TypeOK /\ WindowOpenIffPending /\ Scanned /\ [Next]_vars => Scanned'
<1> SUFFICES ASSUME TypeOK, WindowOpenIffPending, Scanned, [Next]_vars PROVE Scanned'
  OBVIOUS
<1> USE DEF Scanned
<1>1. ASSUME NEW k \in Provider, NEW a \in ReadAge[k], Send(k, a) PROVE Scanned'
  <2>1. \A q \in Pool : pending'[q] = pending[q] /\ waited'[q] = waited[q]
    BY <1>1 DEF Send
  <2>2. \A q \in Pool : Ready(q)' = Ready(q) /\ IsComplete(q)' = IsComplete(q)
    BY <2>1, ReadyUnchanged
  <2> QED
    BY <1>1, <2>1, <2>2 DEF Send
<1>2. ASSUME NEW k \in Provider, PollerDies(k) PROVE Scanned'
  <2>1. \A q \in Pool : pending'[q] = pending[q] /\ waited'[q] = waited[q]
    BY <1>2 DEF PollerDies
  <2>2. \A q \in Pool : Ready(q)' = Ready(q) /\ IsComplete(q)' = IsComplete(q)
    BY <2>1, ReadyUnchanged
  <2> QED
    BY <1>2, <2>1, <2>2 DEF PollerDies
<1>3. CASE Receive
  BY <1>3 DEF Receive
<1>4. CASE DrainEmpty
  BY <1>4 DEF DrainEmpty
<1>5. CASE Disconnected
  BY <1>5 DEF Disconnected
<1>6. ASSUME NEW p \in Pool, Fire(p) PROVE Scanned'
  <2>1. ~Ready(p)'
    BY <1>6 DEF Fire, TakeSnapshot, Nothing, TypeOK, Ready, IsComplete, IsWindowExpired
  <2>2. \A q \in Pool \ {p} : pending'[q] = pending[q] /\ waited'[q] = waited[q]
    BY <1>6 DEF Fire, TakeSnapshot, TypeOK
  <2>3. \A q \in Pool \ {p} : Ready(q)' = Ready(q)
    BY <2>2, ReadyUnchanged
  <2> QED
    BY <1>6, <2>1, <2>3 DEF Fire
<1>7. ASSUME NEW p \in Pool, Skip(p) PROVE Scanned'
  <2>1. \A q \in Pool : pending'[q] = pending[q] /\ waited'[q] = waited[q]
    BY <1>7 DEF Skip
  <2>2. \A q \in Pool : Ready(q)' = Ready(q) /\ IsComplete(q)' = IsComplete(q)
    BY <2>1, ReadyUnchanged
  <2> QED
    BY <1>7, <2>1, <2>2 DEF Skip
<1>8. CASE StartSleep
  <2>1. \A q \in Pool : pending'[q] = pending[q] /\ waited'[q] = waited[q]
    BY <1>8 DEF StartSleep
  <2>2. \A q \in Pool : Ready(q)' = Ready(q) /\ IsComplete(q)' = IsComplete(q)
    BY <2>1, ReadyUnchanged
  <2>3. \A q \in Pool : ~Ready(q)
    BY <1>8 DEF StartSleep
  <2>4. \A q \in Pool : waited[q] # None => waited[q] < Window
    BY <2>3 DEF WindowOpenIffPending, Ready, IsWindowExpired, TypeOK
  <2>5. \A q \in Pool : ~IsComplete(q)
    BY <2>3 DEF Ready
  <2> QED
    BY <1>8, <2>1, <2>2, <2>4, <2>5 DEF StartSleep, TypeOK
<1>9. CASE Wake
  BY <1>9 DEF Wake
<1>10. CASE Pass
  <2>1. \A q \in Pool : IsComplete(q)' <=> IsComplete(q)
    BY <1>10, PassFacts DEF IsComplete
  <2>2. \A q \in Pool : waited'[q] # None => waited'[q] + timer' < Window + PollTick
    BY <1>10, PassFacts DEF Pass, TypeOK
  <2> QED
    BY <1>10, <2>1, <2>2 DEF Pass
<1>11. CASE UNCHANGED vars
  <2>1. \A q \in Pool : pending'[q] = pending[q] /\ waited'[q] = waited[q]
    BY <1>11 DEF vars
  <2>2. \A q \in Pool : Ready(q)' = Ready(q) /\ IsComplete(q)' = IsComplete(q)
    BY <2>1, ReadyUnchanged
  <2> QED
    BY <1>11, <2>1, <2>2 DEF vars
<1> QED
  BY <1>1, <1>2, <1>3, <1>4, <1>5, <1>6, <1>7, <1>8, <1>9, <1>10, <1>11
  DEF Next, MainTask, Terminated

(* The window only grows while the main task sleeps, where Scanned leaves   *)
(* room for the rest of the sleep.                                          *)
LEMMA WindowBoundStep ==
  TypeOK /\ Scanned /\ WindowBound /\ [Next]_vars => WindowBound'
<1> SUFFICES ASSUME TypeOK, Scanned, WindowBound, [Next]_vars PROVE WindowBound'
  OBVIOUS
<1> USE DEF TypeOK, WindowBound
<1>1. ASSUME NEW k \in Provider, NEW a \in ReadAge[k], Send(k, a) PROVE WindowBound'
  BY <1>1 DEF Send
<1>2. ASSUME NEW k \in Provider, PollerDies(k) PROVE WindowBound'
  BY <1>2 DEF PollerDies
<1>3. CASE Receive
  BY <1>3 DEF Receive, Opened
<1>4. CASE DrainEmpty
  BY <1>4 DEF DrainEmpty
<1>5. CASE Disconnected
  BY <1>5 DEF Disconnected
<1>6. ASSUME NEW p \in Pool, Fire(p) PROVE WindowBound'
  BY <1>6 DEF Fire, TakeSnapshot
<1>7. ASSUME NEW p \in Pool, Skip(p) PROVE WindowBound'
  BY <1>7 DEF Skip
<1>8. CASE StartSleep
  BY <1>8 DEF StartSleep
<1>9. CASE Wake
  BY <1>9 DEF Wake
<1>10. CASE Pass
  BY <1>10 DEF Pass, Scanned
<1>11. CASE UNCHANGED vars
  BY <1>11 DEF vars
<1> QED
  BY <1>1, <1>2, <1>3, <1>4, <1>5, <1>6, <1>7, <1>8, <1>9, <1>10, <1>11
  DEF Next, MainTask, Terminated

(* Both clocks advance together; only the history's cap stops one of them.  *)
LEMMA WindowAfterFireStep ==
  TypeOK /\ WindowAfterFire /\ [Next]_vars => WindowAfterFire'
<1> SUFFICES ASSUME TypeOK, WindowAfterFire, [Next]_vars PROVE WindowAfterFire'
  OBVIOUS
<1> USE DEF TypeOK, WindowAfterFire
<1>1. ASSUME NEW k \in Provider, NEW a \in ReadAge[k], Send(k, a) PROVE WindowAfterFire'
  BY <1>1 DEF Send
<1>2. ASSUME NEW k \in Provider, PollerDies(k) PROVE WindowAfterFire'
  BY <1>2 DEF PollerDies
<1>3. CASE Receive
  BY <1>3 DEF Receive, Opened
<1>4. CASE DrainEmpty
  BY <1>4 DEF DrainEmpty
<1>5. CASE Disconnected
  BY <1>5 DEF Disconnected
<1>6. ASSUME NEW p \in Pool, Fire(p) PROVE WindowAfterFire'
  BY <1>6 DEF Fire, TakeSnapshot
<1>7. ASSUME NEW p \in Pool, Skip(p) PROVE WindowAfterFire'
  BY <1>7 DEF Skip
<1>8. CASE StartSleep
  BY <1>8 DEF StartSleep
<1>9. CASE Wake
  BY <1>9 DEF Wake
<1>10. CASE Pass
  BY <1>10 DEF Pass
<1>11. CASE UNCHANGED vars
  BY <1>11 DEF vars
<1> QED
  BY <1>1, <1>2, <1>3, <1>4, <1>5, <1>6, <1>7, <1>8, <1>9, <1>10, <1>11
  DEF Next, MainTask, Terminated

(* A drain leaves the channel empty, so an update waits for at most one     *)
(* sleep.                                                                   *)
LEMMA ChannelAgeStep ==
  TypeOK /\ ChannelAge /\ [Next]_vars => ChannelAge'
<1> SUFFICES ASSUME TypeOK, ChannelAge, [Next]_vars PROVE ChannelAge'
  OBVIOUS
<1> USE DEF TypeOK, ChannelAge, Lag
<1>1. ASSUME NEW k \in Provider, NEW a \in ReadAge[k], Send(k, a) PROVE ChannelAge'
  <2> DEFINE new == [kind |-> k, seq |-> sent[k] + 1, age |-> a]
  <2>1. channel' = Append(channel, new) /\ phase' = phase /\ timer' = timer
    BY <1>1 DEF Send
  <2>2. Lag' = Lag /\ Lag \in Nat
    BY <2>1
  <2>3. a <= MaxReadAge[k] /\ a \in Int /\ MaxReadAge[k] \in Int
    BY DispatcherAssumption DEF DispatcherAssumption
  <2>4. new.kind = k /\ new.age = a
    OBVIOUS
  <2> HIDE DEF new
  <2> SUFFICES ASSUME NEW i \in DOMAIN channel'
               PROVE  channel'[i].age <= MaxReadAge[channel'[i].kind] + Lag
    BY <2>2 DEF ChannelAge
  <2>5. i \in 1 .. Len(channel) + 1 /\ Len(channel) \in Nat
    BY <2>1
  <2>6. CASE i = Len(channel) + 1
    <3>1. channel'[i] = new
      BY <2>1, <2>6
    <3> HIDE DEF TypeOK, ChannelAge, Lag
    <3> QED
      BY <2>2, <2>3, <2>4, <3>1
  <2>7. CASE i # Len(channel) + 1
    <3>1. i \in DOMAIN channel /\ channel'[i] = channel[i]
      BY <2>1, <2>5, <2>7
    <3> HIDE DEF TypeOK, Lag
    <3> QED
      BY <3>1 DEF ChannelAge
  <2> QED
    BY <2>6, <2>7
<1>2. ASSUME NEW k \in Provider, PollerDies(k) PROVE ChannelAge'
  BY <1>2 DEF PollerDies
<1>3. CASE Receive
  BY <1>3 DEF Receive
<1>4. CASE DrainEmpty
  BY <1>4 DEF DrainEmpty
<1>5. CASE Disconnected
  BY <1>5 DEF Disconnected
<1>6. ASSUME NEW p \in Pool, Fire(p) PROVE ChannelAge'
  BY <1>6 DEF Fire
<1>7. ASSUME NEW p \in Pool, Skip(p) PROVE ChannelAge'
  BY <1>7 DEF Skip
<1>8. CASE StartSleep
  BY <1>8 DEF StartSleep
<1>9. CASE Wake
  BY <1>9 DEF Wake
<1>10. CASE Pass
  <2>1. timer' = timer - 1 /\ phase = "sleep" /\ phase' = "sleep"
    BY <1>10 DEF Pass
  <2> SUFFICES ASSUME NEW i \in DOMAIN channel'
               PROVE  channel'[i].age <= MaxReadAge[channel'[i].kind] + PollTick - timer'
    BY <2>1 DEF ChannelAge, Lag
  <2>2. channel[i] \in Message /\ i \in DOMAIN channel
    BY <1>10, PassFacts
  <2>3. channel[i].age <= MaxReadAge[channel[i].kind] + PollTick - timer
    BY <2>1, <2>2
  <2>4. channel[i].age \in Int /\ channel[i].kind \in Provider
    BY <2>2 DEF Message
  <2>5. channel'[i].age = channel[i].age + 1 /\ channel'[i].kind = channel[i].kind
    BY <1>10, <2>2, PassFacts
  <2>6. MaxReadAge[channel[i].kind] \in Int /\ timer \in Int
    BY <2>4
  <2> HIDE DEF TypeOK, ChannelAge, Lag
  <2>7. \A age, limit, t \in Int :
          age <= limit + PollTick - t => age + 1 <= limit + PollTick - (t - 1)
    BY ONLY PollTick \in Int
  <2>8. channel[i].age + 1 <= MaxReadAge[channel[i].kind] + PollTick - (timer - 1)
    BY <2>3, <2>4, <2>6, <2>7, Zenon
  <2> QED
    BY ONLY <2>1, <2>5, <2>8
<1>11. CASE UNCHANGED vars
  BY <1>11 DEF vars
<1> QED
  BY <1>1, <1>2, <1>3, <1>4, <1>5, <1>6, <1>7, <1>8, <1>9, <1>10, <1>11
  DEF Next, MainTask, Terminated

(* A batch enters a pool no older than ChannelAge allows, and from then on  *)
(* ages with the window of its pool.                                        *)
LEMMA AgeBoundStep ==
  TypeOK /\ WindowOpenIffPending /\ ChannelAge /\ AgeBound /\ [Next]_vars => AgeBound'
<1> SUFFICES ASSUME TypeOK, WindowOpenIffPending, ChannelAge, AgeBound, [Next]_vars PROVE AgeBound'
  OBVIOUS
<1> USE DEF AgeBound
<1>1. ASSUME NEW k \in Provider, NEW a \in ReadAge[k], Send(k, a) PROVE AgeBound'
  BY <1>1 DEF Send
<1>2. ASSUME NEW k \in Provider, PollerDies(k) PROVE AgeBound'
  BY <1>2 DEF PollerDies
<1>3. CASE Receive
  <2> DEFINE m == channel[1]
  <2>1. m.age <= MaxReadAge[m.kind] + PollTick /\ m.kind \in Provider /\ m.age \in Int
    BY <1>3, ReceiveFacts DEF ChannelAge, Lag, Receive, Message
  <2> SUFFICES ASSUME NEW p \in Pool, NEW k \in Provider, pending'[p][k] # None
               PROVE  pending'[p][k].age <= MaxReadAge[k] + PollTick + waited'[p]
    BY DEF AgeBound
  <2>2. CASE m.kind \in Required[p] /\ k = m.kind
    <3>1. pending'[p][k].age = m.age
      BY <1>3, <2>2, ReceiveFacts
    <3>2. waited'[p] \in Nat
      BY <1>3, <2>2, ReceiveFacts
    <3>3. MaxReadAge[k] \in Int
      OBVIOUS
    <3>4. m.age <= MaxReadAge[k] + PollTick
      BY <2>1, <2>2
    <3> HIDE DEF m
    <3> QED
      BY <2>1, <3>1, <3>2, <3>3, <3>4
  <2>3. CASE ~(m.kind \in Required[p] /\ k = m.kind)
    <3>1. pending'[p][k] = pending[p][k]
      BY <1>3, <2>3, ReceiveFacts
    <3>2. waited[p] # None
      BY <3>1 DEF WindowOpenIffPending, HasAnything, Held
    <3>3. waited'[p] = waited[p]
      BY <1>3, <3>2, ReceiveFacts
    <3> QED
      BY <3>1, <3>3
  <2> QED
    BY <2>2, <2>3
<1>4. CASE DrainEmpty
  BY <1>4 DEF DrainEmpty
<1>5. CASE Disconnected
  BY <1>5 DEF Disconnected
<1>6. ASSUME NEW p \in Pool, Fire(p) PROVE AgeBound'
  BY <1>6 DEF Fire, TakeSnapshot, Nothing, TypeOK
<1>7. ASSUME NEW p \in Pool, Skip(p) PROVE AgeBound'
  BY <1>7 DEF Skip
<1>8. CASE StartSleep
  BY <1>8 DEF StartSleep
<1>9. CASE Wake
  BY <1>9 DEF Wake
<1>10. CASE Pass
  <2> SUFFICES ASSUME NEW p \in Pool, NEW k \in Provider, pending'[p][k] # None
               PROVE  pending'[p][k].age <= MaxReadAge[k] + PollTick + waited'[p]
    BY DEF AgeBound
  <2>1. pending[p][k] # None /\ pending'[p][k].age = pending[p][k].age + 1
    BY <1>10, PassFacts
  <2>2. waited[p] \in Nat
    BY <2>1 DEF WindowOpenIffPending, HasAnything, Held, TypeOK
  <2>3. waited'[p] = waited[p] + 1
    BY <1>10, <2>2, PassFacts
  <2>4. pending[p][k].age \in Int /\ MaxReadAge[k] \in Int
    BY <2>1 DEF Batch, TypeOK
  <2>5. pending[p][k].age <= MaxReadAge[k] + PollTick + waited[p]
    BY <2>1
  <2> QED
    BY <2>1, <2>2, <2>3, <2>4, <2>5
<1>11. CASE UNCHANGED vars
  BY <1>11 DEF vars
<1> QED
  BY <1>1, <1>2, <1>3, <1>4, <1>5, <1>6, <1>7, <1>8, <1>9, <1>10, <1>11
  DEF Next, MainTask, Terminated

(* The channel is first in, first out, and an update is numbered as it is   *)
(* queued.                                                                  *)
LEMMA ChannelInOrderStep ==
  TypeOK /\ ChannelInOrder /\ [Next]_vars => ChannelInOrder'
<1> SUFFICES ASSUME TypeOK, ChannelInOrder, [Next]_vars PROVE ChannelInOrder'
  OBVIOUS
<1> USE DEF ChannelInOrder
<1>1. ASSUME NEW k \in Provider, NEW a \in ReadAge[k], Send(k, a) PROVE ChannelInOrder'
  <2>C. /\ DOMAIN channel = 1 .. Len(channel)
        /\ DOMAIN channel' = 1 .. Len(channel) + 1
        /\ \A i \in DOMAIN channel : channel'[i] = channel[i]
        /\ channel'[Len(channel) + 1] = [kind |-> k, seq |-> sent[k] + 1, age |-> a]
    BY <1>1, SendFacts
  <2>L. Len(channel) \in Nat
    BY DEF TypeOK
  <2>1. sent[k] \in Nat /\ sent' = [sent EXCEPT ![k] = sent[k] + 1]
        /\ sent \in [Provider -> 0 .. MaxUpdates]
    BY <1>1 DEF Send, TypeOK
  <2>2. \A i \in DOMAIN channel : channel[i] \in Message
    BY DEF TypeOK
  <2>3. \A i \in DOMAIN channel : channel[i].seq \in Nat /\ channel[i].kind \in Provider
    BY <2>2 DEF Message
  <2>4. \A i \in DOMAIN channel' : channel'[i].seq <= sent'[channel'[i].kind]
    BY <1>1, <2>1, <2>3, <2>C, <2>L
  <2>5. ASSUME NEW i \in DOMAIN channel', NEW j \in DOMAIN channel', i < j,
               channel'[i].kind = channel'[j].kind
        PROVE  channel'[i].seq < channel'[j].seq
    <3>1. i \in DOMAIN channel /\ channel'[i] = channel[i]
      BY <1>1, <2>5, <2>C, <2>L
    <3>2. CASE j \in DOMAIN channel
      BY <1>1, <2>5, <3>1, <3>2, <2>C, <2>L
    <3>3. CASE j \notin DOMAIN channel
      <4>1. channel'[j].kind = k /\ channel'[j].seq = sent[k] + 1
        BY <1>1, <3>3, <2>C, <2>L
      <4>2. channel[i].seq <= sent[k]
        BY <2>5, <3>1, <4>1
      <4> QED
        BY <2>1, <2>3, <3>1, <4>1, <4>2
    <3> QED
      BY <3>2, <3>3
  <2> QED
    BY <2>4, <2>5
<1>2. ASSUME NEW k \in Provider, PollerDies(k) PROVE ChannelInOrder'
  BY <1>2 DEF PollerDies
<1>3. CASE Receive
  <2>1. /\ DOMAIN channel = 1 .. Len(channel) /\ Len(channel) \in Nat
        /\ DOMAIN channel' = 1 .. Len(channel) - 1
        /\ \A i \in DOMAIN channel' : channel'[i] = channel[i + 1]
    BY <1>3, ReceiveFacts DEF TypeOK
  <2>2. sent' = sent
    BY <1>3 DEF Receive
  <2>3. \A i, j \in DOMAIN channel' :
          /\ i + 1 \in DOMAIN channel
          /\ i < j => i + 1 < j + 1
    BY <2>1
  <2> QED
    BY <2>1, <2>2, <2>3
<1>4. CASE DrainEmpty
  BY <1>4 DEF DrainEmpty
<1>5. CASE Disconnected
  BY <1>5 DEF Disconnected
<1>6. ASSUME NEW p \in Pool, Fire(p) PROVE ChannelInOrder'
  BY <1>6 DEF Fire, TakeSnapshot
<1>7. ASSUME NEW p \in Pool, Skip(p) PROVE ChannelInOrder'
  BY <1>7 DEF Skip
<1>8. CASE StartSleep
  BY <1>8 DEF StartSleep
<1>9. CASE Wake
  BY <1>9 DEF Wake
<1>10. CASE Pass
  <2>1. sent' = sent
    BY <1>10 DEF Pass
  <2> QED
    BY <1>10, <2>1, PassFacts
<1>11. CASE UNCHANGED vars
  BY <1>11 DEF vars
<1> QED
  BY <1>1, <1>2, <1>3, <1>4, <1>5, <1>6, <1>7, <1>8, <1>9, <1>10, <1>11
  DEF Next, MainTask, Terminated

(* A batch only ever meets older batches of its provider: in the pending    *)
(* state, which it replaces, and in the snapshots already fired.            *)
LEMMA PoolsInOrderStep ==
  TypeOK /\ ChannelInOrder /\ PoolsInOrder /\ [Next]_vars => PoolsInOrder'
<1> SUFFICES ASSUME TypeOK, ChannelInOrder, PoolsInOrder, [Next]_vars PROVE PoolsInOrder'
  OBVIOUS
<1> USE DEF PoolsInOrder
<1>1. ASSUME NEW k \in Provider, NEW a \in ReadAge[k], Send(k, a) PROVE PoolsInOrder'
  <2>C. /\ DOMAIN channel = 1 .. Len(channel)
        /\ DOMAIN channel' = 1 .. Len(channel) + 1
        /\ \A i \in DOMAIN channel : channel'[i] = channel[i]
        /\ channel'[Len(channel) + 1] = [kind |-> k, seq |-> sent[k] + 1, age |-> a]
    BY <1>1, SendFacts
  <2>L. Len(channel) \in Nat
    BY DEF TypeOK
  <2>1. UNCHANGED <<pending, fired>>
        /\ sent' = [sent EXCEPT ![k] = sent[k] + 1]
        /\ sent \in [Provider -> 0 .. MaxUpdates]
        /\ fired \in [Pool -> [Provider -> Nat]]
    BY <1>1 DEF Send, TypeOK
  <2>2. \A p \in Pool, j \in Provider : pending[p][j] # None => pending[p][j].seq \in Nat
    BY DEF TypeOK, Batch
  <2>3. ASSUME NEW p \in Pool, NEW j \in Provider
        PROVE  /\ fired[p][j] <= sent'[j] /\ fired[p][j] \in Nat /\ sent[j] \in Nat
               /\ pending[p][j] # None => pending[p][j].seq <= sent'[j]
    BY <2>1, <2>2
  <2>4. ASSUME NEW p \in Pool, NEW j \in Provider, NEW i \in DOMAIN channel', channel'[i].kind = j
        PROVE  /\ fired[p][j] < channel'[i].seq
               /\ pending[p][j] # None => pending[p][j].seq < channel'[i].seq
    <3>1. CASE i \in DOMAIN channel
      BY <1>1, <2>4, <3>1, <2>C, <2>L
    <3>2. CASE i \notin DOMAIN channel
      <4>1. channel'[i].kind = k /\ channel'[i].seq = sent[k] + 1
        BY <1>1, <3>2, <2>C, <2>L
      <4> QED
        BY <2>2, <2>3, <2>4, <4>1
    <3> QED
      BY <3>1, <3>2
  <2> QED
    BY <2>1, <2>3, <2>4
<1>2. ASSUME NEW k \in Provider, PollerDies(k) PROVE PoolsInOrder'
  <2>1. UNCHANGED <<channel, pending, sent, fired>>
    BY <1>2 DEF PollerDies
  <2> QED
    BY <2>1
<1>3. CASE Receive
  <2> DEFINE m == channel[1]
  <2>1. UNCHANGED <<sent, fired>>
    BY <1>3 DEF Receive
  <2>2. /\ 1 \in DOMAIN channel /\ m \in Message
        /\ DOMAIN channel = 1 .. Len(channel) /\ Len(channel) \in Nat
        /\ DOMAIN channel' = 1 .. Len(channel) - 1
        /\ \A i \in DOMAIN channel' : channel'[i] = channel[i + 1]
    BY <1>3, ReceiveFacts DEF TypeOK
  <2>3. \A i \in DOMAIN channel' : i + 1 \in DOMAIN channel /\ 1 < i + 1
    BY <2>2
  <2>4. ASSUME NEW p \in Pool, NEW k \in Provider
        PROVE  /\ fired'[p][k] <= sent'[k]
               /\ pending'[p][k] # None =>
                    /\ k \in Required[p]
                    /\ fired'[p][k] < pending'[p][k].seq
                    /\ pending'[p][k].seq <= sent'[k]
               /\ \A i \in DOMAIN channel' : channel'[i].kind = k =>
                    /\ fired'[p][k] < channel'[i].seq
                    /\ pending'[p][k] # None => pending'[p][k].seq < channel'[i].seq
    <3>1. CASE m.kind \in Required[p] /\ k = m.kind
      <4>1. pending'[p][k].seq = m.seq
        BY <1>3, <3>1, ReceiveFacts
      <4>2. fired[p][k] < m.seq /\ m.seq <= sent[k]
        BY <2>2, <3>1 DEF ChannelInOrder
      <4>3. \A i \in DOMAIN channel' : channel'[i].kind = k => m.seq < channel'[i].seq
        BY <2>2, <2>3, <3>1 DEF ChannelInOrder
      <4> QED
        BY <2>1, <2>2, <2>3, <3>1, <4>1, <4>2, <4>3
    <3>2. CASE ~(m.kind \in Required[p] /\ k = m.kind)
      <4>1. pending'[p][k] = pending[p][k]
        BY <1>3, <3>2, ReceiveFacts
      <4> QED
        BY <2>1, <2>2, <2>3, <4>1
    <3> QED
      BY <3>1, <3>2
  <2> QED
    BY <2>4
<1>4. CASE DrainEmpty
  <2>1. UNCHANGED <<channel, pending, sent, fired>>
    BY <1>4 DEF DrainEmpty
  <2> QED
    BY <2>1
<1>5. CASE Disconnected
  <2>1. UNCHANGED <<channel, pending, sent, fired>>
    BY <1>5 DEF Disconnected
  <2> QED
    BY <2>1
<1>6. ASSUME NEW p \in Pool, Fire(p) PROVE PoolsInOrder'
  <2>1. UNCHANGED <<channel, sent>>
    BY <1>6 DEF Fire
  <2>2. \A q \in Pool, k \in Provider :
          /\ pending'[q][k] = IF q = p THEN None ELSE pending[q][k]
          /\ fired'[q][k] = IF q = p /\ pending[p][k] # None
                              THEN pending[p][k].seq ELSE fired[q][k]
    BY <1>6 DEF Fire, TakeSnapshot, Nothing, TypeOK
  <2> QED
    BY <2>1, <2>2
<1>7. ASSUME NEW p \in Pool, Skip(p) PROVE PoolsInOrder'
  <2>1. UNCHANGED <<channel, pending, sent, fired>>
    BY <1>7 DEF Skip
  <2> QED
    BY <2>1
<1>8. CASE StartSleep
  <2>1. UNCHANGED <<channel, pending, sent, fired>>
    BY <1>8 DEF StartSleep
  <2> QED
    BY <2>1
<1>9. CASE Wake
  <2>1. UNCHANGED <<channel, pending, sent, fired>>
    BY <1>9 DEF Wake
  <2> QED
    BY <2>1
<1>10. CASE Pass
  <2>1. UNCHANGED <<sent, fired>>
    BY <1>10 DEF Pass
  <2> QED
    BY <1>10, <2>1, PassFacts
<1>11. CASE UNCHANGED vars
  <2>1. UNCHANGED <<channel, pending, sent, fired>>
    BY <1>11 DEF vars
  <2> QED
    BY <2>1
<1> QED
  BY <1>1, <1>2, <1>3, <1>4, <1>5, <1>6, <1>7, <1>8, <1>9, <1>10, <1>11
  DEF Next, MainTask, Terminated

(* An update leaves the channel only for the pending state of every pool    *)
(* that requires it, and the pending state only for a snapshot or for a     *)
(* newer update.                                                            *)
LEMMA NewestKeptStep ==
  TypeOK /\ ChannelInOrder /\ PoolsInOrder /\ NewestKept /\ [Next]_vars => NewestKept'
<1> SUFFICES ASSUME TypeOK, ChannelInOrder, PoolsInOrder, NewestKept, [Next]_vars PROVE NewestKept'
  OBVIOUS
<1> USE DEF NewestKept
<1>1. ASSUME NEW k \in Provider, NEW a \in ReadAge[k], Send(k, a) PROVE NewestKept'
  <2>C. /\ DOMAIN channel = 1 .. Len(channel)
        /\ DOMAIN channel' = 1 .. Len(channel) + 1
        /\ \A i \in DOMAIN channel : channel'[i] = channel[i]
        /\ channel'[Len(channel) + 1] = [kind |-> k, seq |-> sent[k] + 1, age |-> a]
    BY <1>1, SendFacts
  <2>L. Len(channel) \in Nat
    BY DEF TypeOK
  <2>1. UNCHANGED <<pending, fired>>
        /\ sent' = [sent EXCEPT ![k] = sent[k] + 1]
        /\ sent \in [Provider -> 0 .. MaxUpdates]
    BY <1>1 DEF Send, TypeOK
  <2>2. Len(channel) + 1 \in DOMAIN channel' /\ DOMAIN channel \subseteq DOMAIN channel'
    BY <2>C, <2>L
  <2>3. ASSUME NEW p \in Pool, NEW j \in Required[p], j # k
        PROVE  \/ sent'[j] = fired'[p][j]
               \/ pending'[p][j] # None /\ pending'[p][j].seq = sent'[j]
               \/ \E i \in DOMAIN channel' : channel'[i].kind = j /\ channel'[i].seq = sent'[j]
    <3>1. j \in Provider /\ sent'[j] = sent[j]
      BY <2>1, <2>3
    <3>2. \/ sent[j] = fired[p][j]
          \/ pending[p][j] # None /\ pending[p][j].seq = sent[j]
          \/ \E i \in DOMAIN channel : channel[i].kind = j /\ channel[i].seq = sent[j]
      OBVIOUS
    <3>3. (\E i \in DOMAIN channel : channel[i].kind = j /\ channel[i].seq = sent[j])
            => \E i \in DOMAIN channel' : channel'[i].kind = j /\ channel'[i].seq = sent[j]
      BY <2>2, <2>C
    <3> QED
      BY <2>1, <3>1, <3>2, <3>3
  <2>4. \E i \in DOMAIN channel' : channel'[i].kind = k /\ channel'[i].seq = sent'[k]
    <3>1. channel'[Len(channel) + 1].kind = k /\ channel'[Len(channel) + 1].seq = sent[k] + 1
      BY <2>C
    <3>2. sent'[k] = sent[k] + 1
      BY <2>1
    <3> QED
      BY <2>2, <3>1, <3>2
  <2> QED
    BY <2>3, <2>4
<1>2. ASSUME NEW k \in Provider, PollerDies(k) PROVE NewestKept'
  <2>1. UNCHANGED <<channel, pending, sent, fired>>
    BY <1>2 DEF PollerDies
  <2> QED
    BY <2>1
<1>3. CASE Receive
  <2> DEFINE m == channel[1]
  <2>1. UNCHANGED <<sent, fired>>
    BY <1>3 DEF Receive
  <2>2. /\ 1 \in DOMAIN channel /\ m \in Message
        /\ DOMAIN channel = 1 .. Len(channel) /\ Len(channel) \in Nat
        /\ DOMAIN channel' = 1 .. Len(channel) - 1
        /\ \A i \in DOMAIN channel' : channel'[i] = channel[i + 1]
    BY <1>3, ReceiveFacts DEF TypeOK
  <2> SUFFICES ASSUME NEW p \in Pool, NEW k \in Required[p]
               PROVE  \/ sent[k] = fired[p][k]
                      \/ pending'[p][k] # None /\ pending'[p][k].seq = sent[k]
                      \/ \E i \in DOMAIN channel' :
                           channel'[i].kind = k /\ channel'[i].seq = sent[k]
    BY <2>1
  <2>3. k \in Provider
    OBVIOUS
  <2>4. CASE \E i \in DOMAIN channel : channel[i].kind = k /\ channel[i].seq = sent[k]
    <3>1. PICK i \in DOMAIN channel : channel[i].kind = k /\ channel[i].seq = sent[k]
      BY <2>4
    <3>2. CASE i = 1
      <4>1. m.kind \in Required[p] /\ k = m.kind /\ m.seq = sent[k]
        BY <3>1, <3>2
      <4>2. pending'[p][k] # None /\ pending'[p][k].seq = m.seq
        BY <1>3, <2>3, <4>1, ReceiveFacts
      <4> QED
        BY <4>1, <4>2
    <3>3. CASE i # 1
      <4>1. i - 1 \in DOMAIN channel' /\ channel'[i - 1] = channel[i]
        BY <2>2, <3>3
      <4> QED
        BY <3>1, <4>1
    <3> QED
      BY <3>2, <3>3
  <2>5. CASE pending[p][k] # None /\ pending[p][k].seq = sent[k]
    <3>1. ~(m.kind = k)
      <4>1. SUFFICES ASSUME m.kind = k PROVE FALSE
        OBVIOUS
      <4>2. pending[p][k].seq < m.seq /\ m.seq <= sent[k]
        BY <2>2, <2>3, <2>5, <4>1 DEF ChannelInOrder, PoolsInOrder
      <4>3. m.seq \in Nat /\ sent[k] \in Nat
        BY <2>2, <2>3 DEF TypeOK, Message
      <4> QED
        BY <2>5, <4>2, <4>3
    <3>2. pending'[p][k] = pending[p][k]
      BY <1>3, <2>3, <3>1, ReceiveFacts
    <3> QED
      BY <2>5, <3>2
  <2> QED
    BY <2>4, <2>5
<1>4. CASE DrainEmpty
  <2>1. UNCHANGED <<channel, pending, sent, fired>>
    BY <1>4 DEF DrainEmpty
  <2> QED
    BY <2>1
<1>5. CASE Disconnected
  <2>1. UNCHANGED <<channel, pending, sent, fired>>
    BY <1>5 DEF Disconnected
  <2> QED
    BY <2>1
<1>6. ASSUME NEW p \in Pool, Fire(p) PROVE NewestKept'
  <2>1. UNCHANGED <<channel, sent>>
    BY <1>6 DEF Fire
  <2>2. \A q \in Pool, k \in Provider :
          /\ pending'[q][k] = IF q = p THEN None ELSE pending[q][k]
          /\ fired'[q][k] = IF q = p /\ pending[p][k] # None
                              THEN pending[p][k].seq ELSE fired[q][k]
    BY <1>6 DEF Fire, TakeSnapshot, Nothing, TypeOK
  <2>3. \A q \in Pool : Required[q] \subseteq Provider
    OBVIOUS
  <2>5. ASSUME NEW q \in Pool, NEW k \in Provider, pending[q][k] # None
        PROVE  sent[k] # fired[q][k]
    <3>1. sent[k] \in Nat /\ fired[q][k] \in Nat /\ pending[q][k].seq \in Nat
      BY <2>5 DEF TypeOK, Batch
    <3> QED
      BY <2>5, <3>1 DEF PoolsInOrder
  <2>4. ASSUME NEW q \in Pool, NEW k \in Required[q]
        PROVE  \/ sent[k] = fired'[q][k]
               \/ pending'[q][k] # None /\ pending'[q][k].seq = sent[k]
               \/ \E i \in DOMAIN channel : channel[i].kind = k /\ channel[i].seq = sent[k]
    <3>1. k \in Provider
      BY <2>3
    <3>2. \/ sent[k] = fired[q][k]
          \/ pending[q][k] # None /\ pending[q][k].seq = sent[k]
          \/ \E i \in DOMAIN channel : channel[i].kind = k /\ channel[i].seq = sent[k]
      OBVIOUS
    <3>3. CASE q = p /\ pending[p][k] # None /\ sent[k] = fired[q][k]
      BY <2>5, <3>1, <3>3
    <3> QED
      BY <2>2, <3>1, <3>2, <3>3
  <2> QED
    BY <2>1, <2>4
<1>7. ASSUME NEW p \in Pool, Skip(p) PROVE NewestKept'
  <2>1. UNCHANGED <<channel, pending, sent, fired>>
    BY <1>7 DEF Skip
  <2> QED
    BY <2>1
<1>8. CASE StartSleep
  <2>1. UNCHANGED <<channel, pending, sent, fired>>
    BY <1>8 DEF StartSleep
  <2> QED
    BY <2>1
<1>9. CASE Wake
  <2>1. UNCHANGED <<channel, pending, sent, fired>>
    BY <1>9 DEF Wake
  <2> QED
    BY <2>1
<1>10. CASE Pass
  <2>1. UNCHANGED <<sent, fired>>
    BY <1>10 DEF Pass
  <2>2. \A q \in Pool : Required[q] \subseteq Provider
    OBVIOUS
  <2> QED
    BY <1>10, <2>1, <2>2, PassFacts
<1>11. CASE UNCHANGED vars
  <2>1. UNCHANGED <<channel, pending, sent, fired>>
    BY <1>11 DEF vars
  <2> QED
    BY <2>1
<1> QED
  BY <1>1, <1>2, <1>3, <1>4, <1>5, <1>6, <1>7, <1>8, <1>9, <1>10, <1>11
  DEF Next, MainTask, Terminated

(* The inductive invariant, of which the theorems below are consequences:  *)
(* it holds initially and every step of a poller or of the main task       *)
(* (client.rs:361-421) preserves each part, given the others.              *)
THEOREM Invariance == Spec => []IInv
<1>1. Init => IInv
  <2> SUFFICES ASSUME Init PROVE IInv
    OBVIOUS
  <2>1. TypeOK
    BY DEF Init, TypeOK, Nothing, Batch, Message
  <2>2. WindowOpenIffPending /\ WindowBound /\ WindowAfterFire /\ AgeBound
    BY DEF Init, WindowOpenIffPending, HasAnything, Held, WindowBound,
           WindowAfterFire, AgeBound, Nothing
  <2>3. Scanned
    BY DEF Init, Scanned
  <2>4. ChannelAge /\ ChannelInOrder
    BY DEF Init, ChannelAge, ChannelInOrder
  <2>5. PoolsInOrder /\ NewestKept
    BY DEF Init, PoolsInOrder, NewestKept, Nothing
  <2> QED
    BY <2>1, <2>2, <2>3, <2>4, <2>5 DEF IInv, StreamsInOrder
<1>2. IInv /\ [Next]_vars => IInv'
  BY TypeStep, WindowOpenStep, WindowBoundStep, ScannedStep, WindowAfterFireStep,
     ChannelAgeStep, AgeBoundStep, ChannelInOrderStep, PoolsInOrderStep, NewestKeptStep
  DEF IInv, StreamsInOrder
<1> QED
  BY <1>1, <1>2, PTL DEF Spec

----------------------------------------------------------------------------

(* Every reachable state is well typed: the channel stays within its       *)
(* capacity (mpsc::channel(64)) and the sleep within WINDOW_POLL_TICK.     *)
THEOREM TypeCorrect == Spec => []TypeOK
BY Invariance, PTL DEF IInv

(* client.rs:69-72, a collection window is open for less than              *)
(* COLLECTION_WINDOW + WINDOW_POLL_TICK.                                   *)
THEOREM WindowBounded == Spec => []WindowBound
BY Invariance, PTL DEF IInv

(* pool_config.rs:88-90, first_arrival_at is set exactly while the pool    *)
(* has a batch pending.                                                    *)
THEOREM WindowMatchesPending == Spec => []WindowOpenIffPending
BY Invariance, PTL DEF IInv

(* A pending batch is never older than its age when queued, one tick in    *)
(* the channel, and the age of the window that holds it.                   *)
THEOREM PendingAgeBounded == Spec => []AgeBound
BY Invariance, PTL DEF IInv

(* The fan-out hands each pool the updates of a provider in the order they *)
(* were sent, and take_snapshot takes none of them twice.                  *)
THEOREM StreamsOrdered == Spec => []StreamsInOrder
BY Invariance, PTL DEF IInv

(* Between try_recv, ingest and take_snapshot no update that is the newest *)
(* of its provider gets lost for a pool that requires it.                  *)
THEOREM NewestNeverLost == Spec => []NewestKept
BY Invariance, PTL DEF IInv

(* No pool sleeps through a tick with all its providers present.           *)
THEOREM CompleteNeverWaits == Spec => []CompleteFiresAtOnce
<1>1. IInv => CompleteFiresAtOnce
  BY DEF IInv, Scanned, CompleteFiresAtOnce
<1> QED
  BY <1>1, Invariance, PTL

(* A partial snapshot leaves only a full window after the pool's previous  *)
(* snapshot (is_window_expired).                                           *)
THEOREM PartialSnapshotsSpaced == Spec => PartialFiresSpaced
<1>1. IInv /\ [Next]_vars =>
        [\A p \in Pool : Fire(p) /\ ~IsComplete(p) => idle[p] >= Window]_vars
  <2> SUFFICES ASSUME IInv, NEW p \in Pool, Fire(p), ~IsComplete(p)
               PROVE  idle[p] >= Window
    OBVIOUS
  <2>1. waited[p] # None /\ waited[p] >= Window
    BY DEF Fire, Ready, IsWindowExpired
  <2>2. idle[p] \in 0 .. Window /\ waited[p] \in Nat
    BY <2>1 DEF IInv, TypeOK
  <2> QED
    BY <2>1, <2>2 DEF IInv, WindowAfterFire
<1> QED
  BY <1>1, Invariance, PTL DEF Spec, PartialFiresSpaced

(* pool_config.rs:30-33, what is fired is fresh enough for the chain if    *)
(* its staleness limit covers the oldest age a poller lets through, the    *)
(* window and two ticks.                                                   *)
THEOREM FreshnessBudget ==
  ASSUME \A k \in Provider : MaxReadAge[k] + Window + 2 * PollTick - 1 <= OnChainStaleness
  PROVE  Spec => FreshWhenFired
<1>1. IInv /\ [Next]_vars =>
        [\A p \in Pool : \A k \in Provider :
           Fire(p) /\ pending[p][k] # None => pending[p][k].age <= OnChainStaleness]_vars
  <2> SUFFICES ASSUME IInv, NEW p \in Pool, NEW k \in Provider, pending[p][k] # None
               PROVE  pending[p][k].age <= OnChainStaleness
    OBVIOUS
  <2>1. pending[p][k].age <= MaxReadAge[k] + PollTick + waited[p]
    BY DEF IInv, AgeBound
  <2>2. waited[p] # None
    BY DEF IInv, WindowOpenIffPending, HasAnything, Held
  <2>3. waited[p] \in Nat /\ waited[p] < Window + PollTick
    BY <2>2 DEF IInv, TypeOK, WindowBound
  <2>4. pending[p][k].age \in Int /\ MaxReadAge[k] \in Int
    BY DEF IInv, TypeOK, Batch
  <2>5. MaxReadAge[k] + Window + 2 * PollTick - 1 <= OnChainStaleness
    OBVIOUS
  <2> QED
    BY <2>1, <2>3, <2>4, <2>5
<1> QED
  BY <1>1, Invariance, PTL DEF Spec, FreshWhenFired

(* The main loop implements the abstract feed: each fire is the delivery   *)
(* of the held providers' streams, everything else is invisible to it.     *)
THEOREM ImplementsFeed == Spec => FeedSafe
<1>1. Init => Feed!Init
  BY DEF Init, Feed!Init
<1>2. IInv /\ [Next]_vars => [Feed!Next]_Feed!feed
  <2> SUFFICES ASSUME IInv, [Next]_vars
               PROVE  Feed!Next \/ UNCHANGED <<sent, fired, phase # "exited">>
    BY DEF Feed!feed
  <2>1. ASSUME NEW k \in Provider, NEW a \in ReadAge[k], Send(k, a)
        PROVE  Feed!Next
    BY <2>1 DEF Send, Feed!Next, Feed!Publish
  <2>2. ASSUME NEW p \in Pool, Fire(p) PROVE Feed!Next
    <3> DEFINE S == Held(pending[p])
               new == [k \in S |-> pending[p][k].seq]
    <3>1. S \subseteq Required[p] /\ S \subseteq Provider
      BY DEF Held, IInv, StreamsInOrder, PoolsInOrder
    <3>2. S # {}
      <4>1. CASE IsComplete(p)
        BY <4>1 DEF Held, IsComplete
      <4>2. CASE HasAnything(p)
        BY <4>2 DEF HasAnything
      <4> QED
        BY <2>2, <4>1, <4>2 DEF Fire, Ready
    <3>3. ASSUME NEW k \in S
          PROVE  /\ fired[p][k] < new[k] /\ new[k] <= sent[k]
                 /\ new[k] \in 1 .. sent[k]
      <4>1. fired[p][k] < pending[p][k].seq /\ pending[p][k].seq <= sent[k]
        BY <3>3 DEF Held, IInv, StreamsInOrder, PoolsInOrder
      <4>2. fired[p][k] \in Nat /\ sent[k] \in Nat /\ pending[p][k].seq \in Nat
        BY <3>3 DEF Held, IInv, TypeOK, Batch
      <4> QED
        BY <4>1, <4>2
    <3>4. new \in [S -> UNION {1 .. sent[k] : k \in S}]
      BY <3>3
    <3>5. fired' = [fired EXCEPT ![p] = [k \in Provider |-> IF k \in S THEN new[k] ELSE @[k]]]
      BY <2>2 DEF Fire, TakeSnapshot, Held
    <3>6. phase # "exited" /\ UNCHANGED <<sent, phase # "exited">>
      BY <2>2 DEF Fire
    <3> HIDE DEF S, new
    <3>7. Feed!Deliver(p, S)
      BY <3>1, <3>2, <3>3, <3>4, <3>5, <3>6 DEF Feed!Deliver
    <3> QED
      BY <3>1, <3>7 DEF Feed!Next
  <2>3. CASE Disconnected
    BY <2>3 DEF Disconnected, Feed!Next, Feed!Close
  <2>4. ASSUME \/ \E k \in Provider : PollerDies(k)
               \/ Receive \/ DrainEmpty \/ \E p \in Pool : Skip(p)
               \/ StartSleep \/ Wake \/ Pass \/ UNCHANGED vars
        PROVE  UNCHANGED <<sent, fired, phase # "exited">>
    BY <2>4 DEF PollerDies, Receive, DrainEmpty, Skip, StartSleep, Wake, Pass, vars
  <2> QED
    BY <2>1, <2>2, <2>3, <2>4 DEF Next, MainTask, Terminated
<1> QED
  BY <1>1, <1>2, Invariance, PTL DEF Spec, FeedSafe, Feed!SafeSpec

=============================================================================
