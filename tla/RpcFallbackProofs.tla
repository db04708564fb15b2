-------------------------- MODULE RpcFallbackProofs --------------------------
(***************************************************************************)
(* Proofs about RpcFallback, for any number of endpoints and any timing.   *)
(*                                                                         *)
(* The invariant ties the call's knowledge to the ledger: what reached a   *)
(* node is either the transaction the call knows as sent, or one whose     *)
(* acknowledgement was lost.  The control part (Stages) says what the call *)
(* may know at each point; from the two the outcome is truthful, and after *)
(* an acknowledgement nothing new can reach the cluster.                   *)
(***************************************************************************)
EXTENDS RpcFallback, FiniteSetTheorems, TLAPS

USE RpcAssumption DEF RpcAssumption

(* What the call holds at each of its stages.                              *)
Stages ==
  /\ pc # "done" => outcome = None /\ ep <= NumEndpoints
  /\ pc \in {"blockhash", "send"} => sent = None
  /\ pc = "send" => hash \in Blockhash
  /\ pc = "confirm" => sent \in Blockhash /\ polls >= 1

(* What reached a node is the acknowledged transaction or a lost one.      *)
Accounted ==
  /\ sent # None => ledger[sent] # "unknown"
  /\ \A h \in Blockhash : ledger[h] # "unknown" => h = sent \/ h \in lost

RpcInv == TypeOK /\ Stages /\ Accounted /\ OutcomeTruthful

(* Every action keeps every variable in its type.                          *)
LEMMA TypeStep == RpcInv /\ [Next]_vars => TypeOK'
<1> SUFFICES ASSUME RpcInv, [Next]_vars PROVE TypeOK'
  OBVIOUS
<1> USE DEF RpcInv, TypeOK
<1>1. \A d \in Latency \cup {RpcTimeout} : Spend(d) => elapsed' \in Nat
  BY DEF Spend
<1>2. \A d \in Latency \cup {RpcTimeout} : Spend(ConfirmInterval + d) => elapsed' \in Nat
  BY DEF Spend
<1>3. Reaches(hash) \in [Blockhash -> Fate]
  BY DEF Reaches, Fate
<1>4. pc # "done" /\ NextEndpoint =>
        /\ ep' \in 1 .. NumEndpoints + 1
        /\ pc' \in {"blockhash", "confirm", "done"}
        /\ polls' \in 0 .. ConfirmPolls
        /\ outcome' \in Outcome
  BY DEF NextEndpoint, Return, Outcome, Stages
<1>5. CASE GetBlockhash
  BY <1>1, <1>5 DEF GetBlockhash
<1>6. CASE BlockhashFails
  BY <1>1, <1>4, <1>6 DEF BlockhashFails
<1>7. CASE SendAcked
  BY <1>1, <1>3, <1>7 DEF SendAcked
<1>8. CASE SendRefused
  BY <1>1, <1>4, <1>8 DEF SendRefused
<1>9. CASE SendAckLost
  BY <1>1, <1>3, <1>4, <1>9 DEF SendAckLost, Stages
<1>10. CASE StatusLanded
  BY <1>2, <1>10 DEF StatusLanded, Return, Outcome
<1>11. CASE StatusFailed
  BY <1>2, <1>11 DEF StatusFailed, Return, Outcome
<1>12. CASE StatusUnknown
  <2>1. CASE polls > 1
    BY <1>2, <1>12, <2>1 DEF StatusUnknown
  <2>2. CASE ~(polls > 1)
    BY <1>2, <1>4, <1>12, <2>2 DEF StatusUnknown
  <2> QED
    BY <2>1, <2>2
<1>13. ASSUME NEW h \in Blockhash, Settle(h) PROVE TypeOK'
  BY <1>13 DEF Settle, call, Fate
<1>14. CASE UNCHANGED vars
  BY <1>14 DEF vars
<1> QED
  BY <1>5, <1>6, <1>7, <1>8, <1>9, <1>10, <1>11, <1>12, <1>13, <1>14
  DEF Next, Call, Returned

(* Moving on either keeps to the endpoints that are left or gives up.      *)
LEMMA StagesStep == RpcInv /\ [Next]_vars => Stages'
<1> SUFFICES ASSUME RpcInv, [Next]_vars PROVE Stages'
  OBVIOUS
<1> USE DEF RpcInv, TypeOK, Stages
<1>1. pc # "done" /\ NextEndpoint /\ sent' = sent => Stages'
  BY DEF NextEndpoint, Return
<1>2. CASE GetBlockhash
  BY <1>2 DEF GetBlockhash
<1>3. CASE BlockhashFails \/ SendRefused \/ SendAckLost
  BY <1>1, <1>3 DEF BlockhashFails, SendRefused, SendAckLost
<1>4. CASE SendAcked
  BY <1>4 DEF SendAcked
<1>5. CASE StatusLanded \/ StatusFailed
  BY <1>5 DEF StatusLanded, StatusFailed, Return
<1>6. CASE StatusUnknown
  <2>1. CASE polls > 1
    BY <1>6, <2>1 DEF StatusUnknown
  <2>2. CASE ~(polls > 1)
    BY <1>1, <1>6, <2>2 DEF StatusUnknown
  <2> QED
    BY <2>1, <2>2
<1>7. ASSUME NEW h \in Blockhash, Settle(h) PROVE Stages'
  BY <1>7 DEF Settle, call
<1>8. CASE UNCHANGED vars
  BY <1>8 DEF vars
<1> QED
  BY <1>2, <1>3, <1>4, <1>5, <1>6, <1>7, <1>8 DEF Next, Call, Returned

(* A transaction reaches a node only through SendAcked, which records it   *)
(* in sent, or SendAckLost, which records it in lost.                      *)
LEMMA AccountedStep == RpcInv /\ [Next]_vars => Accounted'
<1> SUFFICES ASSUME RpcInv, [Next]_vars PROVE Accounted'
  OBVIOUS
<1> USE DEF RpcInv, TypeOK, Stages, Accounted
<1>1. CASE SendAcked
  BY <1>1 DEF SendAcked, Reaches
<1>2. CASE SendAckLost
  BY <1>2 DEF SendAckLost, Reaches
<1>3. ASSUME NEW h \in Blockhash, Settle(h) PROVE Accounted'
  BY <1>3 DEF Settle, call
<1>4. ASSUME UNCHANGED <<sent, ledger, lost>> PROVE Accounted'
  BY <1>4
<1>5. CASE GetBlockhash \/ BlockhashFails \/ SendRefused
  BY <1>4, <1>5 DEF GetBlockhash, BlockhashFails, SendRefused
<1>6. CASE StatusLanded \/ StatusFailed \/ StatusUnknown
  BY <1>4, <1>6 DEF StatusLanded, StatusFailed, StatusUnknown
<1> QED
  BY <1>1, <1>2, <1>3, <1>4, <1>5, <1>6 DEF Next, Call, Returned, vars

(* The outcome is set once, from what the ledger shows at that moment, and *)
(* the ledger never takes back a final fate.                               *)
LEMMA OutcomeStep == RpcInv /\ [Next]_vars => OutcomeTruthful'
<1> SUFFICES ASSUME RpcInv, [Next]_vars PROVE OutcomeTruthful'
  OBVIOUS
<1>0. Accounted'
  BY AccountedStep
<1> USE DEF RpcInv, TypeOK, Stages, OutcomeTruthful
<1>1. ASSUME pc # "done", NextEndpoint, sent' = sent
      PROVE  OutcomeTruthful'
  <2>1. outcome' \in {None, "besteffort", "failed"}
    BY <1>1 DEF NextEndpoint, Return
  <2>2. outcome' = "besteffort" => sent' # None
    BY <1>1 DEF NextEndpoint, Return, Outcome
  <2>3. outcome' = "failed" => sent' = None
    BY <1>1 DEF NextEndpoint, Return, Outcome
  <2>4. outcome' \in {"besteffort", "failed"} => ep' = NumEndpoints + 1
    BY <1>1 DEF NextEndpoint, Return
  <2> QED
    BY <1>0, <2>1, <2>2, <2>3, <2>4 DEF Accounted
<1>2. ASSUME outcome' = None PROVE OutcomeTruthful'
  BY <1>2
<1>3. CASE GetBlockhash \/ SendAcked
  BY <1>2, <1>3 DEF GetBlockhash, SendAcked
<1>4. CASE BlockhashFails \/ SendRefused \/ SendAckLost
  BY <1>1, <1>4 DEF BlockhashFails, SendRefused, SendAckLost
<1>5. CASE StatusLanded \/ StatusFailed
  BY <1>5 DEF StatusLanded, StatusFailed, Return
<1>6. CASE StatusUnknown
  BY <1>1, <1>2, <1>6 DEF StatusUnknown
<1>7. ASSUME NEW h \in Blockhash, Settle(h) PROVE OutcomeTruthful'
  BY <1>7 DEF Settle, call
<1>8. CASE UNCHANGED vars
  BY <1>8 DEF vars
<1> QED
  BY <1>3, <1>4, <1>5, <1>6, <1>7, <1>8 DEF Next, Call, Returned

(* The inductive invariant.                                                *)
LEMMA Invariance == Spec => []RpcInv
<1>1. Init => RpcInv
  <2> SUFFICES ASSUME Init PROVE RpcInv
    OBVIOUS
  <2>1. TypeOK
    BY DEF Init, TypeOK, Outcome, Fate
  <2>2. Stages /\ Accounted /\ OutcomeTruthful
    BY DEF Init, Stages, Accounted, OutcomeTruthful
  <2> QED
    BY <2>1, <2>2 DEF RpcInv
<1>2. RpcInv /\ [Next]_vars => RpcInv'
  BY TypeStep, StagesStep, AccountedStep, OutcomeStep DEF RpcInv
<1> QED
  BY <1>1, <1>2, PTL DEF Spec

----------------------------------------------------------------------------

(* sign_and_send never polls more than CONFIRM_POLLS times per endpoint    *)
(* and never looks for an endpoint past the last.                          *)
THEOREM TypeCorrect == Spec => []TypeOK
BY Invariance, PTL DEF RpcInv

(* What the caller of sign_and_send is told is what the ledger shows.      *)
THEOREM OutcomesTruthful == Spec => []OutcomeTruthful
BY Invariance, PTL DEF RpcInv

(* Once an endpoint acknowledged a transaction no other one is sent.       *)
THEOREM AckIsLastSend == Spec => NothingSentAfterAck
<1>1. RpcInv /\ [Next]_vars =>
        [sent # None => \A h \in Blockhash :
           ledger[h] = "unknown" => ledger'[h] = "unknown"]_vars
  <2> SUFFICES ASSUME RpcInv, Next, sent # None, NEW h \in Blockhash, ledger[h] = "unknown"
               PROVE  ledger'[h] = "unknown"
    BY DEF vars
  <2>1. pc \in {"confirm", "done"}
    BY DEF RpcInv, TypeOK, Stages
  <2>2. CASE Call
    BY <2>1, <2>2 DEF Call, GetBlockhash, BlockhashFails, SendAcked, SendRefused,
                      SendAckLost, StatusLanded, StatusFailed, StatusUnknown
  <2>3. ASSUME NEW g \in Blockhash, Settle(g) PROVE ledger'[h] = "unknown"
    BY <2>3 DEF Settle, RpcInv, TypeOK
  <2>4. CASE Returned
    BY <2>4 DEF Returned, vars
  <2> QED
    BY <2>2, <2>3, <2>4 DEF Next
<1> QED
  BY <1>1, Invariance, PTL DEF Spec, NothingSentAfterAck

(* At most one transaction of a call gets on chain besides those a node    *)
(* took without answering.                                                 *)
THEOREM AtMostOneKnownLands == Spec => []OneLandsUnlessAnswerLost
<1>1. RpcInv => OneLandsUnlessAnswerLost
  <2> SUFFICES ASSUME RpcInv PROVE Cardinality(OnChain \ lost) <= 1
    BY DEF OneLandsUnlessAnswerLost
  <2>1. (OnChain \ lost) \in SUBSET {sent}
    BY DEF RpcInv, Accounted, OnChain
  <2>2. IsFiniteSet({sent}) /\ Cardinality({sent}) = 1
    BY FS_Singleton
  <2>3. IsFiniteSet(OnChain \ lost) /\ Cardinality(OnChain \ lost) <= Cardinality({sent})
    BY <2>1, <2>2, FS_Subset
  <2> QED
    BY <2>2, <2>3
<1> QED
  BY <1>1, Invariance, PTL

----------------------------------------------------------------------------
(* The time a call takes.  Giving up on an endpoint before it acknowledges *)
(* costs at most two timeouts, which a confirmation round covers; so every *)
(* endpoint is charged one round, and the one that acknowledges two        *)
(* timeouts more.                                                          *)

Poll == ConfirmInterval + RpcTimeout
Round == ConfirmPolls * Poll

Budget ==
  /\ pc = "blockhash" => elapsed <= (ep - 1) * Round
  /\ pc = "send" => elapsed <= (ep - 1) * Round + RpcTimeout
  /\ pc = "confirm" =>
       elapsed <= 2 * RpcTimeout + (ep - 1) * Round + (ConfirmPolls - polls) * Poll
  /\ pc = "done" => elapsed <= 2 * RpcTimeout + NumEndpoints * Round

(* Products over the naturals, as the steps below need them.               *)
LEMMA Products ==
  ASSUME NEW c \in Nat
  PROVE  /\ \A n \in Nat : n * c \in Nat /\ (n + 1) * c = n * c + c
         /\ \A n \in Nat \ {0} : n * c = (n - 1) * c + c
         /\ \A m, n \in Nat : m <= n => m * c <= n * c
OBVIOUS

(* A poll and a round are times.                                           *)
LEMMA RoundIsNat == Poll \in Nat /\ Round \in Nat /\ Round = ConfirmPolls * Poll
BY Products DEF Poll, Round

(* Moving on is within budget if the endpoint left behind was.             *)
LEMMA NextEndpointBudget ==
  ASSUME RpcInv, pc # "done", NextEndpoint, elapsed' \in Nat, sent' = sent,
         \/ sent = None /\ elapsed' <= (ep - 1) * Round + Round
         \/ sent # None /\ elapsed' <= 2 * RpcTimeout + (ep - 1) * Round + Round
  PROVE  Budget'
<1>1. ep \in 1 .. NumEndpoints /\ ep' = ep + 1
  BY DEF RpcInv, TypeOK, Stages, NextEndpoint
<1>2. (ep - 1) * Round + Round = ep * Round /\ ep * Round <= NumEndpoints * Round
  BY <1>1, RoundIsNat, Products
<1>3. elapsed' <= 2 * RpcTimeout + ep * Round /\ (sent = None => elapsed' <= ep * Round)
  BY <1>2, RoundIsNat, <1>1, Products
<1>4. CASE ep = NumEndpoints
  <2>1. pc' = "done"
    BY <1>4 DEF NextEndpoint, Return
  <2>2. elapsed' <= 2 * RpcTimeout + NumEndpoints * Round
    BY <1>3, <1>4
  <2> QED
    BY <2>1, <2>2 DEF Budget, Round, Poll
<1>5. CASE ep # NumEndpoints
  <2>1. /\ pc' = IF sent = None THEN "blockhash" ELSE "confirm"
        /\ polls' = IF sent = None THEN 0 ELSE ConfirmPolls
    BY <1>5 DEF NextEndpoint
  <2>2. ep' - 1 = ep
    BY <1>1
  <2>3. (ConfirmPolls - ConfirmPolls) * Poll = 0
    BY RoundIsNat
  <2>4. ep * Round \in Nat
    BY <1>1, RoundIsNat, Products
  <2>5. CASE sent = None
    <3>1. pc' = "blockhash" /\ elapsed' <= (ep' - 1) * Round
      BY <2>1, <2>2, <2>5, <1>3
    <3> QED
      BY <3>1 DEF Budget, Round, Poll
  <2>6. CASE sent # None
    <3>1. /\ pc' = "confirm" /\ polls' = ConfirmPolls
          /\ elapsed' <= 2 * RpcTimeout + (ep' - 1) * Round + 0
      BY <2>1, <2>2, <2>4, <2>6, <1>3
    <3> QED
      BY <3>1, <2>3 DEF Budget, Round, Poll
  <2> QED
    BY <2>5, <2>6
<1> QED
  BY <1>4, <1>5

(* Every step stays within the budget of its stage.                        *)
LEMMA BudgetStep ==
  ASSUME 2 * RpcTimeout <= Round
  PROVE  RpcInv /\ RpcInv' /\ Budget /\ [Next]_vars => Budget'
<1> SUFFICES ASSUME RpcInv, RpcInv', Budget, [Next]_vars PROVE Budget'
  OBVIOUS
<1>1. /\ elapsed \in Nat /\ elapsed' \in Nat /\ polls \in 0 .. ConfirmPolls
      /\ ep \in 1 .. NumEndpoints + 1 /\ (ep - 1) * Round \in Nat
  BY RoundIsNat, Products DEF RpcInv, TypeOK
<1>2. \A d \in Latency \cup {RpcTimeout} :
        /\ Spend(d) => elapsed' <= elapsed + RpcTimeout
        /\ Spend(ConfirmInterval + d) => elapsed' <= elapsed + Poll
  BY <1>1 DEF Spend, Poll
<1>3. CASE GetBlockhash
  <2>1. /\ pc' = "send" /\ ep' = ep
        /\ elapsed <= (ep - 1) * Round /\ elapsed' <= elapsed + RpcTimeout
    BY <1>2, <1>3 DEF GetBlockhash, Budget
  <2>2. elapsed' <= (ep' - 1) * Round + RpcTimeout
    BY <1>1, <2>1
  <2> QED
    BY <2>1, <2>2 DEF Budget, Round, Poll
<1>4. CASE BlockhashFails \/ SendRefused \/ SendAckLost
  <2>1. /\ NextEndpoint /\ pc # "done" /\ sent' = sent /\ sent = None
        /\ elapsed' <= elapsed + RpcTimeout
        /\ elapsed <= (ep - 1) * Round + RpcTimeout
    BY <1>1, <1>2, <1>4 DEF BlockhashFails, SendRefused, SendAckLost, Budget, RpcInv, Stages
  <2>2. elapsed' <= (ep - 1) * Round + Round
    BY <1>1, <2>1, RoundIsNat
  <2> QED
    BY <1>1, <2>1, <2>2, NextEndpointBudget
<1>5. CASE SendAcked
  <2>1. /\ pc' = "confirm" /\ ep' = ep /\ polls' = ConfirmPolls
        /\ elapsed <= (ep - 1) * Round + RpcTimeout /\ elapsed' <= elapsed + RpcTimeout
    BY <1>2, <1>5 DEF SendAcked, Budget
  <2>2. (ConfirmPolls - ConfirmPolls) * Poll = 0
    BY RoundIsNat
  <2>3. elapsed' <= 2 * RpcTimeout + (ep' - 1) * Round + (ConfirmPolls - polls') * Poll
    BY <1>1, <2>1, <2>2
  <2> QED
    BY <2>1, <2>3 DEF Budget, Round, Poll
<1>6. ASSUME pc = "confirm", elapsed' <= elapsed + Poll
      PROVE  /\ elapsed' <= 2 * RpcTimeout + (ep - 1) * Round
                              + (ConfirmPolls - (polls - 1)) * Poll
             /\ polls - 1 \in 0 .. ConfirmPolls
  <2>1. polls >= 1 /\ elapsed <= 2 * RpcTimeout + (ep - 1) * Round + (ConfirmPolls - polls) * Poll
    BY <1>6 DEF Budget, RpcInv, Stages
  <2>2. (ConfirmPolls - (polls - 1)) * Poll = (ConfirmPolls - polls) * Poll + Poll
        /\ (ConfirmPolls - polls) * Poll \in Nat
    BY <1>1, <2>1, RoundIsNat, Products
  <2> QED
    BY <1>1, <1>6, <2>1, <2>2, RoundIsNat
<1>7. ASSUME pc = "confirm", elapsed' <= elapsed + Poll
      PROVE  elapsed' <= 2 * RpcTimeout + (ep - 1) * Round + Round
  <2>1. (ConfirmPolls - (polls - 1)) * Poll <= Round /\ (ConfirmPolls - (polls - 1)) * Poll \in Nat
    BY <1>1, <1>6, <1>7, RoundIsNat, Products
  <2> QED
    BY <1>1, <1>6, <1>7, <2>1, RoundIsNat
<1>8. CASE StatusLanded \/ StatusFailed
  <2>1. /\ pc = "confirm" /\ pc' = "done" /\ elapsed' <= elapsed + Poll
    BY <1>2, <1>8 DEF StatusLanded, StatusFailed, Return
  <2>2. ep \in 1 .. NumEndpoints
    BY <2>1, <1>1 DEF RpcInv, Stages
  <2>3. (ep - 1) * Round + Round = ep * Round /\ ep * Round <= NumEndpoints * Round
    BY <2>2, RoundIsNat, Products
  <2>4. elapsed' <= 2 * RpcTimeout + NumEndpoints * Round
    BY <1>1, <1>7, <2>1, <2>2, <2>3, RoundIsNat, Products
  <2> QED
    BY <2>1, <2>4 DEF Budget, Round, Poll
<1>9. CASE StatusUnknown
  <2>1. pc = "confirm" /\ sent # None /\ sent' = sent /\ elapsed' <= elapsed + Poll
    BY <1>2, <1>9 DEF StatusUnknown, RpcInv, Stages
  <2>2. CASE polls > 1
    <3>1. pc' = "confirm" /\ ep' = ep /\ polls' = polls - 1
      BY <1>9, <2>1, <2>2 DEF StatusUnknown
    <3>2. elapsed' <= 2 * RpcTimeout + (ep' - 1) * Round + (ConfirmPolls - polls') * Poll
      BY <1>6, <2>1, <3>1
    <3> QED
      BY <3>1, <3>2 DEF Budget, Round, Poll
  <2>3. CASE ~(polls > 1)
    BY <1>1, <1>7, <1>9, <2>1, <2>3, NextEndpointBudget DEF StatusUnknown
  <2> QED
    BY <2>2, <2>3
<1>10. ASSUME UNCHANGED call PROVE Budget'
  BY <1>10 DEF call, Budget, Round, Poll
<1> QED
  BY <1>3, <1>4, <1>5, <1>8, <1>9, <1>10
  DEF Next, Call, Settle, Returned, vars, call

(* A call of sign_and_send returns within two timeouts and one full        *)
(* confirmation round per endpoint, if a round is at least two timeouts    *)
(* long (it is four polls of 5.5 s against two times 5 s).                 *)
THEOREM CallIsBounded ==
  ASSUME 2 * RpcTimeout <= Round
  PROVE  Spec => []TimeBound
<1>1. Init => Budget
  BY RoundIsNat, Products DEF Init, Budget
<1>2. RpcInv /\ RpcInv' /\ Budget /\ [Next]_vars => Budget'
  BY BudgetStep
<1>3. RpcInv /\ Budget => TimeBound
  <2> SUFFICES ASSUME RpcInv, Budget PROVE elapsed <= 2 * RpcTimeout + NumEndpoints * Round
    BY RoundIsNat, Products DEF TimeBound, Round, Poll
  <2>1. CASE pc = "done"
    BY <2>1 DEF Budget
  <2>2. CASE pc # "done"
    <3>1. ep \in 1 .. NumEndpoints
      BY <2>2 DEF RpcInv, TypeOK, Stages
    <3>2. (ep - 1) * Round + Round = ep * Round /\ ep * Round <= NumEndpoints * Round
          /\ (ep - 1) * Round \in Nat
      BY <3>1, RoundIsNat, Products
    <3>3. (ConfirmPolls - polls) * Poll <= Round /\ (ConfirmPolls - polls) * Poll \in Nat
      BY RoundIsNat, Products DEF RpcInv, TypeOK
    <3> QED
      BY <2>2, <3>1, <3>2, <3>3, RoundIsNat DEF Budget, RpcInv, TypeOK
  <2> QED
    BY <2>1, <2>2
<1> QED
  BY <1>1, <1>2, <1>3, Invariance, PTL DEF Spec

----------------------------------------------------------------------------
(* The call is a submit call.                                              *)

Told == IF outcome = None THEN "running" ELSE outcome

LEMMA SameCall ==
  ASSUME UNCHANGED <<sent, outcome, ledger, lost>>
  PROVE  UNCHANGED Calls!calls
  BY DEF Calls!calls

(* A step that only returns, truthfully, is a Return of the abstract call; *)
(* one that does not even that changes nothing it sees.                    *)
LEMMA ReturnStep ==
  ASSUME RpcInv, RpcInv', pc # "done", UNCHANGED <<sent, ledger, lost>>,
         outcome' \in {outcome, "confirmed", "rejected", "besteffort", "failed"},
         outcome' = "failed" => sent = None
  PROVE  [Calls!Next]_Calls!calls
<1> DEFINE told == [t \in {1} |-> Told]
<1>1. outcome = None
  BY DEF RpcInv, Stages
<1>2. CASE outcome' = outcome
  BY <1>2, SameCall
<1>3. CASE outcome' # outcome
  <2>1. outcome' # None /\ told[1] = "running" /\ told' = [told EXCEPT ![1] = outcome']
    BY <1>1, <1>3 DEF Told
  <2>2. outcome' \in Calls!Deserved(1)
    BY <1>1, <1>3 DEF Calls!Deserved, RpcInv, OutcomeTruthful, TypeOK
  <2>3. Calls!Return(1)
    BY <2>1, <2>2 DEF Calls!Return, Told
  <2> QED
    BY <2>3 DEF Calls!Next
<1> QED
  BY <1>2, <1>3

(* After NextEndpoint the call runs on, or it has returned: a best effort  *)
(* if something was acknowledged, a failure if nothing was.                *)
LEMMA NextOutcome ==
  ASSUME RpcInv, pc # "done", NextEndpoint, sent' = sent
  PROVE  /\ outcome' \in {outcome, "besteffort", "failed"}
         /\ outcome' = "failed" => sent = None
         /\ sent = None => outcome' \in {outcome, "failed"}
  BY DEF NextEndpoint, Return, RpcInv, Stages

LEMMA CallStep == RpcInv /\ RpcInv' /\ [Next]_vars => [Calls!Next]_Calls!calls
<1> SUFFICES ASSUME RpcInv, RpcInv', [Next]_vars PROVE [Calls!Next]_Calls!calls
  OBVIOUS
<1>1. CASE GetBlockhash
  BY <1>1, SameCall DEF GetBlockhash
<1>2. CASE BlockhashFails
  BY <1>2, NextOutcome, ReturnStep DEF BlockhashFails
<1>3. CASE SendRefused
  BY <1>3, NextOutcome, ReturnStep DEF SendRefused
<1>4. CASE StatusLanded
  BY <1>4, ReturnStep DEF StatusLanded, Return
<1>5. CASE StatusFailed
  BY <1>5, ReturnStep DEF StatusFailed, Return
<1>6. CASE StatusUnknown
  <2>1. CASE polls > 1
    BY <1>6, <2>1, SameCall DEF StatusUnknown
  <2>2. CASE ~(polls > 1)
    BY <1>6, <2>2, NextOutcome, ReturnStep DEF StatusUnknown
  <2> QED
    BY <2>1, <2>2
<1>7. ASSUME NEW h \in Blockhash, Settle(h) PROVE [Calls!Next]_Calls!calls
  <2>1. PICK fate \in {"landed", "failed", "expired"} : ledger' = [ledger EXCEPT ![h] = fate]
    BY <1>7 DEF Settle
  <2>2. Calls!Settle(1, h, fate)
    BY <1>7, <2>1 DEF Settle, call, Calls!Settle
  <2> QED
    BY <2>2 DEF Calls!Next
<1>8. CASE SendAcked
  <2>1. sent = None /\ outcome = None /\ hash \in Blockhash
    BY <1>8 DEF SendAcked, RpcInv, Stages
  <2>2. sent' = hash /\ outcome' = outcome /\ lost' = lost /\ ledger' = Reaches(hash)
    BY <1>8 DEF SendAcked
  <2>3. Calls!Ack(1, hash)
    BY <2>1, <2>2 DEF Calls!Ack, Calls!Reaches, Reaches
  <2> QED
    BY <2>1, <2>3 DEF Calls!Next
<1>9. CASE SendAckLost
  <2>1. sent = None /\ outcome = None /\ hash \in Blockhash
    BY <1>9 DEF SendAckLost, RpcInv, Stages
  <2>2. sent' = sent /\ lost' = lost \cup {hash} /\ ledger' = Reaches(hash)
    BY <1>9 DEF SendAckLost
  <2>3. outcome' \in {None, "failed"}
    BY <1>9, <2>1, NextOutcome DEF SendAckLost
  <2>4. Calls!Take(1, hash)
    BY <2>1, <2>2, <2>3 DEF Calls!Take, Calls!Reaches, Reaches
  <2> QED
    BY <2>1, <2>4 DEF Calls!Next
<1>10. CASE Returned \/ UNCHANGED vars
  BY <1>10, SameCall DEF Returned, vars
<1> QED
  BY <1>1, <1>2, <1>3, <1>4, <1>5, <1>6, <1>7, <1>8, <1>9, <1>10 DEF Next, Call

(* sign_and_send implements the submit call that the composition of the    *)
(* whole program relies on, for any number of endpoints.                   *)
THEOREM ImplementsCalls == Spec => CallSafe
<1>1. Init => Calls!Init
  BY DEF Init, Calls!Init
<1>2. RpcInv /\ RpcInv' /\ [Next]_vars => [Calls!Next]_Calls!calls
  BY CallStep
<1> QED
  BY <1>1, <1>2, Invariance, PTL DEF Spec, CallSafe, Calls!SafeSpec
=============================================================================
