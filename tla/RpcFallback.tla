---------------------------- MODULE RpcFallback -----------------------------
(***************************************************************************)
(* One call of RpcFallback::sign_and_send (src/src/rpc_fallback.rs): the   *)
(* endpoints are tried in order, each with get blockhash, sign, send and   *)
(* confirm; once an endpoint has acknowledged a transaction the remaining  *)
(* endpoints only try to confirm it.                                       *)
(*                                                                         *)
(* The instructions and the signer are fixed within a call, so the         *)
(* transaction is named by the blockhash it is signed over: two endpoints  *)
(* that answer with the same blockhash yield the same transaction.  The    *)
(* ledger is the environment: a transaction that reached a node may land,  *)
(* fail on chain or expire at any later moment, also after the call has    *)
(* returned.  Forks are left out: a status once reported does not change.  *)
(***************************************************************************)
EXTENDS Integers, FiniteSets

CONSTANTS
  NumEndpoints,     \* primary, backup if configured, public
  RpcTimeout,       \* RPC_TIMEOUT, in units of time
  ConfirmPolls,     \* CONFIRM_POLLS
  ConfirmInterval,  \* CONFIRM_INTERVAL, in units of time
  Latency,          \* how long an RPC may take before it answers
  Blockhash,        \* the blockhashes endpoints may return
  None

RpcAssumption ==
  /\ NumEndpoints \in Nat \ {0}
  /\ RpcTimeout \in Nat
  /\ ConfirmPolls \in Nat \ {0}
  /\ ConfirmInterval \in Nat
  /\ Latency \subseteq 0 .. RpcTimeout
  /\ None \notin Blockhash \cup {"confirmed", "rejected", "besteffort", "failed"}

ASSUME RpcAssumption

VARIABLES
  ep,       \* the endpoint in use, NumEndpoints + 1 once all were tried
  pc,       \* the call's next step: blockhash, send, confirm or done
  hash,     \* the blockhash the transaction in hand is signed over
  sent,     \* sent_sig: the transaction some endpoint acknowledged
  polls,    \* confirmation polls left on this endpoint
  outcome,  \* what the call returned
  ledger,   \* the fate of each possible transaction
  lost,     \* history: transactions a node took without an answer
  elapsed   \* history: time the call has spent

call == <<ep, pc, hash, sent, polls, outcome, elapsed>>
vars == <<ep, pc, hash, sent, polls, outcome, ledger, lost, elapsed>>

Outcome == {None, "confirmed", "rejected", "besteffort", "failed"}
Fate == {"unknown", "inflight", "landed", "failed", "expired"}

----------------------------------------------------------------------------

Spend(d) == elapsed' = elapsed + d

Return(o) ==
  /\ outcome' = o
  /\ pc' = "done"

(* Variants with a mistake: another endpoint after the last one, a resend  *)
(* of what was acknowledged, and no return after the loop.                 *)
NextPastEnd ==
  /\ ep' = ep + 1
  /\ pc' = IF sent = None THEN "blockhash" ELSE "confirm"
  /\ polls' = IF sent = None THEN 0 ELSE ConfirmPolls
  /\ UNCHANGED outcome

NextResending ==
  /\ ep' = ep + 1
  /\ polls' = 0
  /\ IF ep = NumEndpoints
       THEN Return(IF sent = None THEN "failed" ELSE "besteffort")
       ELSE pc' = "blockhash" /\ UNCHANGED outcome

NextUntilLast ==
  /\ ep < NumEndpoints
  /\ ep' = ep + 1
  /\ pc' = IF sent = None THEN "blockhash" ELSE "confirm"
  /\ polls' = IF sent = None THEN 0 ELSE ConfirmPolls
  /\ UNCHANGED outcome

(* `continue` in the loop over the endpoints, and the code after the loop: *)
(* a transaction that was acknowledged is returned as best effort.         *)
NextEndpoint ==
  /\ ep' = ep + 1
  /\ IF ep = NumEndpoints
       THEN /\ Return(IF sent = None THEN "failed" ELSE "besteffort")
            /\ polls' = 0
       ELSE /\ pc' = IF sent = None THEN "blockhash" ELSE "confirm"
            /\ polls' = IF sent = None THEN 0 ELSE ConfirmPolls
            /\ UNCHANGED outcome

GetBlockhash ==
  /\ pc = "blockhash"
  /\ \E h \in Blockhash, d \in Latency :
       /\ hash' = h
       /\ Spend(d)
  /\ pc' = "send"
  /\ UNCHANGED <<ep, sent, polls, outcome, ledger, lost>>

(* An error answer, or no answer within RPC_TIMEOUT.                       *)
BlockhashFails ==
  /\ pc = "blockhash"
  /\ NextEndpoint
  /\ \E d \in Latency \cup {RpcTimeout} : Spend(d)
  /\ UNCHANGED <<hash, sent, ledger, lost>>

Reaches(h) == [ledger EXCEPT ![h] = IF @ = "unknown" THEN "inflight" ELSE @]

SendAcked ==
  /\ pc = "send"
  /\ sent' = hash
  /\ polls' = ConfirmPolls
  /\ pc' = "confirm"
  /\ ledger' = Reaches(hash)
  /\ \E d \in Latency : Spend(d)
  /\ UNCHANGED <<ep, hash, outcome, lost>>

(* The node did not take the transaction: error, or time out.              *)
SendRefused ==
  /\ pc = "send"
  /\ NextEndpoint
  /\ \E d \in Latency \cup {RpcTimeout} : Spend(d)
  /\ UNCHANGED <<hash, sent, ledger, lost>>

(* The node took the transaction but its answer never arrived.             *)
SendAckLost ==
  /\ pc = "send"
  /\ NextEndpoint
  /\ ledger' = Reaches(hash)
  /\ lost' = lost \cup {hash}
  /\ \E d \in Latency \cup {RpcTimeout} : Spend(d)
  /\ UNCHANGED <<hash, sent>>

(* Variant with a mistake: status.err is not looked at.                    *)
StatusAny ==
  /\ pc = "confirm"
  /\ ledger[sent] \in {"landed", "failed"}
  /\ Return("confirmed")
  /\ \E d \in Latency : Spend(ConfirmInterval + d)
  /\ UNCHANGED <<ep, hash, sent, polls, ledger, lost>>

StatusLanded ==
  /\ pc = "confirm"
  /\ ledger[sent] = "landed"
  /\ Return("confirmed")
  /\ \E d \in Latency : Spend(ConfirmInterval + d)
  /\ UNCHANGED <<ep, hash, sent, polls, ledger, lost>>

StatusFailed ==
  /\ pc = "confirm"
  /\ ledger[sent] = "failed"
  /\ Return("rejected")
  /\ \E d \in Latency : Spend(ConfirmInterval + d)
  /\ UNCHANGED <<ep, hash, sent, polls, ledger, lost>>

(* Variant with a mistake: one poll too many.                              *)
StatusUnknownOnceMore ==
  /\ pc = "confirm"
  /\ \E d \in Latency \cup {RpcTimeout} : Spend(ConfirmInterval + d)
  /\ IF polls > 0
       THEN /\ polls' = polls - 1
            /\ UNCHANGED <<ep, pc, outcome>>
       ELSE NextEndpoint
  /\ UNCHANGED <<hash, sent, ledger, lost>>

(* No status: the poll failed or timed out, the transaction is still in    *)
(* flight, or this node lags behind the one that included it.              *)
StatusUnknown ==
  /\ pc = "confirm"
  /\ \E d \in Latency \cup {RpcTimeout} : Spend(ConfirmInterval + d)
  /\ IF polls > 1
       THEN /\ polls' = polls - 1
            /\ UNCHANGED <<ep, pc, outcome>>
       ELSE NextEndpoint
  /\ UNCHANGED <<hash, sent, ledger, lost>>

(* The cluster decides the fate of a transaction it has received.          *)
Settle(h) ==
  /\ ledger[h] = "inflight"
  /\ \E fate \in {"landed", "failed", "expired"} :
       ledger' = [ledger EXCEPT ![h] = fate]
  /\ UNCHANGED <<call, lost>>

Returned == pc = "done" /\ UNCHANGED vars

----------------------------------------------------------------------------

Init ==
  /\ ep = 1
  /\ pc = "blockhash"
  /\ hash = None
  /\ sent = None
  /\ polls = 0
  /\ outcome = None
  /\ ledger = [h \in Blockhash |-> "unknown"]
  /\ lost = {}
  /\ elapsed = 0

Call ==
  \/ GetBlockhash \/ BlockhashFails
  \/ SendAcked \/ SendRefused \/ SendAckLost
  \/ StatusLanded \/ StatusFailed \/ StatusUnknown

Next == Call \/ (\E h \in Blockhash : Settle(h)) \/ Returned

(* Every RPC is wrapped in a timeout and every pause is a timer, so the    *)
(* task always takes its next step.  The cluster owes nothing.             *)
Spec == Init /\ [][Next]_vars
FairSpec == Spec /\ WF_vars(Call)

----------------------------------------------------------------------------
(* Properties.                                                             *)

TypeOK ==
  /\ ep \in 1 .. NumEndpoints + 1
  /\ pc \in {"blockhash", "send", "confirm", "done"}
  /\ hash \in Blockhash \cup {None}
  /\ sent \in Blockhash \cup {None}
  /\ polls \in 0 .. ConfirmPolls
  /\ outcome \in Outcome
  /\ ledger \in [Blockhash -> Fate]
  /\ lost \subseteq Blockhash
  /\ elapsed \in Nat

OnChain == {h \in Blockhash : ledger[h] \in {"landed", "failed"}}

(* What the caller is told is true: a confirmed transaction landed, a      *)
(* rejected one failed on chain, a best-effort one had been acknowledged,  *)
(* and after "All RPCs failed" nothing can be on its way except what a     *)
(* node took without answering.  It gives up only after the last endpoint. *)
OutcomeTruthful ==
  /\ outcome = "confirmed" => sent # None /\ ledger[sent] = "landed"
  /\ outcome = "rejected" => sent # None /\ ledger[sent] = "failed"
  /\ outcome = "besteffort" => sent # None /\ ledger[sent] # "unknown"
  /\ outcome = "failed" => \A h \in Blockhash : ledger[h] # "unknown" => h \in lost
  /\ outcome \in {"besteffort", "failed"} => ep = NumEndpoints + 1

(* rpc_fallback.rs:95-97, an acknowledged transaction is never followed by *)
(* another one: no transaction reaches the cluster for the first time.     *)
NothingSentAfterAck ==
  [][sent # None => \A h \in Blockhash : ledger[h] = "unknown" => ledger'[h] = "unknown"]_vars

(* A call puts two transactions on chain only if a node took one of them   *)
(* without answering: with no lost answer, at most one ever gets there.    *)
OneLandsUnlessAnswerLost == Cardinality(OnChain \ lost) <= 1

(* rpc_fallback.rs:88-92, no DIFFERENT transaction lands alongside another *)
(* one of the same call.                                                   *)
OneLands == Cardinality(OnChain) <= 1

(* The longest a call can take: blockhash and send on the first endpoint   *)
(* and a full confirmation round on every one.                             *)
TimeBound ==
  elapsed <= 2 * RpcTimeout + NumEndpoints * ConfirmPolls * (ConfirmInterval + RpcTimeout)

(* The call returns whatever endpoints and cluster do.                     *)
Returns == <>(pc = "done")

(* Endpoints, polls and time-outs put aside, the call is a submit call as  *)
(* the rest of the program relies on: it sends nothing after an            *)
(* acknowledgement, tells the truth about it, and ends.                    *)
Calls == INSTANCE SubmitCalls WITH
  Task <- {1},
  Tx <- Blockhash,
  acked <- [t \in {1} |-> sent],
  outcome <- [t \in {1} |-> IF outcome = None THEN "running" ELSE outcome],
  ledger <- [t \in {1} |-> ledger],
  lost <- [t \in {1} |-> lost]

CallSafe == Calls!SafeSpec
CallSpec == Calls!Spec
=============================================================================
