----------------------------- MODULE SubmitCalls -----------------------------
(***************************************************************************)
(* What the sign_and_send calls of one process promise, with no endpoint,  *)
(* no poll and no clock.  A call may hand transactions to nodes without    *)
(* hearing of it, until one is acknowledged; from then on it sends no      *)
(* more.  In the end it tells its caller what became of the acknowledged   *)
(* transaction, as far as it knows, or that there is none.  The cluster    *)
(* decides on every transaction a node took, whatever the call does, and   *)
(* the process may die under all its calls at once.                        *)
(***************************************************************************)
CONSTANTS
  Task,   \* the calls
  Tx,     \* the transactions a call may sign, one per blockhash
  None    \* Option::None

VARIABLES
  acked,    \* acked[t]: the transaction of t a node acknowledged
  outcome,  \* outcome[t]: idle, running, what t returned, or killed
  ledger,   \* ledger[t][h]: the fate of transaction h of t
  lost      \* lost[t]: transactions a node took without an answer

calls == <<acked, outcome, ledger, lost>>

Outcome == {"idle", "running", "confirmed", "rejected", "besteffort", "failed", "killed"}
Fate == {"unknown", "inflight", "landed", "failed", "expired"}

Init ==
  /\ acked = [t \in Task |-> None]
  /\ outcome \in [Task -> {"idle", "running"}]
  /\ ledger = [t \in Task |-> [h \in Tx |-> "unknown"]]
  /\ lost = [t \in Task |-> {}]

Start(t) ==
  /\ outcome[t] = "idle"
  /\ outcome' = [outcome EXCEPT ![t] = "running"]
  /\ UNCHANGED <<acked, ledger, lost>>

Reaches(t, h) == ledger' = [ledger EXCEPT ![t][h] = IF @ = "unknown" THEN "inflight" ELSE @]

(* A node takes h but its answer is lost; the call goes on, or gives up if *)
(* that was the last node to ask.                                          *)
Take(t, h) ==
  /\ outcome[t] = "running"
  /\ acked[t] = None
  /\ Reaches(t, h)
  /\ lost' = [lost EXCEPT ![t] = @ \cup {h}]
  /\ outcome' \in {outcome, [outcome EXCEPT ![t] = "failed"]}
  /\ UNCHANGED acked

(* Variant with a mistake: a call sends again after an acknowledgement.    *)
AckAgain(t, h) ==
  /\ outcome[t] = "running"
  /\ acked' = [acked EXCEPT ![t] = h]
  /\ Reaches(t, h)
  /\ UNCHANGED <<outcome, lost>>

Ack(t, h) ==
  /\ outcome[t] = "running"
  /\ acked[t] = None
  /\ acked' = [acked EXCEPT ![t] = h]
  /\ Reaches(t, h)
  /\ UNCHANGED <<outcome, lost>>

Settle(t, h, fate) ==
  /\ ledger[t][h] = "inflight"
  /\ ledger' = [ledger EXCEPT ![t][h] = fate]
  /\ UNCHANGED <<acked, outcome, lost>>

(* Variant with a mistake: an acknowledgement is taken for a confirmation. *)
DeservedEarly(t) ==
  IF acked[t] = None THEN {"failed"}
  ELSE {"besteffort", "confirmed"}
       \cup (IF ledger[t][acked[t]] = "failed" THEN {"rejected"} ELSE {})

(* What t may tell its caller.                                             *)
Deserved(t) ==
  IF acked[t] = None THEN {"failed"}
  ELSE {"besteffort"}
       \cup (IF ledger[t][acked[t]] = "landed" THEN {"confirmed"} ELSE {})
       \cup (IF ledger[t][acked[t]] = "failed" THEN {"rejected"} ELSE {})

Return(t) ==
  /\ outcome[t] = "running"
  /\ \E o \in Deserved(t) : outcome' = [outcome EXCEPT ![t] = o]
  /\ UNCHANGED <<acked, ledger, lost>>

(* The process dies, and every call with it; its transactions live on.     *)
Die ==
  /\ outcome' = [t \in Task |-> IF outcome[t] = "running" THEN "killed" ELSE outcome[t]]
  /\ UNCHANGED <<acked, ledger, lost>>

Next ==
  \/ \E t \in Task : Start(t) \/ Return(t)
  \/ \E t \in Task, h \in Tx : Take(t, h) \/ Ack(t, h)
  \/ \E t \in Task, h \in Tx : \E fate \in {"landed", "failed", "expired"} : Settle(t, h, fate)
  \/ Die

Ends(t) == outcome[t] = "running" ~> outcome[t] # "running"

SafeSpec == Init /\ [][Next]_calls
Spec == SafeSpec /\ \A t \in Task : Ends(t)
=============================================================================
