------------------------------ MODULE PoolFeed ------------------------------
(***************************************************************************)
(* What the dispatch loop promises to every pool, with no channel, no      *)
(* collection window and no clock: each provider publishes a numbered      *)
(* stream of updates, and a pool is handed snapshots of the streams it     *)
(* requires.  A snapshot is never empty, never holds an update twice,      *)
(* never goes back in a stream and never invents an update; it may skip    *)
(* updates that a newer one of the same provider has replaced.  As long as *)
(* the feed is open, a pool that lags behind a stream catches up.          *)
(***************************************************************************)
EXTENDS Naturals

CONSTANTS
  Provider,   \* the providers that publish
  Pool,       \* the pools that are served
  Required    \* Required[p]: the providers pool p listens to

VARIABLES
  sent,       \* sent[k]: number of updates provider k has published
  fired,      \* fired[p][k]: number of the newest update of k handed to p
  open        \* whether the feed still serves

feed == <<sent, fired, open>>

Init ==
  /\ sent = [k \in Provider |-> 0]
  /\ fired = [p \in Pool |-> [k \in Provider |-> 0]]
  /\ open = TRUE

Publish(k) ==
  /\ sent' = [sent EXCEPT ![k] = @ + 1]
  /\ UNCHANGED <<fired, open>>

(* A snapshot for p: every stream in S moves to a newer update that has    *)
(* been published, everything else stays where it is.                      *)
Deliver(p, S) ==
  /\ open
  /\ S # {}
  /\ S \subseteq Required[p]
  /\ \E new \in [S -> UNION {1 .. sent[k] : k \in S}] :
       /\ \A k \in S : fired[p][k] < new[k] /\ new[k] <= sent[k]
       /\ fired' = [fired EXCEPT ![p] =
                      [k \in Provider |-> IF k \in S THEN new[k] ELSE @[k]]]
  /\ UNCHANGED <<sent, open>>

DeliverOf(p, k) == \E S \in SUBSET Required[p] : k \in S /\ Deliver(p, S)

Close ==
  /\ open
  /\ open' = FALSE
  /\ UNCHANGED <<sent, fired>>

Next ==
  \/ \E k \in Provider : Publish(k)
  \/ \E p \in Pool, S \in SUBSET Provider : Deliver(p, S)
  \/ Close

Fairness == \A p \in Pool : \A k \in Required[p] : WF_feed(DeliverOf(p, k))

SafeSpec == Init /\ [][Next]_feed
Spec == SafeSpec /\ Fairness
=============================================================================
