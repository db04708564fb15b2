----------------------------- MODULE MCDeployed -----------------------------
(* Dispatcher with the deployed constants, in units of half a second: one  *)
(* pool that requires all three providers, COLLECTION_WINDOW of 5s,        *)
(* WINDOW_POLL_TICK of 500ms, the channel of 64, and prices that the       *)
(* program on chain rejects once they are older than 7s.                   *)
EXTENDS Dispatcher, TLC

CONSTANTS ChaosLabs, Autonom, Switchboard, Mixed, OldestRead

MCProvider == {ChaosLabs, Autonom, Switchboard}
MCPool == {Mixed}
MCRequired == (Mixed :> MCProvider)
MCReadAge == [k \in MCProvider |-> {0, OldestRead}]
MCMaxReadAge == [k \in MCProvider |-> OldestRead]
=============================================================================
