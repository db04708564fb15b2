---------------------------- MODULE MCDispatcher ----------------------------
(* Instances of Dispatcher for TLC.                                        *)
EXTENDS Dispatcher, TLC

CONSTANTS ChaosLabs, Autonom, Main, Mixed

(* One pool that needs a single provider, one that needs both.             *)
MCProvider == {ChaosLabs, Autonom}
MCPool == {Main, Mixed}
MCRequired == (Main :> {ChaosLabs}) @@ (Mixed :> MCProvider)
MCReadAge == (ChaosLabs :> {0}) @@ (Autonom :> {-1, 1})
MCMaxReadAge == (ChaosLabs :> 0) @@ (Autonom :> 1)
=============================================================================
