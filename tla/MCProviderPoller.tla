-------------------------- MODULE MCProviderPoller --------------------------
(* Instances of ProviderPoller for TLC.                                    *)
EXTENDS ProviderPoller

Fresh == [ts |-> 0, priceTs |-> 0, prices |-> TRUE, good |-> TRUE]

(* What the writer may insert: a current batch; one whose price rows come  *)
(* later; one with an older price; one half a second ahead of the poller's *)
(* clock; one too far ahead of it; and one that does not decode.           *)
MCNewRow ==
  {Fresh,
   [Fresh EXCEPT !.prices = FALSE],
   [Fresh EXCEPT !.priceTs = -4],
   [Fresh EXCEPT !.ts = 1, !.priceTs = 1],
   [Fresh EXCEPT !.ts = 2],
   [Fresh EXCEPT !.good = FALSE]}

(* Switchboard: a current row, with or without decodable metadata.         *)
MCSwitchboardRow == {Fresh, [Fresh EXCEPT !.good = FALSE]}
=============================================================================
