----------------------------- MODULE MCMrOracle -----------------------------
(* Instances of MrOracle for TLC.                                          *)
EXTENDS MrOracle, TLC

CONSTANTS Main, c1, c2

MCPool == {Main}
MCRequired == Main :> {Autonom, Switchboard}
MCCustodies == Main :> <<c1, c2>>
MCConfiguredCu == Main :> None

(* One sample of one slot, one of three out of order, and an empty one.    *)
MCSample == {<<>>, <<7>>, <<9, 1, 4>>}

Symmetry == Permutations(Tx)

(* The percentile over every sample of up to four small fees.              *)
ASSUME PercentileExact ==
  \A n \in 1 .. 4 : \A fees \in [1 .. n -> {0, 1, 3, 8}] :
    \A bps \in {0, 1, 2500, 3333, 5000, 9999, 10000} :
      Fees!IsPercentile(Fees!PercentileOf(fees, bps), fees, bps)
=============================================================================
