----------------------------- MODULE PriorityFee -----------------------------
(***************************************************************************)
(* The priority fee: the refresher task of main (src/src/client.rs), the   *)
(* request it sends through the endpoints (send_rpc_request,               *)
(* src/src/rpc_fallback.rs) and the percentile it takes of the answer      *)
(* (src/src/priority_fees.rs).                                             *)
(*                                                                         *)
(* A sample is what one getRecentPrioritizationFees returns: the fees in   *)
(* the order of their slots.  The percentile is computed exactly.  The     *)
(* code uses f64: at 2500 basis points the rank is a multiple of 1/4, and  *)
(* as long as the fees stay below 2^51 every number on the way is one that *)
(* f64 represents.                                                         *)
(***************************************************************************)
EXTENDS Integers, Sequences, FiniteSets, Lists

CONSTANTS
  Percentile,     \* MEAN_PRIORITY_FEE_PERCENTILE, in basis points
  Sample,         \* the answers an endpoint may give
  NumEndpoints,   \* primary, backup if configured, public
  None            \* no answer

VARIABLES
  fee,      \* median_priority_fee
  known     \* history: the last answer that was not empty, if any

feeVars == <<fee, known>>

----------------------------------------------------------------------------
(* The percentile.                                                         *)

Whole == 10000   \* 100%, in basis points

Smaller(a, b) == IF a < b THEN a ELSE b

(* rank in units of 1/10000: lo is its floor, from 0, and frac the rest;   *)
(* f64::round rounds halves up.                                            *)
PercentileOf(fees, bps) ==
  LET sorted == Sorted(fees)
      n == Len(fees)
      rank == (n - 1) * bps
      lo == rank \div Whole
      hi == Smaller(lo + 1, n - 1)
      frac == rank % Whole
      scaled == sorted[lo + 1] * (Whole - frac) + sorted[hi + 1] * frac
  IN (scaled + Whole \div 2) \div Whole

----------------------------------------------------------------------------
(* The refresher.                                                          *)

Endpoint == 1 .. NumEndpoints

(* send_rpc_request: the endpoints are asked in order, the first that does *)
(* not fail or time out (None) is taken at its word; nothing if all fail.  *)
FirstAnswer(answers) ==
  {answers[i] : i \in {j \in Endpoint : /\ answers[j] # None
                                       /\ \A before \in 1 .. j - 1 : answers[before] = None}}

(* Variant with a mistake: a fetch that fails resets the fee.              *)
RefreshForgetting ==
  \E answer \in {FirstAnswer(answers) : answers \in [Endpoint -> Sample \cup {None}]} :
    IF answer \subseteq {<<>>}
      THEN fee' = 0 /\ UNCHANGED known
      ELSE \E fees \in answer :
             fee' = PercentileOf(fees, Percentile) /\ known' = fees

(* A tick of the refresher.  The fetch touches nothing shared before its   *)
(* end, so it is one step; it fails if no endpoint answers or the answer   *)
(* holds no fees, and the fee then stays as it is.                         *)
Refresh ==
  \E answer \in {FirstAnswer(answers) : answers \in [Endpoint -> Sample \cup {None}]} :
    IF answer \subseteq {<<>>}
      THEN UNCHANGED feeVars
      ELSE \E fees \in answer :
             fee' = PercentileOf(fees, Percentile) /\ known' = fees

Init ==
  /\ fee = 0
  /\ known = <<>>

Next == Refresh

----------------------------------------------------------------------------

(* v may stand at place i, from 0, of the sorted sample.                   *)
StandsAt(v, i, fees) ==
  /\ Cardinality({j \in DOMAIN fees : fees[j] < v}) <= i
  /\ i < Cardinality({j \in DOMAIN fees : fees[j] <= v})

(* priority_fees.rs:84-93, what a fee must be: it lies as far between two  *)
(* neighbours of the sorted sample as the percentile's rank does, to half  *)
(* a unit.  The neighbours are found by counting.                          *)
IsPercentile(value, fees, bps) ==
  LET n == Len(fees)
      gap(i) == (n - 1) * bps - Whole * i
  IN \E i \in 0 .. n - 1 : \E j, k \in DOMAIN fees :
       /\ 0 <= gap(i) /\ gap(i) < Whole
       /\ StandsAt(fees[j], i, fees)
       /\ StandsAt(fees[k], IF i < n - 1 THEN i + 1 ELSE i, fees)
       /\ LET twice == 2 * (Whole * (value - fees[j]) - gap(i) * (fees[k] - fees[j]))
          IN -Whole <= twice /\ twice <= Whole
=============================================================================
