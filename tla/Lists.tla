-------------------------------- MODULE Lists --------------------------------
(***************************************************************************)
(* What the code does with the lists it reads: it collects those entries   *)
(* that are not to be ignored, and it sorts.                               *)
(***************************************************************************)
EXTENDS Integers, Sequences

Entries(s) == {s[i] : i \in DOMAIN s}

IsList(s) == s \in Seq(Entries(s))

(* One push at a time: the entries of s that are not in S, in their order. *)
Without(s, S) ==
  LET kept[i \in 0 .. Len(s)] ==
        IF i = 0 THEN <<>>
        ELSE IF s[i] \in S THEN kept[i - 1] ELSE Append(kept[i - 1], s[i])
  IN kept[Len(s)]

(* A list of numbers in ascending order.  Which of two equal ones comes    *)
(* first is left to the sort, which is not a stable one.                   *)
Sorted(s) ==
  LET order == CHOOSE p \in [DOMAIN s -> DOMAIN s] :
                 \A i, j \in DOMAIN s : i < j => p[i] # p[j] /\ s[p[i]] <= s[p[j]]
  IN [i \in DOMAIN s |-> s[order[i]]]
=============================================================================
