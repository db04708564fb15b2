----------------------------- MODULE MCStartup ------------------------------
(* Instances of Startup for TLC.                                           *)
EXTENDS Startup

CONSTANTS ChaosLabs, Autonom, Unknown, c1, c2, s1, hashA, hashB

MCProvider == {ChaosLabs, Autonom, Switchboard}

(* A pool with two custodies, one with a custody and a synthetic one.      *)
Regular(name, providers) ==
  [name |-> name, providers |-> providers, custodies |-> <<c1, c2>>, synthetics |-> <<>>]
Synthetic(name, providers) ==
  [name |-> name, providers |-> providers, custodies |-> <<c1>>, synthetics |-> <<s1>>]

MCConfigs ==
  {<<>>,
   <<Regular("main", {})>>,
   <<Regular("main", {ChaosLabs, Unknown})>>,
   <<Regular("main", {ChaosLabs}), Synthetic("auto", {ChaosLabs, Autonom, Switchboard})>>,
   <<Synthetic("auto", {Autonom}), Synthetic("other", {Switchboard})>>}

(* Two pools of the config carry the same name, a third has its own.       *)
MCSameName ==
  {<<Regular("main", {ChaosLabs}), Synthetic("main", {Autonom}),
     Regular("third", {ChaosLabs})>>}

Account(count, slots, syntheticCount, syntheticSlots) ==
  [readable |-> TRUE, count |-> count, slots |-> slots,
   syntheticCount |-> syntheticCount, syntheticSlots |-> syntheticSlots]

(* The accounts that match the pools above; one whose count exceeds its    *)
(* array; one with a custody in another order; one with a custody that was *)
(* removed but is still in its slot; one with an unused slot in front; one  *)
(* too short to read.                                                      *)
MCAccounts ==
  {Account(2, <<c1, c2>>, 0, <<Default>>),
   Account(1, <<c1, Default>>, 1, <<s1>>),
   Account(3, <<c1, c2>>, 1, <<s1>>),
   Account(2, <<c2, c1>>, 0, <<Default>>),
   Account(1, <<c1, c2>>, 1, <<s1>>),
   Account(2, <<Default, c1>>, 1, <<s1>>),
   [readable |-> FALSE]}

Feed(id, hash) == [id |-> id, hash |-> hash, dummy |-> FALSE]
Dummy(id) == [id |-> id, hash |-> NoHash, dummy |-> TRUE]

(* The default command line, with an embedded map of two feeds and a dummy *)
(* between them that shares an id.                                         *)
Embedded ==
  [dbOk |-> TRUE, queueOk |-> TRUE, clusterOk |-> TRUE, override |-> FALSE, readable |-> TRUE,
   file |-> <<Feed(3, hashA), Dummy(3), Feed(2, hashB)>>]
Override(file) == [Embedded EXCEPT !.override = TRUE, !.clusterOk = FALSE, !.file = file]

(* The operator's file: good; with a dummy; with a feed twice, with one    *)
(* outside the range, with a hash that does not decode; empty; not there.  *)
(* The embedded map: of dummies only, for an unknown cluster.  A bad queue *)
(* key, a bad database string.                                             *)
MCArgs ==
  {Embedded,
   Override(<<Feed(3, hashA)>>),
   Override(<<Feed(3, hashA), Dummy(2)>>),
   Override(<<Feed(2, hashA), Feed(3, hashB), Feed(2, hashB)>>),
   Override(<<Feed(2, hashA), Feed(4, hashB)>>),
   Override(<<Feed(2, NoHash)>>),
   Override(<<>>),
   [Override(<<>>) EXCEPT !.readable = FALSE],
   [Embedded EXCEPT !.file = <<Dummy(2)>>],
   [Embedded EXCEPT !.clusterOk = FALSE],
   [Embedded EXCEPT !.queueOk = FALSE],
   [Embedded EXCEPT !.dbOk = FALSE]}

MCDefaultArgs == {Embedded}
=============================================================================
