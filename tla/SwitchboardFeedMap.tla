-------------------------- MODULE SwitchboardFeedMap --------------------------
(***************************************************************************)
(* parse_feed_map (src/src/providers/switchboard.rs): the feed map of the  *)
(* Switchboard poller, from the map embedded in the program or from an     *)
(* operator's file.                                                        *)
(*                                                                         *)
(* A file that is JSON of the right form is a sequence of entries: an      *)
(* adrena feed id, the feed's hash (None if it is not 32 bytes of hex) and *)
(* whether it is marked as a dummy.  The wrapped and the bare form of the  *)
(* file differ in nothing else.                                            *)
(***************************************************************************)
EXTENDS Integers, Sequences, Lists

CONSTANTS
  FirstId, LastId,   \* SWITCHBOARD_RANGE
  NoHash             \* a hash that does not decode

InRange(e) == FirstId <= e.id /\ e.id <= LastId

(* Variant with a mistake: ids are not compared with those before.         *)
RejectedUnseen(file, i, skipDummy) ==
  \/ ~InRange(file[i])
  \/ file[i].dummy /\ ~skipDummy
  \/ ~file[i].dummy /\ file[i].hash = NoHash

(* The i-th entry ends the parse with an error.  A dummy that is skipped   *)
(* needs an id in range, but neither a hash nor an id of its own.          *)
Rejected(file, i, skipDummy) ==
  \/ ~InRange(file[i])
  \/ file[i].dummy /\ ~skipDummy
  \/ /\ ~file[i].dummy
     /\ \/ file[i].hash = NoHash
        \/ \E j \in 1 .. i - 1 : ~file[j].dummy /\ file[j].id = file[i].id

Active(file) == Without(file, {e \in Entries(file) : e.dummy})

Parses(file, skipDummy) ==
  /\ \A i \in DOMAIN file : ~Rejected(file, i, skipDummy)
  /\ Active(file) # <<>>
=============================================================================
