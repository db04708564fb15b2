---------------------------- MODULE UpdatePoolAum ----------------------------
(***************************************************************************)
(* From a snapshot to the instructions of its transaction:                 *)
(* fire_update_pool_aum (src/src/handlers/update_pool_aum.rs) and          *)
(* build_update_pool_aum_ix (src/src/adrena_ix.rs), and what the on-chain  *)
(* program finds when it reads them back.                                  *)
(*                                                                         *)
(* A snapshot maps each provider to the update taken, or None.  An         *)
(* instruction is the program it calls and the accounts and parameters the *)
(* reader looks at; serialisation and program addresses are left out.  The *)
(* update of Switchboard stands for the three pieces it carries, the       *)
(* ed25519 and quote store instructions and the quote account.             *)
(***************************************************************************)
EXTENDS Naturals, Sequences

CONSTANTS
  ChaosLabs, Autonom, Switchboard,   \* ProviderKind
  None                               \* Option::None

Kind == {ChaosLabs, Autonom, Switchboard}

IsEmpty(s) == \A k \in Kind : s[k] = None

DEFAULT_CU_LIMIT == 270000
DEFAULT_CU_LIMIT_WITH_SWITCHBOARD == 1500000

(* A configured limit is taken as it is.                                   *)
CuLimit(configured, required) ==
  IF configured # None THEN configured
  ELSE IF Switchboard \in required THEN DEFAULT_CU_LIMIT_WITH_SWITCHBOARD
  ELSE DEFAULT_CU_LIMIT

----------------------------------------------------------------------------
(* Building.                                                               *)

Tagged(k, s) == IF s[k] = None THEN <<>> ELSE <<[provider |-> k, batch |-> s[k]]>>

(* Variant with a mistake: both batches get the first one's tag.           *)
BatchesMistagged(s) ==
  LET tag(x) == [provider |-> ChaosLabs, batch |-> x.batch]
      all == Tagged(ChaosLabs, s) \o Tagged(Autonom, s)
  IN [i \in DOMAIN all |-> tag(all[i])]

(* Switchboard never travels among the signed batches.                     *)
Batches(s) == Tagged(ChaosLabs, s) \o Tagged(Autonom, s)

Quote(s) == IF s[Switchboard] = None THEN <<>> ELSE <<[quote |-> s[Switchboard]]>>

Fixed(pool) == <<"payer", "cortex", pool.name, "oracle", "lp_token_mint">>

(* No batch at all is the parameter None.                                  *)
UpdateIx(pool, s) ==
  [program |-> "update_pool_aum",
   accounts |-> Fixed(pool) \o Quote(s) \o pool.custodies,
   multi |-> Batches(s),
   quoted |-> s[Switchboard] # None]

Price(fee) == [program |-> "set_compute_unit_price", value |-> fee]
Limit(pool) == [program |-> "set_compute_unit_limit", value |-> pool.cuLimit]
Ed25519(s) == [program |-> "ed25519", update |-> s[Switchboard]]
QuoteStore(s) == [program |-> "quote_store", update |-> s[Switchboard]]

(* Variant with a mistake: the precompile goes after the instruction that  *)
(* stores what it verified.                                                *)
InstructionsSwapped(pool, s, fee) ==
  <<Price(fee), Limit(pool)>>
    \o (IF s[Switchboard] = None THEN <<>> ELSE <<QuoteStore(s), Ed25519(s)>>)
    \o <<UpdateIx(pool, s)>>

Instructions(pool, s, fee) ==
  <<Price(fee), Limit(pool)>>
    \o (IF s[Switchboard] = None THEN <<>> ELSE <<Ed25519(s), QuoteStore(s)>>)
    \o <<UpdateIx(pool, s)>>

(* The indices, from 0, that a sidecar may state which made its            *)
(* instructions for position `at`: the field is optional, and a sidecar    *)
(* that fills it in tells the truth.                                       *)
Stated(at) == {at, None}

(* The poller drops an update that states another index than 2, and only   *)
(* warns of one that states none.                                          *)
AcceptedIdx(idx) == idx = 2 \/ idx = None

----------------------------------------------------------------------------
(* Reading: the program of the last instruction takes the quote from the   *)
(* first remaining account, if it is told of one, and the custodies from   *)
(* the rest; the precompile must sit where the sidecar said.               *)

Update(ixs) == ixs[Len(ixs)]

Remaining(ixs) == SubSeq(Update(ixs).accounts, 6, Len(Update(ixs).accounts))

(* BOUND: no transaction has more than five instructions.                  *)
Position == 0 .. 4

ReadCustodies(ixs) ==
  IF Update(ixs).quoted THEN Tail(Remaining(ixs)) ELSE Remaining(ixs)

ReadBatch(ixs, k) ==
  LET multi == Update(ixs).multi IN
    IF \A i \in DOMAIN multi : multi[i].provider # k THEN None
    ELSE multi[CHOOSE i \in DOMAIN multi : multi[i].provider = k].batch

(* The quote counts if the instruction at idx verifies it and a later one, *)
(* ahead of the update, stores it.                                         *)
Verified(ixs, idx, update) ==
  /\ idx + 1 < Len(ixs)
  /\ ixs[idx + 1] = [program |-> "ed25519", update |-> update]
  /\ \E i \in idx + 2 .. Len(ixs) - 1 : ixs[i] = [program |-> "quote_store", update |-> update]

ReadQuote(ixs, idx) ==
  IF ~Update(ixs).quoted THEN None
  ELSE LET update == Head(Remaining(ixs)).quote IN
         IF Verified(ixs, idx, update) THEN update ELSE None

Reads(ixs, idx) ==
  [k \in Kind |-> IF k = Switchboard THEN ReadQuote(ixs, idx) ELSE ReadBatch(ixs, k)]
=============================================================================
