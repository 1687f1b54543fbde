------------------------------ MODULE PoolTx -------------------------------
(***************************************************************************)
(* The transactions of a sharded pool and the node's view of them.         *)
(*                                                                         *)
(* A pool is a set of covenant outputs, its shards.  Each carries a        *)
(* CashToken of the pool's category whose commitment is a hash folded once *)
(* per import or withdrawal.  The builders of packages/pool-shards are     *)
(* pure functions from a shard pointer and prevouts to a transaction; they *)
(* are operators here, and the chain is the sequence of the transactions   *)
(* the node has accepted, so that a transaction's id is its position.      *)
(*                                                                         *)
(* Hashes are free constructors: a commitment is the record of everything  *)
(* that was hashed into it.  Amounts are satoshis.                         *)
(***************************************************************************)
EXTENDS Integers, Sequences, FiniteSets

CONSTANTS
  NShards,      \* shard count given to init
  Note,         \* deposit outpoints
  NoteValue,    \* their value in satoshis
  NoteByte,     \* first byte of outpointHash32 of each note
  Funding,      \* vout=0 UTXOs of the operator's wallet
  Payee,        \* withdrawal receivers
  Amount,       \* withdrawal amounts
  ShardValue,   \* config.SHARD_VALUE: what init puts into each shard
  Fee,          \* config.DEFAULT_FEE
  Dust,         \* DUST_SATS
  ShardDust,    \* the shard output's own dust threshold
  CovenantMode  \* the category byte order under which the covenant re-folds

Shard == 0 .. NShards - 1
Mode == {"direct", "reverse"}

ASSUME SizesAssumption ==
  /\ NShards \in Nat \ {0}
  /\ ShardValue \in Nat /\ Fee \in Nat /\ Dust \in Nat /\ ShardDust \in Nat
  /\ NoteValue \in [Note -> Nat] /\ NoteByte \in [Note -> 0 .. 255]
  /\ CovenantMode \in Mode
  /\ Amount \subseteq Nat

ASSUME InitShardsAreAboveDust == ShardValue >= ShardDust /\ ShardDust >= Dust

-----------------------------------------------------------------------------
(* Data.  A cell is a shard output: token category, value, commitment.     *)

FoldItem == [what : Note \cup Payee, sats : Amount \cup {0}, mode : Mode]
Commitment == [cat : Funding, shard : Shard, folds : Seq(FoldItem)]
Cell == [cat : Funding, value : Nat, commit : Commitment]
Outpoint == [txid : Nat \ {0}, vout : Nat]
Pointer == [txid : Nat \ {0}, vout : Nat, value : Nat, commit : Commitment]
Payment == [to : Payee, sats : Amount]

(* fund and notes are the wallet and deposit UTXOs spent, ins the shard    *)
(* outputs spent, pays the withdrawal output, outs the shard outputs by    *)
(* vout: init puts its change at vout 0 and the shards after it, import    *)
(* and withdraw put the shard at vout 0.                                   *)
Tx == [fund : SUBSET Funding, notes : SUBSET Note, ins : SUBSET Outpoint,
       pays : SUBSET Payment, outs : [1 .. NShards -> Cell] \cup [{0} -> Cell]]

\* faulty variant: the index left out of the hash
GenesisWithoutIndex(cat, i) == [cat |-> cat, shard |-> 0, folds |-> <<>>]

(* initialShardCommitment32 and computePoolStateOut *)
GenesisCommitment(cat, i) == [cat |-> cat, shard |-> i, folds |-> <<>>]
StateOut(stateIn, item) == [stateIn EXCEPT !.folds = Append(@, item)]

(* normalizeCategoryMode: every spelling of "as is" is the same byte order *)
NormalizeCategoryMode(mode) == IF mode = "reverse" THEN "reverse" ELSE "direct"

\* faulty variant: the two spellings of "as is" and not the other order
OneByteOrder(forced) == IF forced = "" THEN <<"none", "raw">> ELSE <<forced>>

(* The modes an import tries in turn; the default is DEFAULT_CATEGORY_MODE *)
ModeCandidates(forced) ==
  IF forced = "" THEN <<"none", "reverse", "raw">> ELSE <<forced>>
WithdrawMode(forced) == IF forced = "" THEN "none" ELSE forced

(* outpointHash32(deposit)[0] % shardCount *)
HomeShard(n) == NoteByte[n] % NShards

-----------------------------------------------------------------------------
(* Builders.  s is a pointer of the local state, prev the cell the chain   *)
(* shows at that pointer, cat the local category.                          *)

(* initShardsTx: the funding UTXO's txid becomes the pool's category *)
InitShardsTx(f) ==
  [fund |-> {f}, notes |-> {}, ins |-> {}, pays |-> {},
   outs |-> [v \in 1 .. NShards |->
               [cat |-> f, value |-> ShardValue, commit |-> GenesisCommitment(f, v - 1)]]]

NoteFold(n, mode) == [what |-> n, sats |-> 0, mode |-> NormalizeCategoryMode(mode)]
Nullifier(pay, mode) == [what |-> pay.to, sats |-> pay.sats, mode |-> NormalizeCategoryMode(mode)]

ImportBuilds(prev, n) == prev.value + NoteValue[n] - Fee >= Dust

\* faulty variant: the fee is taken from nowhere
ImportTxWithoutFee(cat, s, prev, n, mode) ==
  [fund |-> {}, notes |-> {n}, ins |-> {[txid |-> s.txid, vout |-> s.vout]}, pays |-> {},
   outs |-> [v \in {0} |->
               [cat |-> cat, value |-> prev.value + NoteValue[n],
                commit |-> StateOut(s.commit, NoteFold(n, mode))]]]

ImportTx(cat, s, prev, n, mode) ==
  [fund |-> {}, notes |-> {n}, ins |-> {[txid |-> s.txid, vout |-> s.vout]}, pays |-> {},
   outs |-> [v \in {0} |->
               [cat |-> cat, value |-> prev.value + NoteValue[n] - Fee,
                commit |-> StateOut(s.commit, NoteFold(n, mode))]]]

FeeFromShard(fund) == IF fund = {} THEN Fee ELSE 0

WithdrawBuilds(prev, pay, fund) ==
  /\ pay.sats >= Dust
  /\ prev.value - pay.sats - FeeFromShard(fund) >= ShardDust

\* faulty variant: the shard keeps its fee although nothing else pays it
WithdrawTxWithoutFee(cat, s, prev, pay, fund, mode) ==
  [fund |-> fund, notes |-> {}, ins |-> {[txid |-> s.txid, vout |-> s.vout]}, pays |-> {pay},
   outs |-> [v \in {0} |->
               [cat |-> cat, value |-> prev.value - pay.sats,
                commit |-> StateOut(prev.commit, Nullifier(pay, mode))]]]

WithdrawTx(cat, s, prev, pay, fund, mode) ==
  [fund |-> fund, notes |-> {}, ins |-> {[txid |-> s.txid, vout |-> s.vout]}, pays |-> {pay},
   outs |-> [v \in {0} |->
               [cat |-> cat, value |-> prev.value - pay.sats - FeeFromShard(fund),
                commit |-> StateOut(prev.commit, Nullifier(pay, mode))]]]

(* pickShardIndexForWithdrawSingleShard: the smallest sufficient shard,    *)
(* the lowest index among equals, judged by the local values.              *)
Sufficient(shards, need) == {i \in Shard : shards[i].value >= need}
Picks(shards, need, i) ==
  /\ i \in Sufficient(shards, need)
  /\ \A j \in Sufficient(shards, need) :
        \/ shards[i].value < shards[j].value
        \/ shards[i].value = shards[j].value /\ i <= j

-----------------------------------------------------------------------------
(* The chain: the node's answers are functions of it.                      *)

OutpointsOf(chain, k) == {[txid |-> k, vout |-> v] : v \in DOMAIN chain[k].outs}
Made(chain) == UNION {OutpointsOf(chain, k) : k \in DOMAIN chain}
Spent(chain) == UNION {chain[k].ins : k \in DOMAIN chain}
Live(chain) == Made(chain) \ Spent(chain)
CellAt(chain, o) == chain[o.txid].outs[o.vout]

FundingSpent(chain) == UNION {chain[k].fund : k \in DOMAIN chain}
NotesSpent(chain) == UNION {chain[k].notes : k \in DOMAIN chain}
Imports(chain) == {k \in DOMAIN chain : chain[k].notes # {}}
Withdraws(chain) == {k \in DOMAIN chain : chain[k].pays # {}}

(* Signatures are deterministic, so a transaction rebuilt from the same    *)
(* pointer and prevouts is the same transaction.                           *)
Known(chain, t) == \E k \in DOMAIN chain : chain[k] = t
TxidOf(chain, t) == CHOOSE k \in DOMAIN chain : chain[k] = t

(* The inputs exist and are unspent *)
InputsLive(chain, t) ==
  /\ t.ins \subseteq Live(chain)
  /\ t.fund \cap FundingSpent(chain) = {}

(* The covenant re-folds the input's commitment with the unlocking data    *)
(* under its own byte order and requires output 0 to carry the input's     *)
(* category and the folded commitment.                                     *)
FoldOf(t) == t.outs[0].commit.folds[Len(t.outs[0].commit.folds)]
CovenantAccepts(chain, t) ==
  \A o \in t.ins :
    /\ t.outs[0].cat = CellAt(chain, o).cat
    /\ t.outs[0].commit =
         StateOut(CellAt(chain, o).commit, [FoldOf(t) EXCEPT !.mode = CovenantMode])

(* The relay policy: no output below its dust threshold *)
Relayable(t) == \A v \in DOMAIN t.outs : t.outs[v].value >= ShardDust
=============================================================================
