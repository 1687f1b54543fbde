----------------------------- MODULE StealthTx ------------------------------
(***************************************************************************)
(* One-time keys, the transactions that pay to them, and what a wallet can *)
(* see of them.                                                            *)
(*                                                                         *)
(* A wallet is known by its paycode.  A payer derives a one-time key for   *)
(* it from three things: the key pair that signs, an outpoint (the         *)
(* anchor), and an index.  The receiver arrives at the same key from its   *)
(* own secrets and those three, the context.  Derivation is a free         *)
(* constructor here: a key is the record of what it was derived from, so   *)
(* two keys are equal exactly when the derivations are.                    *)
(*                                                                         *)
(* Transactions are numbered by their position on the chain.  The first    *)
(* stands for everything before the run.                                   *)
(***************************************************************************)
EXTENDS Integers, Sequences, FiniteSets

CONSTANTS
  Wallet,    \* profiles, each with its own wallet
  Stranger,  \* whoever else is paid
  Shard,     \* owner of covenant outputs, which reveal no key
  Coins,     \* outputs of the first transaction: owner and value
  Fee,       \* miner fee of a command's transaction
  Dust,      \* config.DUST
  Margin,    \* what deposit asks of its funding beyond amount and dust
  MaxRole,   \* BCH_STEALTH_MAX_ROLE_INDEX
  Bucket     \* the sets of wallets whose prefix a transaction may match

ASSUME TxAssumption ==
  /\ Stranger \notin Wallet /\ Shard \notin Wallet /\ Stranger # Shard
  /\ Fee \in Nat /\ Dust \in Nat \ {0} /\ Margin \in Nat /\ MaxRole \in Nat \ {0}
  /\ Coins \in Seq([owner : Wallet \cup {Stranger, Shard}, value : Nat])
  /\ Bucket \subseteq SUBSET Wallet

-----------------------------------------------------------------------------
(* Keys *)

Outpoint == [txid : Nat \ {0}, vout : Nat]

BaseKey(w) == [of |-> w, path |-> <<>>]

(* deriveRpaLockIntent for the payer, deriveRpaOneTimePrivReceiver for w   *)
ChildKey(w, ctx) == [of |-> w, path |-> <<ctx>>]
Context(sender, anchor, index) == [sender |-> sender, anchor |-> anchor, index |-> index]

IsChild(key) == key.path # <<>>

-----------------------------------------------------------------------------
(* The chain: a sequence of [op, who, ins, outs, near].  ins are the       *)
(* outpoints spent with the key that signs, outs the outputs by vout + 1,  *)
(* near the wallets for whose prefix the server indexes the transaction.   *)

Genesis ==
  [op |-> "genesis", who |-> Stranger, ins |-> <<>>, near |-> {},
   outs |-> [v \in DOMAIN Coins |->
               [key |-> BaseKey(Coins[v].owner), value |-> Coins[v].value]]]

OutpointsOf(chain, k) == {[txid |-> k, vout |-> v - 1] : v \in DOMAIN chain[k].outs}
Made(chain) == UNION {OutpointsOf(chain, k) : k \in DOMAIN chain}
InputsOf(t) == {t.ins[i].from : i \in DOMAIN t.ins}
Spent(chain) == UNION {InputsOf(chain[k]) : k \in DOMAIN chain}
Live(chain) == Made(chain) \ Spent(chain)
OutAt(chain, o) == chain[o.txid].outs[o.vout + 1]
KeyAt(chain, o) == OutAt(chain, o).key
ValueAt(chain, o) == OutAt(chain, o).value
Known(chain, t) == \E k \in DOMAIN chain : chain[k] = t
TxidOf(chain, t) == CHOOSE k \in DOMAIN chain : chain[k] = t

(* The node: inputs exist, are unspent and signed by their own keys        *)
Acceptable(chain, t) ==
  \A i \in DOMAIN t.ins :
    /\ t.ins[i].from \in Live(chain)
    /\ t.ins[i].by = KeyAt(chain, t.ins[i].from)

-----------------------------------------------------------------------------
(* Scanning.  The scanner reads the sender's key off each P2PKH input and  *)
(* tries the indices below MaxRole with that input as the anchor.  A       *)
(* covenant input ends in its proof blob and shows no key.                 *)

(* scanRawTxForRpaOutputs: the contexts it tries *)
TriedContexts(t) ==
  {Context(t.ins[i].by, t.ins[i].from, x) :
     i \in {i \in DOMAIN t.ins : t.ins[i].by.of # Shard}, x \in 0 .. MaxRole - 1}

(* what it finds in transaction k for w *)
Match(at, ctx) == [at |-> at, ctx |-> ctx]
Matches(chain, w, k) ==
  {m \in {Match(o, c) : o \in OutpointsOf(chain, k), c \in TriedContexts(chain[k])} :
     KeyAt(chain, m.at) = ChildKey(w, m.ctx)}

(* An output a scan that looks at its transaction finds *)
Findable(chain, w, o) == \E c \in TriedContexts(chain[o.txid]) : KeyAt(chain, o) = ChildKey(w, c)

(* The candidates of the four ways to scan: the wallet's own prefix among  *)
(* mined transactions, also in the mempool, every prefix, one given txid   *)
Candidates(chain, mined, w, mode) ==
  CASE mode = "own" -> {k \in 1 .. mined : w \in chain[k].near}
    [] mode = "mempool" -> {k \in DOMAIN chain : w \in chain[k].near}
    [] mode = "brute" -> 1 .. mined
    [] mode = "txid" -> DOMAIN chain

-----------------------------------------------------------------------------
(* The wallet's part of the state file: utxos are the stealthUtxos         *)
(* records, head the outpoint of the first of them, next the               *)
(* nextSelfChangeIndex of the restore hints, deposits what deposit staged. *)

NoRecord == [txid |-> 0, vout |-> 0]
EmptyState == [utxos |-> {}, head |-> NoRecord, next |-> 0, deposits |-> {}]

Record(at, owner, w, ctx) ==
  [at |-> at, owner |-> owner, key |-> ChildKey(w, ctx), ctx |-> ctx, spent |-> FALSE]

\* the records come in chain order; it only decides which is the first
Earliest(recs) ==
  CHOOSE r \in recs : \A q \in recs :
    r.at.txid < q.at.txid \/ (r.at.txid = q.at.txid /\ r.at.vout <= q.at.vout)

HeadAfter(s, recs) == IF s.utxos = {} /\ recs # {} THEN Earliest(recs).at ELSE s.head

\* faulty variants: the list is replaced; the owner is part of the key; a
\* known record is replaced, not merged
UpsertAlone(s, recs) == [s EXCEPT !.utxos = recs, !.head = HeadAfter(s, recs)]
UpsertByOwner(s, recs) == [s EXCEPT !.utxos = @ \cup recs, !.head = HeadAfter(s, recs)]
Overwrite(s, recs) ==
  [s EXCEPT !.utxos = {r \in @ : \A n \in recs : n.at # r.at} \cup recs, !.head = HeadAfter(s, recs)]

(* upsertStealthUtxo of each: a known outpoint keeps its spent markers     *)
Upsert(s, recs) ==
  LET merged(n) == [n EXCEPT !.spent = \E r \in s.utxos : r.at = n.at /\ r.spent]
  IN  [s EXCEPT !.utxos = {r \in @ : \A n \in recs : n.at # r.at} \cup {merged(n) : n \in recs},
                !.head = HeadAfter(s, recs)]

\* faulty variant: records compared by txid alone
MarkSpentByTxid(s, os) ==
  [s EXCEPT !.utxos = {[r EXCEPT !.spent = @ \/ \E o \in os : o.txid = r.at.txid] : r \in @}]

(* markStealthSpent *)
MarkSpent(s, os) ==
  [s EXCEPT !.utxos = {[r EXCEPT !.spent = @ \/ r.at \in os] : r \in @}]

(* detectOwnerHintFromPoolState: the owner of the first record             *)
OwnerHint(s) == {r.owner : r \in {r \in s.utxos : r.at = s.head}}

-----------------------------------------------------------------------------
(* Funding: selectFundingUtxo.  Base coins of the wallet's own address,    *)
(* and records of the given owner that are not marked, unspent on chain,   *)
(* and whose context yields the output's key; the largest first.           *)

Coin(at, key, source, value) == [at |-> at, key |-> key, source |-> source, value |-> value]

BaseCoins(chain, w, minSats) ==
  {Coin(o, BaseKey(w), "base", ValueAt(chain, o)) :
     o \in {o \in Live(chain) : KeyAt(chain, o) = BaseKey(w) /\ ValueAt(chain, o) >= minSats}}

StealthCoins(chain, s, w, ownerTag, minSats) ==
  {Coin(r.at, ChildKey(w, r.ctx), "stealth", ValueAt(chain, r.at)) :
     r \in {r \in s.utxos :
              /\ r.owner = ownerTag /\ ~r.spent
              /\ r.at \in Live(chain)
              /\ ValueAt(chain, r.at) >= minSats
              /\ KeyAt(chain, r.at) = r.key
              /\ r.key = ChildKey(w, r.ctx)}}

Largest(coins) == {c \in coins : \A d \in coins : d.value <= c.value}

(* prefer: which source is tried first *)
SelectFunding(chain, s, w, ownerTag, minSats, prefer) ==
  LET base == Largest(BaseCoins(chain, w, minSats))
      stealth == Largest(StealthCoins(chain, s, w, ownerTag, minSats))
  IN  IF prefer = "base" THEN IF base # {} THEN base ELSE stealth
                         ELSE IF stealth # {} THEN stealth ELSE base
=============================================================================
