---------------------------- MODULE ShardSpend -----------------------------
(***************************************************************************)
(* A pool at the level of bytes: init, import and withdraw build and sign  *)
(* raw transactions, the node parses them and runs the covenant, and the   *)
(* next command reads the shard it spends out of the raw transaction that  *)
(* made it.                                                                *)
(*                                                                         *)
(* This is where the packages meet: the builders of pool-shards, the       *)
(* unlocking data of pool-hash-fold, the encodings of utils, the           *)
(* serialisation and the signatures of tx-builder, the parser of electrum  *)
(* and the CashAssembly of the covenant each hold a part of the format,    *)
(* and nothing but an accepted transaction shows that they agree.          *)
(***************************************************************************)
EXTENDS Covenant, CashAddr

CONSTANTS
  NShards,       \* shards of the pool
  CodeWidth,     \* possible lengths of the covenant's bytecode
  Meant,         \* the address a user means to pay
  Typed,         \* what that user may type for it
  Network,       \* the network of the configuration, as its address prefix
  OtherNetwork,  \* the networks of other addresses
  Limbs,         \* sequences of limbs folded by a caller of pool-hash-fold
  FeeCoinValue,  \* values of the coins that may pay a withdrawal's fee
  ShardValue, DepositValue, Payment, Fee,
  MaxTx          \* bound on the transactions on the chain

DUST == 546
TOKEN_PREFIX == 67   \* bytes a shard's token puts before its lock
TWO_WORDS == 66      \* bytes that push the note hash and the proof

ASSUME ByteAssumption ==
  /\ NShards \in Nat \ {0} /\ NShards + 1 \in Number
  /\ \A width \in CodeWidth : width \in Nat \ {0} /\ width + TOKEN_PREFIX \in Number
ASSUME LimbAssumption ==
  \A limbs \in Limbs : /\ limbs \in Seq(Range(limbs)) /\ Len(limbs) + 1 \in Number
                       /\ \A i \in DOMAIN limbs : ByteString(limbs[i]) /\ Length(limbs[i]) \in Number
                       /\ Length(Concat(Push, limbs)) + TWO_WORDS \in Number
ASSUME AmountAssumption ==
  /\ {ShardValue, DepositValue, Payment, Fee} \subseteq Nat /\ MaxTx \in Nat \ {0}
  /\ FeeCoinValue \subseteq Number
  /\ NShards * ShardValue + Fee + DUST \in Number /\ ShardValue + MaxTx * DepositValue \in Number

VARIABLES
  code,     \* the length of this pool's covenant
  pool,     \* the pool state: category and pointers to the shards
  chain,    \* the raw transactions the node accepted
  built,    \* the transaction a command has built
  machine,  \* the covenant's machine in the node
  stage     \* where that transaction is

vars == <<code, pool, chain, built, machine, stage>>

Shard == 0 .. NShards - 1
Mode == {"direct", "reverse"}
NoPool == [category |-> <<>>, shards |-> <<>>]
NothingBuilt == [raw |-> <<>>]
PoolId == << <<"hash160", "pool id">> >>

-----------------------------------------------------------------------------
(* What the commands spend *)

TxidOf(k) == << <<"txid", k>> >>
Prevout(pointer) == GetPrevoutScriptAndValue(chain[pointer.txid], pointer.vout)

\* a coin of the wallet, fresh each time
Coin(key, value) ==
  [txid |-> << <<"txid", <<key, Len(chain)>> >> >>, vout |-> 0, value |-> value,
   lock |-> P2PKH(Hash160(PublicKey(key))), key |-> key]
ShardCoin(i) ==
  LET pointer == pool.shards[i]
  IN [txid |-> TxidOf(pointer.txid), vout |-> pointer.vout, value |-> Prevout(pointer).value,
      lock |-> Prevout(pointer).lock, key |-> "covenant"]

-----------------------------------------------------------------------------
(* Hashes and scripts of the pool: pool_policy, shard_common, locking *)

OutpointHash32(txid, vout) == Sha256(txid \o LE(vout, 4))
(* faulty variant: the bytes in the order they are displayed *)
CategoryAsDisplayed(txid) == txid

CategoryFromFundingTxid32(txid) == ReverseBytes(txid)
InitialShardCommitment32(category, i) ==
  Hash256(PoolId \o category \o LE(i, 4) \o LE(NShards, 4))

MakeShardTokenOut(category, commitment) ==
  [category |-> category, amount |-> 0, nft |-> TRUE, capability |-> 1, commitment |-> commitment]
ShardLock(category, commitment) ==
  AddTokenToScript(MakeShardTokenOut(category, commitment), << <<"code", code>> >>)

Nullifier(stateIn, paySpk, payment) ==
  Sha256(stateIn \o << <<"cut", Sha256(paySpk)>> >> \o Sha256(LE(payment, 4)))
DustThreshold(lock) == 3 * (148 + 8 + 1 + Length(lock))

-----------------------------------------------------------------------------
(* Whom a withdrawal pays: what is typed, and what it is taken for *)

Named(addr) == [addr EXCEPT !.network = IF @ = <<>> THEN Network ELSE @]
(* decodeCashAddrToHash160 of the withdraw command; nothing when it throws *)
DecodeCashAddrToHash160(addr) ==
  LET decoded == DecodeCashAddress(Named(addr))
  IN IF decoded.ok /\ decoded.network = Network /\ decoded.type = "P2PKH" THEN decoded.hash ELSE <<>>
Payees == {DecodeCashAddrToHash160(addr) : addr \in Typed} \ {<<>>}
Payee == DecodeCashAddrToHash160(Meant)

(* One symbol is wrong, or none; two neighbours are exchanged; one is      *)
(* missing.  The network may be left out or be another; the address may be *)
(* right and be another network's, or of another kind.                     *)
OneWrong(symbols) ==
  /\ symbols \in [DOMAIN Meant.symbols -> Symbol]
  /\ \E i \in DOMAIN symbols : \A k \in DOMAIN symbols \ {i} : symbols[k] = Meant.symbols[k]
Exchanged(symbols) ==
  \E i \in 1 .. Len(Meant.symbols) - 1 :
    symbols = [Meant.symbols EXCEPT ![i] = Meant.symbols[i + 1], ![i + 1] = Meant.symbols[i]]
OneMissing(symbols) == \E i \in DOMAIN Meant.symbols : symbols = RemoveAt(Meant.symbols, i)
OfAnotherNetwork(symbols) ==
  symbols \in Seq(Symbol) /\ \E network \in OtherNetwork : VerifyChecksum(network, symbols)
OfAnotherKind(addr) ==
  LET decoded == DecodeCashAddress(addr)
  IN decoded.ok /\ (decoded.type # "P2PKH" \/ Len(decoded.hash) # 20)
Slip(addr) ==
  \/ Named(addr).network # Network
  \/ /\ Named(addr) = [network |-> Network, symbols |-> addr.symbols]
     /\ \/ OneWrong(addr.symbols) \/ Exchanged(addr.symbols) \/ OneMissing(addr.symbols)
        \/ OfAnotherNetwork(addr.symbols) \/ OfAnotherKind(Named(addr))

ASSUME AddressAssumption ==
  /\ Meant \in [network : {Network}, symbols : [1 .. 42 -> Symbol]] /\ Payee \in [1 .. 20 -> 0 .. 255]
  /\ \A addr \in Typed : Slip(addr)
ASSUME NetworkAssumption ==
  /\ Network \in Seq(Symbol) /\ OtherNetwork \subseteq Seq(Symbol)
  /\ \A network \in OtherNetwork : Register(HrpExpand(network)) # Register(HrpExpand(Network))

-----------------------------------------------------------------------------
(* Building: every input the wallet holds a key for is signed, the         *)
(* covenant's input is push-only and is not                                *)

Signed(tx, coins) ==
  Fold(LAMBDA t, i : IF coins[i].key = "covenant" THEN t
                     ELSE SignInput(t, i, coins[i].key, coins[i].lock, coins[i].value),
       tx, UpTo(Len(coins)))

Unsigned(coins, unlocking, outputs) ==
  [version |-> 2, locktime |-> 0, outputs |-> outputs,
   inputs |-> [i \in 1 .. Len(coins) |->
                 [txid |-> coins[i].txid, vout |-> coins[i].vout, sequence |-> SEQUENCE_FINAL,
                  scriptSig |-> IF coins[i].key = "covenant" THEN unlocking ELSE <<>>]]]

\* a witness coin, when a caller has one, is the last input and is signed like the others
Submit(coins, witness, unlocking, outputs, fold, next) ==
  LET spent == coins \o witness
      tx == Signed(Unsigned(spent, unlocking, outputs), spent)
  IN /\ built' = [raw |-> BuildRawTx(tx), tx |-> tx, spent |-> spent, fold |-> fold, next |-> next]
     /\ stage' = "node"
     /\ UNCHANGED <<code, pool, chain, machine>>

NoFold == [mode |-> "direct", limbs |-> <<>>, stateIn |-> <<>>, noteHash |-> <<>>]
Witness == {<<>>, <<Coin("witness", 1000)>>}

(* initShardsTx: change, then the shards *)
InitShards ==
  /\ stage = "idle" /\ pool = NoPool
  /\ \E witness \in Witness :
       LET funding == Coin("owner", NShards * ShardValue + Fee + DUST)
           category == CategoryFromFundingTxid32(funding.txid)
           commitment == [i \in Shard |-> InitialShardCommitment32(category, i)]
           change == funding.value - NShards * ShardValue - Fee
       IN /\ change >= DUST
          /\ Submit(<<funding>>, witness, <<>>,
                    <<[value |-> change, lock |-> funding.lock]>>
                      \o [k \in 1 .. NShards |->
                            [value |-> ShardValue, lock |-> ShardLock(category, commitment[k - 1])]],
                    NoFold,
                    [category |-> category,
                     shards |-> [i \in Shard |-> [txid |-> Len(chain) + 1, vout |-> i + 1,
                                                  commitment |-> commitment[i]]]])

(* The end of every spend of a shard: the covenant's output first *)
SpendShard(i, fold, proofBlob, value, coins, witness, payouts) ==
  LET stateOut == ComputePoolStateOut(fold.stateIn, pool.category, fold.noteHash, fold.limbs, fold.mode)
      unlocking == Unlocking(fold.limbs, fold.noteHash, proofBlob)
  IN Submit(<<ShardCoin(i)>> \o coins, witness, unlocking,
            <<[value |-> value, lock |-> ShardLock(pool.category, stateOut)]>> \o payouts, fold,
            [pool EXCEPT !.shards[i] = [txid |-> Len(chain) + 1, vout |-> 0, commitment |-> stateOut]])

Ready == stage = "idle" /\ pool # NoPool /\ Len(chain) < MaxTx

(* importDepositToShard: the state folded is the one in the pool state     *)
ImportDepositToShard ==
  /\ Ready
  /\ \E i \in Shard, mode \in Mode, witness \in Witness :
       LET deposit == Coin("deposit", DepositValue)
           noteHash == OutpointHash32(deposit.txid, deposit.vout)
           value == ShardCoin(i).value + deposit.value - Fee
           fold == [mode |-> mode, limbs |-> <<>>, stateIn |-> pool.shards[i].commitment,
                    noteHash |-> noteHash]
       IN /\ value >= DUST
          /\ SpendShard(i, fold, MakeProofBlob(noteHash, 80), value, <<deposit>>, witness, <<>>)

(* The coin that pays the fee returns its change, unless that is dust *)
ChangeOutput(coins) ==
  IF coins = <<>> \/ coins[1].value - Fee < DUST THEN <<>>
  ELSE <<[value |-> coins[1].value - Fee, lock |-> coins[1].lock]>>

(* withdrawFromShard: the state folded is the one on the chain.  The lock  *)
(* it makes is as long as the one it spends, and has the same threshold.   *)
WithdrawFromShard ==
  /\ Ready
  /\ \E i \in Shard, mode \in Mode, witness \in Witness, hash \in Payees,
        coins \in {<<>>} \cup {<<Coin("fee", v)>> : v \in FeeCoinValue} :
       LET paySpk == P2PKH([k \in 1 .. Len(hash) |-> Byte(hash[k])])
           stateIn == Commitment32(ShardCoin(i).lock)
           nullifier == Nullifier(stateIn, paySpk, Payment)
           value == ShardCoin(i).value - Payment - (IF coins = <<>> THEN Fee ELSE 0)
           fold == [mode |-> mode, limbs |-> <<>>, stateIn |-> stateIn, noteHash |-> nullifier]
       IN /\ Len(hash) = 20 /\ stateIn # <<>> /\ Payment >= DUST
          /\ value >= DustThreshold(ShardCoin(i).lock)
          /\ coins # <<>> => coins[1].value >= Fee
          /\ SpendShard(i, fold, Sha256(nullifier \o <<Byte(2)>>), value, coins, witness,
                        <<[value |-> Payment, lock |-> paySpk]>> \o ChangeOutput(coins))

(* external: a caller of pool-hash-fold that folds limbs, as no command does yet *)
FoldLimbs ==
  /\ Ready
  /\ \E limbs \in Limbs, mode \in Mode :
       LET noteHash == Sha256(<<Byte(Len(chain))>>)
           fold == [mode |-> mode, limbs |-> limbs, stateIn |-> Commitment32(ShardCoin(0).lock),
                    noteHash |-> noteHash]
           value == ShardCoin(0).value - Fee
       IN /\ value >= DUST
          /\ SpendShard(0, fold, MakeProofBlob(noteHash, 80), value, <<>>, <<>>, <<>>)

-----------------------------------------------------------------------------
(* The node.  external, but for the covenant it runs.                      *)

Total(coins) == Fold(LAMBDA sum, coin : sum + coin.value, 0, coins)

\* the key hashes to the lock, and the signature is over the digest of this input
InputSigned(i, script) ==
  LET coin == built.spent[i]
      p == ParseScriptPushes(script)
      digest == Hash256(GetPreimage(built.tx, i, coin.lock, coin.value, <<>>))
  IN /\ p.ok /\ Len(p.pushes) = 2
     /\ P2PKHHash(coin.lock) = Hash160(p.pushes[2])
     /\ p.pushes[1] = SchnorrSign(digest, p.pushes[2][1][2]) \o <<Byte(HASHTYPE)>>

\* a category is new when it is the id of a transaction whose output 0 is spent
CategoryAllowed(category) ==
  \E i \in DOMAIN built.spent :
     \/ SplitCashTokensPrefix(built.spent[i].lock).token.category = category
     \/ built.spent[i].vout = 0 /\ ReverseBytes(built.spent[i].txid) = category

Valid(parsed) ==
  /\ parsed.ok /\ Len(parsed.inputs) = Len(built.spent)
  /\ \A i \in DOMAIN built.spent :
        built.spent[i].key # "covenant" => InputSigned(i, parsed.inputs[i].scriptSig)
  /\ Total(parsed.outputs) <= Total(built.spent)
  /\ \A v \in DOMAIN parsed.outputs :
        LET split == SplitCashTokensPrefix(parsed.outputs[v].lock)
        IN split.ok /\ (split.token # NoToken => CategoryAllowed(split.token.category))

NodeReads ==
  /\ stage = "node"
  /\ LET parsed == ParseTx(built.raw)
     IN /\ stage' = IF ~Valid(parsed) THEN "refused" ELSE IF pool = NoPool THEN "accepted" ELSE "proof"
        /\ machine' = IF stage' = "proof" THEN Machine(ParseScriptPushes(parsed.inputs[1].scriptSig).pushes)
                      ELSE machine
  /\ UNCHANGED <<code, pool, chain, built>>

SpentToken == SplitCashTokensPrefix(built.spent[1].lock).token
MadeToken == SplitCashTokensPrefix(ParseTx(built.raw).outputs[1].lock).token

Runs(at, program, next) ==
  /\ stage = at
  /\ machine' = Exec(machine, program, SpentToken, MadeToken)
  /\ stage' = IF machine'.ok THEN next ELSE "refused"
  /\ UNCHANGED <<code, pool, chain, built>>

RunDropProof == Runs("proof", DropProof, "cell")
RunReadStateIn == Runs("cell", ReadStateIn, "hash")
RunPreHash == Runs("hash", PreHash, "fold")
RunFoldLimb == machine.main # <<>> /\ Runs("fold", FoldLimb, "fold")
RunFoldEnd == machine.main = <<>> /\ Runs("fold", FoldEnd, "assert")
RunAssertStateOut == Runs("assert", AssertStateOut, "end")
RunEnds ==
  /\ stage = "end"
  /\ stage' = IF machine.main = <<Truth(TRUE)>> THEN "accepted" ELSE "refused"
  /\ UNCHANGED <<code, pool, chain, built, machine>>

Idle == built' = NothingBuilt /\ machine' = Machine(<<>>) /\ stage' = "idle" /\ UNCHANGED code

(* An accepted transaction is on the chain, and its pool state is saved    *)
Accepted == stage = "accepted" /\ chain' = Append(chain, built.raw) /\ pool' = built.next /\ Idle
Refusal == stage = "refused" /\ UNCHANGED <<chain, pool>> /\ Idle

-----------------------------------------------------------------------------

Init ==
  /\ code \in CodeWidth /\ pool = NoPool /\ chain = <<>>
  /\ built = NothingBuilt /\ machine = Machine(<<>>) /\ stage = "idle"

Next ==
  \/ InitShards \/ ImportDepositToShard \/ WithdrawFromShard \/ FoldLimbs
  \/ NodeReads
  \/ RunDropProof \/ RunReadStateIn \/ RunPreHash \/ RunFoldLimb \/ RunFoldEnd \/ RunAssertStateOut \/ RunEnds
  \/ Accepted \/ Refusal

Spec == Init /\ [][Next]_vars

-----------------------------------------------------------------------------

(* The builders and the covenant agree: the node accepts the pool's first  *)
(* transaction, and every spend whose category bytes are taken as they are *)
(* and which folds at most 63 limbs (64 items with the note hash), and no  *)
(* other.  pool_hash_fold_ops.ts and pool_hash_fold_v1_1.casm each say     *)
(* that they implement "the same transition" as the other.                 *)
Foldable == built.fold.mode = "direct" /\ Len(built.fold.limbs) <= 63
NodeAgrees == (stage = "accepted" => Foldable) /\ (stage = "refused" => ~Foldable)

(* The stack pictures in the comments of the covenant: what each function  *)
(* finds on the two stacks, and, in the loop, that the accumulator is the  *)
(* fold of the limbs already taken, the last one first.  The check that    *)
(* BCH_STEALTH_DEBUG_COVENANT_PUSHPARSE has a command run on its unlocking *)
(* data would let each of them pass.                                       *)
CategoryAndCap == pool.category \o CapByte
AccumulatorAfter(taken) ==
  ComputePoolStateOut(built.fold.stateIn, pool.category, built.fold.noteHash, taken, "direct")
StackContract ==
  LET limbs == built.fold.limbs
      left == Len(machine.main)
  IN /\ stage \in {"cell", "hash"} => machine.main = Append(limbs, built.fold.noteHash)
     /\ stage = "hash" => machine.alt = <<CategoryAndCap, built.fold.stateIn>>
     /\ stage = "fold" => /\ machine.main = SubSeq(limbs, 1, left)
                          /\ machine.alt = <<CategoryAndCap, AccumulatorAfter(SubSeq(limbs, left + 1, Len(limbs)))>>
     /\ stage = "assert" => machine.main = <<AccumulatorAfter(limbs)>>
     /\ (stage = "proof" /\ limbs = <<>>) => TwoPushesOf32(built.tx.inputs[1].scriptSig)

(* What tx-builder writes is what the scanner and the Electrum client read *)
(* back: inputs, outputs, every output by its index, and the token of each *)
(* locking script, at every length at which a length prefix changes form.  *)
ReadBack ==
  stage = "node" =>
    LET parsed == ParseTx(built.raw)
        outputs == built.tx.outputs
    IN /\ parsed.ok /\ parsed.outputs = outputs
       /\ parsed.inputs = [i \in DOMAIN built.tx.inputs |->
                             [txid |-> built.tx.inputs[i].txid, vout |-> built.tx.inputs[i].vout,
                              scriptSig |-> built.tx.inputs[i].scriptSig]]
       /\ \A v \in DOMAIN outputs :
            LET split == SplitCashTokensPrefix(outputs[v].lock)
            IN /\ GetPrevoutScriptAndValue(built.raw, v - 1) = outputs[v]
               /\ split.ok
               /\ split.token # NoToken => AddTokenToScript(split.token, split.locking) = outputs[v].lock

(* Whatever was typed for the payee's address, no withdrawal on the chain  *)
(* pays anyone else: a wrong symbol, two symbols exchanged, one missing,   *)
(* the address of another network or of another kind are all refused.      *)
PaysTheAddress ==
  (stage = "idle" /\ chain # <<>>) =>
    \A out \in ToSet(ParseTx(chain[Len(chain)]).outputs) :
      P2PKHHash(out.lock) \in {<<>>, [b \in 1 .. 20 |-> Byte(Payee[b])]}
         \cup {Hash160(PublicKey(key)) : key \in {"owner", "fee"}}
=============================================================================
