------------------------------ MODULE TxBytes ------------------------------
(***************************************************************************)
(* Transactions as packages/tx-builder writes them, and as the Electrum    *)
(* client and the scanner read them back.                                  *)
(*                                                                         *)
(* A transaction is a record of its inputs [txid, vout, sequence,          *)
(* scriptSig], txids in display order, and its outputs [value, lock].  A   *)
(* CashToken travels as a prefix of the locking script.                    *)
(***************************************************************************)
EXTENDS Bytes

SEQUENCE_FINAL == -1
HASHTYPE == 65      \* SIGHASH_ALL | FORKID
TOKEN_MARK == 239   \* 0xef

-----------------------------------------------------------------------------
(* Locking scripts *)

P2PKH(hash160) == <<Byte(118), Byte(169), Byte(20)>> \o hash160 \o <<Byte(136), Byte(172)>>

(* parseP2pkhHash160: the hash, or nothing *)
P2PKHHash(lock) ==
  LET hash == Take(Take(Reader(lock), 3), 20).got
  IN IF Length(lock) = 25 /\ lock = P2PKH(hash) THEN hash ELSE <<>>

-----------------------------------------------------------------------------
(* CashTokens prefix.  A token has a category, an amount (0: none), and    *)
(* possibly an NFT: a capability (none 0, mutable 1, minting 2) and a      *)
(* commitment (empty: none).                                               *)

NoToken == [category |-> <<>>, amount |-> 0, nft |-> FALSE, capability |-> 0, commitment |-> <<>>]

CommitmentField(token) == VarInt(Length(token.commitment)) \o token.commitment

TokenFits(token) ==
  /\ Length(token.category) = 32
  /\ token.nft \/ token.amount > 0
  /\ token.nft => token.capability \in 0 .. 2
  /\ ~token.nft => token.commitment = <<>> /\ token.capability = 0
  /\ Length(token.commitment) <= 40

Bitfield(token) ==
  (IF token.commitment # <<>> THEN 64 ELSE 0) + (IF token.nft THEN 32 ELSE 0)
    + (IF token.amount > 0 THEN 16 ELSE 0) + token.capability

(* addTokenToScript; nothing when it throws *)
AddTokenToScript(token, lock) ==
  IF token.category = <<>> THEN lock ELSE IF ~TokenFits(token) THEN <<>>
  ELSE <<Byte(TOKEN_MARK)>> \o token.category \o <<Byte(Bitfield(token))>>
         \o (IF token.commitment # <<>> THEN CommitmentField(token) ELSE <<>>)
         \o (IF token.amount > 0 THEN VarInt(token.amount) ELSE <<>>)
         \o lock

Flag(bits, n) == (bits \div n) % 2 = 1

(* decodeCashTokensPrefix and splitCashTokensPrefix in one: the token at   *)
(* the head of a script, and the script after it.  Each field is read from *)
(* the reader the one before it left.                                      *)
TokenOf(bits, category, commitment, amount) ==
  [ok |-> /\ amount.ok
          /\ IF Flag(bits, 32) THEN bits % 16 <= 2 ELSE bits % 16 = 0
          /\ Flag(bits, 64) => Flag(bits, 32) /\ Length(commitment) \in 1 .. 40
          /\ Flag(bits, 16) => amount.got >= 1,
   token |-> [category |-> category, amount |-> amount.got, nft |-> Flag(bits, 32),
              capability |-> bits % 16, commitment |-> commitment],
   locking |-> amount.rest]
AmountAfter(bits, category, r) ==
  TokenOf(bits, category, r.got, IF Flag(bits, 16) THEN ReadVarInt(r) ELSE [r EXCEPT !.got = 0])
CommitmentAfter(bits, category, r) ==
  AmountAfter(bits, category,
              IF Flag(bits, 64) THEN TakeCounted(ReadVarInt(r)) ELSE [r EXCEPT !.got = <<>>])
FieldAfter(category, r) == CommitmentAfter(IF r.ok THEN r.got[1][2] ELSE 0, category, r)
CategoryAfter(r) == FieldAfter(r.got, Take(r, 1))

SplitCashTokensPrefix(script) ==
  IF script = <<>> \/ script[1] # Byte(TOKEN_MARK)
  THEN [ok |-> TRUE, token |-> NoToken, locking |-> script]
  ELSE CategoryAfter(Take(Take(Reader(script), 1), 32))

(* getCommitment32FromShardPrevoutScript; nothing when it throws *)
CommitmentOf(split) ==
  IF split.ok /\ Length(split.token.commitment) = 32 THEN split.token.commitment ELSE <<>>
Commitment32(script) == CommitmentOf(SplitCashTokensPrefix(script))

-----------------------------------------------------------------------------
(* Serialisation *)

GetOutpoint(in) == ReverseBytes(in.txid) \o LE(in.vout, 4)
GetAllPrevOut(inputs) == Concat(GetOutpoint, inputs)
GetAllSequences(inputs) == Concat(LAMBDA in : LE(in.sequence, 4), inputs)
OutputBytes(out) == LE(out.value, 8) \o VarInt(Length(out.lock)) \o out.lock
GetAllOutputs(outputs) == Concat(OutputBytes, outputs)

(* The digest covers the whole transaction and the output being spent *)
GetPreimage(tx, i, scriptCode, value, tokenPrefix) ==
  LE(tx.version, 4) \o Hash256(GetAllPrevOut(tx.inputs)) \o Hash256(GetAllSequences(tx.inputs))
    \o GetOutpoint(tx.inputs[i]) \o tokenPrefix
    \o VarInt(Length(scriptCode)) \o scriptCode \o LE(value, 8) \o LE(tx.inputs[i].sequence, 4)
    \o Hash256(GetAllOutputs(tx.outputs)) \o LE(tx.locktime, 4) \o LE(HASHTYPE, 4)

PublicKey(key) == << <<"pub", key>> >>
SchnorrSign(sighash, key) == << <<"sig", <<key, sighash>> >> >>

(* signInput: a P2PKH input; the code writes the preimage out once more *)
SignInput(tx, i, key, lock, value) ==
  LET preimage ==
        LE(tx.version, 4) \o Hash256(GetAllPrevOut(tx.inputs)) \o Hash256(GetAllSequences(tx.inputs))
          \o GetOutpoint(tx.inputs[i]) \o VarInt(Length(lock)) \o lock \o LE(value, 8)
          \o LE(tx.inputs[i].sequence, 4) \o Hash256(GetAllOutputs(tx.outputs))
          \o LE(tx.locktime, 4) \o LE(HASHTYPE, 4)
      sig65 == SchnorrSign(Hash256(preimage), key) \o <<Byte(HASHTYPE)>>
  IN [tx EXCEPT !.inputs[i].scriptSig = Push(sig65) \o Push(PublicKey(key))]

InputBytes(in) ==
  GetOutpoint(in) \o VarInt(Length(in.scriptSig)) \o in.scriptSig \o LE(in.sequence, 4)

BuildRawTx(tx) ==
  LE(tx.version, 4) \o VarInt(Len(tx.inputs)) \o Concat(InputBytes, tx.inputs)
    \o VarInt(Len(tx.outputs))
    \o Concat(LAMBDA out : LE(out.value, 8) \o VarInt(Length(out.lock)) \o out.lock, tx.outputs)
    \o LE(tx.locktime, 4)

-----------------------------------------------------------------------------
(* Reading a transaction back *)

Script(r) == TakeCounted(ReadVarInt(r))

ReadInput(p) ==
  LET txid == Take(p.reader, 32)
      vout == Take(txid, 4)
      script == Script(vout)
  IN [reader |-> Take(script, 4),
      items |-> Append(p.items, [txid |-> ReverseBytes(txid.got), vout |-> FromLE(vout.got),
                                 scriptSig |-> script.got])]

ReadOutput(p) ==
  LET value == Take(p.reader, 8)
      script == Script(value)
  IN [reader |-> script, items |-> Append(p.items, [value |-> FromLE(value.got), lock |-> script.got])]

ReadMany(Read(_), r) ==
  LET count == ReadVarInt(r)
  IN Fold(LAMBDA p, i : Read(p), [reader |-> count, items |-> <<>>], UpTo(count.got))

(* parseTx of the scanner: neither sequence numbers nor the lock time are kept *)
ParseTx(raw) ==
  LET inputs == ReadMany(ReadInput, Take(Reader(raw), 4))
      outputs == ReadMany(ReadOutput, inputs.reader)
  IN [ok |-> outputs.reader.ok, inputs |-> inputs.items, outputs |-> outputs.items]

(* getPrevoutScriptAndValue of the client skips the inputs *)
SkipInput(p) == [p EXCEPT !.reader = Take(Script(Take(p.reader, 36)), 4)]
GetPrevoutScriptAndValue(raw, vout) ==
  LET inputs == ReadMany(SkipInput, Take(Reader(raw), 4))
      outputs == ReadMany(ReadOutput, inputs.reader).items
  IN outputs[vout + 1]
=============================================================================
