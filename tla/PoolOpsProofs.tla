--------------------------- MODULE PoolOpsProofs ---------------------------
(***************************************************************************)
(* Theorems of PoolOps, for every number of shards, processes, notes and   *)
(* requests and every value of the amounts, in three parts: the copies of  *)
(* the pool state, the chain, and the commands.                            *)
(***************************************************************************)
EXTENDS PoolOps, SequenceTheorems, FiniteSetTheorems, TLAPS

-----------------------------------------------------------------------------
(***************************************************************************)
(* Part 1.  The copies of the pool state.                                  *)
(*                                                                         *)
(* The invariant proved is IInv: types, every copy of the pool state true  *)
(* of the chain, and every transaction awaiting an answer built from its   *)
(* process's own copy.  The last part is what carries the first over the   *)
(* node's answer, and the second what makes the builders' prevouts exist.  *)
(***************************************************************************)

(* A copy of the state that is true of chain c *)
Good(c, s) ==
  /\ s \in PoolState
  /\ Faithful(c, s)
  /\ ImportsTruthful(c, s)
  /\ WithdrawalsTruthful(c, s)

(* What initShardsTx builds, and what importDepositToShard and             *)
(* withdrawFromShard build for shard i of the pool of category f           *)
InitTx(t) == \E f \in Funding : t = InitShardsTx(f)
StepTx(t, f, i) ==
  /\ t \in Tx
  /\ t.outs \in [{0} -> Cell]
  /\ t.outs[0].cat = f /\ t.outs[0].commit.cat = f /\ t.outs[0].commit.shard = i

BuiltFrom(s, j) ==
  \/ j.op = "init" /\ \A k \in DOMAIN j.txs : InitTx(j.txs[k])
  \/ /\ j.op \in {"import", "withdraw"} /\ Initialized(s)
     /\ \A k \in DOMAIN j.txs : StepTx(j.txs[k], s.cat, j.shard)
  \/ j.op = "deposit" /\ j.txs = <<>>

IInv ==
  /\ TypeOK
  /\ Good(chain, file)
  /\ \A p \in Proc : Good(chain, mem[p])
  /\ \A p \in Proc : pc[p] = "send" => BuiltFrom(mem[p], job[p])

-----------------------------------------------------------------------------
(* Appending to the chain *)

(* An accepted transaction leaves the earlier ones where they are *)
LEMMA AppendKeeps ==
  ASSUME NEW c \in Seq(Tx), NEW t \in Tx
  PROVE  /\ Append(c, t) \in Seq(Tx)
         /\ DOMAIN c = 1 .. Len(c) /\ DOMAIN Append(c, t) = 1 .. Len(c) + 1
         /\ \A k \in DOMAIN c : k \in DOMAIN Append(c, t) /\ Append(c, t)[k] = c[k]
         /\ Len(c) + 1 \in DOMAIN Append(c, t) /\ Append(c, t)[Len(c) + 1] = t
         /\ Len(c) \in Nat
  OBVIOUS

(* An output once made stays made, with the same contents *)
LEMMA MadeStays ==
  ASSUME NEW c \in Seq(Tx), NEW t \in Tx, NEW o \in Made(c)
  PROVE  o \in Made(Append(c, t)) /\ CellAt(Append(c, t), o) = CellAt(c, o)
  <1>1. PICK k \in DOMAIN c : o \in OutpointsOf(c, k)
        BY DEF Made
  <1>2. o.txid = k
        BY <1>1 DEF OutpointsOf
  <1>3. k \in DOMAIN Append(c, t) /\ Append(c, t)[k] = c[k]
        BY AppendKeeps
  <1>4. OutpointsOf(Append(c, t), k) = OutpointsOf(c, k)
        BY <1>3 DEF OutpointsOf
  <1>5. o \in Made(Append(c, t))
        BY <1>1, <1>3, <1>4 DEF Made
  <1> QED BY <1>2, <1>3, <1>5 DEF CellAt

(* A state true of the chain stays true of it as it grows *)
LEMMA GoodStays ==
  ASSUME NEW c \in Seq(Tx), NEW t \in Tx, NEW s, Good(c, s)
  PROVE  Good(Append(c, t), s)
  <1>1. s \in PoolState
        BY DEF Good
  <1>2. Faithful(Append(c, t), s)
    <2> SUFFICES ASSUME Initialized(s), NEW i \in Shard
                 PROVE  s.shards \in [Shard -> Pointer] /\ FaithfulPointer(Append(c, t), s, i)
        BY DEF Faithful, Good
    <2>1. s.shards \in [Shard -> Pointer] /\ FaithfulPointer(c, s, i)
          BY DEF Good, Faithful
    <2>2. PointsAt(s, i) \in Made(c)
          BY <2>1 DEF FaithfulPointer
    <2> QED BY <2>1, <2>2, MadeStays DEF FaithfulPointer
  <1>3. ImportsTruthful(Append(c, t), s)
        BY AppendKeeps DEF Good, ImportsTruthful
  <1>4. WithdrawalsTruthful(Append(c, t), s)
        BY AppendKeeps DEF Good, WithdrawalsTruthful
  <1> QED BY <1>1, <1>2, <1>3, <1>4 DEF Good

-----------------------------------------------------------------------------
(* Builders *)

(* initShardsTx makes a transaction *)
LEMMA InitTxType ==
  ASSUME NEW f \in Funding
  PROVE  InitShardsTx(f) \in Tx
  <1>1. \A v \in 1 .. NShards : v - 1 \in Shard
        BY SizesAssumption DEF Shard
  <1>2. <<>> \in Seq(FoldItem)
        OBVIOUS
  <1>3. \A v \in 1 .. NShards :
          [cat |-> f, value |-> ShardValue, commit |-> GenesisCommitment(f, v - 1)] \in Cell
        BY <1>1, <1>2, SizesAssumption DEF Cell, Commitment, GenesisCommitment
  <1> QED BY <1>3 DEF InitShardsTx, Tx

(* Folding an item into a commitment keeps its category and shard *)
LEMMA StateOutType ==
  ASSUME NEW c \in Commitment, NEW item \in FoldItem
  PROVE  /\ StateOut(c, item) \in Commitment
         /\ StateOut(c, item).cat = c.cat /\ StateOut(c, item).shard = c.shard
  BY DEF StateOut, Commitment

(* A faithful pointer is of a cell of the chain *)
LEMMA PrevoutIsCell ==
  ASSUME NEW c \in Seq(Tx), NEW o \in Made(c)
  PROVE  CellAt(c, o) \in Cell
  <1>1. PICK k \in DOMAIN c : o \in OutpointsOf(c, k)
        BY DEF Made
  <1>2. PICK v \in DOMAIN c[k].outs : o = [txid |-> k, vout |-> v]
        BY <1>1 DEF OutpointsOf
  <1>3. c[k] \in Tx
        BY <1>1
  <1>4. c[k].outs[v] \in Cell
        BY <1>3 DEF Tx
  <1> QED BY <1>2, <1>4 DEF CellAt

(* The byte order of a candidate mode is one of the two *)
LEMMA ModeType == \A mode : NormalizeCategoryMode(mode) \in Mode
  BY DEF NormalizeCategoryMode, Mode

(* importDepositToShard, from a pointer true of the chain *)
LEMMA ImportTxType ==
  ASSUME NEW c \in Seq(Tx), NEW s, Good(c, s), Initialized(s), NEW i \in Shard,
         NEW n \in Note, NEW mode, ImportBuilds(CellAt(c, PointsAt(s, i)), n)
  PROVE  StepTx(ImportTx(s.cat, s.shards[i], CellAt(c, PointsAt(s, i)), n, mode), s.cat, i)
  <1> DEFINE prev == CellAt(c, PointsAt(s, i))
             item == NoteFold(n, mode)
             t == ImportTx(s.cat, s.shards[i], prev, n, mode)
             cell == [cat |-> s.cat, value |-> prev.value + NoteValue[n] - Fee,
                      commit |-> StateOut(s.shards[i].commit, item)]
  <1>1. s.shards[i] \in Pointer /\ FaithfulPointer(c, s, i) /\ s.cat \in Funding
        BY DEF Good, Faithful, Initialized, PoolState
  <1>2. prev \in Cell /\ s.shards[i].commit \in Commitment
        BY <1>1, PrevoutIsCell DEF FaithfulPointer, Pointer
  <1>3. item \in FoldItem
        BY ModeType DEF NoteFold, FoldItem
  <1>4. prev.value + NoteValue[n] - Fee \in Nat
        BY <1>2, SizesAssumption DEF ImportBuilds, Cell
  <1>5. /\ StateOut(s.shards[i].commit, item) \in Commitment
        /\ StateOut(s.shards[i].commit, item).cat = s.cat
        /\ StateOut(s.shards[i].commit, item).shard = i
        BY <1>1, <1>2, <1>3, StateOutType DEF FaithfulPointer
  <1>6. cell \in Cell
        BY <1>1, <1>4, <1>5 DEF Cell
  <1>7. t.outs = [v \in {0} |-> cell]
        BY DEF ImportTx
  <1>8. [txid |-> s.shards[i].txid, vout |-> s.shards[i].vout] \in Outpoint
        BY <1>1 DEF Pointer, Outpoint
  <1>9. t \in Tx
    <2> HIDE DEF cell
    <2>1. [v \in {0} |-> cell] \in [{0} -> Cell]
          BY <1>6
    <2> QED BY <2>1, <1>7, <1>8 DEF ImportTx, Tx
  <1>10. t.outs[0] = cell /\ t.outs \in [{0} -> Cell]
         BY <1>6, <1>7
  <1> QED BY <1>5, <1>9, <1>10 DEF StepTx

(* withdrawFromShard, from a pointer true of the chain *)
LEMMA WithdrawTxType ==
  ASSUME NEW c \in Seq(Tx), NEW s, Good(c, s), Initialized(s), NEW i \in Shard,
         NEW pay \in Payment, NEW fund \in SUBSET Funding, NEW mode,
         WithdrawBuilds(CellAt(c, PointsAt(s, i)), pay, fund)
  PROVE  StepTx(WithdrawTx(s.cat, s.shards[i], CellAt(c, PointsAt(s, i)), pay, fund, mode),
                s.cat, i)
  <1> DEFINE prev == CellAt(c, PointsAt(s, i))
             item == Nullifier(pay, mode)
             t == WithdrawTx(s.cat, s.shards[i], prev, pay, fund, mode)
             cell == [cat |-> s.cat, value |-> prev.value - pay.sats - FeeFromShard(fund),
                      commit |-> StateOut(prev.commit, item)]
  <1>1. s.shards[i] \in Pointer /\ FaithfulPointer(c, s, i) /\ s.cat \in Funding
        BY DEF Good, Faithful, Initialized, PoolState
  <1>2. prev \in Cell
        BY <1>1, PrevoutIsCell DEF FaithfulPointer
  <1>3. item \in FoldItem
        BY ModeType DEF Nullifier, FoldItem, Payment
  <1>4. prev.value - pay.sats - FeeFromShard(fund) \in Nat
    <2>1. prev.value \in Nat /\ pay.sats \in Nat /\ FeeFromShard(fund) \in Nat /\ ShardDust \in Nat
          BY <1>2, SizesAssumption DEF Cell, FeeFromShard, Payment
    <2> HIDE DEF prev
    <2>2. prev.value - pay.sats - FeeFromShard(fund) >= ShardDust
          BY DEF WithdrawBuilds, prev
    <2> QED BY <2>1, <2>2
  <1>5. /\ StateOut(prev.commit, item) \in Commitment
        /\ StateOut(prev.commit, item).cat = s.cat
        /\ StateOut(prev.commit, item).shard = i
        BY <1>1, <1>2, <1>3, StateOutType DEF FaithfulPointer, Cell
  <1>6. cell \in Cell
        BY <1>1, <1>4, <1>5 DEF Cell
  <1>7. t.outs = [v \in {0} |-> cell]
        BY DEF WithdrawTx
  <1>8. [txid |-> s.shards[i].txid, vout |-> s.shards[i].vout] \in Outpoint
        BY <1>1 DEF Pointer, Outpoint
  <1>9. t \in Tx
    <2> HIDE DEF cell
    <2>1. [v \in {0} |-> cell] \in [{0} -> Cell]
          BY <1>6
    <2> QED BY <2>1, <1>7, <1>8 DEF WithdrawTx, Tx
  <1>10. t.outs[0] = cell /\ t.outs \in [{0} -> Cell]
         BY <1>6, <1>7
  <1> QED BY <1>5, <1>9, <1>10 DEF StepTx

-----------------------------------------------------------------------------
(* What a command records once its transaction is on the chain             *)

(* The pointers written by init *)
LEMMA RecordInitGood ==
  ASSUME NEW c \in Seq(Tx), NEW s, Good(c, s), NEW k \in DOMAIN c, InitTx(c[k])
  PROVE  Good(c, RecordInit(s, c[k], k))
  <1> DEFINE r == RecordInit(s, c[k], k)
  <1>1. PICK f \in Funding : c[k] = InitShardsTx(f)
        BY DEF InitTx
  <1>2. \A v \in 1 .. NShards :
          /\ c[k].outs[v] = [cat |-> f, value |-> ShardValue, commit |-> GenesisCommitment(f, v - 1)]
          /\ v \in DOMAIN c[k].outs
        BY <1>1 DEF InitShardsTx
  <1>3. 1 \in 1 .. NShards /\ \A i \in Shard : i + 1 \in 1 .. NShards /\ (i + 1) - 1 = i
        BY SizesAssumption DEF Shard
  <1>3a. \A i \in Shard :
          /\ c[k].outs[i + 1] = [cat |-> f, value |-> ShardValue, commit |-> GenesisCommitment(f, i)]
          /\ i + 1 \in DOMAIN c[k].outs
    <2> TAKE i \in Shard
    <2>1. i + 1 \in 1 .. NShards /\ (i + 1) - 1 = i
          BY <1>3
    <2> QED BY <1>2, <2>1
  <1>4. k \in Nat \ {0}
        BY AppendKeeps, LenProperties
  <1>5. \A i \in Shard :
          /\ InitialPointers(c[k], k)[i] = [txid |-> k, vout |-> i + 1, value |-> ShardValue,
                                            commit |-> GenesisCommitment(f, i)]
          /\ InitialPointers(c[k], k)[i] \in Pointer
    <2> SUFFICES ASSUME NEW i \in Shard
                 PROVE  /\ InitialPointers(c[k], k)[i] =
                             [txid |-> k, vout |-> i + 1, value |-> ShardValue,
                              commit |-> GenesisCommitment(f, i)]
                        /\ InitialPointers(c[k], k)[i] \in Pointer
        OBVIOUS
    <2>1. InitialPointers(c[k], k)[i] =
            [txid |-> k, vout |-> i + 1, value |-> ShardValue, commit |-> GenesisCommitment(f, i)]
      <3>1. c[k].outs[i + 1] = [cat |-> f, value |-> ShardValue, commit |-> GenesisCommitment(f, i)]
            BY <1>3a
      <3> QED BY <3>1 DEF InitialPointers
    <2>2. GenesisCommitment(f, i) \in Commitment
          BY DEF GenesisCommitment, Commitment
    <2> QED BY <1>4, <2>1, <2>2, SizesAssumption DEF Pointer, Shard
  <1>6. /\ r.cat = f /\ r.shards = InitialPointers(c[k], k)
        /\ r.deposits = s.deposits /\ r.withdrawals = s.withdrawals
    <2>1. c[k].outs[1].cat = f
      <3>1. c[k].outs[1] = [cat |-> f, value |-> ShardValue, commit |-> GenesisCommitment(f, 1 - 1)]
            BY <1>2, <1>3
      <3> QED BY <3>1
    <2> QED BY <2>1 DEF RecordInit, Good, PoolState
  <1>7. InitialPointers(c[k], k) \in [Shard -> Pointer]
        BY <1>5 DEF InitialPointers
  <1>8. r \in PoolState
        BY <1>6, <1>7 DEF Good, PoolState, RecordInit
  <1>9. Faithful(c, r)
    <2> SUFFICES ASSUME NEW i \in Shard PROVE FaithfulPointer(c, r, i)
        BY <1>6, <1>7 DEF Faithful
    <2>1. PointsAt(r, i) = [txid |-> k, vout |-> i + 1]
      <3>1. r.shards[i] = [txid |-> k, vout |-> i + 1, value |-> ShardValue,
                           commit |-> GenesisCommitment(f, i)]
            BY <1>5, <1>6
      <3> QED BY <3>1 DEF PointsAt
    <2>2. PointsAt(r, i) \in Made(c)
      <3>1. i + 1 \in DOMAIN c[k].outs
            BY <1>3a
      <3>2. PointsAt(r, i) \in OutpointsOf(c, k)
            BY <2>1, <3>1 DEF OutpointsOf
      <3> QED BY <3>2 DEF Made
    <2>3. CellAt(c, PointsAt(r, i)) =
            [cat |-> f, value |-> ShardValue, commit |-> GenesisCommitment(f, i)]
          BY <1>3a, <2>1 DEF CellAt
    <2>4. r.shards[i] = [txid |-> k, vout |-> i + 1, value |-> ShardValue,
                         commit |-> GenesisCommitment(f, i)]
          BY <1>5, <1>6
    <2> QED BY <1>6, <2>2, <2>3, <2>4 DEF FaithfulPointer, GenesisCommitment
  <1>10. ImportsTruthful(c, r) /\ WithdrawalsTruthful(c, r)
         BY <1>6 DEF Good, ImportsTruthful, WithdrawalsTruthful
  <1> QED BY <1>8, <1>9, <1>10 DEF Good

(* patchShardFromNextPoolState: one pointer moves to the new output, the   *)
(* others are untouched                                                    *)
LEMMA PatchedPointersFaithful ==
  ASSUME NEW c \in Seq(Tx), NEW s, Good(c, s), Initialized(s), NEW i \in Shard,
         NEW k \in DOMAIN c, StepTx(c[k], s.cat, i),
         NEW r, r.cat = s.cat, r.shards = [s.shards EXCEPT ![i] = NextPointer(c[k], k)]
  PROVE  r.shards \in [Shard -> Pointer] /\ Faithful(c, r)
  <1>1. s.shards \in [Shard -> Pointer] /\ \A j \in Shard : FaithfulPointer(c, s, j)
        BY DEF Good, Faithful
  <1>2. c[k].outs[0] \in Cell /\ 0 \in DOMAIN c[k].outs
        BY DEF StepTx
  <1>3. k \in Nat \ {0}
        BY AppendKeeps, LenProperties
  <1>4. NextPointer(c[k], k) \in Pointer
        BY <1>2, <1>3 DEF NextPointer, Pointer, Cell
  <1>5. r.shards \in [Shard -> Pointer]
        BY <1>1, <1>4
  <1>6. ASSUME NEW j \in Shard PROVE FaithfulPointer(c, r, j)
    <2>1. CASE j = i
      <3>1. r.shards[j] = NextPointer(c[k], k)
            BY <1>1, <2>1
      <3>2. PointsAt(r, j) = [txid |-> k, vout |-> 0]
            BY <3>1 DEF PointsAt, NextPointer
      <3>3. PointsAt(r, j) \in OutpointsOf(c, k)
            BY <1>2, <3>2 DEF OutpointsOf
      <3>4. PointsAt(r, j) \in Made(c)
            BY <3>3 DEF Made
      <3>5. CellAt(c, PointsAt(r, j)) = c[k].outs[0]
            BY <3>2 DEF CellAt
      <3> QED BY <2>1, <3>1, <3>4, <3>5 DEF FaithfulPointer, NextPointer, StepTx
    <2>2. CASE j # i
      <3>1. r.shards[j] = s.shards[j]
            BY <1>1, <2>2
      <3>2. PointsAt(r, j) = PointsAt(s, j)
            BY <3>1 DEF PointsAt
      <3> QED BY <1>1, <3>1, <3>2 DEF FaithfulPointer
    <2> QED BY <2>1, <2>2
  <1> QED BY <1>5, <1>6 DEF Faithful

(* What import records *)
LEMMA RecordImportGood ==
  ASSUME NEW c \in Seq(Tx), NEW s, Good(c, s), Initialized(s), NEW i \in Shard,
         NEW k \in DOMAIN c, StepTx(c[k], s.cat, i)
  PROVE  Good(c, RecordImport(s, i, c[k], k))
  <1> DEFINE r == RecordImport(s, i, c[k], k)
             d == [n \in Note |-> IF n \in c[k].notes
                                  THEN [staged |-> TRUE, importTx |-> k, shard |-> i]
                                  ELSE s.deposits[n]]
  <1>1. s \in PoolState
        BY DEF Good
  <1>2. /\ r.cat = s.cat /\ r.shards = [s.shards EXCEPT ![i] = NextPointer(c[k], k)]
        /\ r.deposits = d /\ r.withdrawals = s.withdrawals
        BY <1>1 DEF RecordImport, PoolState
  <1>3. r.shards \in [Shard -> Pointer] /\ Faithful(c, r)
    <2> HIDE DEF r, d
    <2> QED BY <1>2, PatchedPointersFaithful
  <1>4. k \in Nat
        BY AppendKeeps, LenProperties
  <1>5. d \in [Note -> DepositRecord]
        BY <1>1, <1>4 DEF PoolState, DepositRecord
  <1>6. r \in PoolState
        BY <1>1, <1>2, <1>3, <1>5 DEF PoolState, RecordImport
  <1>7. ImportsTruthful(c, r)
    <2> SUFFICES ASSUME NEW n \in Note, d[n].importTx # 0
                 PROVE  /\ d[n].importTx \in DOMAIN c
                        /\ n \in c[d[n].importTx].notes
                        /\ c[d[n].importTx].outs[0].commit.shard = d[n].shard
        BY <1>2 DEF ImportsTruthful
    <2>1. CASE n \in c[k].notes
      <3>1. d[n] = [staged |-> TRUE, importTx |-> k, shard |-> i]
            BY <2>1
      <3> QED BY <2>1, <3>1 DEF StepTx
    <2>2. CASE n \notin c[k].notes
      <3>1. d[n] = s.deposits[n]
            BY <2>2
      <3> HIDE DEF d
      <3> QED BY <3>1 DEF Good, ImportsTruthful
    <2> QED BY <2>1, <2>2
  <1>8. WithdrawalsTruthful(c, r)
        BY <1>2 DEF Good, WithdrawalsTruthful
  <1> QED BY <1>3, <1>6, <1>7, <1>8 DEF Good

(* What withdraw records *)
LEMMA RecordWithdrawGood ==
  ASSUME NEW c \in Seq(Tx), NEW s, Good(c, s), Initialized(s), NEW i \in Shard,
         NEW k \in DOMAIN c, StepTx(c[k], s.cat, i)
  PROVE  Good(c, RecordWithdraw(s, i, c[k], k))
  <1> DEFINE r == RecordWithdraw(s, i, c[k], k)
             new == {[txid |-> k, shard |-> i, sats |-> w.sats] : w \in c[k].pays}
  <1>1. s \in PoolState
        BY DEF Good
  <1>2. /\ r.cat = s.cat /\ r.shards = [s.shards EXCEPT ![i] = NextPointer(c[k], k)]
        /\ r.deposits = s.deposits /\ r.withdrawals = s.withdrawals \cup new
        BY <1>1 DEF RecordWithdraw, PoolState
  <1>3. r.shards \in [Shard -> Pointer] /\ Faithful(c, r)
        BY <1>2, PatchedPointersFaithful
  <1>4. k \in Nat
        BY AppendKeeps, LenProperties
  <1>5. \A w \in c[k].pays : w.sats \in Amount
        BY DEF StepTx, Tx, Payment
  <1>6. new \subseteq Withdrawal
        BY <1>4, <1>5 DEF Withdrawal
  <1>7. r \in PoolState
        BY <1>1, <1>2, <1>3, <1>6 DEF PoolState, RecordWithdraw
  <1>8. ImportsTruthful(c, r)
        BY <1>2 DEF Good, ImportsTruthful
  <1>9. WithdrawalsTruthful(c, r)
    <2> SUFFICES ASSUME NEW w \in r.withdrawals
                 PROVE  /\ w.txid \in DOMAIN c
                        /\ \E pay \in c[w.txid].pays : pay.sats = w.sats
                        /\ c[w.txid].outs[0].commit.shard = w.shard
        BY DEF WithdrawalsTruthful
    <2>1. CASE w \in s.withdrawals
          BY <2>1 DEF Good, WithdrawalsTruthful
    <2>2. CASE w \in new
      <3>1. PICK v \in c[k].pays : w = [txid |-> k, shard |-> i, sats |-> v.sats]
            BY <2>2
      <3> QED BY <3>1 DEF StepTx
    <2> QED BY <1>2, <2>1, <2>2
  <1> QED BY <1>3, <1>7, <1>8, <1>9 DEF Good

(* What any command records when the transaction it built has txid k *)
LEMMA RecordGood ==
  ASSUME NEW c \in Seq(Tx), NEW s, Good(c, s), NEW j \in Job, NEW k \in DOMAIN c,
         BuiltFrom(s, j), NEW m \in DOMAIN j.txs, c[k] = j.txs[m]
  PROVE  Good(c, Record(s, j, c[k], k))
  <1>1. CASE j.op = "init"
    <2>1. InitTx(c[k])
          BY <1>1 DEF BuiltFrom
    <2> QED BY <1>1, <2>1, RecordInitGood DEF Record
  <1>2. CASE j.op = "import"
    <2>1. Initialized(s) /\ StepTx(c[k], s.cat, j.shard) /\ j.shard \in Shard
          BY <1>2 DEF BuiltFrom, Job
    <2> QED BY <1>2, <2>1, RecordImportGood DEF Record
  <1>3. CASE j.op = "withdraw"
    <2>1. Initialized(s) /\ StepTx(c[k], s.cat, j.shard) /\ j.shard \in Shard
          BY <1>3 DEF BuiltFrom, Job
    <2> QED BY <1>3, <2>1, RecordWithdrawGood DEF Record
  <1>4. CASE j.op = "deposit"
        BY <1>4 DEF Record
  <1> QED BY <1>1, <1>2, <1>3, <1>4 DEF BuiltFrom

-----------------------------------------------------------------------------
(* The invariant holds at the start                                        *)

LEMMA EmptyStateGood ==
  ASSUME NEW c
  PROVE  Good(c, EmptyState)
  <1>1. 0 \in Shard
        BY SizesAssumption DEF Shard
  <1>2. EmptyState \in PoolState
        BY <1>1 DEF EmptyState, PoolState, Unstaged, DepositRecord
  <1>3. Faithful(c, EmptyState)
        BY DEF Faithful, Initialized, EmptyState
  <1>4. ImportsTruthful(c, EmptyState) /\ WithdrawalsTruthful(c, EmptyState)
        BY DEF ImportsTruthful, WithdrawalsTruthful, EmptyState, Unstaged
  <1> QED BY <1>2, <1>3, <1>4 DEF Good

LEMMA NoJobType == NoJob \in Job
  <1>1. 0 \in Shard
        BY SizesAssumption DEF Shard
  <1> QED BY <1>1 DEF NoJob, Job

LEMMA InitIInv == Init => IInv
  <1> SUFFICES ASSUME Init PROVE IInv
      OBVIOUS
  <1>1. TypeOK
    <2>1. EmptyState \in PoolState
          BY EmptyStateGood DEF Good
    <2> QED BY <2>1, NoJobType DEF Init, TypeOK
  <1>2. Good(chain, file) /\ \A p \in Proc : Good(chain, mem[p])
        BY EmptyStateGood DEF Init
  <1>3. \A p \in Proc : pc[p] # "send"
        BY DEF Init
  <1> QED BY <1>1, <1>2, <1>3 DEF IInv

-----------------------------------------------------------------------------
(* Commands                                                                *)

(* A command starts with a good copy and transactions built from it        *)
LEMMA BeginIInv ==
  ASSUME IInv, NEW p \in Proc, NEW j \in Job, NEW step \in {"send", "save"}, NEW copy,
         Good(chain, copy), step = "send" => BuiltFrom(copy, j),
         Begin(p, j, step, copy),
         UNCHANGED <<chain, received, elsewhere, wire, file, faults>>,
         req' \in [Req -> {"new", "asked", "done"}]
  PROVE  IInv'
  <1>1. /\ pc' = [pc EXCEPT ![p] = step] /\ mem' = [mem EXCEPT ![p] = copy]
        /\ job' = [job EXCEPT ![p] = j]
        BY DEF Begin
  <1>2. copy \in PoolState
        BY DEF Good
  <1>3. TypeOK'
        BY <1>1, <1>2 DEF IInv, TypeOK
  <1>4. Good(chain, file)'
        BY DEF IInv
  <1>5. \A q \in Proc : Good(chain, mem[q])'
        BY <1>1 DEF IInv, TypeOK
  <1>6. ASSUME NEW q \in Proc, pc'[q] = "send" PROVE BuiltFrom(mem'[q], job'[q])
    <2>1. CASE q = p
      <3>1. pc'[q] = step /\ mem'[q] = copy /\ job'[q] = j
            BY <1>1, <2>1 DEF IInv, TypeOK
      <3> QED BY <1>6, <3>1
    <2>2. CASE q # p
      <3>1. pc'[q] = pc[q] /\ mem'[q] = mem[q] /\ job'[q] = job[q]
            BY <1>1, <2>2 DEF IInv, TypeOK
      <3> QED BY <1>6, <3>1 DEF IInv
    <2> QED BY <2>1, <2>2
  <1> QED BY <1>3, <1>4, <1>5, <1>6 DEF IInv

LEMMA StartInitIInv ==
  ASSUME IInv, NEW p \in Proc, StartInit(p)
  PROVE  IInv'
  <1>1. PICK f \in Funding :
          /\ Begin(p, [NoJob EXCEPT !.op = "init", !.txs = <<InitShardsTx(f)>>], "send", file)
          /\ UNCHANGED <<chain, received, elsewhere, wire, file, req, faults>>
        BY DEF StartInit, UnspentFunding
  <1> DEFINE j == [NoJob EXCEPT !.op = "init", !.txs = <<InitShardsTx(f)>>]
  <1>2. j.op = "init" /\ j.txs = <<InitShardsTx(f)>>
        BY DEF NoJob
  <1>3. <<InitShardsTx(f)>> \in Seq(Tx)
        BY InitTxType
  <1>4. j \in Job
        BY <1>3, NoJobType DEF Job, NoJob
  <1>5. BuiltFrom(file, j)
    <2>1. \A k \in DOMAIN j.txs : j.txs[k] = InitShardsTx(f)
          BY <1>2
    <2> QED BY <1>2, <2>1 DEF BuiltFrom, InitTx
  <1>6. Good(chain, file) /\ req' \in [Req -> {"new", "asked", "done"}]
        BY <1>1 DEF IInv, TypeOK
  <1> HIDE DEF j
  <1> QED BY <1>1, <1>4, <1>5, <1>6, BeginIInv DEF j

LEMMA InitAgainIInv ==
  ASSUME IInv, NEW p \in Proc, InitAgain(p)
  PROVE  IInv'
  <1>1. [NoJob EXCEPT !.op = "touch"] \in Job
        BY NoJobType DEF Job, NoJob
  <1>2. Good(chain, file) /\ req' \in [Req -> {"new", "asked", "done"}]
        BY DEF InitAgain, IInv, TypeOK
  <1> QED BY <1>1, <1>2, BeginIInv DEF InitAgain

LEMMA StartDepositIInv ==
  ASSUME IInv, NEW p \in Proc, StartDeposit(p)
  PROVE  IInv'
  <1>1. PICK n \in Note :
          /\ Begin(p, [NoJob EXCEPT !.op = "deposit", !.note = {n}], "send", file)
          /\ UNCHANGED <<chain, received, elsewhere, wire, file, req, faults>>
        BY DEF StartDeposit
  <1> DEFINE j == [NoJob EXCEPT !.op = "deposit", !.note = {n}]
  <1>2. j \in Job /\ j.op = "deposit" /\ j.txs = <<>>
        BY NoJobType DEF Job, NoJob
  <1>3. Good(chain, file) /\ req' \in [Req -> {"new", "asked", "done"}]
        BY <1>1 DEF IInv, TypeOK
  <1>4. BuiltFrom(file, j)
        BY <1>2 DEF BuiltFrom
  <1> HIDE DEF j
  <1> QED BY <1>1, <1>2, <1>3, <1>4, BeginIInv DEF j

(* Staging touches the staged flag of one deposit only                     *)
LEMMA StageGood ==
  ASSUME NEW c, NEW s, Good(c, s), NEW n \in Note
  PROVE  Good(c, Stage(s, n))
  <1> DEFINE r == Stage(s, n)
  <1>1. s \in PoolState
        BY DEF Good
  <1>2. /\ r.cat = s.cat /\ r.shards = s.shards /\ r.withdrawals = s.withdrawals
        /\ r.deposits = [s.deposits EXCEPT ![n].staged = TRUE]
        BY <1>1 DEF Stage, PoolState
  <1>3. \A m \in Note : /\ r.deposits[m].importTx = s.deposits[m].importTx
                        /\ r.deposits[m].shard = s.deposits[m].shard
        BY <1>1, <1>2 DEF PoolState, DepositRecord
  <1>4. r.deposits \in [Note -> DepositRecord]
        BY <1>1, <1>2 DEF PoolState, DepositRecord
  <1>5. r \in PoolState
        BY <1>1, <1>2, <1>4 DEF PoolState, Stage
  <1>6. Faithful(c, r)
    <2> HIDE DEF r
    <2> QED BY <1>2 DEF Good, Faithful, FaithfulPointer, PointsAt, Initialized
  <1>7. ImportsTruthful(c, r) /\ WithdrawalsTruthful(c, r)
    <2> HIDE DEF r
    <2> QED BY <1>2, <1>3 DEF Good, ImportsTruthful, WithdrawalsTruthful
  <1> QED BY <1>5, <1>6, <1>7 DEF Good

LEMMA StageFromIInv ==
  ASSUME IInv, NEW p \in Proc, StageFrom(p)
  PROVE  IInv'
  <1>1. PICK n \in Note :
          /\ Begin(p, [NoJob EXCEPT !.op = "stage", !.note = {n}], "save", Stage(file, n))
          /\ UNCHANGED <<chain, received, elsewhere, wire, file, req, faults>>
        BY DEF StageFrom, IInv, TypeOK
  <1> DEFINE j == [NoJob EXCEPT !.op = "stage", !.note = {n}]
  <1>2. j \in Job
        BY NoJobType DEF Job, NoJob
  <1>3. Good(chain, Stage(file, n)) /\ req' \in [Req -> {"new", "asked", "done"}]
        BY <1>1, StageGood DEF IInv, TypeOK
  <1> HIDE DEF j
  <1> QED BY <1>1, <1>2, <1>3, BeginIInv DEF j

(* The transactions import is ready to try, one per category mode          *)
LEMMA ImportTriesType ==
  ASSUME NEW s, Good(chain, s), chain \in Seq(Tx), Initialized(s),
         NEW i \in Shard, NEW n \in Note, ImportBuilds(PrevoutOf(s.shards[i]), n)
  PROVE  /\ ImportTries(s, i, n) \in Seq(Tx)
         /\ \A k \in DOMAIN ImportTries(s, i, n) : StepTx(ImportTries(s, i, n)[k], s.cat, i)
  <1> DEFINE modes == ModeCandidates(ForcedMode)
             try(m) == ImportTx(s.cat, s.shards[i], PrevoutOf(s.shards[i]), n, modes[m])
  <1>1. Len(modes) \in Nat
        BY DEF ModeCandidates
  <1>2. PrevoutOf(s.shards[i]) = CellAt(chain, PointsAt(s, i))
        BY DEF PrevoutOf, PointsAt
  <1>3. \A m \in 1 .. Len(modes) : StepTx(try(m), s.cat, i)
        BY <1>2, ImportTxType
  <1>4. ImportTries(s, i, n) = [m \in 1 .. Len(modes) |-> try(m)]
        BY DEF ImportTries
  <1> HIDE DEF modes, try
  <1>5. \A m \in 1 .. Len(modes) : try(m) \in Tx
        BY <1>3 DEF StepTx
  <1>6. [m \in 1 .. Len(modes) |-> try(m)] \in Seq(Tx)
        BY <1>1, <1>5, IsASeq
  <1> QED BY <1>3, <1>4, <1>6

LEMMA StartImportIInv ==
  ASSUME IInv, NEW p \in Proc, StartImport(p)
  PROVE  IInv'
  <1>1. PICK n \in Note, i \in Shard :
          /\ Initialized(file)
          /\ ImportBuilds(PrevoutOf(file.shards[i]), n)
          /\ Begin(p, [op |-> "import", shard |-> i, note |-> {n}, req |-> {},
                       txs |-> ImportTries(file, i, n)], "send", file)
          /\ UNCHANGED <<chain, received, elsewhere, wire, file, req, faults>>
        BY DEF StartImport, IInv, TypeOK
  <1> DEFINE txs == ImportTries(file, i, n)
             j == [op |-> "import", shard |-> i, note |-> {n}, req |-> {}, txs |-> txs]
  <1>2. Good(chain, file) /\ chain \in Seq(Tx) /\ req' \in [Req -> {"new", "asked", "done"}]
        BY <1>1 DEF IInv, TypeOK
  <1>3. txs \in Seq(Tx) /\ \A k \in DOMAIN txs : StepTx(txs[k], file.cat, i)
        BY <1>1, <1>2, ImportTriesType
  <1> HIDE DEF txs
  <1>4. j \in Job
        BY <1>3 DEF Job
  <1>5. BuiltFrom(file, j)
        BY <1>1, <1>3 DEF BuiltFrom
  <1>6. Begin(p, j, "send", file)
        BY <1>1 DEF txs
  <1> HIDE DEF j
  <1> QED BY <1>1, <1>2, <1>4, <1>5, <1>6, BeginIInv

LEMMA StartWithdrawIInv ==
  ASSUME IInv, NEW p \in Proc, StartWithdraw(p)
  PROVE  IInv'
  <1>1. PICK r \in Req, i \in Shard :
          /\ Initialized(file)
          /\ \E fund \in FeeInputs(Want[r].external) :
               /\ WithdrawBuilds(PrevoutOf(file.shards[i]), Want[r].pay, fund)
               /\ Begin(p, [op |-> "withdraw", shard |-> i, note |-> {}, req |-> {r},
                            txs |-> <<WithdrawTx(file.cat, file.shards[i],
                                                 PrevoutOf(file.shards[i]), Want[r].pay, fund,
                                                 WithdrawMode(ForcedMode))>>], "send", file)
          /\ req' = [req EXCEPT ![r] = "asked"]
          /\ UNCHANGED <<chain, received, elsewhere, wire, file, faults>>
        BY DEF StartWithdraw
  <1>2. PICK fund \in SUBSET Funding :
               /\ WithdrawBuilds(PrevoutOf(file.shards[i]), Want[r].pay, fund)
               /\ Begin(p, [op |-> "withdraw", shard |-> i, note |-> {}, req |-> {r},
                            txs |-> <<WithdrawTx(file.cat, file.shards[i],
                                                 PrevoutOf(file.shards[i]), Want[r].pay, fund,
                                                 WithdrawMode(ForcedMode))>>], "send", file)
        BY <1>1 DEF FeeInputs, UnspentFunding
  <1> DEFINE t == WithdrawTx(file.cat, file.shards[i], PrevoutOf(file.shards[i]),
                             Want[r].pay, fund, WithdrawMode(ForcedMode))
             j == [op |-> "withdraw", shard |-> i, note |-> {}, req |-> {r}, txs |-> <<t>>]
  <1>3. Good(chain, file) /\ chain \in Seq(Tx) /\ req' \in [Req -> {"new", "asked", "done"}]
        BY <1>1 DEF IInv, TypeOK
  <1>4. Want[r].pay \in Payment
        BY OpsAssumption
  <1>5. PrevoutOf(file.shards[i]) = CellAt(chain, PointsAt(file, i))
        BY DEF PrevoutOf, PointsAt
  <1>6. StepTx(t, file.cat, i)
        BY <1>1, <1>2, <1>3, <1>4, <1>5, WithdrawTxType
  <1>7. Begin(p, j, "send", file)
        BY <1>2
  <1> HIDE DEF t
  <1>8. <<t>> \in Seq(Tx) /\ \A k \in DOMAIN <<t>> : <<t>>[k] = t
        BY <1>6 DEF StepTx
  <1>9. j \in Job
        BY <1>8 DEF Job
  <1>10. BuiltFrom(file, j)
        BY <1>1, <1>6, <1>8 DEF BuiltFrom
  <1> HIDE DEF j
  <1> QED BY <1>1, <1>3, <1>7, <1>9, <1>10, BeginIInv

-----------------------------------------------------------------------------
(* Answers                                                                 *)

(* The node's answer with a txid, whether it appended the transaction      *)
(* (chain grew by t) or knew it: the process's copy becomes the record     *)
LEMMA GetsTxidIInv ==
  ASSUME IInv, NEW p \in Proc, Sending(p), NEW txid \in DOMAIN chain',
         chain'[txid] = Head(job[p].txs), GetsTxid(p, txid),
         chain' \in Seq(Tx), \A s : Good(chain, s) => Good(chain', s),
         UNCHANGED <<received, elsewhere, wire, file, job, req, faults>>
  PROVE  IInv'
  <1> DEFINE t == Head(job[p].txs)
             r == Record(mem[p], job[p], t, txid)
  <1>1. /\ mem' = [mem EXCEPT ![p] = r] /\ pc' = [pc EXCEPT ![p] = "save"]
        BY DEF GetsTxid
  <1>2. job[p] \in Job /\ BuiltFrom(mem[p], job[p]) /\ Good(chain', mem[p])
        BY DEF Sending, IInv, TypeOK
  <1>3. 1 \in DOMAIN job[p].txs /\ t = job[p].txs[1]
        BY <1>2 DEF Sending, Job
  <1>4. Good(chain', r)
        BY <1>2, <1>3, RecordGood
  <1> HIDE DEF r
  <1>5. \A q \in Proc : Good(chain', mem'[q])
        BY <1>1, <1>4 DEF IInv, TypeOK
  <1>6. r \in PoolState
        BY <1>4 DEF Good
  <1>7. TypeOK'
        BY <1>1, <1>6 DEF IInv, TypeOK
  <1>8. Good(chain', file')
        BY DEF IInv
  <1>9. \A q \in Proc : pc'[q] = "send" => BuiltFrom(mem'[q], job'[q])
        BY <1>1 DEF IInv, TypeOK
  <1> QED BY <1>5, <1>7, <1>8, <1>9 DEF IInv

LEMMA NodeAcceptsIInv ==
  ASSUME IInv, NEW p \in Proc, NodeAccepts(p)
  PROVE  IInv'
  <1> DEFINE t == Head(job[p].txs)
  <1>1. /\ Sending(p) /\ chain' = Append(chain, t) /\ GetsTxid(p, Len(chain) + 1)
        /\ UNCHANGED <<received, elsewhere, wire, file, job, req, faults>>
        BY DEF NodeAccepts
  <1>2. chain \in Seq(Tx) /\ t \in Tx
        BY <1>1 DEF IInv, TypeOK, Job, Sending
  <1>3. /\ chain' \in Seq(Tx) /\ Len(chain) + 1 \in DOMAIN chain'
        /\ chain'[Len(chain) + 1] = t
        BY <1>1, <1>2, AppendKeeps
  <1>4. \A s : Good(chain, s) => Good(chain', s)
        BY <1>1, <1>2, GoodStays
  <1> QED BY <1>1, <1>3, <1>4, GetsTxidIInv

LEMMA NodeEchoesIInv ==
  ASSUME IInv, NEW p \in Proc, NodeEchoes(p)
  PROVE  IInv'
  <1> DEFINE t == Head(job[p].txs)
             k == TxidOf(chain, t)
  <1>1. /\ Sending(p) /\ Known(chain, t) /\ GetsTxid(p, k)
        /\ UNCHANGED <<chain, received, elsewhere, wire, file, job, req, faults>>
        BY DEF NodeEchoes
  <1>2. k \in DOMAIN chain /\ chain[k] = t
        BY <1>1 DEF Known, TxidOf
  <1>3. chain' \in Seq(Tx)
        BY <1>1 DEF IInv, TypeOK
  <1> HIDE DEF k
  <1> QED BY <1>1, <1>2, <1>3, GetsTxidIInv

LEMMA NodeFailsScriptIInv ==
  ASSUME IInv, NEW p \in Proc, NodeFailsScript(p)
  PROVE  IInv'
  <1>1. /\ job[p] \in Job /\ job[p].txs \in Seq(Tx) /\ job[p].txs # <<>>
        /\ job' = [job EXCEPT ![p].txs = Tail(job[p].txs)]
        /\ UNCHANGED <<chain, received, elsewhere, wire, file, mem, pc, req, faults>>
        /\ job[p].op = "import" /\ pc[p] = "send"
        BY DEF NodeFailsScript, Sending, IInv, TypeOK, Job
  <1>2. /\ Tail(job[p].txs) \in Seq(Tx)
        /\ \A k \in DOMAIN Tail(job[p].txs) :
             k + 1 \in DOMAIN job[p].txs /\ Tail(job[p].txs)[k] = job[p].txs[k + 1]
        BY <1>1
  <1>3. job' \in [Proc -> Job]
        BY <1>1, <1>2 DEF IInv, TypeOK, Job
  <1>4. TypeOK'
        BY <1>1, <1>3 DEF IInv, TypeOK
  <1>5. ASSUME NEW q \in Proc, pc'[q] = "send" PROVE BuiltFrom(mem'[q], job'[q])
    <2>1. BuiltFrom(mem[q], job[q])
          BY <1>1, <1>5 DEF IInv
    <2>2. CASE q = p
      <3>1. job'[q].op = "import" /\ job'[q].shard = job[q].shard /\ job'[q].txs = Tail(job[p].txs)
            BY <1>1, <2>2 DEF IInv, TypeOK, Job
      <3>2. Initialized(mem[p]) /\ \A k \in DOMAIN job[p].txs :
              StepTx(job[p].txs[k], mem[p].cat, job[p].shard)
            BY <1>1, <2>1, <2>2 DEF BuiltFrom
      <3> QED BY <1>1, <1>2, <2>2, <3>1, <3>2 DEF BuiltFrom
    <2>3. CASE q # p
      <3>1. job'[q] = job[q]
            BY <1>1, <2>3 DEF IInv, TypeOK
      <3> QED BY <1>1, <2>1, <3>1
    <2> QED BY <2>2, <2>3
  <1> QED BY <1>1, <1>4, <1>5 DEF IInv

(* A command that ends, with or without having saved its copy              *)
LEMMA EndsIInv ==
  ASSUME IInv, NEW p \in Proc, Ends(p), UNCHANGED <<chain, received, elsewhere>>,
         file' \in {file, mem[p]}, wire' \subseteq Tx,
         req' \in [Req -> {"new", "asked", "done"}], faults' \in Nat
  PROVE  IInv'
  <1>1. /\ pc' = [pc EXCEPT ![p] = "idle"] /\ mem' = [mem EXCEPT ![p] = EmptyState]
        /\ job' = [job EXCEPT ![p] = NoJob]
        BY DEF Ends
  <1>2. EmptyState \in PoolState
        BY EmptyStateGood DEF Good
  <1>3. file' \in PoolState
        BY DEF IInv, TypeOK
  <1>4. TypeOK'
        BY <1>1, <1>2, <1>3, NoJobType DEF IInv, TypeOK
  <1>5. Good(chain', file')
        BY DEF IInv
  <1>6. \A q \in Proc : Good(chain', mem'[q])
        BY <1>1, EmptyStateGood DEF IInv, TypeOK
  <1>7. \A q \in Proc : pc'[q] = "send" => BuiltFrom(mem'[q], job'[q])
        BY <1>1 DEF IInv, TypeOK
  <1> QED BY <1>4, <1>5, <1>6, <1>7 DEF IInv

LEMMA NodeRejectsIInv ==
  ASSUME IInv, NEW p \in Proc, NodeRejects(p)
  PROVE  IInv'
  <1>1. /\ Ends(p) /\ UNCHANGED <<chain, received, elsewhere, wire, file, req, faults>>
        BY DEF NodeRejects
  <1>2. wire' \subseteq Tx /\ req' \in [Req -> {"new", "asked", "done"}] /\ faults' \in Nat
        BY <1>1 DEF IInv, TypeOK
  <1> QED BY <1>1, <1>2, EndsIInv

(* The answer to a deposit stages its note                                 *)
LEMMA NodeCreatesNoteIInv ==
  ASSUME IInv, NEW p \in Proc, NodeCreatesNote(p)
  PROVE  IInv'
  <1>1. PICK n \in Note :
          /\ mem' = [mem EXCEPT ![p] = Stage(mem[p], n)]
          /\ received' = received \cup {n}
        BY DEF NodeCreatesNote, IInv, TypeOK, Job
  <1>2. /\ pc' = [pc EXCEPT ![p] = "save"]
        /\ UNCHANGED <<chain, elsewhere, wire, file, job, req, faults>>
        BY DEF NodeCreatesNote
  <1>3. Good(chain, Stage(mem[p], n))
        BY StageGood DEF IInv
  <1>4. Stage(mem[p], n) \in PoolState
        BY <1>3 DEF Good
  <1>5. TypeOK'
        BY <1>1, <1>2, <1>4 DEF IInv, TypeOK
  <1>6. \A q \in Proc : Good(chain', mem'[q])
        BY <1>1, <1>2, <1>3 DEF IInv, TypeOK
  <1>7. \A q \in Proc : pc'[q] = "send" => BuiltFrom(mem'[q], job'[q])
        BY <1>1, <1>2 DEF IInv, TypeOK
  <1> QED BY <1>1, <1>2, <1>5, <1>6, <1>7 DEF IInv

-----------------------------------------------------------------------------
(* Save, faults and the environment                                        *)

LEMMA SaveIInv ==
  ASSUME IInv, NEW p \in Proc, Save(p)
  PROVE  IInv'
  <1>1. /\ Ends(p) /\ file' = mem[p] /\ UNCHANGED <<chain, received, elsewhere, wire, faults>>
        /\ req' = [r \in Req |-> IF r \in job[p].req THEN "done" ELSE req[r]]
        BY DEF Save
  <1>2. wire' \subseteq Tx /\ req' \in [Req -> {"new", "asked", "done"}] /\ faults' \in Nat
        BY <1>1 DEF IInv, TypeOK
  <1> QED BY <1>1, <1>2, EndsIInv

LEMMA GivesUpIInv ==
  ASSUME IInv, NEW p \in Proc, GivesUp(p)
  PROVE  IInv'
  <1>1. /\ Ends(p) /\ faults' = faults + 1
        /\ wire' = wire \cup {job[p].txs[k] : k \in DOMAIN job[p].txs \cap {1}}
        /\ UNCHANGED <<chain, received, elsewhere, file, req>>
        BY DEF GivesUp
  <1>2. job[p].txs \in Seq(Tx)
        BY DEF IInv, TypeOK, Job
  <1>3. wire' \subseteq Tx
        BY <1>1, <1>2 DEF IInv, TypeOK
  <1>4. req' \in [Req -> {"new", "asked", "done"}] /\ faults' \in Nat
        BY <1>1 DEF IInv, TypeOK
  <1> QED BY <1>1, <1>3, <1>4, EndsIInv

LEMMA CrashIInv ==
  ASSUME IInv, NEW p \in Proc, Crash(p)
  PROVE  IInv'
  <1>1. /\ Ends(p) /\ faults' = faults + 1
        /\ UNCHANGED <<chain, received, elsewhere, wire, file, req>>
        BY DEF Crash
  <1>2. wire' \subseteq Tx /\ req' \in [Req -> {"new", "asked", "done"}] /\ faults' \in Nat
        BY <1>1 DEF IInv, TypeOK
  <1> QED BY <1>1, <1>2, EndsIInv

LEMMA EnvironmentIInv ==
  ASSUME IInv, Environment
  PROVE  IInv'
  <1>1. CASE ArrivesLate
    <2>1. PICK t \in wire :
            /\ chain' = Append(chain, t) /\ wire' = wire \ {t}
            /\ UNCHANGED <<received, elsewhere, file, mem, pc, job, req, faults>>
          BY <1>1 DEF ArrivesLate
    <2>2. chain \in Seq(Tx) /\ t \in Tx
          BY DEF IInv, TypeOK
    <2>3. chain' \in Seq(Tx)
          BY <2>1, <2>2, AppendKeeps
    <2>4. \A s : Good(chain, s) => Good(chain', s)
          BY <2>1, <2>2, GoodStays
    <2>5. TypeOK'
          BY <2>1, <2>3 DEF IInv, TypeOK
    <2> QED BY <2>1, <2>4, <2>5 DEF IInv
  <1>2. CASE Receive
        BY <1>2 DEF Receive, IInv, TypeOK
  <1>3. CASE SpendElsewhere
        BY <1>3 DEF SpendElsewhere, UnspentNotes, IInv, TypeOK
  <1> QED BY <1>1, <1>2, <1>3 DEF Environment

LEMMA NextIInv == IInv /\ [Next]_vars => IInv'
  <1> SUFFICES ASSUME IInv, [Next]_vars PROVE IInv'
      OBVIOUS
  <1>1. ASSUME NEW p \in Proc, Command(p) PROVE IInv'
        BY <1>1, StartInitIInv, InitAgainIInv, StartDepositIInv, StageFromIInv,
           StartImportIInv, StartWithdrawIInv DEF Command
  <1>2. ASSUME NEW p \in Proc, Answer(p) PROVE IInv'
        BY <1>2, NodeAcceptsIInv, NodeEchoesIInv, NodeFailsScriptIInv, NodeRejectsIInv,
           NodeCreatesNoteIInv DEF Answer
  <1>3. ASSUME NEW p \in Proc, Save(p) \/ Fault(p) PROVE IInv'
        BY <1>3, SaveIInv, GivesUpIInv, CrashIInv DEF Fault
  <1>4. CASE Environment
        BY <1>4, EnvironmentIInv
  <1>5. CASE UNCHANGED vars
        BY <1>5 DEF vars, IInv, TypeOK
  <1> QED BY <1>1, <1>2, <1>3, <1>4, <1>5 DEF Next

-----------------------------------------------------------------------------
(* Theorems                                                                *)

LEMMA Invariant == Spec => []IInv
  BY InitIInv, NextIInv, PTL DEF Spec

(* Types: in particular no pointer value, shard value or commitment ever   *)
(* leaves its range, whatever a command built from its copy                *)
THEOREM TypeCorrect == Spec => []TypeOK
  <1>1. IInv => TypeOK
        BY DEF IInv
  <1> QED BY <1>1, Invariant, PTL

(* patchShardFromNextPoolState and saveState: saved pointers and copies in *)
(* memory may be old, they are never false, under every interleaving,      *)
(* crash, lost reply and late transaction                                  *)
THEOREM PointersNeverFalse == Spec => []StateFaithful
  <1>1. IInv => StateFaithful
        BY DEF IInv, Good, StateFaithful
  <1> QED BY <1>1, Invariant, PTL

(* The deposit and withdrawal history saved by any command is true of the  *)
(* chain                                                                   *)
THEOREM HistoryNeverFalse == Spec => []RecordsTruthful
  <1>1. IInv => RecordsTruthful
        BY DEF IInv, Good, RecordsTruthful
  <1> QED BY <1>1, Invariant, PTL

-----------------------------------------------------------------------------
(***************************************************************************)
(* Part 2.  The chain.                                                     *)
(*                                                                         *)
(* The chain that the pool commands and the node produce is a ledger, for  *)
(* every number of shards, pools, processes and faults: no shard forks or  *)
(* is lost (UniqueThread), and each step of PoolOps is a step of           *)
(* PoolLedger or changes nothing there (ImplementsLedger).                 *)
(*                                                                         *)
(* Both are about the chain, but the chain alone does not keep them: the   *)
(* node accepts what it is sent if the covenant does, and the covenant     *)
(* compares a commitment only.  LInv therefore adds that whatever may      *)
(* still reach the node was made by a builder from outputs of this chain   *)
(* (Pending), and that each shard has a tip: the last transaction that     *)
(* touches it, whose output is the shard's only unspent one (Threads).     *)
(***************************************************************************)

(* The operators of PoolOps that read the chain, for any chain *)
PoolsIn(c) == UNION {c[k].fund : k \in {l \in DOMAIN c : c[l].ins = {}}}
OfThread(cell, f, i) == cell.commit.cat = f /\ cell.commit.shard = i
ThreadIn(c, f, i) == {o \in Live(c) : OfThread(CellAt(c, o), f, i)}
TouchesIn(c, k, f, i) == \E v \in DOMAIN c[k].outs : OfThread(c[k].outs[v], f, i)

(* The output for shard i of transaction k, and when k is the shard's tip *)
TipAt(c, k, i) == [txid |-> k, vout |-> IF c[k].ins = {} THEN i + 1 ELSE 0]
IsTip(c, k, f, i) ==
  /\ ThreadIn(c, f, i) = {TipAt(c, k, i)}
  /\ TouchesIn(c, k, f, i)
  /\ \A l \in DOMAIN c : TouchesIn(c, l, f, i) => l <= k

Threads(c) ==
  /\ c \in Seq(Tx)
  /\ Spent(c) \subseteq Made(c)
  /\ \A o \in Made(c) : CellAt(c, o).commit.cat \in PoolsIn(c)
  /\ \A f \in PoolsIn(c), i \in Shard : \E k \in DOMAIN c : IsTip(c, k, f, i)

(* What importDepositToShard makes of output o of chain c, note n and byte *)
(* order m, and withdrawFromShard of o, a payment and its fee              *)
MakesImport(c, t, o, n, m) ==
  /\ t.notes = {n} /\ t.pays = {}
  /\ t.outs[0].value = CellAt(c, o).value + NoteValue[n] - Fee
  /\ t.outs[0].commit = StateOut(CellAt(c, o).commit, NoteFold(n, m))
MakesWithdrawal(c, t, o, pay, fee, m) ==
  /\ t.notes = {} /\ t.pays = {pay} /\ pay.sats >= Dust /\ fee = FeeFromShard(t.fund)
  /\ t.outs[0].value = CellAt(c, o).value - pay.sats - fee
  /\ t.outs[0].commit = StateOut(CellAt(c, o).commit, Nullifier(pay, m))
Spends(c, t, o) ==
  /\ t \in Tx /\ t.ins = {o} /\ t.outs \in [{0} -> Cell]
  /\ t.outs[0].cat = CellAt(c, o).cat
  /\ \/ \E n \in Note, m \in Mode : MakesImport(c, t, o, n, m)
     \/ \E pay \in Payment, fee \in {0, Fee}, m \in Mode : MakesWithdrawal(c, t, o, pay, fee, m)
MadeFrom(c, t) == InitTx(t) \/ \E o \in Made(c) : Spends(c, t, o)

Pending ==
  /\ \A t \in wire : MadeFrom(chain, t)
  /\ \A p \in Proc : \A k \in DOMAIN job[p].txs : MadeFrom(chain, job[p].txs[k])

LInv == Threads(chain) /\ Pending

-----------------------------------------------------------------------------
(* A chain that grows by one transaction *)

New(c, t) == {[txid |-> Len(c) + 1, vout |-> v] : v \in DOMAIN t.outs}

(* What is made and spent, and by which pools, after one more transaction *)
LEMMA Grown ==
  ASSUME NEW c \in Seq(Tx), NEW t \in Tx
  PROVE  LET d == Append(c, t) IN
         /\ Made(d) = Made(c) \cup New(c, t)
         /\ Spent(d) = Spent(c) \cup t.ins
         /\ PoolsIn(d) = PoolsIn(c) \cup (IF t.ins = {} THEN t.fund ELSE {})
         /\ \A v \in DOMAIN t.outs : CellAt(d, [txid |-> Len(c) + 1, vout |-> v]) = t.outs[v]
         /\ \A o \in Made(c) : o.txid \in DOMAIN c /\ CellAt(d, o) = CellAt(c, o)
         /\ Made(c) \cap New(c, t) = {}
  <1> DEFINE d == Append(c, t)
             n == Len(c) + 1
  <1>1. /\ d \in Seq(Tx) /\ DOMAIN d = DOMAIN c \cup {n} /\ DOMAIN c = 1 .. Len(c) /\ n \notin DOMAIN c
        /\ d[n] = t /\ \A k \in DOMAIN c : d[k] = c[k]
        BY AppendKeeps
  <1> HIDE DEF d, n
  <1>2. \A k \in DOMAIN c : OutpointsOf(d, k) = OutpointsOf(c, k)
        BY <1>1 DEF OutpointsOf
  <1>3. OutpointsOf(d, n) = New(c, t)
        BY <1>1 DEF OutpointsOf, New, n
  <1>4. Made(d) = Made(c) \cup New(c, t)
        BY <1>1, <1>2, <1>3 DEF Made
  <1>5. Spent(d) = Spent(c) \cup t.ins
        BY <1>1 DEF Spent
  <1>6. PoolsIn(d) = PoolsIn(c) \cup (IF t.ins = {} THEN t.fund ELSE {})
        BY <1>1 DEF PoolsIn
  <1>7. \A v \in DOMAIN t.outs : CellAt(d, [txid |-> n, vout |-> v]) = t.outs[v]
        BY <1>1 DEF CellAt
  <1>8. \A o \in Made(c) : o.txid \in DOMAIN c
        BY DEF Made, OutpointsOf
  <1>9. \A o \in Made(c) : CellAt(d, o) = CellAt(c, o)
        BY <1>1, <1>8 DEF CellAt
  <1>10. Made(c) \cap New(c, t) = {}
        BY <1>1, <1>8 DEF New, n
  <1> QED BY <1>4, <1>5, <1>6, <1>7, <1>8, <1>9, <1>10 DEF d, n

(* A transaction whose inputs are live replaces them by its outputs *)
LEMMA LiveGrows ==
  ASSUME NEW c, Threads(c), NEW t \in Tx, t.ins \subseteq Live(c)
  PROVE  /\ Live(Append(c, t)) = (Live(c) \ t.ins) \cup New(c, t)
         /\ Spent(Append(c, t)) \subseteq Made(Append(c, t))
  <1>1. c \in Seq(Tx) /\ Spent(c) \subseteq Made(c)
        BY DEF Threads
  <1>2. /\ Made(Append(c, t)) = Made(c) \cup New(c, t) /\ Spent(Append(c, t)) = Spent(c) \cup t.ins
        /\ Made(c) \cap New(c, t) = {}
        BY <1>1, Grown
  <1> QED BY <1>1, <1>2 DEF Live

(* the outputs of every transaction are cells with a shard of the pool *)
LEMMA MadeAreCells ==
  ASSUME NEW c, Threads(c), NEW o \in Made(c)
  PROVE  LET cell == CellAt(c, o) IN
         /\ cell \in Cell /\ cell.commit \in Commitment
         /\ cell.commit.shard \in Shard /\ cell.commit.cat \in PoolsIn(c)
  BY PrevoutIsCell DEF Threads, Cell, Commitment

(* A thread that a transaction neither spends from nor adds to keeps its tip *)
LEMMA TipStays ==
  ASSUME NEW c, Threads(c), NEW t \in Tx, t.ins \subseteq Live(c),
         NEW f, NEW i \in Shard, NEW k \in DOMAIN c, IsTip(c, k, f, i),
         \A o \in t.ins : ~OfThread(CellAt(c, o), f, i),
         \A v \in DOMAIN t.outs : ~OfThread(t.outs[v], f, i)
  PROVE  IsTip(Append(c, t), k, f, i)
  <1> DEFINE d == Append(c, t)
             n == Len(c) + 1
  <1>1. /\ c \in Seq(Tx) /\ DOMAIN d = DOMAIN c \cup {n} /\ d[n] = t
        /\ \A l \in DOMAIN c : l \in DOMAIN d /\ d[l] = c[l]
        BY AppendKeeps DEF Threads
  <1>2. Live(d) = (Live(c) \ t.ins) \cup New(c, t) /\ Live(c) \subseteq Made(c)
        BY LiveGrows DEF Live
  <1>3. \A o \in Made(c) : CellAt(d, o) = CellAt(c, o)
        BY <1>1, Grown
  <1>4. \A v \in DOMAIN t.outs : CellAt(d, [txid |-> n, vout |-> v]) = t.outs[v]
        BY <1>1, Grown
  <1> HIDE DEF d
  <1>5. \A o \in New(c, t) : ~OfThread(CellAt(d, o), f, i)
        BY <1>4 DEF New
  <1>6. ThreadIn(d, f, i) = ThreadIn(c, f, i)
        BY <1>2, <1>3, <1>5 DEF ThreadIn
  <1>7. TipAt(d, k, i) = TipAt(c, k, i)
        BY <1>1 DEF TipAt
  <1>8. \A l \in DOMAIN c : TouchesIn(d, l, f, i) = TouchesIn(c, l, f, i)
        BY <1>1 DEF TouchesIn
  <1>9. ~TouchesIn(d, n, f, i)
        BY <1>1 DEF TouchesIn
  <1> QED BY <1>1, <1>6, <1>7, <1>8, <1>9 DEF IsTip, d

(* initShardsTx opens the threads of a new pool *)
LEMMA InitGrows ==
  ASSUME NEW c, Threads(c), NEW f \in Funding, f \notin PoolsIn(c)
  PROVE  /\ Threads(Append(c, InitShardsTx(f)))
         /\ \A i \in Shard : IsTip(Append(c, InitShardsTx(f)), Len(c) + 1, f, i)
         /\ \A g \in PoolsIn(c), i \in Shard, k \in DOMAIN c :
              IsTip(c, k, g, i) => IsTip(Append(c, InitShardsTx(f)), k, g, i)
  <1> DEFINE t == InitShardsTx(f)
             d == Append(c, t)
             n == Len(c) + 1
  <1>1. /\ t \in Tx /\ t.ins = {} /\ t.fund = {f} /\ DOMAIN t.outs = 1 .. NShards
        /\ \A v \in 1 .. NShards : t.outs[v].commit.cat = f /\ t.outs[v].commit.shard = v - 1
        BY InitTxType DEF InitShardsTx, GenesisCommitment
  <1> HIDE DEF t
  <1>2. /\ c \in Seq(Tx) /\ d \in Seq(Tx) /\ DOMAIN d = DOMAIN c \cup {n} /\ d[n] = t
        /\ DOMAIN c = 1 .. Len(c) /\ Len(c) \in Nat
        /\ \A l \in DOMAIN c : l \in DOMAIN d /\ d[l] = c[l]
        BY <1>1, AppendKeeps DEF Threads
  <1>3a. PoolsIn(d) = PoolsIn(c) \cup (IF t.ins = {} THEN t.fund ELSE {})
        BY <1>1, <1>2, Grown
  <1>3b. /\ Made(d) = Made(c) \cup New(c, t)
         /\ \A v \in DOMAIN t.outs : CellAt(d, [txid |-> n, vout |-> v]) = t.outs[v]
         /\ \A o \in Made(c) : CellAt(d, o) = CellAt(c, o)
    <2>1. t \in Tx /\ c \in Seq(Tx)
          BY <1>1, <1>2
    <2> QED BY <2>1, Grown
  <1>3. /\ Made(d) = Made(c) \cup New(c, t) /\ PoolsIn(d) = PoolsIn(c) \cup {f}
        /\ \A v \in DOMAIN t.outs : CellAt(d, [txid |-> n, vout |-> v]) = t.outs[v]
        /\ \A o \in Made(c) : CellAt(d, o) = CellAt(c, o)
        BY <1>1, <1>3a, <1>3b
  <1>4. Live(d) = Live(c) \cup New(c, t) /\ Spent(d) \subseteq Made(d) /\ Live(c) \subseteq Made(c)
        BY <1>1, LiveGrows DEF Live
  <1> HIDE DEF d
  <1>5. \A i \in Shard : i + 1 \in 1 .. NShards /\ (i + 1) - 1 = i
        BY SizesAssumption DEF Shard
  <1>6. \A o \in Made(c) : CellAt(c, o).commit.cat # f
        BY DEF Threads
  <1>7. ASSUME NEW i \in Shard PROVE IsTip(d, n, f, i)
    <2>1. TipAt(d, n, i) = [txid |-> n, vout |-> i + 1]
          BY <1>1, <1>2 DEF TipAt
    <2>2. ASSUME NEW o \in Live(d), OfThread(CellAt(d, o), f, i) PROVE o = [txid |-> n, vout |-> i + 1]
      <3>1. o \in New(c, t)
            BY <2>2, <1>3, <1>4, <1>6 DEF OfThread
      <3>2. PICK v \in 1 .. NShards : o = [txid |-> n, vout |-> v]
            BY <3>1, <1>1 DEF New
      <3>3. v - 1 = i
            BY <3>2, <2>2, <1>1, <1>3 DEF OfThread
      <3> QED BY <3>2, <3>3 DEF Shard
    <2>3. [txid |-> n, vout |-> i + 1] \in Live(d) /\ OfThread(t.outs[i + 1], f, i)
          BY <1>1, <1>4, <1>5 DEF New, OfThread
    <2>4. ThreadIn(d, f, i) = {TipAt(d, n, i)}
          BY <2>1, <2>2, <2>3, <1>1, <1>3, <1>5 DEF ThreadIn
    <2>5. TouchesIn(d, n, f, i)
          BY <2>3, <1>1, <1>2, <1>5 DEF TouchesIn
    <2> QED BY <2>4, <2>5, <1>2 DEF IsTip
  <1>8. ASSUME NEW g \in PoolsIn(c), NEW i \in Shard, NEW k \in DOMAIN c, IsTip(c, k, g, i)
        PROVE  IsTip(d, k, g, i)
        BY <1>1, <1>8, TipStays DEF OfThread, d
  <1>9. \A o \in Made(d) : CellAt(d, o).commit.cat \in PoolsIn(d)
    <2>1. \A o \in Made(c) : CellAt(d, o).commit.cat \in PoolsIn(d)
          BY <1>3 DEF Threads
    <2>2. \A o \in New(c, t) : CellAt(d, o).commit.cat \in PoolsIn(d)
          BY <1>1, <1>3 DEF New
    <2> QED BY <2>1, <2>2, <1>3
  <1>10. \A g \in PoolsIn(d), i \in Shard : \E k \in DOMAIN d : IsTip(d, k, g, i)
        BY <1>2, <1>3, <1>7, <1>8 DEF Threads
  <1> QED BY <1>2, <1>4, <1>7, <1>8, <1>9, <1>10 DEF Threads, d, t

(* The covenant lets a shard go on only in its own thread *)
LEMMA SpendGrows ==
  ASSUME NEW c, Threads(c), NEW o \in Live(c), NEW t, Spends(c, t, o)
  PROVE  LET f == CellAt(c, o).commit.cat
             i == CellAt(c, o).commit.shard
         IN  /\ Threads(Append(c, t)) /\ PoolsIn(Append(c, t)) = PoolsIn(c)
             /\ f \in PoolsIn(c) /\ i \in Shard
             /\ IsTip(Append(c, t), Len(c) + 1, f, i)
             /\ \A g \in PoolsIn(c), j \in Shard, k \in DOMAIN c :
                  (g # f \/ j # i) /\ IsTip(c, k, g, j) => IsTip(Append(c, t), k, g, j)
  <1> DEFINE d == Append(c, t)
             n == Len(c) + 1
             f == CellAt(c, o).commit.cat
             i == CellAt(c, o).commit.shard
  <1>1. /\ t \in Tx /\ t.ins = {o} /\ DOMAIN t.outs = {0} /\ t.outs[0] \in Cell
        /\ t.ins \subseteq Live(c)
        BY DEF Spends
  <1>2. o \in Made(c) /\ Live(c) \subseteq Made(c)
        BY DEF Live
  <1>3. f \in PoolsIn(c) /\ i \in Shard /\ CellAt(c, o).commit \in Commitment
        BY <1>2, MadeAreCells
  <1>4. t.outs[0].commit.cat = f /\ t.outs[0].commit.shard = i
        BY <1>3 DEF Spends, MakesImport, MakesWithdrawal, StateOut, Commitment
  <1> HIDE DEF f, i
  <1>5. /\ c \in Seq(Tx) /\ d \in Seq(Tx) /\ DOMAIN d = DOMAIN c \cup {n} /\ d[n] = t
        /\ DOMAIN c = 1 .. Len(c) /\ Len(c) \in Nat
        /\ \A l \in DOMAIN c : l \in DOMAIN d /\ d[l] = c[l]
        BY <1>1, AppendKeeps DEF Threads
  <1>6a. PoolsIn(d) = PoolsIn(c) \cup (IF t.ins = {} THEN t.fund ELSE {})
        BY <1>1, <1>5, Grown
  <1>6. /\ Made(d) = Made(c) \cup New(c, t) /\ PoolsIn(d) = PoolsIn(c)
        /\ CellAt(d, [txid |-> n, vout |-> 0]) = t.outs[0]
        /\ \A q \in Made(c) : CellAt(d, q) = CellAt(c, q)
        BY <1>1, <1>5, <1>6a, Grown
  <1>7. Live(d) = (Live(c) \ {o}) \cup New(c, t) /\ Spent(d) \subseteq Made(d)
        BY <1>1, LiveGrows
  <1>8. New(c, t) = {[txid |-> n, vout |-> 0]}
        BY <1>1 DEF New
  <1> HIDE DEF d
  <1>9. ThreadIn(c, f, i) = {o}
    <2>1. PICK k \in DOMAIN c : IsTip(c, k, f, i)
          BY <1>3 DEF Threads
    <2>2. o \in ThreadIn(c, f, i)
          BY DEF ThreadIn, OfThread, f, i
    <2> QED BY <2>1, <2>2 DEF IsTip
  <1>10. IsTip(d, n, f, i)
    <2>1. TipAt(d, n, i) = [txid |-> n, vout |-> 0]
          BY <1>1, <1>5 DEF TipAt
    <2>2. OfThread(t.outs[0], f, i) /\ OfThread(CellAt(c, o), f, i)
          BY <1>4 DEF OfThread, f, i
    <2>3. ThreadIn(d, f, i) = {[txid |-> n, vout |-> 0]}
      <3>1. \A q \in Live(c) \ {o} : ~OfThread(CellAt(d, q), f, i)
            BY <1>2, <1>6, <1>9 DEF ThreadIn
      <3> QED BY <3>1, <2>2, <1>6, <1>7, <1>8 DEF ThreadIn
    <2>4. TouchesIn(d, n, f, i)
          BY <2>2, <1>1, <1>5 DEF TouchesIn
    <2> QED BY <2>1, <2>3, <2>4, <1>5 DEF IsTip
  <1>11. ASSUME NEW g \in PoolsIn(c), NEW j \in Shard, NEW k \in DOMAIN c, g # f \/ j # i,
                IsTip(c, k, g, j)
         PROVE  IsTip(d, k, g, j)
        BY <1>1, <1>4, <1>11, TipStays DEF OfThread, d, f, i
  <1>12. \A q \in Made(d) : CellAt(d, q).commit.cat \in PoolsIn(d)
        BY <1>3, <1>4, <1>6, <1>8 DEF Threads
  <1>13. \A g \in PoolsIn(d), j \in Shard : \E k \in DOMAIN d : IsTip(d, k, g, j)
        BY <1>5, <1>6, <1>10, <1>11 DEF Threads
  <1> QED BY <1>3, <1>5, <1>6, <1>7, <1>10, <1>11, <1>12, <1>13 DEF Threads, d, f, i

-----------------------------------------------------------------------------
(* What the commands build and the node accepts *)

(* A transaction built on a chain is built on every longer one *)
LEMMA MadeFromStays ==
  ASSUME NEW c \in Seq(Tx), NEW t \in Tx, NEW u, MadeFrom(c, u)
  PROVE  MadeFrom(Append(c, t), u)
  <1>1. CASE InitTx(u)
        BY <1>1 DEF MadeFrom
  <1>2. CASE \E o \in Made(c) : Spends(c, u, o)
    <2>1. PICK o \in Made(c) : Spends(c, u, o)
          BY <1>2
    <2>2. o \in Made(Append(c, t)) /\ CellAt(Append(c, t), o) = CellAt(c, o)
          BY MadeStays
    <2>3. Spends(Append(c, t), u, o)
          BY <2>1, <2>2 DEF Spends, MakesImport, MakesWithdrawal
    <2> QED BY <2>2, <2>3 DEF MadeFrom
  <1> QED BY <1>1, <1>2 DEF MadeFrom

(* The byte order hashed is the normal form of the one asked for *)
LEMMA NormalMode ==
  /\ \A mode : NormalizeCategoryMode(NormalizeCategoryMode(mode)) = NormalizeCategoryMode(mode)
  /\ \A n, mode : NoteFold(n, NormalizeCategoryMode(mode)) = NoteFold(n, mode)
  /\ \A pay, mode : Nullifier(pay, NormalizeCategoryMode(mode)) = Nullifier(pay, mode)
  /\ NormalizeCategoryMode(CovenantMode) = CovenantMode
  BY SizesAssumption DEF NormalizeCategoryMode, NoteFold, Nullifier, Mode

(* importDepositToShard spends the output a true pointer names *)
LEMMA ImportIsMade ==
  ASSUME NEW c \in Seq(Tx), NEW s, Good(c, s), Initialized(s), NEW i \in Shard,
         NEW n \in Note, NEW mode, ImportBuilds(CellAt(c, PointsAt(s, i)), n)
  PROVE  MadeFrom(c, ImportTx(s.cat, s.shards[i], CellAt(c, PointsAt(s, i)), n, mode))
  <1> DEFINE o == PointsAt(s, i)
             t == ImportTx(s.cat, s.shards[i], CellAt(c, o), n, mode)
             m == NormalizeCategoryMode(mode)
  <1>1. FaithfulPointer(c, s, i)
        BY DEF Good, Faithful
  <1>2. o \in Made(c) /\ CellAt(c, o).commit = s.shards[i].commit /\ CellAt(c, o).cat = s.cat
        BY <1>1 DEF FaithfulPointer
  <1>3. t \in Tx /\ t.outs \in [{0} -> Cell]
        BY ImportTxType DEF StepTx
  <1>4. /\ t.ins = {o} /\ t.notes = {n} /\ t.pays = {}
        /\ t.outs[0] = [cat |-> s.cat, value |-> CellAt(c, o).value + NoteValue[n] - Fee,
                        commit |-> StateOut(s.shards[i].commit, NoteFold(n, mode))]
        BY DEF ImportTx, PointsAt
  <1>5. m \in Mode /\ NoteFold(n, m) = NoteFold(n, mode)
        BY ModeType, NormalMode
  <1> HIDE DEF t, o, m
  <1>6. MakesImport(c, t, o, n, m)
        BY <1>2, <1>4, <1>5 DEF MakesImport
  <1>7. Spends(c, t, o)
        BY <1>2, <1>3, <1>4, <1>5, <1>6 DEF Spends
  <1> QED BY <1>2, <1>7 DEF MadeFrom, t, o

(* withdrawFromShard spends the output a true pointer names *)
LEMMA WithdrawIsMade ==
  ASSUME NEW c \in Seq(Tx), NEW s, Good(c, s), Initialized(s), NEW i \in Shard,
         NEW pay \in Payment, NEW fund \in SUBSET Funding, NEW mode,
         WithdrawBuilds(CellAt(c, PointsAt(s, i)), pay, fund)
  PROVE  MadeFrom(c, WithdrawTx(s.cat, s.shards[i], CellAt(c, PointsAt(s, i)), pay, fund, mode))
  <1> DEFINE o == PointsAt(s, i)
             t == WithdrawTx(s.cat, s.shards[i], CellAt(c, o), pay, fund, mode)
             m == NormalizeCategoryMode(mode)
             fee == FeeFromShard(fund)
  <1>1. FaithfulPointer(c, s, i)
        BY DEF Good, Faithful
  <1>2. o \in Made(c) /\ CellAt(c, o).cat = s.cat
        BY <1>1 DEF FaithfulPointer
  <1>3. t \in Tx /\ t.outs \in [{0} -> Cell]
        BY WithdrawTxType DEF StepTx
  <1>4. /\ t.ins = {o} /\ t.notes = {} /\ t.pays = {pay} /\ pay.sats >= Dust /\ fee = FeeFromShard(t.fund)
        /\ t.outs[0] = [cat |-> s.cat, value |-> CellAt(c, o).value - pay.sats - fee,
                        commit |-> StateOut(CellAt(c, o).commit, Nullifier(pay, mode))]
        BY DEF WithdrawTx, PointsAt, WithdrawBuilds
  <1>5. m \in Mode /\ Nullifier(pay, m) = Nullifier(pay, mode) /\ fee \in {0, Fee}
        BY ModeType, NormalMode DEF FeeFromShard
  <1> HIDE DEF t, o, m, fee
  <1>6. MakesWithdrawal(c, t, o, pay, fee, m)
        BY <1>4, <1>5 DEF MakesWithdrawal
  <1>7. Spends(c, t, o)
        BY <1>2, <1>3, <1>4, <1>5, <1>6 DEF Spends
  <1> QED BY <1>2, <1>7 DEF MadeFrom, t, o

(* What the node takes is the opening of a new pool, or spends one live output *)
LEMMA AcceptedIs ==
  ASSUME Threads(chain), NEW t, MadeFrom(chain, t), Acceptable(t)
  PROVE  \/ \E f \in Funding : t = InitShardsTx(f) /\ f \notin PoolsIn(chain)
         \/ \E o \in Live(chain) : Spends(chain, t, o)
  <1>1. CASE InitTx(t)
    <2>1. PICK f \in Funding : t = InitShardsTx(f)
          BY <1>1 DEF InitTx
    <2>2. t.fund = {f} /\ t.fund \cap FundingSpent(chain) = {}
          BY <2>1 DEF InitShardsTx, Acceptable, InputsLive
    <2>3. PoolsIn(chain) \subseteq FundingSpent(chain)
          BY DEF PoolsIn, FundingSpent
    <2> QED BY <2>1, <2>2, <2>3
  <1>2. CASE \E o \in Made(chain) : Spends(chain, t, o)
        BY <1>2 DEF Spends, Acceptable, InputsLive
  <1> QED BY <1>1, <1>2 DEF MadeFrom

(* ... so that the threads stay what they are *)
LEMMA AcceptedKeepsThreads ==
  ASSUME Threads(chain), NEW t, MadeFrom(chain, t), Acceptable(t)
  PROVE  Threads(Append(chain, t)) /\ t \in Tx
  BY AcceptedIs, InitGrows, SpendGrows, InitTxType DEF Spends

-----------------------------------------------------------------------------
(* LInv, action by action *)

LEMMA InitLInv == Init => LInv
  <1> SUFFICES ASSUME Init PROVE LInv
      OBVIOUS
  <1>1. chain = <<>> /\ chain \in Seq(Tx) /\ DOMAIN chain = {}
        BY DEF Init
  <1>2. Made(chain) = {} /\ Spent(chain) = {} /\ PoolsIn(chain) = {}
        BY <1>1 DEF Made, Spent, PoolsIn
  <1>3. Threads(chain)
        BY <1>1, <1>2 DEF Threads
  <1>4. wire = {} /\ \A p \in Proc : DOMAIN job[p].txs = {}
        BY DEF Init, NoJob
  <1> QED BY <1>3, <1>4 DEF LInv, Pending

(* A command that starts with transactions made from the chain *)
LEMMA BeginLInv ==
  ASSUME IInv, LInv, NEW p \in Proc, NEW j, NEW step, NEW copy, Begin(p, j, step, copy),
         \A k \in DOMAIN j.txs : MadeFrom(chain, j.txs[k]), UNCHANGED <<chain, wire>>
  PROVE  LInv'
  <1>1. job' = [job EXCEPT ![p] = j] /\ DOMAIN job = Proc
        BY DEF Begin, IInv, TypeOK
  <1>2. \A q \in Proc : \A k \in DOMAIN job'[q].txs : MadeFrom(chain, job'[q].txs[k])
    <2> SUFFICES ASSUME NEW q \in Proc, NEW k \in DOMAIN job'[q].txs
                 PROVE  MadeFrom(chain, job'[q].txs[k])
        OBVIOUS
    <2>1. job'[q] = IF q = p THEN j ELSE job[q]
          BY <1>1
    <2> QED BY <2>1 DEF LInv, Pending
  <1> QED BY <1>2 DEF LInv, Pending

LEMMA StartImportLInv ==
  ASSUME IInv, LInv, NEW p \in Proc, StartImport(p)
  PROVE  LInv'
  <1>1. PICK n \in Note, i \in Shard :
          /\ Initialized(file)
          /\ ImportBuilds(PrevoutOf(file.shards[i]), n)
          /\ Begin(p, [op |-> "import", shard |-> i, note |-> {n}, req |-> {},
                       txs |-> ImportTries(file, i, n)], "send", file)
          /\ UNCHANGED <<chain, wire>>
        BY DEF StartImport, IInv, TypeOK
  <1>2. PrevoutOf(file.shards[i]) = CellAt(chain, PointsAt(file, i))
        BY DEF PrevoutOf, PointsAt
  <1>3. \A k \in DOMAIN ImportTries(file, i, n) : MadeFrom(chain, ImportTries(file, i, n)[k])
        BY <1>1, <1>2, ImportIsMade DEF ImportTries, IInv, TypeOK
  <1> DEFINE j == [op |-> "import", shard |-> i, note |-> {n}, req |-> {},
                   txs |-> ImportTries(file, i, n)]
  <1>4. \A k \in DOMAIN j.txs : MadeFrom(chain, j.txs[k])
        BY <1>3
  <1>5. Begin(p, j, "send", file)
        BY <1>1
  <1> HIDE DEF j
  <1> QED BY <1>1, <1>4, <1>5, BeginLInv

LEMMA StartWithdrawLInv ==
  ASSUME IInv, LInv, NEW p \in Proc, StartWithdraw(p)
  PROVE  LInv'
  <1>1. PICK r \in Req, i \in Shard :
          /\ Initialized(file)
          /\ \E fund \in FeeInputs(Want[r].external) :
               /\ WithdrawBuilds(PrevoutOf(file.shards[i]), Want[r].pay, fund)
               /\ Begin(p, [op |-> "withdraw", shard |-> i, note |-> {}, req |-> {r},
                            txs |-> <<WithdrawTx(file.cat, file.shards[i],
                                                 PrevoutOf(file.shards[i]), Want[r].pay, fund,
                                                 WithdrawMode(ForcedMode))>>], "send", file)
          /\ UNCHANGED <<chain, wire>>
        BY DEF StartWithdraw
  <1>2. PICK fund \in SUBSET Funding :
               /\ WithdrawBuilds(PrevoutOf(file.shards[i]), Want[r].pay, fund)
               /\ Begin(p, [op |-> "withdraw", shard |-> i, note |-> {}, req |-> {r},
                            txs |-> <<WithdrawTx(file.cat, file.shards[i],
                                                 PrevoutOf(file.shards[i]), Want[r].pay, fund,
                                                 WithdrawMode(ForcedMode))>>], "send", file)
        BY <1>1 DEF FeeInputs, UnspentFunding
  <1> DEFINE t == WithdrawTx(file.cat, file.shards[i], PrevoutOf(file.shards[i]),
                             Want[r].pay, fund, WithdrawMode(ForcedMode))
             j == [op |-> "withdraw", shard |-> i, note |-> {}, req |-> {r}, txs |-> <<t>>]
  <1>3. Want[r].pay \in Payment /\ Good(chain, file) /\ chain \in Seq(Tx)
        BY OpsAssumption DEF IInv, TypeOK
  <1>4. PrevoutOf(file.shards[i]) = CellAt(chain, PointsAt(file, i))
        BY DEF PrevoutOf, PointsAt
  <1>5. MadeFrom(chain, t)
        BY <1>1, <1>2, <1>3, <1>4, WithdrawIsMade
  <1>6. Begin(p, j, "send", file)
        BY <1>2
  <1> HIDE DEF t
  <1>7. \A k \in DOMAIN j.txs : MadeFrom(chain, j.txs[k])
        BY <1>5
  <1> HIDE DEF j
  <1> QED BY <1>1, <1>6, <1>7, BeginLInv

(* The other commands *)
LEMMA CommandLInv ==
  ASSUME IInv, LInv, NEW p \in Proc, Command(p)
  PROVE  LInv'
  <1>1. CASE StartInit(p)
    <2>1. PICK f \in Funding :
            /\ Begin(p, [NoJob EXCEPT !.op = "init", !.txs = <<InitShardsTx(f)>>], "send", file)
            /\ UNCHANGED <<chain, wire>>
          BY <1>1 DEF StartInit, UnspentFunding
    <2> DEFINE t == InitShardsTx(f)
               j == [NoJob EXCEPT !.op = "init", !.txs = <<t>>]
    <2>2. MadeFrom(chain, t)
          BY DEF MadeFrom, InitTx
    <2> HIDE DEF t
    <2>3. j.txs = <<t>>
          BY DEF NoJob
    <2>4. \A k \in DOMAIN j.txs : MadeFrom(chain, j.txs[k])
          BY <2>2, <2>3
    <2> HIDE DEF j
    <2>5. Begin(p, j, "send", file)
          BY <2>1 DEF j, t
    <2> QED BY <2>1, <2>4, <2>5, BeginLInv
  <1>2. CASE InitAgain(p) \/ StartDeposit(p) \/ StageFrom(p)
    <2>1. PICK j, step, copy : /\ Begin(p, j, step, copy) /\ j.txs = <<>>
                               /\ UNCHANGED <<chain, wire>>
      <3> DEFINE touch == [NoJob EXCEPT !.op = "touch"]
                 deposit(n) == [NoJob EXCEPT !.op = "deposit", !.note = {n}]
                 stage(n) == [NoJob EXCEPT !.op = "stage", !.note = {n}]
      <3>1. touch.txs = <<>> /\ \A n : deposit(n).txs = <<>> /\ stage(n).txs = <<>>
            BY DEF NoJob
      <3>2. CASE InitAgain(p)
            BY <3>1, <3>2 DEF InitAgain
      <3>3. CASE StartDeposit(p)
        <4>1. PICK n : Begin(p, deposit(n), "send", file) /\ UNCHANGED <<chain, wire>>
              BY <3>3 DEF StartDeposit
        <4> HIDE DEF deposit
        <4> QED BY <3>1, <4>1
      <3>4. CASE StageFrom(p)
        <4>1. PICK n : Begin(p, stage(n), "save", Stage(file, n)) /\ UNCHANGED <<chain, wire>>
              BY <3>4 DEF StageFrom
        <4> HIDE DEF stage
        <4> QED BY <3>1, <4>1
      <3> QED BY <1>2, <3>2, <3>3, <3>4
    <2>2. \A k \in DOMAIN j.txs : MadeFrom(chain, j.txs[k])
          BY <2>1
    <2> QED BY <2>1, <2>2, BeginLInv
  <1> QED BY <1>1, <1>2, StartImportLInv, StartWithdrawLInv DEF Command

(* The chain grows by a transaction that was under way, or stays; what is  *)
(* under way afterwards was under way before                               *)
LEMMA NodeLInv ==
  ASSUME IInv, LInv,
         \/ chain' = chain
         \/ \E t : MadeFrom(chain, t) /\ Acceptable(t) /\ chain' = Append(chain, t),
         \A t \in wire' : MadeFrom(chain, t),
         \A p \in Proc : \A k \in DOMAIN job'[p].txs : MadeFrom(chain, job'[p].txs[k])
  PROVE  LInv'
  <1>1. CASE chain' = chain
        BY <1>1 DEF LInv, Pending
  <1>2. CASE \E t : MadeFrom(chain, t) /\ Acceptable(t) /\ chain' = Append(chain, t)
    <2>1. PICK t : MadeFrom(chain, t) /\ Acceptable(t) /\ chain' = Append(chain, t)
          BY <1>2
    <2>2. Threads(chain') /\ t \in Tx /\ chain \in Seq(Tx)
          BY <2>1, AcceptedKeepsThreads DEF LInv, Threads
    <2>3. \A u : MadeFrom(chain, u) => MadeFrom(chain', u)
          BY <2>1, <2>2, MadeFromStays
    <2> QED BY <2>2, <2>3 DEF LInv, Pending
  <1> QED BY <1>1, <1>2

LEMMA EndsPending ==
  ASSUME IInv, LInv, NEW p \in Proc, Ends(p)
  PROVE  \A q \in Proc : \A k \in DOMAIN job'[q].txs : MadeFrom(chain, job'[q].txs[k])
  <1>1. job' = [job EXCEPT ![p] = NoJob] /\ DOMAIN job = Proc /\ DOMAIN NoJob.txs = {}
        BY DEF Ends, IInv, TypeOK, NoJob
  <1> QED BY <1>1 DEF LInv, Pending

LEMMA NextLInv == IInv /\ LInv /\ [Next]_vars => LInv'
  <1> SUFFICES ASSUME IInv, LInv, [Next]_vars PROVE LInv'
      OBVIOUS
  <1>1. ASSUME NEW p \in Proc, NodeAccepts(p) PROVE LInv'
    <2>1. /\ Acceptable(Head(job[p].txs)) /\ chain' = Append(chain, Head(job[p].txs))
          /\ job[p].txs # <<>> /\ job[p].txs \in Seq(Tx) /\ UNCHANGED <<wire, job>>
          BY <1>1 DEF NodeAccepts, Sending, IInv, TypeOK, Job
    <2>2. 1 \in DOMAIN job[p].txs /\ Head(job[p].txs) = job[p].txs[1]
          BY <2>1
    <2> QED BY <2>1, <2>2, NodeLInv DEF LInv, Pending
  <1>2. ASSUME NEW p \in Proc, NodeEchoes(p) \/ NodeCreatesNote(p) PROVE LInv'
    <2>1. UNCHANGED <<chain, wire, job>>
          BY <1>2 DEF NodeEchoes, NodeCreatesNote
    <2> QED BY <2>1, NodeLInv DEF LInv, Pending
  <1>3. ASSUME NEW p \in Proc, NodeFailsScript(p) PROVE LInv'
    <2>1. /\ job[p].txs \in Seq(Tx) /\ job[p].txs # <<>> /\ UNCHANGED <<chain, wire>>
          /\ job' = [job EXCEPT ![p].txs = Tail(job[p].txs)] /\ job \in [Proc -> Job]
          BY <1>3 DEF NodeFailsScript, Sending, IInv, TypeOK, Job
    <2>2. \A k \in DOMAIN Tail(job[p].txs) :
            k + 1 \in DOMAIN job[p].txs /\ Tail(job[p].txs)[k] = job[p].txs[k + 1]
          BY <2>1
    <2>3. \A q \in Proc : job'[q].txs = IF q = p THEN Tail(job[p].txs) ELSE job[q].txs
          BY <2>1 DEF Job
    <2>4. \A q \in Proc : \A k \in DOMAIN job'[q].txs : MadeFrom(chain, job'[q].txs[k])
          BY <2>2, <2>3 DEF LInv, Pending
    <2> QED BY <2>1, <2>4, NodeLInv DEF LInv, Pending
  <1>4. ASSUME NEW p \in Proc, NodeRejects(p) \/ Save(p) \/ Crash(p) PROVE LInv'
    <2>1. Ends(p) /\ UNCHANGED <<chain, wire>>
          BY <1>4 DEF NodeRejects, Save, Crash
    <2> QED BY <2>1, EndsPending, NodeLInv DEF LInv, Pending
  <1>5. ASSUME NEW p \in Proc, GivesUp(p) PROVE LInv'
    <2>1. /\ Ends(p) /\ UNCHANGED chain
          /\ wire' = wire \cup {job[p].txs[k] : k \in DOMAIN job[p].txs \cap {1}}
          BY <1>5 DEF GivesUp
    <2>2. \A t \in wire' : MadeFrom(chain, t)
          BY <2>1 DEF LInv, Pending
    <2> QED BY <2>1, <2>2, EndsPending, NodeLInv
  <1>6. CASE ArrivesLate
    <2>1. PICK t \in wire : Acceptable(t) /\ chain' = Append(chain, t) /\ wire' = wire \ {t} /\ UNCHANGED job
          BY <1>6 DEF ArrivesLate
    <2> QED BY <2>1, NodeLInv DEF LInv, Pending
  <1>7. CASE Receive \/ SpendElsewhere \/ UNCHANGED vars
    <2>1. UNCHANGED <<chain, wire, job>>
          BY <1>7 DEF Receive, SpendElsewhere, vars
    <2> QED BY <2>1, NodeLInv DEF LInv, Pending
  <1> QED BY <1>1, <1>2, <1>3, <1>4, <1>5, <1>6, <1>7, CommandLInv
          DEF Next, Answer, Fault, Environment

LEMMA ChainInvariant == Spec => [](IInv /\ LInv)
  <1>1. Init => IInv /\ LInv
        BY InitIInv, InitLInv
  <1>2. IInv /\ LInv /\ [Next]_vars => IInv' /\ LInv'
        BY NextIInv, NextLInv
  <1> QED BY <1>1, <1>2, PTL DEF Spec

(* However many commands race to spend a shard, and whatever arrives late,  *)
(* every shard of every pool ever opened has exactly one unspent output.    *)
THEOREM NoShardForksOrIsLost == Spec => []UniqueThread
  <1>1. LInv => UniqueThread
    <2> SUFFICES ASSUME LInv, NEW k \in Inits, NEW f \in chain[k].fund, NEW i \in Shard
                 PROVE  \E o \in ThreadOf(f, i) : ThreadOf(f, i) = {o}
        BY DEF UniqueThread
    <2>1. f \in PoolsIn(chain)
          BY DEF Inits, PoolsIn
    <2>2. PICK l \in DOMAIN chain : ThreadIn(chain, f, i) = {TipAt(chain, l, i)}
          BY <2>1 DEF LInv, Threads, IsTip
    <2>3. ThreadOf(f, i) = ThreadIn(chain, f, i)
          BY DEF ThreadOf, ThreadIn, OfThread
    <2> QED BY <2>2, <2>3
  <1> QED BY <1>1, ChainInvariant, PTL

-----------------------------------------------------------------------------
(* The chain as a ledger *)

NewestIn(c, f, i) == CHOOSE k \in DOMAIN c :
                       /\ TouchesIn(c, k, f, i)
                       /\ \A l \in k + 1 .. Len(c) : ~TouchesIn(c, l, f, i)
CellIn(c, f, i) == LET t == c[NewestIn(c, f, i)]
                   IN  IF t.ins = {} THEN t.outs[i + 1] ELSE t.outs[0]
Entry(cell) == [value |-> cell.value, commit |-> cell.commit]
TableIn(c) == [f \in PoolsIn(c) |-> [i \in Shard |-> Entry(CellIn(c, f, i))]]

LEMMA TableIsLedgerTable == LedgerTable = TableIn(chain)
  BY DEF LedgerTable, TableIn, Pools, PoolsIn, Inits, CellOf, CellIn, Newest, NewestIn, Entry,
         Touches, TouchesIn, OfThread

(* The table shows the output at the shard's tip *)
LEMMA TipIsNewest ==
  ASSUME NEW c \in Seq(Tx), NEW f, NEW i \in Shard, NEW k \in DOMAIN c, IsTip(c, k, f, i)
  PROVE  CellIn(c, f, i) = CellAt(c, TipAt(c, k, i))
  <1>1. DOMAIN c = 1 .. Len(c) /\ Len(c) \in Nat
        OBVIOUS
  <1>2. TouchesIn(c, k, f, i) /\ \A l \in k + 1 .. Len(c) : ~TouchesIn(c, l, f, i)
        BY <1>1 DEF IsTip
  <1>3. \A j \in DOMAIN c :
          TouchesIn(c, j, f, i) /\ (\A l \in j + 1 .. Len(c) : ~TouchesIn(c, l, f, i)) => j = k
    <2> SUFFICES ASSUME NEW j \in DOMAIN c, TouchesIn(c, j, f, i), j # k,
                        \A l \in j + 1 .. Len(c) : ~TouchesIn(c, l, f, i)
                 PROVE  FALSE
        OBVIOUS
    <2>1. j <= k /\ k \in j + 1 .. Len(c)
          BY <1>1 DEF IsTip
    <2> QED BY <2>1, <1>2
  <1>4. NewestIn(c, f, i) = k
        BY <1>2, <1>3 DEF NewestIn
  <1> QED BY <1>4 DEF CellIn, CellAt, TipAt

(* A tip that stays a tip keeps its entry *)
LEMMA EntryStays ==
  ASSUME NEW c \in Seq(Tx), NEW t \in Tx, NEW f, NEW i \in Shard, NEW k \in DOMAIN c,
         IsTip(c, k, f, i), IsTip(Append(c, t), k, f, i)
  PROVE  CellIn(Append(c, t), f, i) = CellIn(c, f, i)
  <1> DEFINE d == Append(c, t)
  <1>1. d \in Seq(Tx) /\ k \in DOMAIN d /\ d[k] = c[k]
        BY AppendKeeps
  <1> HIDE DEF d
  <1>2. CellAt(d, TipAt(d, k, i)) = CellAt(c, TipAt(c, k, i))
        BY <1>1 DEF CellAt, TipAt
  <1> QED BY <1>1, <1>2, TipIsNewest DEF d

(* The opening of a pool creates its row *)
LEMMA InitCreates ==
  ASSUME LInv, NEW f \in Funding, f \notin PoolsIn(chain), chain' = Append(chain, InitShardsTx(f))
  PROVE  Ledger!LedgerNext
  <1> DEFINE t == InitShardsTx(f)
             n == Len(chain) + 1
             row == [i \in Shard |-> [value |-> ShardValue, commit |-> GenesisCommitment(f, i)]]
             T == TableIn(chain)
             U == TableIn(chain')
  <1>1. /\ t \in Tx /\ t.ins = {} /\ t.fund = {f} /\ t.notes = {} /\ DOMAIN t.outs = 1 .. NShards
        /\ \A v \in 1 .. NShards : Entry(t.outs[v]) =
                                     [value |-> ShardValue, commit |-> GenesisCommitment(f, v - 1)]
        BY InitTxType DEF InitShardsTx, Entry
  <1>2. /\ Threads(chain) /\ chain \in Seq(Tx)
        /\ Threads(chain') /\ chain' \in Seq(Tx)
        /\ \A i \in Shard : IsTip(chain', n, f, i)
        /\ \A g \in PoolsIn(chain), i \in Shard, k \in DOMAIN chain :
             IsTip(chain, k, g, i) => IsTip(chain', k, g, i)
        BY InitGrows DEF LInv, Threads
  <1>3. chain' = Append(chain, t)
        OBVIOUS
  <1> HIDE DEF t
  <1>4. PoolsIn(chain') = PoolsIn(chain) \cup (IF t.ins = {} THEN t.fund ELSE {})
        BY <1>1, <1>2, <1>3, Grown
  <1>5. PoolsIn(chain') = PoolsIn(chain) \cup {f}
        BY <1>1, <1>4
  <1>6. n \in DOMAIN chain' /\ chain'[n] = t /\ DOMAIN chain' = DOMAIN chain \cup {n}
        /\ \A k \in DOMAIN chain : chain'[k] = chain[k]
        BY <1>1, <1>2, <1>3, AppendKeeps
  <1>7. ASSUME NEW i \in Shard PROVE Entry(CellIn(chain', f, i)) = row[i]
    <2>1. i + 1 \in 1 .. NShards /\ (i + 1) - 1 = i
          BY SizesAssumption DEF Shard
    <2>2. TipAt(chain', n, i) = [txid |-> n, vout |-> i + 1]
          BY <1>1, <1>6 DEF TipAt
    <2>3. CellIn(chain', f, i) = t.outs[i + 1]
      <3>1. CellIn(chain', f, i) = CellAt(chain', TipAt(chain', n, i))
            BY <1>2, <1>6, TipIsNewest
      <3> QED BY <3>1, <2>2, <1>6 DEF CellAt
    <2> QED BY <1>1, <2>1, <2>3
  <1>8. ASSUME NEW g \in PoolsIn(chain), NEW i \in Shard
        PROVE  CellIn(chain', g, i) = CellIn(chain, g, i)
    <2>1. PICK k \in DOMAIN chain : IsTip(chain, k, g, i)
          BY <1>2 DEF Threads
    <2> QED BY <1>1, <1>2, <1>3, <2>1, EntryStays
  <1>9. U = [g \in DOMAIN T \cup {f} |-> IF g \in DOMAIN T THEN T[g] ELSE row]
        BY <1>5, <1>7, <1>8 DEF TableIn
  <1>10. f \notin DOMAIN T /\ U # T
        BY <1>9 DEF TableIn
  <1>11. NotesSpent(chain') = NotesSpent(chain)
        BY <1>1, <1>6 DEF NotesSpent
  <1>12. LedgerTable = T /\ LedgerTable' = U
        BY DEF LedgerTable, TableIn, Pools, PoolsIn, Inits, CellOf, CellIn, Newest, NewestIn, Entry,
               Touches, TouchesIn, OfThread
  <1> HIDE DEF T, U
  <1>13. Ledger!Create(f)
        BY <1>9, <1>10, <1>11, <1>12 DEF Ledger!Create, Ledger!Shard, Shard, Ledger!GenesisCommitment,
           GenesisCommitment
  <1> QED BY <1>10, <1>12, <1>13 DEF Ledger!LedgerNext

(* A fold appends its item, and is never undone *)
LEMMA FoldIsLast ==
  ASSUME NEW x \in Commitment, NEW item \in FoldItem
  PROVE  LET y == StateOut(x, item)
         IN  y.folds[Len(y.folds)] = item /\ y # x /\ y \in Commitment
  <1>1. x.folds \in Seq(FoldItem)
        BY DEF Commitment
  <1>2. /\ Len(Append(x.folds, item)) = Len(x.folds) + 1 /\ Len(x.folds) \in Nat
        /\ Append(x.folds, item)[Len(x.folds) + 1] = item
        BY <1>1
  <1>3. StateOut(x, item).folds = Append(x.folds, item)
        BY DEF StateOut, Commitment
  <1> QED BY <1>2, <1>3, StateOutType

(* The spend of a live output moves its shard as the ledger does *)
LEMMA SpendMoves ==
  ASSUME LInv, NEW o \in Live(chain), NEW t, Spends(chain, t, o), Acceptable(t),
         chain' = Append(chain, t)
  PROVE  Ledger!LedgerNext
  <1> DEFINE n == Len(chain) + 1
             prev == CellAt(chain, o)
             f == prev.commit.cat
             i == prev.commit.shard
             T == TableIn(chain)
             U == TableIn(chain')
  <1>1. /\ t \in Tx /\ t.ins = {o} /\ DOMAIN t.outs = {0} /\ t.outs[0] \in Cell
        /\ o \in Made(chain)
        BY DEF Spends, Live
  <1>2. /\ Threads(chain) /\ chain \in Seq(Tx)
        /\ Threads(chain') /\ chain' \in Seq(Tx) /\ PoolsIn(chain') = PoolsIn(chain)
        /\ f \in PoolsIn(chain) /\ i \in Shard
        /\ IsTip(chain', n, f, i)
        /\ \A g \in PoolsIn(chain), j \in Shard, k \in DOMAIN chain :
             (g # f \/ j # i) /\ IsTip(chain, k, g, j) => IsTip(chain', k, g, j)
        BY SpendGrows DEF LInv, Threads
  <1>3. prev \in Cell /\ prev.commit \in Commitment
        BY <1>1, <1>2, MadeAreCells
  <1>4. n \in DOMAIN chain' /\ chain'[n] = t /\ DOMAIN chain' = DOMAIN chain \cup {n}
        /\ \A k \in DOMAIN chain : chain'[k] = chain[k]
        BY <1>1, <1>2, AppendKeeps
  <1>5. CellIn(chain, f, i) = prev
    <2>1. PICK k \in DOMAIN chain : IsTip(chain, k, f, i)
          BY <1>2 DEF Threads
    <2>2. o \in ThreadIn(chain, f, i)
          BY DEF ThreadIn, OfThread
    <2>3. TipAt(chain, k, i) = o
          BY <2>1, <2>2 DEF IsTip
    <2>4. CellIn(chain, f, i) = CellAt(chain, TipAt(chain, k, i))
          BY <1>2, <2>1, TipIsNewest
    <2> QED BY <2>3, <2>4
  <1>6. CellIn(chain', f, i) = t.outs[0]
    <2>1. TipAt(chain', n, i) = [txid |-> n, vout |-> 0]
          BY <1>1, <1>4 DEF TipAt
    <2>2. CellIn(chain', f, i) = CellAt(chain', TipAt(chain', n, i))
          BY <1>2, <1>4, TipIsNewest
    <2>3. CellAt(chain', [txid |-> n, vout |-> 0]) = chain'[n].outs[0]
          BY DEF CellAt
    <2>4. chain'[n].outs[0] = t.outs[0]
          BY <1>4
    <2> QED BY <2>1, <2>2, <2>3, <2>4, Zenon
  <1> HIDE DEF f, i
  <1>7. ASSUME NEW g \in PoolsIn(chain), NEW j \in Shard, g # f \/ j # i
        PROVE  CellIn(chain', g, j) = CellIn(chain, g, j)
    <2>1. PICK k \in DOMAIN chain : IsTip(chain, k, g, j)
          BY <1>2 DEF Threads
    <2> QED BY <1>1, <1>2, <1>7, <2>1, EntryStays
  <1>8. U = [T EXCEPT ![f][i] = Entry(t.outs[0])]
    <2>1. \A g \in PoolsIn(chain), j \in Shard :
            Entry(CellIn(chain', g, j)) = IF g = f /\ j = i THEN Entry(t.outs[0]) ELSE Entry(CellIn(chain, g, j))
          BY <1>6, <1>7
    <2> QED BY <1>2, <2>1 DEF TableIn
  <1>9. f \in DOMAIN T /\ T[f][i] = Entry(prev) /\ U[f][i] = Entry(t.outs[0])
        BY <1>2, <1>5, <1>6 DEF TableIn
  <1>10. NotesSpent(chain') = NotesSpent(chain) \cup t.notes
        BY <1>4 DEF NotesSpent
  <1>11. t.outs[0].commit = StateOut(prev.commit, [FoldOf(t) EXCEPT !.mode = CovenantMode])
        BY <1>1 DEF Acceptable, CovenantAccepts
  <1>12. t.outs[0].value >= ShardDust /\ t.notes \cap NotesSpent(chain) = {}
        BY <1>1 DEF Acceptable, Relayable, UnspentNotes
  <1>13. LedgerTable = T /\ LedgerTable' = U
        BY DEF LedgerTable, TableIn, Pools, PoolsIn, Inits, CellOf, CellIn, Newest, NewestIn, Entry,
               Touches, TouchesIn, OfThread
  <1> HIDE DEF T, U, prev
  <1>14. ASSUME NEW value, NEW item \in FoldItem, t.outs[0].value = value,
                t.outs[0].commit = StateOut(prev.commit, item)
         PROVE  Ledger!Moves(f, i, value, item) /\ U # T
    <2>1. Entry(t.outs[0]).value = value /\ Entry(t.outs[0]).commit = t.outs[0].commit
          /\ Entry(prev).commit = prev.commit
          BY <1>14 DEF Entry
    <2>2. t.outs[0].commit # prev.commit
          BY <1>3, <1>14, FoldIsLast
    <2>3. U # T
          BY <2>1, <2>2, <1>9
    <2>4. Ledger!StateOut(T[f][i].commit, item) = StateOut(prev.commit, item)
          BY <1>9, <2>1 DEF Ledger!StateOut, StateOut
    <2>5. U[f][i] = [value |-> value, commit |-> Ledger!StateOut(T[f][i].commit, item)]
          BY <1>9, <1>14, <2>4 DEF Entry
    <2>6. U = [T EXCEPT ![f][i] = U[f][i]]
          BY <1>8, <1>9
    <2> QED BY <1>12, <1>13, <1>14, <2>3, <2>5, <2>6 DEF Ledger!Moves
  <1>15. CASE \E a \in Note, m \in Mode : MakesImport(chain, t, o, a, m)
    <2>1. PICK a \in Note, m \in Mode : MakesImport(chain, t, o, a, m)
          BY <1>15
    <2> DEFINE item == NoteFold(a, CovenantMode)
               value == prev.value + NoteValue[a] - Fee
    <2>2. NoteFold(a, m) \in FoldItem /\ item \in FoldItem
          BY ModeType DEF NoteFold, FoldItem
    <2>3. t.outs[0].commit = StateOut(prev.commit, NoteFold(a, m)) /\ t.outs[0].value = value
          BY <2>1 DEF MakesImport, prev
    <2>4. FoldOf(t) = NoteFold(a, m)
          BY <1>3, <2>2, <2>3, FoldIsLast DEF FoldOf
    <2>5. [FoldOf(t) EXCEPT !.mode = CovenantMode] = item
          BY <2>4, NormalMode DEF NoteFold
    <2>6. Ledger!Moves(f, i, value, item) /\ U # T
          BY <1>11, <1>14, <2>2, <2>3, <2>5
    <2>7. a \notin NotesSpent(chain) /\ NotesSpent(chain') = NotesSpent(chain) \cup {a}
          BY <1>10, <1>12, <2>1 DEF MakesImport
    <2>8. T[f][i].value = prev.value /\ Ledger!NoteFold(a, CovenantMode) = item
          BY <1>9 DEF Entry, Ledger!NoteFold, NoteFold, Ledger!NormalizeCategoryMode, NormalizeCategoryMode
    <2> HIDE DEF item
    <2>9. Ledger!Absorb(f, i, a)
          BY <1>13, <2>6, <2>7, <2>8 DEF Ledger!Absorb
    <2> QED BY <1>2, <1>9, <1>13, <2>6, <2>9 DEF Ledger!LedgerNext, Ledger!Shard, Shard
  <1>16. CASE \E pay \in Payment, fee \in {0, Fee}, m \in Mode :
                MakesWithdrawal(chain, t, o, pay, fee, m)
    <2>1. PICK pay \in Payment, fee \in {0, Fee}, m \in Mode : MakesWithdrawal(chain, t, o, pay, fee, m)
          BY <1>16
    <2> DEFINE item == Nullifier(pay, CovenantMode)
               value == prev.value - pay.sats - fee
    <2>2. Nullifier(pay, m) \in FoldItem /\ item \in FoldItem
          BY ModeType DEF Nullifier, FoldItem, Payment
    <2>3. t.outs[0].commit = StateOut(prev.commit, Nullifier(pay, m)) /\ t.outs[0].value = value
          BY <2>1 DEF MakesWithdrawal, prev
    <2>4. FoldOf(t) = Nullifier(pay, m)
          BY <1>3, <2>2, <2>3, FoldIsLast DEF FoldOf
    <2>5. [FoldOf(t) EXCEPT !.mode = CovenantMode] = item
          BY <2>4, NormalMode DEF Nullifier
    <2>6. Ledger!Moves(f, i, value, item) /\ U # T
          BY <1>11, <1>14, <2>2, <2>3, <2>5
    <2>7. pay.sats >= Dust /\ NotesSpent(chain') = NotesSpent(chain)
          BY <1>10, <2>1 DEF MakesWithdrawal
    <2>8. T[f][i].value = prev.value /\ Ledger!Nullifier(pay, CovenantMode) = item
          BY <1>9 DEF Entry, Ledger!Nullifier, Nullifier, Ledger!NormalizeCategoryMode, NormalizeCategoryMode
    <2> HIDE DEF item
    <2>9. Ledger!Pay(f, i, pay, fee)
          BY <1>13, <2>6, <2>7, <2>8 DEF Ledger!Pay
    <2> QED BY <1>2, <1>9, <1>13, <2>6, <2>9
            DEF Ledger!LedgerNext, Ledger!Shard, Shard, Ledger!Payment, Payment
  <1> QED BY <1>15, <1>16 DEF Spends

(* The first chain is the empty ledger *)
LEMMA LedgerStarts == Init => Ledger!LedgerInit
  <1> SUFFICES ASSUME Init PROVE Ledger!LedgerInit
      OBVIOUS
  <1>1. DOMAIN chain = {}
        BY DEF Init
  <1>2. Pools = {} /\ NotesSpent(chain) = {}
        BY <1>1 DEF Pools, Inits, NotesSpent
  <1> QED BY <1>2 DEF Ledger!LedgerInit, LedgerTable

(* Only the node lets the chain grow, by what was under way *)
LEMMA ChainGrows ==
  ASSUME IInv, LInv, [Next]_vars
  PROVE  \/ chain' = chain
         \/ \E t : MadeFrom(chain, t) /\ Acceptable(t) /\ chain' = Append(chain, t)
  <1>1. ASSUME NEW p \in Proc, NodeAccepts(p)
        PROVE  \E t : MadeFrom(chain, t) /\ Acceptable(t) /\ chain' = Append(chain, t)
    <2>1. /\ Acceptable(Head(job[p].txs)) /\ chain' = Append(chain, Head(job[p].txs))
          /\ job[p].txs # <<>> /\ job[p].txs \in Seq(Tx)
          BY <1>1 DEF NodeAccepts, Sending, IInv, TypeOK, Job
    <2>2. 1 \in DOMAIN job[p].txs /\ Head(job[p].txs) = job[p].txs[1]
          BY <2>1
    <2> QED BY <2>1, <2>2 DEF LInv, Pending
  <1>2. CASE ArrivesLate
        BY <1>2 DEF ArrivesLate, LInv, Pending
  <1>3. ASSUME NEW p \in Proc, Command(p) \/ Save(p) \/ Fault(p) \/ NodeEchoes(p)
               \/ NodeFailsScript(p) \/ NodeRejects(p) \/ NodeCreatesNote(p)
        PROVE  chain' = chain
        BY <1>3 DEF Command, StartInit, InitAgain, StartDeposit, StageFrom, StartImport, StartWithdraw,
               Save, Fault, GivesUp, Crash, NodeEchoes, NodeFailsScript, NodeRejects, NodeCreatesNote
  <1>4. CASE Receive \/ SpendElsewhere \/ UNCHANGED vars
        BY <1>4 DEF Receive, SpendElsewhere, vars
  <1> QED BY <1>1, <1>2, <1>3, <1>4 DEF Next, Answer, Environment

(* PoolOps implements PoolLedger: a pool is a table of shards that changes *)
(* one shard at a time, a note is absorbed once, and every payment leaves  *)
(* the shard above its dust, under any interleaving, fault or late arrival *)
THEOREM ChainIsALedger == Spec => ImplementsLedger
  <1>1. IInv /\ LInv /\ [Next]_vars => [Ledger!LedgerNext]_(Ledger!ledgerVars)
    <2> SUFFICES ASSUME IInv, LInv, [Next]_vars PROVE [Ledger!LedgerNext]_(Ledger!ledgerVars)
        OBVIOUS
    <2>1. CASE chain' = chain
      <3>1. LedgerTable' = LedgerTable /\ NotesSpent(chain)' = NotesSpent(chain)
            BY <2>1 DEF LedgerTable, Pools, Inits, CellOf, Newest, Touches
      <3> QED BY <3>1 DEF Ledger!ledgerVars
    <2>2. CASE \E t : MadeFrom(chain, t) /\ Acceptable(t) /\ chain' = Append(chain, t)
          BY <2>2, AcceptedIs, InitCreates, SpendMoves DEF LInv
    <2> QED BY <2>1, <2>2, ChainGrows
  <1> QED BY <1>1, LedgerStarts, ChainInvariant, PTL DEF Spec, ImplementsLedger, Ledger!LedgerSpec

-----------------------------------------------------------------------------
(* Sums.  The induction theorems of the library take the predicate as a    *)
(* parameter; these take the set of counterexamples, of which one is least. *)

(* Every nonempty set of naturals has a least element *)
LEMMA LeastNatural ==
  ASSUME NEW T \in SUBSET Nat, T # {}
  PROVE  \E n \in T : \A m \in T : n <= m
  <1>1. IsWellFoundedOn(OpToRel(<, Nat), Nat)
        BY NatLessThanWellFounded, Zenon
  <1>2. PICK n \in T : \A m \in T : ~(<<m, n>> \in OpToRel(<, Nat))
        BY <1>1, WFMin, Zenon
  <1>3. \A m \in T : ~(m < n)
        BY <1>2 DEF OpToRel
  <1> QED BY <1>3

(* Of any subsets of a finite set one contains none of the others *)
LEMMA SmallestSet ==
  ASSUME NEW X, IsFiniteSet(X), NEW T \in SUBSET (SUBSET X), T # {}
  PROVE  \E s \in T : \A r \in T : r \subseteq s => r = s
  <1>1. T \subseteq FiniteSubsetsOf(X)
        BY FS_Subset DEF FiniteSubsetsOf
  <1>2. PICK s \in T : \A r \in T : ~(<<r, s>> \in StrictSubsetOrdering(X))
        BY <1>1, FS_StrictSubsetOrderingWellFounded, WFMin, Zenon
  <1>3. \A r \in T : r \subseteq s => r = s
        BY <1>2 DEF StrictSubsetOrdering
  <1> QED BY <1>3

(* SumFunctionOnSet adds up the values of a function on a set by a  *)
(* function on the subsets that obeys a recursive equation, IsSum.         *)

Choice(s) == CHOOSE x \in s : TRUE
NextSum(g, f, s) == IF s = {} THEN 0 ELSE f[Choice(s)] + g[s \ {Choice(s)}]
IsSum(g, f, T) == g = [s \in T |-> NextSum(g, f, s)]
Sums(f, S) == CHOOSE g : IsSum(g, f, SUBSET S)
UpTo(S, n) == {s \in SUBSET S : Cardinality(s) <= n}

LEMMA SumIs ==
  ASSUME NEW f, NEW S
  PROVE  SumFunctionOnSet(f, S) = Sums(f, S)[S]
  BY Zenon DEF SumFunctionOnSet, FoldFunctionOnSet, MapThenFoldSet, IsSum, NextSum, Sums, Choice

LEMMA ChoiceIn ==
  ASSUME NEW s, s # {}
  PROVE  Choice(s) \in s
  BY DEF Choice

(* one element less *)
LEMMA Smaller ==
  ASSUME NEW S, IsFiniteSet(S), NEW n \in Nat, NEW s \in UpTo(S, n + 1), NEW x \in s
  PROVE  s \ {x} \in UpTo(S, n)
  <1>1. IsFiniteSet(s) /\ s \in SUBSET S
        BY FS_Subset DEF UpTo
  <1>2. Cardinality(s) \in Nat /\ Cardinality(s \ {x}) = Cardinality(s) - 1
        BY <1>1, FS_RemoveElement, FS_CardinalityType
  <1> QED BY <1>1, <1>2 DEF UpTo

(* The recursive equation has a solution on the subsets of up to n elements *)
LEMMA SumOnSmallSets ==
  ASSUME NEW f, NEW S, IsFiniteSet(S), NEW n \in Nat
  PROVE  \E g : IsSum(g, f, UpTo(S, n))
  <1> DEFINE Bad == {m \in Nat : ~\E g : IsSum(g, f, UpTo(S, m))}
  <1>1. SUFFICES ASSUME Bad # {} PROVE FALSE
        OBVIOUS
  <1>2. PICK m \in Bad : \A l \in Bad : m <= l
        BY <1>1, LeastNatural
  <1>3. CASE m = 0
    <2> DEFINE g == [s \in UpTo(S, 0) |-> 0]
    <2>1. \A s \in UpTo(S, 0) : s = {}
          BY FS_Subset, FS_EmptySet, FS_CardinalityType DEF UpTo
    <2>2. IsSum(g, f, UpTo(S, 0))
          BY <2>1 DEF IsSum, NextSum
    <2> QED BY <1>3, <2>2
  <1>4. CASE m # 0
    <2>1. m - 1 \in Nat /\ m - 1 \notin Bad /\ m = (m - 1) + 1
          BY <1>2, <1>4
    <2>2. PICK g : IsSum(g, f, UpTo(S, m - 1))
          BY <2>1
    <2> DEFINE h == [s \in UpTo(S, m) |-> NextSum(g, f, s)]
    <2>3. UpTo(S, m - 1) \subseteq UpTo(S, m)
      <3>1. \A s \in SUBSET S : Cardinality(s) \in Nat
            BY FS_Subset, FS_CardinalityType
      <3> QED BY <3>1, <2>1 DEF UpTo
    <2>4. \A s \in UpTo(S, m - 1) : h[s] = g[s]
          BY <2>2, <2>3 DEF IsSum
    <2>5. ASSUME NEW s \in UpTo(S, m)
          PROVE  NextSum(g, f, s) = NextSum(h, f, s)
      <3>1. CASE s = {}
            BY <3>1 DEF NextSum
      <3>2. CASE s # {}
        <4>1. Choice(s) \in s
              BY <3>2, ChoiceIn
        <4>2. s \ {Choice(s)} \in UpTo(S, m - 1)
              BY <4>1, <2>1, Smaller
        <4> HIDE DEF h
        <4>3. h[s \ {Choice(s)}] = g[s \ {Choice(s)}]
              BY <4>2, <2>4
        <4> QED BY <4>3, <3>2 DEF NextSum
      <3> QED BY <3>1, <3>2
    <2>6. IsSum(h, f, UpTo(S, m))
          BY <2>5 DEF IsSum
    <2> QED BY <2>6
  <1> QED BY <1>3, <1>4

(* and on all subsets of a finite set *)
LEMMA SumsSolve ==
  ASSUME NEW f, NEW S, IsFiniteSet(S)
  PROVE  IsSum(Sums(f, S), f, SUBSET S)
  <1>1. Cardinality(S) \in Nat /\ UpTo(S, Cardinality(S)) = SUBSET S
        BY FS_Subset, FS_CardinalityType DEF UpTo
  <1>2. \E g : IsSum(g, f, UpTo(S, Cardinality(S)))
        BY <1>1, SumOnSmallSets
  <1>3. \E g : IsSum(g, f, SUBSET S)
        BY <1>1, <1>2, Zenon
  <1> QED BY <1>3, Zenon DEF Sums

LEMMA SumsAt ==
  ASSUME NEW f, NEW S, IsFiniteSet(S), NEW s \in SUBSET S
  PROVE  Sums(f, S)[s] = NextSum(Sums(f, S), f, s)
  <1> DEFINE g == Sums(f, S)
  <1>0. IsSum(g, f, SUBSET S)
        BY SumsSolve
  <1> HIDE DEF g
  <1>1. g = [r \in SUBSET S |-> NextSum(g, f, r)]
        BY <1>0 DEF IsSum
  <1>2. g[s] = NextSum(g, f, s)
        BY <1>1
  <1> QED BY <1>2 DEF g

(* The sum of a subset does not depend on the set it is taken from *)
LEMMA SumOfSubset ==
  ASSUME NEW f, NEW S, IsFiniteSet(S), NEW T \in SUBSET S
  PROVE  Sums(f, S)[T] = SumFunctionOnSet(f, T)
  <1> DEFINE Bad == {r \in SUBSET T : Sums(f, S)[r] # Sums(f, T)[r]}
  <1>1. IsFiniteSet(T)
        BY FS_Subset
  <1>2. Bad = {}
    <2>1. SUFFICES ASSUME Bad # {} PROVE FALSE
          OBVIOUS
    <2>2. Bad \in SUBSET (SUBSET T)
          OBVIOUS
    <2> HIDE DEF Bad
    <2>3. PICK r \in Bad : \A q \in Bad : q \subseteq r => q = r
          BY <1>1, <2>1, <2>2, SmallestSet
    <2> USE DEF Bad
    <2>4. /\ Sums(f, S)[r] = NextSum(Sums(f, S), f, r)
          /\ Sums(f, T)[r] = NextSum(Sums(f, T), f, r)
          BY <1>1, SumsAt
    <2>5. CASE r = {}
          BY <2>4, <2>5 DEF NextSum
    <2>6. CASE r # {}
      <3>1. r \ {Choice(r)} \in SUBSET T /\ r \ {Choice(r)} \notin Bad
            BY <2>3, <2>6, ChoiceIn
      <3>2. Sums(f, S)[r \ {Choice(r)}] = Sums(f, T)[r \ {Choice(r)}]
            BY <3>1
      <3> QED BY <3>2, <2>4, <2>6 DEF NextSum
    <2> QED BY <2>5, <2>6
  <1> QED BY <1>2, SumIs

LEMMA SumOfNone ==
  ASSUME NEW f
  PROVE  SumFunctionOnSet(f, {}) = 0
  <1>1. IsFiniteSet({})
        BY FS_EmptySet
  <1> QED BY <1>1, SumIs, SumsAt DEF NextSum

(* The chosen element, and the rest *)
LEMMA SumOfChosen ==
  ASSUME NEW f, NEW S, IsFiniteSet(S), S # {}
  PROVE  SumFunctionOnSet(f, S) = f[Choice(S)] + SumFunctionOnSet(f, S \ {Choice(S)})
  <1>1. Choice(S) \in S /\ S \in SUBSET S /\ S \ {Choice(S)} \in SUBSET S
        BY ChoiceIn
  <1>2. Sums(f, S)[S] = NextSum(Sums(f, S), f, S)
        BY <1>1, SumsAt
  <1>3. Sums(f, S)[S \ {Choice(S)}] = SumFunctionOnSet(f, S \ {Choice(S)})
        BY <1>1, SumOfSubset
  <1> QED BY <1>2, <1>3, SumIs DEF NextSum

(* A sum of integers is one *)
LEMMA SumIsInt ==
  ASSUME NEW f, NEW S, IsFiniteSet(S), \A x \in S : f[x] \in Int
  PROVE  SumFunctionOnSet(f, S) \in Int
  <1> DEFINE Bad == {r \in SUBSET S : SumFunctionOnSet(f, r) \notin Int}
  <1>1. SUFFICES ASSUME Bad # {} PROVE FALSE
        OBVIOUS
  <1>2. Bad \in SUBSET (SUBSET S) /\ \A r \in Bad : IsFiniteSet(r)
        BY FS_Subset
  <1> HIDE DEF Bad
  <1>3. PICK r \in Bad : \A q \in Bad : q \subseteq r => q = r
        BY <1>1, <1>2, SmallestSet
  <1> USE DEF Bad
  <1>4. r # {}
        BY SumOfNone
  <1>5. Choice(r) \in r
        BY <1>4, ChoiceIn
  <1>6. r \ {Choice(r)} \notin Bad /\ r \ {Choice(r)} \in SUBSET S /\ f[Choice(r)] \in Int
        BY <1>3, <1>5
  <1>7. SumFunctionOnSet(f, r) = f[Choice(r)] + SumFunctionOnSet(f, r \ {Choice(r)})
        BY <1>2, <1>4, SumOfChosen
  <1> QED BY <1>6, <1>7

(* Any element, and the rest: the order of summation does not matter *)
LEMMA SumOfOne ==
  ASSUME NEW f, NEW S, IsFiniteSet(S), \A x \in S : f[x] \in Int, NEW a \in S
  PROVE  SumFunctionOnSet(f, S) = f[a] + SumFunctionOnSet(f, S \ {a})
  <1> DEFINE Sum(r) == SumFunctionOnSet(f, r)
             Bad == {r \in SUBSET S : \E x \in r : Sum(r) # f[x] + Sum(r \ {x})}
  <1>1. SUFFICES ASSUME Bad # {} PROVE FALSE
        OBVIOUS
  <1>2. Bad \in SUBSET (SUBSET S) /\ \A r \in Bad : IsFiniteSet(r)
        BY FS_Subset
  <1> HIDE DEF Bad
  <1>3. PICK r \in Bad : \A q \in Bad : q \subseteq r => q = r
        BY <1>1, <1>2, SmallestSet
  <1> USE DEF Bad
  <1>4. PICK x \in r : Sum(r) # f[x] + Sum(r \ {x})
        OBVIOUS
  <1> DEFINE c == Choice(r)
  <1>5. c \in r /\ r \in SUBSET S /\ IsFiniteSet(r)
        BY <1>2, ChoiceIn
  <1> HIDE DEF c
  <1>6. \A y \in r : r \ {y} \in SUBSET S /\ r \ {y} \notin Bad
        BY <1>3, <1>5
  <1>7. Sum(r) = f[c] + Sum(r \ {c})
        BY <1>5, SumOfChosen DEF c
  <1>8. x # c
        BY <1>4, <1>7
  <1>9. Sum(r \ {c}) = f[x] + Sum((r \ {c}) \ {x})
        BY <1>5, <1>6, <1>8
  <1>10. Sum(r \ {x}) = f[c] + Sum((r \ {x}) \ {c})
        BY <1>5, <1>6, <1>8
  <1>11. (r \ {x}) \ {c} = (r \ {c}) \ {x}
        OBVIOUS
  <1>12. IsFiniteSet((r \ {c}) \ {x}) /\ \A y \in (r \ {c}) \ {x} : f[y] \in Int
        BY <1>5, FS_Subset
  <1>13. Sum((r \ {c}) \ {x}) \in Int /\ f[x] \in Int /\ f[c] \in Int
        BY <1>12, <1>5, SumIsInt
  <1> QED BY <1>4, <1>7, <1>9, <1>10, <1>11, <1>13

LEMMA SumAdds ==
  ASSUME NEW f, NEW S, IsFiniteSet(S), NEW a, a \notin S, \A x \in S \cup {a} : f[x] \in Int
  PROVE  SumFunctionOnSet(f, S \cup {a}) = f[a] + SumFunctionOnSet(f, S)
  <1>1. IsFiniteSet(S \cup {a}) /\ (S \cup {a}) \ {a} = S
        BY FS_AddElement
  <1> QED BY <1>1, SumOfOne

(* Functions that agree on a set have the same sum over it *)
LEMMA SumOfSame ==
  ASSUME NEW f, NEW g, NEW S, IsFiniteSet(S), \A x \in S : f[x] = g[x]
  PROVE  SumFunctionOnSet(f, S) = SumFunctionOnSet(g, S)
  <1> DEFINE Bad == {r \in SUBSET S : SumFunctionOnSet(f, r) # SumFunctionOnSet(g, r)}
  <1>1. SUFFICES ASSUME Bad # {} PROVE FALSE
        OBVIOUS
  <1>2. Bad \in SUBSET (SUBSET S) /\ \A r \in Bad : IsFiniteSet(r)
        BY FS_Subset
  <1> HIDE DEF Bad
  <1>3. PICK r \in Bad : \A q \in Bad : q \subseteq r => q = r
        BY <1>1, <1>2, SmallestSet
  <1> USE DEF Bad
  <1>4. r # {}
        BY SumOfNone
  <1>5. Choice(r) \in r
        BY <1>4, ChoiceIn
  <1>6. r \ {Choice(r)} \notin Bad /\ r \ {Choice(r)} \in SUBSET S /\ f[Choice(r)] = g[Choice(r)]
        BY <1>3, <1>5
  <1>7. /\ SumFunctionOnSet(f, r) = f[Choice(r)] + SumFunctionOnSet(f, r \ {Choice(r)})
        /\ SumFunctionOnSet(g, r) = g[Choice(r)] + SumFunctionOnSet(g, r \ {Choice(r)})
        BY <1>2, <1>4, SumOfChosen
  <1> QED BY <1>6, <1>7

(* A sum grows by what each of n new elements adds *)
LEMMA SumOfEqual ==
  ASSUME NEW f, NEW S, IsFiniteSet(S), \A x \in S : f[x] \in Int, NEW v \in Int, NEW n \in Nat,
         NEW e, \A i \in 1 .. n : e[i] \notin S /\ f[e[i]] = v,
         \A i, j \in 1 .. n : i # j => e[i] # e[j]
  PROVE  LET T == S \cup {e[i] : i \in 1 .. n} IN
         IsFiniteSet(T) /\ SumFunctionOnSet(f, T) = SumFunctionOnSet(f, S) + n * v
  <1> DEFINE T(m) == S \cup {e[i] : i \in 1 .. m}
             Sum(m) == SumFunctionOnSet(f, T(m))
             Holds(m) == IsFiniteSet(T(m)) /\ Sum(m) = SumFunctionOnSet(f, S) + m * v
             Bad == {m \in 0 .. n : ~Holds(m)}
  <1>1. Holds(0)
    <2>1. T(0) = S
          OBVIOUS
    <2>2. SumFunctionOnSet(f, S) \in Int
          BY SumIsInt
    <2>3. 0 * v = 0
          OBVIOUS
    <2> HIDE DEF T
    <2> QED BY <2>1, <2>2, <2>3
  <1>2. ASSUME NEW m \in 1 .. n, Holds(m - 1) PROVE Holds(m)
    <2>1. T(m) = T(m - 1) \cup {e[m]} /\ e[m] \notin T(m - 1) /\ f[e[m]] = v
          OBVIOUS
    <2>2. \A x \in T(m - 1) \cup {e[m]} : f[x] \in Int
          OBVIOUS
    <2> HIDE DEF T
    <2>3. Sum(m) = v + Sum(m - 1) /\ IsFiniteSet(T(m))
          BY <1>2, <2>1, <2>2, SumAdds, FS_AddElement
    <2>4. (m - 1) * v + v = m * v /\ (m - 1) * v \in Int
          OBVIOUS
    <2>5. SumFunctionOnSet(f, S) \in Int
          BY SumIsInt
    <2> HIDE DEF Sum
    <2> QED BY <1>2, <2>3, <2>4, <2>5
  <1> HIDE DEF Holds
  <1>3. Bad = {}
    <2>1. SUFFICES ASSUME Bad # {} PROVE FALSE
          OBVIOUS
    <2>2. Bad \in SUBSET Nat
          OBVIOUS
    <2> HIDE DEF Bad
    <2>3. PICK m \in Bad : \A l \in Bad : m <= l
          BY <2>1, <2>2, LeastNatural
    <2> USE DEF Bad
    <2>4. m \in 1 .. n /\ m - 1 \notin Bad
          BY <2>3, <1>1
    <2> QED BY <2>4, <1>2
  <1>4. Holds(n)
        BY <1>3
  <1> QED BY <1>4 DEF Holds

-----------------------------------------------------------------------------
(* Satoshis *)

WorthIn(c) == [o \in Live(c) |-> CellAt(c, o).value]
(* What a transaction adds to the pools *)
ImportedBy(t) == SumFunctionOnSet([n \in Note |-> NoteValue[n] - Fee], t.notes)
PaidBy(t) == SumFunctionOnSet([w \in Payment |-> w.sats + FeeFromShard(t.fund)], t.pays)
Gain(t) == (IF t.ins = {} THEN NShards * ShardValue ELSE 0) + ImportedBy(t) - PaidBy(t)
Gains(c) == [k \in DOMAIN c |-> Gain(c[k])]
Balanced(c) ==
  /\ IsFiniteSet(Live(c))
  /\ \A k \in DOMAIN c : Gain(c[k]) \in Int
  /\ SumFunctionOnSet(WorthIn(c), Live(c)) = SumFunctionOnSet(Gains(c), DOMAIN c)

LEMMA BalancedIsAccounting == Balanced(chain) => ValueAccounting
  <1>1. \A k \in DOMAIN chain : Gain(chain[k]) = FundedBy(k) + Imported(k) - PaidOut(k)
        BY DEF Gain, FundedBy, Imported, PaidOut, ImportedBy, PaidBy
  <1>2. Gains(chain) = [k \in DOMAIN chain |-> FundedBy(k) + Imported(k) - PaidOut(k)]
        BY <1>1 DEF Gains
  <1>3. DOMAIN Gains(chain) = DOMAIN chain /\ DOMAIN WorthIn(chain) = Live(chain)
        BY DEF Gains, WorthIn
  <1>4. /\ SumFunction(WorthIn(chain)) = SumFunctionOnSet(WorthIn(chain), Live(chain))
        /\ SumFunction(Gains(chain)) = SumFunctionOnSet(Gains(chain), DOMAIN chain)
        BY <1>3, Zenon DEF SumFunction
  <1> QED BY <1>2, <1>4, Zenon DEF Balanced, ValueAccounting, WorthIn

(* The sum of one value *)
LEMMA SumOfSingle ==
  ASSUME NEW f, NEW a, f[a] \in Int
  PROVE  SumFunctionOnSet(f, {a}) = f[a]
  <1>1. IsFiniteSet({}) /\ {} \cup {a} = {a}
        BY FS_EmptySet
  <1>2. SumFunctionOnSet(f, {a}) = f[a] + SumFunctionOnSet(f, {})
        BY <1>1, SumAdds
  <1> QED BY <1>2, SumOfNone

(* init adds the funding of every shard *)
LEMMA GainOfInit ==
  ASSUME NEW f \in Funding
  PROVE  Gain(InitShardsTx(f)) = NShards * ShardValue
  <1> DEFINE t == InitShardsTx(f)
  <1>1. t.ins = {} /\ t.notes = {} /\ t.pays = {}
        BY DEF InitShardsTx
  <1>2. NShards * ShardValue \in Int
        BY SizesAssumption
  <1> HIDE DEF t
  <1>3. ImportedBy(t) = 0 /\ PaidBy(t) = 0
        BY <1>1, SumOfNone DEF ImportedBy, PaidBy
  <1>4. Gain(t) = NShards * ShardValue
        BY <1>1, <1>2, <1>3 DEF Gain
  <1> QED BY <1>4 DEF t

(* A spend adds what its output is worth more than the output it spends *)
LEMMA GainOfSpend ==
  ASSUME NEW c \in Seq(Tx), NEW t, NEW o \in Made(c), Spends(c, t, o)
  PROVE  /\ Gain(t) = t.outs[0].value - CellAt(c, o).value
         /\ t.outs[0].value \in Nat /\ CellAt(c, o).value \in Nat
  <1> DEFINE was == CellAt(c, o).value
             is == t.outs[0].value
  <1>1. is \in Nat /\ was \in Nat
        BY PrevoutIsCell DEF Spends, Cell
  <1>2. t.ins # {}
        BY DEF Spends
  <1>3. ASSUME NEW n \in Note, NEW m \in Mode, MakesImport(c, t, o, n, m)
        PROVE  ImportedBy(t) = is - was /\ PaidBy(t) = 0
    <2> DEFINE v == [x \in Note |-> NoteValue[x] - Fee]
    <2>1. v[n] = NoteValue[n] - Fee /\ v[n] \in Int
          BY SizesAssumption
    <2>2. t.notes = {n} /\ t.pays = {} /\ is = was + NoteValue[n] - Fee
          BY <1>3 DEF MakesImport
    <2> HIDE DEF v, is, was
    <2>3. SumFunctionOnSet(v, {n}) = v[n]
          BY <2>1, SumOfSingle
    <2>4. NoteValue[n] \in Int /\ Fee \in Int
          BY SizesAssumption
    <2>5. ImportedBy(t) = NoteValue[n] - Fee
          BY <2>1, <2>2, <2>3 DEF ImportedBy, v
    <2>6. PaidBy(t) = 0
          BY <2>2, SumOfNone DEF PaidBy
    <2> QED BY <1>1, <2>2, <2>4, <2>5, <2>6
  <1>4. ASSUME NEW pay \in Payment, NEW fee \in {0, Fee}, NEW m \in Mode,
               MakesWithdrawal(c, t, o, pay, fee, m)
        PROVE  ImportedBy(t) = 0 /\ PaidBy(t) = was - is
    <2> DEFINE v == [w \in Payment |-> w.sats + FeeFromShard(t.fund)]
    <2>0. pay.sats \in Amount /\ (fee = 0 \/ fee = Fee) /\ fee = FeeFromShard(t.fund)
          BY <1>4 DEF MakesWithdrawal, Payment
    <2>1a. Amount \subseteq Nat /\ Fee \in Nat
          BY SizesAssumption
    <2>1b. pay.sats \in Nat
          BY <2>0, <2>1a, Zenon
    <2>1. fee = FeeFromShard(t.fund) /\ fee \in Int /\ pay.sats \in Int
          BY <2>0, <2>1a, <2>1b
    <2>2. v[pay] = pay.sats + fee /\ v[pay] \in Int
          BY <2>1
    <2>3. t.notes = {} /\ t.pays = {pay} /\ is = was - pay.sats - fee
          BY <1>4 DEF MakesWithdrawal
    <2> HIDE DEF v, is, was
    <2>4. SumFunctionOnSet(v, {pay}) = v[pay]
          BY <2>2, SumOfSingle
    <2>5. PaidBy(t) = pay.sats + fee
          BY <2>2, <2>3, <2>4 DEF PaidBy, v
    <2>6. ImportedBy(t) = 0
          BY <2>3, SumOfNone DEF ImportedBy
    <2> QED BY <1>1, <2>1, <2>3, <2>5, <2>6
  <1>5. \/ ImportedBy(t) = is - was /\ PaidBy(t) = 0
        \/ ImportedBy(t) = 0 /\ PaidBy(t) = was - is
        BY <1>3, <1>4 DEF Spends
  <1> HIDE DEF is, was
  <1>6. Gain(t) = is - was
        BY <1>1, <1>2, <1>5 DEF Gain
  <1> QED BY <1>1, <1>6 DEF is, was

(* The gains of a longer chain *)
LEMMA GainsAdd ==
  ASSUME NEW c, Threads(c), Balanced(c), NEW t \in Tx, Gain(t) \in Int
  PROVE  /\ SumFunctionOnSet(Gains(Append(c, t)), DOMAIN Append(c, t))
              = Gain(t) + SumFunctionOnSet(Gains(c), DOMAIN c)
         /\ \A k \in DOMAIN Append(c, t) : Gain(Append(c, t)[k]) \in Int
         /\ SumFunctionOnSet(Gains(c), DOMAIN c) \in Int
  <1> DEFINE d == Append(c, t)
             n == Len(c) + 1
  <1>1. /\ DOMAIN c = 1 .. Len(c) /\ Len(c) \in Nat /\ DOMAIN d = DOMAIN c \cup {n} /\ n \notin DOMAIN c
        /\ d[n] = t /\ \A k \in DOMAIN c : d[k] = c[k]
        BY AppendKeeps DEF Threads
  <1> HIDE DEF d, n
  <1>2. IsFiniteSet(DOMAIN c)
    <2>1. IsFiniteSet(1 .. Len(c))
          BY <1>1, FS_Interval
    <2> QED BY <2>1, <1>1
  <1>3. \A k \in DOMAIN d : Gain(d[k]) \in Int
        BY <1>1 DEF Balanced
  <1>4. \A k \in DOMAIN c : Gains(d)[k] = Gains(c)[k] /\ Gains(c)[k] \in Int
        BY <1>1 DEF Gains, Balanced
  <1>5. Gains(d)[n] = Gain(t)
        BY <1>1 DEF Gains
  <1>6. SumFunctionOnSet(Gains(d), DOMAIN c) = SumFunctionOnSet(Gains(c), DOMAIN c)
        BY <1>2, <1>4, SumOfSame
  <1>7. SumFunctionOnSet(Gains(d), DOMAIN c \cup {n}) = Gains(d)[n] + SumFunctionOnSet(Gains(d), DOMAIN c)
    <2>1. \A k \in DOMAIN c \cup {n} : Gains(d)[k] \in Int
          BY <1>4, <1>5
    <2> QED BY <2>1, <1>1, <1>2, SumAdds
  <1>8. SumFunctionOnSet(Gains(c), DOMAIN c) \in Int
        BY <1>2, <1>4, SumIsInt
  <1>9. SumFunctionOnSet(Gains(d), DOMAIN d) = Gain(t) + SumFunctionOnSet(Gains(c), DOMAIN c)
        BY <1>1, <1>5, <1>6, <1>7
  <1> QED BY <1>3, <1>8, <1>9 DEF d

(* A new pool is worth what was put into it *)
LEMMA InitKeepsBalance ==
  ASSUME NEW c, Threads(c), Balanced(c), NEW f \in Funding
  PROVE  Balanced(Append(c, InitShardsTx(f)))
  <1> DEFINE t == InitShardsTx(f)
             d == Append(c, t)
             e == [v \in 1 .. NShards |-> [txid |-> Len(c) + 1, vout |-> v]]
  <1>1. /\ t \in Tx /\ t.ins = {} /\ DOMAIN t.outs = 1 .. NShards
        /\ \A v \in 1 .. NShards : t.outs[v].value = ShardValue
        BY InitTxType DEF InitShardsTx
  <1>2. Gain(t) = NShards * ShardValue /\ NShards * ShardValue \in Int /\ NShards \in Nat /\ ShardValue \in Int
        BY GainOfInit, SizesAssumption
  <1> HIDE DEF t
  <1>3. c \in Seq(Tx) /\ Live(c) \subseteq Made(c)
        BY DEF Threads, Live
  <1>4. Live(d) = Live(c) \cup New(c, t)
        BY <1>1, LiveGrows
  <1>5. /\ \A v \in DOMAIN t.outs : CellAt(d, [txid |-> Len(c) + 1, vout |-> v]) = t.outs[v]
        /\ \A o \in Made(c) : CellAt(d, o) = CellAt(c, o)
        /\ Made(c) \cap New(c, t) = {}
        BY <1>1, <1>3, Grown
  <1>6. New(c, t) = {e[v] : v \in 1 .. NShards}
        BY <1>1 DEF New
  <1>7. \A v \in 1 .. NShards : e[v] \notin Live(c) /\ e[v] \in Live(d) /\ CellAt(d, e[v]).value = ShardValue
    <2>1. \A v \in 1 .. NShards : e[v] \in New(c, t) /\ CellAt(d, e[v]) = t.outs[v]
          BY <1>1, <1>5, <1>6
    <2> QED BY <2>1, <1>1, <1>3, <1>4, <1>5
  <1>8. \A i, j \in 1 .. NShards : i # j => e[i] # e[j]
        OBVIOUS
  <1> HIDE DEF d, e
  <1>9. \A o \in Live(c) : WorthIn(d)[o] = WorthIn(c)[o] /\ WorthIn(d)[o] \in Int
    <2>1. \A o \in Made(c) : CellAt(c, o).value \in Int
          BY <1>3, PrevoutIsCell DEF Cell
    <2> QED BY <2>1, <1>3, <1>4, <1>5 DEF WorthIn
  <1>10. \A v \in 1 .. NShards : e[v] \notin Live(c) /\ WorthIn(d)[e[v]] = ShardValue
        BY <1>7 DEF WorthIn
  <1>11. SumFunctionOnSet(WorthIn(d), Live(c)) = SumFunctionOnSet(WorthIn(c), Live(c))
        BY <1>9, SumOfSame DEF Balanced
  <1>12. /\ IsFiniteSet(Live(d))
         /\ SumFunctionOnSet(WorthIn(d), Live(d)) = SumFunctionOnSet(WorthIn(d), Live(c)) + NShards * ShardValue
    <2>1. IsFiniteSet(Live(c)) /\ \A o \in Live(c) : WorthIn(d)[o] \in Int
          BY <1>9 DEF Balanced
    <2>2. LET T == Live(c) \cup {e[v] : v \in 1 .. NShards} IN
          IsFiniteSet(T) /\ SumFunctionOnSet(WorthIn(d), T)
                              = SumFunctionOnSet(WorthIn(d), Live(c)) + NShards * ShardValue
          BY <2>1, <1>2, <1>8, <1>10, SumOfEqual
    <2> QED BY <2>2, <1>4, <1>6
  <1>13. /\ SumFunctionOnSet(Gains(d), DOMAIN d) = Gain(t) + SumFunctionOnSet(Gains(c), DOMAIN c)
         /\ \A k \in DOMAIN d : Gain(d[k]) \in Int
         /\ SumFunctionOnSet(Gains(c), DOMAIN c) \in Int
        BY <1>1, <1>2, GainsAdd DEF d
  <1>14. SumFunctionOnSet(WorthIn(d), Live(d)) = SumFunctionOnSet(Gains(d), DOMAIN d)
        BY <1>2, <1>11, <1>12, <1>13 DEF Balanced
  <1>15. Balanced(d)
        BY <1>12, <1>13, <1>14 DEF Balanced
  <1> QED BY <1>15 DEF d, t

(* A spend moves the difference *)
LEMMA SpendKeepsBalance ==
  ASSUME NEW c, Threads(c), Balanced(c), NEW o \in Live(c), NEW t, Spends(c, t, o)
  PROVE  Balanced(Append(c, t))
  <1> DEFINE d == Append(c, t)
             e == [txid |-> Len(c) + 1, vout |-> 0]
  <1>1. t \in Tx /\ t.ins = {o} /\ t.ins \subseteq Live(c) /\ DOMAIN t.outs = {0}
        BY DEF Spends
  <1>2. c \in Seq(Tx) /\ Live(c) \subseteq Made(c) /\ o \in Made(c)
        BY DEF Threads, Live
  <1>3. /\ Gain(t) = t.outs[0].value - CellAt(c, o).value
        /\ t.outs[0].value \in Int /\ CellAt(c, o).value \in Int
        BY <1>2, GainOfSpend
  <1>4. Live(d) = (Live(c) \ {o}) \cup New(c, t)
        BY <1>1, LiveGrows
  <1>5. /\ CellAt(d, e) = t.outs[0]
        /\ \A q \in Made(c) : CellAt(d, q) = CellAt(c, q)
        /\ Made(c) \cap New(c, t) = {}
        BY <1>1, <1>2, Grown
  <1>6. New(c, t) = {e}
        BY <1>1 DEF New
  <1> HIDE DEF d, e
  <1> DEFINE Rest == Live(c) \ {o}
  <1>7. e \notin Rest /\ Live(d) = Rest \cup {e}
        BY <1>2, <1>4, <1>5, <1>6
  <1>8. /\ \A q \in Live(c) : WorthIn(c)[q] \in Int
        /\ \A q \in Rest : WorthIn(d)[q] = WorthIn(c)[q]
        /\ WorthIn(c)[o] = CellAt(c, o).value /\ WorthIn(d)[e] = t.outs[0].value
    <2>1. \A q \in Made(c) : CellAt(c, q).value \in Int
          BY <1>2, PrevoutIsCell DEF Cell
    <2> QED BY <2>1, <1>2, <1>5, <1>7 DEF WorthIn
  <1>9. IsFiniteSet(Live(c)) /\ IsFiniteSet(Rest)
        BY FS_RemoveElement DEF Balanced
  <1>10. SumFunctionOnSet(WorthIn(c), Live(c)) = CellAt(c, o).value + SumFunctionOnSet(WorthIn(c), Rest)
        BY <1>8, <1>9, SumOfOne
  <1> HIDE DEF Rest
  <1>11. SumFunctionOnSet(WorthIn(d), Rest) = SumFunctionOnSet(WorthIn(c), Rest)
        BY <1>8, <1>9, SumOfSame
  <1>12. \A q \in Rest \cup {e} : WorthIn(d)[q] \in Int
        BY <1>3, <1>8 DEF Rest
  <1>13. /\ SumFunctionOnSet(WorthIn(d), Live(d)) = t.outs[0].value + SumFunctionOnSet(WorthIn(d), Rest)
         /\ IsFiniteSet(Live(d))
        BY <1>7, <1>8, <1>9, <1>12, SumAdds, FS_AddElement
  <1>14. SumFunctionOnSet(WorthIn(c), Rest) \in Int
        BY <1>8, <1>9, SumIsInt DEF Rest
  <1>15. /\ SumFunctionOnSet(Gains(d), DOMAIN d) = Gain(t) + SumFunctionOnSet(Gains(c), DOMAIN c)
         /\ \A k \in DOMAIN d : Gain(d[k]) \in Int
         /\ SumFunctionOnSet(Gains(c), DOMAIN c) \in Int
        BY <1>1, <1>3, GainsAdd DEF d
  <1>16. SumFunctionOnSet(WorthIn(d), Live(d)) = SumFunctionOnSet(Gains(d), DOMAIN d)
        BY <1>3, <1>10, <1>11, <1>13, <1>14, <1>15 DEF Balanced
  <1>17. Balanced(d)
        BY <1>13, <1>15, <1>16 DEF Balanced
  <1> QED BY <1>17 DEF d

(* The first chain holds nothing *)
LEMMA NothingIsBalanced == Init => Balanced(chain)
  <1> SUFFICES ASSUME Init PROVE Balanced(chain)
      OBVIOUS
  <1>1. DOMAIN chain = {}
        BY DEF Init
  <1>2. Live(chain) = {}
        BY <1>1 DEF Live, Made
  <1> QED BY <1>1, <1>2, SumOfNone, FS_EmptySet DEF Balanced

(* No satoshi appears or is lost: under any interleaving, fault or late     *)
(* arrival the live shards of all pools together hold what init put into    *)
(* them, plus the imported notes less their fees, less the payments and     *)
(* the fees the shards paid.                                                *)
THEOREM SatoshisAreConserved == Spec => []ValueAccounting
  <1>1. IInv /\ LInv /\ Balanced(chain) /\ [Next]_vars => Balanced(chain)'
    <2> SUFFICES ASSUME IInv, LInv, Balanced(chain), [Next]_vars PROVE Balanced(chain')
        OBVIOUS
    <2>1. CASE \E t : MadeFrom(chain, t) /\ Acceptable(t) /\ chain' = Append(chain, t)
          BY <2>1, AcceptedIs, InitKeepsBalance, SpendKeepsBalance DEF LInv
    <2> QED BY <2>1, ChainGrows
  <1> QED BY <1>1, BalancedIsAccounting, NothingIsBalanced, ChainInvariant, PTL DEF Spec

-----------------------------------------------------------------------------
(***************************************************************************)
(* Part 3.  The commands.                                                  *)
(*                                                                         *)
(* What the pool commands leave behind, for every number of shards, notes  *)
(* and requests, every amount and any number of faults:                    *)
(*   - ImportFindsMode: import finds the covenant's byte order;            *)
(*   - PaidOncePerRequest: no request is paid twice out of one pool;       *)
(* and with one command at a time                                          *)
(*   - HistoryAppendOnly: the saved history only grows;                    *)
(*   - StaleByOneStep: a stale pointer is one transaction behind, and owed *)
(*     to a command cut short;                                             *)
(*   - ReportedArePaid: each payment reported has a payment on the chain.  *)
(*                                                                         *)
(* JInv adds to IInv what a command awaiting the node has sent: spends of  *)
(* the very pointer of its own copy, one fold further on, and for import   *)
(* the rest of the byte orders, where the last is left alone only if the   *)
(* covenant's is not the one that failed before it.  HInv relates a        *)
(* command's copy to the file, WInv and OInv the file to the tips of the   *)
(* shards, PInv and RqInv the requests to the payments that the chain and  *)
(* each shard's line of commitments have of them.                          *)
(***************************************************************************)

(* t spends the pointer that s has for shard i and folds once *)
Follows(s, i, t) ==
  /\ t.ins = {PointsAt(s, i)}
  /\ Len(t.outs[0].commit.folds) = Len(s.shards[i].commit.folds) + 1

Orders == <<"none", "reverse", "raw">>
ImportOf(c, s, i, n, mode) == ImportTx(s.cat, s.shards[i], CellAt(c, PointsAt(s, i)), n, mode)

(* an import that has tried k byte orders in vain *)
Tries(c, s, j) ==
  \E n \in Note, k \in 0 .. 2 :
    /\ k = 2 => CovenantMode = "direct"
    /\ Len(j.txs) = 3 - k
    /\ \A m \in 1 .. 3 - k : j.txs[m] = ImportOf(c, s, j.shard, n, Orders[m + k])

JobGood(c, s, j) ==
  /\ j.op = "init" => \E f \in Funding : j.txs = <<InitShardsTx(f)>> /\ s.cat # f
  /\ j.op \in {"import", "withdraw"} => \A k \in DOMAIN j.txs : Follows(s, j.shard, j.txs[k])
  /\ j.op = "import" /\ ForcedMode = "" => Tries(c, s, j)

JInv == \A p \in Proc : pc[p] = "send" => JobGood(chain, mem[p], job[p])

-----------------------------------------------------------------------------
(* Builders *)

LEMMA ImportFollows ==
  ASSUME NEW c \in Seq(Tx), NEW s, Good(c, s), Initialized(s), NEW i \in Shard, NEW n \in Note, NEW mode
  PROVE  Follows(s, i, ImportTx(s.cat, s.shards[i], CellAt(c, PointsAt(s, i)), n, mode))
  <1>1. s.shards[i] \in Pointer
        BY DEF Good, Faithful
  <1>2. s.shards[i].commit \in Commitment /\ s.shards[i].commit.folds \in Seq(FoldItem)
        BY <1>1 DEF Pointer, Commitment
  <1>3. StateOut(s.shards[i].commit, NoteFold(n, mode)).folds
          = Append(s.shards[i].commit.folds, NoteFold(n, mode))
        BY <1>2 DEF StateOut, Commitment
  <1>4. NoteFold(n, mode) \in FoldItem
        BY ModeType DEF NoteFold, FoldItem
  <1>5. Len(Append(s.shards[i].commit.folds, NoteFold(n, mode))) = Len(s.shards[i].commit.folds) + 1
        BY <1>2, <1>4
  <1> QED BY <1>3, <1>5 DEF Follows, ImportTx, PointsAt

LEMMA WithdrawFollows ==
  ASSUME NEW c \in Seq(Tx), NEW s, Good(c, s), Initialized(s), NEW i \in Shard, NEW pay \in Payment,
         NEW fund, NEW mode
  PROVE  Follows(s, i, WithdrawTx(s.cat, s.shards[i], CellAt(c, PointsAt(s, i)), pay, fund, mode))
  <1> DEFINE x == CellAt(c, PointsAt(s, i)).commit
  <1>1. s.shards[i] \in Pointer /\ x = s.shards[i].commit
        BY DEF Good, Faithful, FaithfulPointer
  <1>2. x \in Commitment /\ x.folds \in Seq(FoldItem)
        BY <1>1 DEF Pointer, Commitment
  <1>3. StateOut(x, Nullifier(pay, mode)).folds = Append(x.folds, Nullifier(pay, mode))
        BY <1>2 DEF StateOut, Commitment
  <1>4. Nullifier(pay, mode) \in FoldItem
        BY ModeType DEF Nullifier, FoldItem, Payment
  <1>5. Len(Append(x.folds, Nullifier(pay, mode))) = Len(x.folds) + 1
        BY <1>2, <1>4
  <1> QED BY <1>1, <1>3, <1>5 DEF Follows, WithdrawTx, PointsAt

(* The covenant takes an import in its own byte order *)
LEMMA CovenantTakesImport ==
  ASSUME NEW c \in Seq(Tx), NEW s, Good(c, s), Initialized(s), NEW i \in Shard, NEW n \in Note, NEW mode,
         NormalizeCategoryMode(mode) = CovenantMode
  PROVE  CovenantAccepts(c, ImportOf(c, s, i, n, mode))
  <1> DEFINE t == ImportOf(c, s, i, n, mode)
             o == PointsAt(s, i)
             item == NoteFold(n, mode)
  <1>1. FaithfulPointer(c, s, i) /\ s.shards[i] \in Pointer
        BY DEF Good, Faithful
  <1>2. s.shards[i].commit \in Commitment /\ CellAt(c, o).commit = s.shards[i].commit
        /\ CellAt(c, o).cat = s.cat
        BY <1>1 DEF FaithfulPointer, Pointer
  <1>3. t.ins = {o} /\ t.outs[0].cat = s.cat /\ t.outs[0].commit = StateOut(s.shards[i].commit, item)
        BY DEF ImportOf, ImportTx, PointsAt
  <1>4. item \in FoldItem /\ [item EXCEPT !.mode = CovenantMode] = item
        BY ModeType DEF NoteFold, FoldItem
  <1> HIDE DEF t, item
  <1>5. FoldOf(t) = item
        BY <1>2, <1>3, <1>4, FoldIsLast DEF FoldOf
  <1>6. CovenantAccepts(c, t)
        BY <1>2, <1>3, <1>4, <1>5 DEF CovenantAccepts
  <1> QED BY <1>6 DEF t

-----------------------------------------------------------------------------
(* JInv, action by action *)

LEMMA JobGoodStays ==
  ASSUME NEW c \in Seq(Tx), NEW t \in Tx, NEW s, Good(c, s), NEW j \in Job, BuiltFrom(s, j), JobGood(c, s, j)
  PROVE  JobGood(Append(c, t), s, j)
  <1>1. ASSUME j.op = "import", ForcedMode = "" PROVE Tries(Append(c, t), s, j)
    <2>1. Initialized(s) /\ j.shard \in Shard
          BY <1>1 DEF BuiltFrom, Job
    <2>2. PointsAt(s, j.shard) \in Made(c)
          BY <2>1 DEF Good, Faithful, FaithfulPointer
    <2>3. CellAt(Append(c, t), PointsAt(s, j.shard)) = CellAt(c, PointsAt(s, j.shard))
          BY <2>2, MadeStays
    <2> QED BY <1>1, <2>3 DEF JobGood, Tries, ImportOf
  <1> QED BY <1>1 DEF JobGood

LEMMA BeginJInv ==
  ASSUME IInv, JInv, NEW p \in Proc, NEW j, NEW step, NEW copy, Begin(p, j, step, copy),
         step = "send" => JobGood(chain, copy, j), UNCHANGED chain
  PROVE  JInv'
  <1>1. /\ job' = [job EXCEPT ![p] = j] /\ mem' = [mem EXCEPT ![p] = copy] /\ pc' = [pc EXCEPT ![p] = step]
        /\ DOMAIN job = Proc /\ DOMAIN mem = Proc /\ DOMAIN pc = Proc
        BY DEF Begin, IInv, TypeOK
  <1>2. ASSUME NEW q \in Proc, pc'[q] = "send" PROVE JobGood(chain, mem'[q], job'[q])
    <2>1. CASE q = p
          BY <1>1, <1>2, <2>1
    <2>2. CASE q # p
          BY <1>1, <1>2, <2>2 DEF JInv
    <2> QED BY <2>1, <2>2
  <1> QED BY <1>2 DEF JInv

(* The pool a copy names was opened with a coin that is spent *)
LEMMA OldPool ==
  ASSUME IInv, LInv, NEW f \in UnspentFunding
  PROVE  file.cat # f
  <1>1. CASE ~Initialized(file)
        BY <1>1, OpsAssumption DEF Initialized, UnspentFunding
  <1>2. CASE Initialized(file)
    <2>1. 0 \in Shard
          BY SizesAssumption DEF Shard
    <2>2. FaithfulPointer(chain, file, 0)
          BY <1>2, <2>1 DEF IInv, Good, Faithful
    <2>3. PointsAt(file, 0) \in Made(chain) /\ CellAt(chain, PointsAt(file, 0)).commit.cat = file.cat
          BY <2>2 DEF FaithfulPointer
    <2>4. file.cat \in PoolsIn(chain)
          BY <2>3 DEF LInv, Threads
    <2>5. PoolsIn(chain) \subseteq FundingSpent(chain)
          BY DEF PoolsIn, FundingSpent
    <2> QED BY <2>4, <2>5 DEF UnspentFunding
  <1> QED BY <1>1, <1>2

LEMMA StartImportJInv ==
  ASSUME IInv, JInv, NEW p \in Proc, StartImport(p)
  PROVE  JInv'
  <1>1. PICK n \in Note, i \in Shard :
          /\ Initialized(file)
          /\ Begin(p, [op |-> "import", shard |-> i, note |-> {n}, req |-> {},
                       txs |-> ImportTries(file, i, n)], "send", file)
          /\ UNCHANGED chain
        BY DEF StartImport, IInv, TypeOK
  <1> DEFINE txs == ImportTries(file, i, n)
             modes == ModeCandidates(ForcedMode)
             j == [op |-> "import", shard |-> i, note |-> {n}, req |-> {}, txs |-> txs]
  <1>2. txs = [m \in 1 .. Len(modes) |-> ImportOf(chain, file, i, n, modes[m])]
        BY DEF ImportTries, ImportOf, PrevoutOf, PointsAt
  <1>3. chain \in Seq(Tx) /\ Good(chain, file)
        BY DEF IInv, TypeOK
  <1>4. \A k \in DOMAIN txs : Follows(file, i, txs[k])
        BY <1>1, <1>2, <1>3, ImportFollows DEF ImportOf
  <1>5. ASSUME ForcedMode = "" PROVE Tries(chain, file, j)
    <2>1. modes = Orders /\ Len(Orders) = 3
          BY <1>5 DEF ModeCandidates, Orders
    <2>2. Len(txs) = 3 /\ \A m \in 1 .. 3 : txs[m] = ImportOf(chain, file, i, n, Orders[m])
          BY <1>2, <2>1
    <2> HIDE DEF txs
    <2>3. /\ 0 = 2 => CovenantMode = "direct"
          /\ Len(j.txs) = 3 - 0
          /\ \A m \in 1 .. 3 - 0 : j.txs[m] = ImportOf(chain, file, j.shard, n, Orders[m + 0])
          BY <2>2
    <2> QED BY <2>3 DEF Tries
  <1> HIDE DEF txs
  <1>6. JobGood(chain, file, j)
        BY <1>4, <1>5 DEF JobGood
  <1>7. Begin(p, j, "send", file)
        BY <1>1 DEF txs
  <1> HIDE DEF j
  <1> QED BY <1>1, <1>6, <1>7, BeginJInv

LEMMA StartWithdrawJInv ==
  ASSUME IInv, JInv, NEW p \in Proc, StartWithdraw(p)
  PROVE  JInv'
  <1>1. PICK r \in Req, i \in Shard :
          /\ Initialized(file)
          /\ \E fund \in FeeInputs(Want[r].external) :
               Begin(p, [op |-> "withdraw", shard |-> i, note |-> {}, req |-> {r},
                         txs |-> <<WithdrawTx(file.cat, file.shards[i],
                                              PrevoutOf(file.shards[i]), Want[r].pay, fund,
                                              WithdrawMode(ForcedMode))>>], "send", file)
          /\ UNCHANGED chain
        BY DEF StartWithdraw
  <1>2. PICK fund : Begin(p, [op |-> "withdraw", shard |-> i, note |-> {}, req |-> {r},
                              txs |-> <<WithdrawTx(file.cat, file.shards[i],
                                                   PrevoutOf(file.shards[i]), Want[r].pay, fund,
                                                   WithdrawMode(ForcedMode))>>], "send", file)
        BY <1>1
  <1> DEFINE t == WithdrawTx(file.cat, file.shards[i], PrevoutOf(file.shards[i]),
                             Want[r].pay, fund, WithdrawMode(ForcedMode))
             j == [op |-> "withdraw", shard |-> i, note |-> {}, req |-> {r}, txs |-> <<t>>]
  <1>3. Want[r].pay \in Payment /\ Good(chain, file) /\ chain \in Seq(Tx)
        BY OpsAssumption DEF IInv, TypeOK
  <1>4. PrevoutOf(file.shards[i]) = CellAt(chain, PointsAt(file, i))
        BY DEF PrevoutOf, PointsAt
  <1>5. Follows(file, i, t)
        BY <1>1, <1>3, <1>4, WithdrawFollows
  <1>6. Begin(p, j, "send", file)
        BY <1>2
  <1> HIDE DEF t
  <1>7. JobGood(chain, file, j)
        BY <1>5 DEF JobGood
  <1> HIDE DEF j
  <1> QED BY <1>1, <1>6, <1>7, BeginJInv

LEMMA CommandJInv ==
  ASSUME IInv, LInv, JInv, NEW p \in Proc, Command(p)
  PROVE  JInv'
  <1>1. CASE StartInit(p)
    <2>1. PICK f \in UnspentFunding :
            /\ Begin(p, [NoJob EXCEPT !.op = "init", !.txs = <<InitShardsTx(f)>>], "send", file)
            /\ UNCHANGED chain
          BY <1>1 DEF StartInit
    <2> DEFINE j == [NoJob EXCEPT !.op = "init", !.txs = <<InitShardsTx(f)>>]
    <2>2. j.op = "init" /\ j.txs = <<InitShardsTx(f)>> /\ f \in Funding
          BY DEF NoJob, UnspentFunding
    <2>3. file.cat # f
          BY OldPool
    <2> HIDE DEF j
    <2>4. JobGood(chain, file, j)
          BY <2>2, <2>3 DEF JobGood
    <2>5. Begin(p, j, "send", file)
          BY <2>1 DEF j
    <2> QED BY <2>1, <2>4, <2>5, BeginJInv
  <1>2. CASE StartDeposit(p)
    <2>1. PICK n : /\ Begin(p, [NoJob EXCEPT !.op = "deposit", !.note = {n}], "send", file)
                   /\ UNCHANGED chain
          BY <1>2 DEF StartDeposit
    <2> DEFINE j == [NoJob EXCEPT !.op = "deposit", !.note = {n}]
    <2>2. j.op = "deposit"
          BY DEF NoJob
    <2> HIDE DEF j
    <2>3. JobGood(chain, file, j)
          BY <2>2 DEF JobGood
    <2>4. Begin(p, j, "send", file)
          BY <2>1 DEF j
    <2> QED BY <2>1, <2>3, <2>4, BeginJInv
  <1>3. CASE InitAgain(p) \/ StageFrom(p)
    <2>1. PICK j, copy : Begin(p, j, "save", copy) /\ UNCHANGED chain
          BY <1>3 DEF InitAgain, StageFrom
    <2> QED BY <2>1, BeginJInv
  <1> QED BY <1>1, <1>2, <1>3, StartImportJInv, StartWithdrawJInv DEF Command

(* After a script failure the covenant's order is among those left *)
LEMMA FailsScriptJInv ==
  ASSUME IInv, JInv, NEW p \in Proc, NodeFailsScript(p)
  PROVE  JInv'
  <1>1. /\ job[p] \in Job /\ job[p].txs \in Seq(Tx) /\ Len(job[p].txs) > 1
        /\ job' = [job EXCEPT ![p].txs = Tail(job[p].txs)] /\ job \in [Proc -> Job]
        /\ UNCHANGED <<chain, mem, pc>>
        /\ job[p].op = "import" /\ pc[p] = "send" /\ ScriptFails(Head(job[p].txs))
        BY DEF NodeFailsScript, Sending, IInv, TypeOK, Job
  <1>2. /\ Len(Tail(job[p].txs)) = Len(job[p].txs) - 1
        /\ \A k \in 1 .. Len(job[p].txs) - 1 : Tail(job[p].txs)[k] = job[p].txs[k + 1]
        /\ DOMAIN Tail(job[p].txs) = 1 .. Len(job[p].txs) - 1 /\ DOMAIN job[p].txs = 1 .. Len(job[p].txs)
        /\ Len(job[p].txs) \in Nat /\ Head(job[p].txs) = job[p].txs[1]
        BY <1>1
  <1>3. /\ job'[p].op = "import" /\ job'[p].shard = job[p].shard /\ job'[p].txs = Tail(job[p].txs)
        /\ \A q \in Proc : q # p => job'[q] = job[q]
        BY <1>1 DEF Job
  <1>4. JobGood(chain, mem[p], job[p]) /\ Good(chain, mem[p]) /\ chain \in Seq(Tx)
        /\ Initialized(mem[p]) /\ job[p].shard \in Shard
        BY <1>1 DEF JInv, IInv, TypeOK, BuiltFrom, Job
  <1>5. \A k \in DOMAIN Tail(job[p].txs) : Follows(mem[p], job'[p].shard, Tail(job[p].txs)[k])
    <2> SUFFICES ASSUME NEW k \in DOMAIN Tail(job[p].txs)
                 PROVE  Follows(mem[p], job[p].shard, Tail(job[p].txs)[k])
        BY <1>3
    <2>1. k + 1 \in DOMAIN job[p].txs /\ Tail(job[p].txs)[k] = job[p].txs[k + 1]
          BY <1>2
    <2> QED BY <1>1, <1>4, <2>1 DEF JobGood
  <1>6. ASSUME ForcedMode = "" PROVE Tries(chain, mem[p], job'[p])
    <2>1. PICK n \in Note, k \in 0 .. 2 :
            /\ k = 2 => CovenantMode = "direct"
            /\ Len(job[p].txs) = 3 - k
            /\ \A m \in 1 .. 3 - k :
                 job[p].txs[m] = ImportOf(chain, mem[p], job[p].shard, n, Orders[m + k])
          BY <1>1, <1>4, <1>6 DEF JobGood, Tries
    <2>2. k \in 0 .. 1
          BY <1>1, <2>1
    <2>3. k = 1 => CovenantMode = "direct"
      <3> SUFFICES ASSUME k = 1 PROVE CovenantMode = "direct"
          OBVIOUS
      <3>1. Head(job[p].txs) = ImportOf(chain, mem[p], job[p].shard, n, Orders[2])
            BY <1>2, <2>1
      <3>2. ~CovenantAccepts(chain, Head(job[p].txs))
            BY <1>1 DEF ScriptFails
      <3>3. Orders[2] = "reverse"
            BY DEF Orders
      <3>4. CovenantMode # "reverse"
            BY <1>4, <3>1, <3>2, <3>3, CovenantTakesImport DEF NormalizeCategoryMode
      <3> QED BY <3>4, SizesAssumption DEF Mode
    <2>4. Len(job'[p].txs) = 3 - (k + 1) /\ k + 1 \in 0 .. 2
          BY <1>2, <1>3, <2>1, <2>2
    <2>5. \A m \in 1 .. 3 - (k + 1) :
            job'[p].txs[m] = ImportOf(chain, mem[p], job'[p].shard, n, Orders[m + (k + 1)])
      <3> SUFFICES ASSUME NEW m \in 1 .. 3 - (k + 1)
                   PROVE  job'[p].txs[m] = ImportOf(chain, mem[p], job[p].shard, n, Orders[m + (k + 1)])
          BY <1>3
      <3>1. m + 1 \in 1 .. 3 - k /\ m \in 1 .. Len(job[p].txs) - 1
            BY <2>1, <2>2
      <3>2. job'[p].txs[m] = job[p].txs[m + 1] /\ (m + 1) + k = m + (k + 1)
            BY <1>2, <1>3, <2>2, <3>1
      <3> QED BY <2>1, <3>1, <3>2
    <2>6. k + 1 = 2 => CovenantMode = "direct"
          BY <2>2, <2>3
    <2> QED BY <2>4, <2>5, <2>6 DEF Tries
  <1>7. JobGood(chain, mem[p], job'[p])
        BY <1>3, <1>5, <1>6 DEF JobGood
  <1> QED BY <1>1, <1>3, <1>7 DEF JInv

LEMMA NextJInv == IInv /\ LInv /\ JInv /\ [Next]_vars => JInv'
  <1> SUFFICES ASSUME IInv, LInv, JInv, [Next]_vars PROVE JInv'
      OBVIOUS
  <1>1. \A q \in Proc : pc[q] = "send" => JobGood(chain', mem[q], job[q])
    <2>1. CASE chain' = chain
          BY <2>1 DEF JInv
    <2>2. CASE \E t : MadeFrom(chain, t) /\ Acceptable(t) /\ chain' = Append(chain, t)
      <3>1. PICK t : MadeFrom(chain, t) /\ Acceptable(t) /\ chain' = Append(chain, t)
            BY <2>2
      <3>2. chain \in Seq(Tx) /\ t \in Tx
            BY <3>1, AcceptedKeepsThreads DEF LInv, Threads
      <3> QED BY <3>1, <3>2, JobGoodStays DEF IInv, TypeOK, JInv
    <2> QED BY <2>1, <2>2, ChainGrows
  <1>2. ASSUME NEW p \in Proc, NEW s, NEW step \in {"save", "idle"}, pc' = [pc EXCEPT ![p] = step],
               mem' = [mem EXCEPT ![p] = s], \A q \in Proc : q # p => job'[q] = job[q]
        PROVE  JInv'
    <2>1. \A q \in Proc : pc'[q] = "send" => q # p /\ pc[q] = "send" /\ mem'[q] = mem[q] /\ job'[q] = job[q]
          BY <1>2 DEF IInv, TypeOK
    <2> QED BY <1>1, <2>1 DEF JInv
  <1>3. ASSUME NEW p \in Proc, NodeAccepts(p) \/ NodeEchoes(p) \/ NodeCreatesNote(p) PROVE JInv'
    <2>1. PICK s : mem' = [mem EXCEPT ![p] = s] /\ pc' = [pc EXCEPT ![p] = "save"] /\ UNCHANGED job
          BY <1>3 DEF NodeAccepts, NodeEchoes, NodeCreatesNote, GetsTxid
    <2> QED BY <1>2, <2>1
  <1>4. ASSUME NEW p \in Proc, NodeRejects(p) \/ Save(p) \/ Fault(p) PROVE JInv'
    <2>1. /\ mem' = [mem EXCEPT ![p] = EmptyState] /\ pc' = [pc EXCEPT ![p] = "idle"]
          /\ job' = [job EXCEPT ![p] = NoJob]
          BY <1>4 DEF NodeRejects, Save, Fault, GivesUp, Crash, Ends
    <2>2. \A q \in Proc : q # p => job'[q] = job[q]
          BY <2>1 DEF IInv, TypeOK
    <2> QED BY <1>2, <2>1, <2>2
  <1>5. CASE Environment \/ UNCHANGED vars
    <2>1. UNCHANGED <<mem, pc, job>>
          BY <1>5 DEF Environment, ArrivesLate, Receive, SpendElsewhere, vars
    <2> QED BY <1>1, <2>1 DEF JInv
  <1> QED BY <1>3, <1>4, <1>5, CommandJInv, FailsScriptJInv DEF Next, Answer

LEMMA CommandInvariant == Spec => [](IInv /\ LInv /\ JInv)
  <1>1. Init => IInv /\ LInv /\ JInv
        BY InitIInv, InitLInv DEF Init, JInv
  <1>2. IInv /\ LInv /\ JInv /\ [Next]_vars => IInv' /\ LInv' /\ JInv'
        BY NextIInv, NextLInv, NextJInv
  <1> QED BY <1>1, <1>2, PTL DEF Spec

LEMMA OneOnly == ASSUME NEW n \in Nat, n # 0, ~(n > 1) PROVE n = 1
  OBVIOUS

LEMMA OneLeft ==
  ASSUME NEW txs \in Seq(Tx), txs # <<>>, ~(Len(txs) > 1)
  PROVE  Len(txs) = 1 /\ Head(txs) = txs[1]
  <1>1. Len(txs) \in Nat
        OBVIOUS
  <1>2. Len(txs) # 0
        OBVIOUS
  <1>3. Head(txs) = txs[1]
        OBVIOUS
  <1>4. Len(txs) = 1
        BY <1>1, <1>2, OneOnly, Zenon
  <1> QED BY <1>3, <1>4

(* The last byte order left is the covenant's *)
LEMMA LastTry ==
  ASSUME NEW c, NEW s, NEW j, Tries(c, s, j), Len(j.txs) = 1
  PROVE  CovenantMode = "direct" /\ \E n \in Note : j.txs[1] = ImportOf(c, s, j.shard, n, "raw")
  <1>1. PICK n \in Note, k \in 0 .. 2 :
          /\ k = 2 => CovenantMode = "direct"
          /\ Len(j.txs) = 3 - k
          /\ \A m \in 1 .. 3 - k : j.txs[m] = ImportOf(c, s, j.shard, n, Orders[m + k])
        BY DEF Tries
  <1>2. k = 2
        BY <1>1
  <1>3. 1 \in 1 .. 3 - k /\ 1 + k = 3
        BY <1>2
  <1>4. j.txs[1] = ImportOf(c, s, j.shard, n, Orders[3])
        BY <1>1, <1>3
  <1>5. Orders[3] = "raw"
        BY DEF Orders
  <1> QED BY <1>1, <1>2, <1>4, <1>5

(* import gives up on a script failure only after it has tried the byte    *)
(* order of the covenant: with good pointers that never happens            *)
THEOREM ImportMeetsCovenant == Spec => ImportFindsMode
  <1>1. IInv /\ LInv /\ JInv =>
          [\A p \in Proc : NodeRejects(p) /\ job[p].op = "import" /\ ForcedMode = ""
             => ~ScriptFails(Head(job[p].txs))]_vars
    <2> SUFFICES ASSUME IInv, JInv, NEW p \in Proc, NodeRejects(p), job[p].op = "import", ForcedMode = "",
                        ScriptFails(Head(job[p].txs))
                 PROVE  FALSE
        OBVIOUS
    <2>1. pc[p] = "send" /\ job[p].txs # <<>> /\ job[p].txs \in Seq(Tx) /\ ~(Len(job[p].txs) > 1)
          BY DEF NodeRejects, Sending, IInv, TypeOK, Job
    <2>2. Len(job[p].txs) = 1 /\ Head(job[p].txs) = job[p].txs[1]
          BY <2>1, OneLeft
    <2>3. Tries(chain, mem[p], job[p])
          BY <2>1 DEF JInv, JobGood
    <2> DEFINE j == job[p]
               s == mem[p]
    <2>6. Tries(chain, s, j) /\ Len(j.txs) = 1
          BY <2>2, <2>3
    <2> HIDE DEF j, s
    <2>5. \E n \in Note : j.txs[1] = ImportOf(chain, s, j.shard, n, "raw")
          BY <2>6, LastTry
    <2> USE DEF j, s
    <2>4. PICK n \in Note : job[p].txs[1] = ImportOf(chain, mem[p], job[p].shard, n, "raw")
          BY <2>5, Zenon
    <2>7. Good(chain, mem[p]) /\ chain \in Seq(Tx) /\ Initialized(mem[p]) /\ job[p].shard \in Shard
          BY <2>1 DEF IInv, TypeOK, BuiltFrom, Job
    <2>8. NormalizeCategoryMode("raw") = CovenantMode
          BY <2>2, <2>3, LastTry DEF NormalizeCategoryMode
    <2>9. CovenantAccepts(chain, Head(job[p].txs))
          BY <2>2, <2>4, <2>7, <2>8, CovenantTakesImport
    <2> QED BY <2>9 DEF ScriptFails
  <1> QED BY <1>1, CommandInvariant, PTL DEF ImportFindsMode


-----------------------------------------------------------------------------
(* One command at a time                                                   *)

Alone == \A p, q \in Proc : p = q

(* A copy awaiting the node is the file; one about to be saved extends it  *)
HInv == \A p \in Proc : /\ pc[p] = "send" => mem[p] = file
                        /\ pc[p] = "save" => KeepsHistory(file, mem[p])

LEMMA FoldsCount ==
  ASSUME NEW c, NEW s, Good(c, s), Initialized(s), NEW i \in Shard
  PROVE  s.shards \in [Shard -> Pointer] /\ Len(s.shards[i].commit.folds) \in Nat
  <1>1. s.shards \in [Shard -> Pointer] /\ s.shards[i] \in Pointer
        BY DEF Good, Faithful
  <1>2. s.shards[i].commit.folds \in Seq(FoldItem)
        BY <1>1 DEF Pointer, Commitment
  <1> QED BY <1>1, <1>2

LEMMA KeepsItself ==
  ASSUME NEW c, NEW s, Good(c, s)
  PROVE  KeepsHistory(s, s)
  BY FoldsCount DEF KeepsHistory

LEMMA StageKeeps ==
  ASSUME NEW c, NEW s, Good(c, s), NEW n \in Note
  PROVE  KeepsHistory(s, Stage(s, n))
  <1>1. s \in PoolState
        BY DEF Good
  <1>2. /\ Stage(s, n).cat = s.cat /\ Stage(s, n).shards = s.shards /\ Stage(s, n).withdrawals = s.withdrawals
        /\ \A m \in Note : /\ s.deposits[m].staged => Stage(s, n).deposits[m].staged
                           /\ Stage(s, n).deposits[m].importTx = s.deposits[m].importTx
        BY <1>1 DEF Stage, PoolState, DepositRecord
  <1> QED BY <1>2, FoldsCount DEF KeepsHistory

(* A command's own patch only adds to its copy *)
LEMMA RecordKeeps ==
  ASSUME NEW c, NEW s, Good(c, s), NEW j \in Job, BuiltFrom(s, j), JobGood(c, s, j),
         NEW m \in DOMAIN j.txs, NEW t, t = j.txs[m], NEW k \in Nat \ {0}
  PROVE  KeepsHistory(s, Record(s, j, t, k))
  <1>1. s \in PoolState
        BY DEF Good
  <1>2. CASE j.op = "init"
    <2>1. PICK f \in Funding : j.txs = <<InitShardsTx(f)>> /\ s.cat # f
          BY <1>2 DEF JobGood
    <2>2. t = InitShardsTx(f) /\ 1 \in 1 .. NShards
          BY <2>1, SizesAssumption
    <2>3. t.outs[1].cat = f
          BY <2>2 DEF InitShardsTx
    <2>4. Record(s, j, t, k) = RecordInit(s, t, k)
          BY <1>2 DEF Record
    <2>5. /\ Record(s, j, t, k).cat = f /\ Record(s, j, t, k).deposits = s.deposits
          /\ Record(s, j, t, k).withdrawals = s.withdrawals
          BY <1>1, <2>3, <2>4 DEF RecordInit, PoolState
    <2> QED BY <2>1, <2>5 DEF KeepsHistory
  <1>3. CASE j.op \in {"import", "withdraw"}
    <2> DEFINE i == j.shard
               r == Record(s, j, t, k)
    <2>1. Initialized(s) /\ i \in Shard /\ Follows(s, i, t)
          BY <1>3 DEF BuiltFrom, Job, JobGood
    <2>2. r = IF j.op = "import" THEN RecordImport(s, i, t, k) ELSE RecordWithdraw(s, i, t, k)
          BY <1>3 DEF Record
    <2>3. r.shards = [s.shards EXCEPT ![i] = NextPointer(t, k)]
          BY <1>1, <2>2 DEF RecordImport, RecordWithdraw, PoolState
    <2>4. s.withdrawals \subseteq r.withdrawals
          BY <1>1, <2>2 DEF RecordImport, RecordWithdraw, PoolState
    <2>5. \A n \in Note : r.deposits[n] = s.deposits[n] \/ (r.deposits[n].staged /\ r.deposits[n].importTx = k)
          BY <1>1, <2>2 DEF RecordImport, RecordWithdraw, PoolState
    <2> HIDE DEF r, i
    <2>6. \A l \in Shard : Len(s.shards[l].commit.folds) <= Len(r.shards[l].commit.folds)
      <3> SUFFICES ASSUME NEW l \in Shard
                   PROVE  Len(s.shards[l].commit.folds) <= Len(r.shards[l].commit.folds)
          OBVIOUS
      <3>1. s.shards \in [Shard -> Pointer] /\ Len(s.shards[l].commit.folds) \in Nat
            BY <2>1, FoldsCount
      <3>2. CASE l # i
            BY <2>3, <3>1, <3>2
      <3>3. CASE l = i
        <4>1. r.shards[l] = NextPointer(t, k)
              BY <2>3, <3>1, <3>3
        <4>2. r.shards[l].commit = t.outs[0].commit
              BY <4>1 DEF NextPointer
        <4>3. Len(r.shards[l].commit.folds) = Len(s.shards[l].commit.folds) + 1
              BY <2>1, <3>3, <4>2 DEF Follows
        <4> QED BY <3>1, <4>3, SMTT(30)
      <3> QED BY <3>2, <3>3
    <2>7. \A n \in Note : /\ s.deposits[n].staged => r.deposits[n].staged
                          /\ s.deposits[n].importTx # 0 => r.deposits[n].importTx # 0
          BY <2>5
    <2>8. KeepsHistory(s, r)
          BY <2>4, <2>6, <2>7 DEF KeepsHistory
    <2> QED BY <2>8 DEF r
  <1>4. CASE j.op = "deposit" /\ j.txs = <<>>
        BY <1>4
  <1> QED BY <1>2, <1>3, <1>4 DEF BuiltFrom

LEMMA BeginHInv ==
  ASSUME Alone, IInv, NEW p \in Proc, NEW j, NEW step \in {"send", "save"}, NEW copy, Begin(p, j, step, copy),
         KeepsHistory(file, copy), step = "send" => copy = file, UNCHANGED file
  PROVE  HInv'
  <1>1. mem' = [mem EXCEPT ![p] = copy] /\ pc' = [pc EXCEPT ![p] = step] /\ \A q \in Proc : q = p
        BY DEF Begin, Alone
  <1>2. mem'[p] = copy /\ pc'[p] = step
        BY <1>1 DEF IInv, TypeOK
  <1> QED BY <1>1, <1>2 DEF HInv

LEMMA CommandHInv ==
  ASSUME Alone, IInv, NEW p \in Proc, Command(p)
  PROVE  HInv'
  <1>1. Good(chain, file) /\ KeepsHistory(file, file)
        BY KeepsItself DEF IInv
  <1>2. \E j, copy : \E step \in {"send", "save"} :
          /\ Begin(p, j, step, copy) /\ UNCHANGED file
          /\ step = "send" => copy = file
          /\ copy = file \/ \E n \in Note : copy = Stage(file, n)
    <2>1. CASE StageFrom(p)
      <3>1. PICK n \in received :
              Begin(p, [NoJob EXCEPT !.op = "stage", !.note = {n}], "save", Stage(file, n)) /\ UNCHANGED file
            BY <2>1 DEF StageFrom
      <3> DEFINE j == [NoJob EXCEPT !.op = "stage", !.note = {n}]
      <3>2. Begin(p, j, "save", Stage(file, n)) /\ n \in Note
            BY <3>1 DEF IInv, TypeOK
      <3> HIDE DEF j
      <3> QED BY <3>1, <3>2
    <2>2. CASE InitAgain(p)
      <3> DEFINE j == [NoJob EXCEPT !.op = "touch"]
      <3>1. Begin(p, j, "save", file) /\ UNCHANGED file
            BY <2>2 DEF InitAgain
      <3> HIDE DEF j
      <3> QED BY <3>1
    <2>3. CASE StartInit(p) \/ StartDeposit(p) \/ StartImport(p) \/ StartWithdraw(p)
      <3>1. \E j : Begin(p, j, "send", file) /\ UNCHANGED file
            BY <2>3 DEF StartInit, StartDeposit, StartImport, StartWithdraw
      <3> QED BY <3>1
    <2> QED BY <2>1, <2>2, <2>3 DEF Command
  <1>3. PICK j, copy, step :
          /\ step \in {"send", "save"}
          /\ Begin(p, j, step, copy) /\ UNCHANGED file
          /\ step = "send" => copy = file
          /\ copy = file \/ \E n \in Note : copy = Stage(file, n)
        BY <1>2
  <1>4. KeepsHistory(file, copy)
        BY <1>1, <1>3, StageKeeps
  <1> QED BY <1>3, <1>4, BeginHInv

LEMMA GetsTxidHInv ==
  ASSUME Alone, IInv, JInv, HInv, NEW p \in Proc, Sending(p), NEW k \in Nat \ {0}, GetsTxid(p, k), UNCHANGED file
  PROVE  HInv'
  <1> DEFINE t == Head(job[p].txs)
  <1>1. /\ pc[p] = "send" /\ mem[p] = file /\ job[p] \in Job /\ job[p].txs \in Seq(Tx) /\ job[p].txs # <<>>
        /\ Good(chain, mem[p]) /\ BuiltFrom(mem[p], job[p]) /\ JobGood(chain, mem[p], job[p])
        BY DEF Sending, HInv, IInv, JInv, TypeOK, Job
  <1>2. 1 \in DOMAIN job[p].txs /\ t = job[p].txs[1]
        BY <1>1
  <1> HIDE DEF t
  <1>3. KeepsHistory(mem[p], Record(mem[p], job[p], t, k))
        BY <1>1, <1>2, RecordKeeps
  <1>4. mem'[p] = Record(mem[p], job[p], t, k) /\ pc'[p] = "save" /\ \A q \in Proc : q = p
        BY DEF GetsTxid, IInv, TypeOK, Alone, t
  <1> QED BY <1>1, <1>3, <1>4 DEF HInv

LEMMA NextHInv == ASSUME Alone PROVE IInv /\ JInv /\ HInv /\ [Next]_vars => HInv'
  <1> SUFFICES ASSUME IInv, JInv, HInv, [Next]_vars PROVE HInv'
      OBVIOUS
  <1>1. ASSUME NEW p \in Proc, NodeAccepts(p) PROVE HInv'
    <2>1. chain \in Seq(Tx)
          BY DEF IInv, TypeOK
    <2>2. Len(chain) + 1 \in Nat \ {0}
          BY <2>1
    <2> QED BY <1>1, <2>2, GetsTxidHInv DEF NodeAccepts
  <1>2. ASSUME NEW p \in Proc, NodeEchoes(p) PROVE HInv'
    <2>1. TxidOf(chain, Head(job[p].txs)) \in DOMAIN chain
          BY <1>2 DEF NodeEchoes, Known, TxidOf
    <2>2. chain \in Seq(Tx)
          BY DEF IInv, TypeOK
    <2>3. TxidOf(chain, Head(job[p].txs)) \in Nat \ {0}
          BY <2>1, <2>2
    <2> QED BY <1>2, <2>3, GetsTxidHInv DEF NodeEchoes
  <1>3. ASSUME NEW p \in Proc, NodeFailsScript(p) PROVE HInv'
        BY <1>3 DEF NodeFailsScript, HInv
  <1>4. ASSUME NEW p \in Proc, NodeRejects(p) \/ Save(p) \/ Fault(p) PROVE HInv'
    <2>1. pc' = [pc EXCEPT ![p] = "idle"]
          BY <1>4 DEF NodeRejects, Save, Fault, GivesUp, Crash, Ends
    <2>2. pc'[p] = "idle" /\ \A q \in Proc : q = p
          BY <2>1 DEF IInv, TypeOK, Alone
    <2> QED BY <2>2 DEF HInv
  <1>5. ASSUME NEW p \in Proc, NodeCreatesNote(p) PROVE HInv'
    <2>1. PICK n \in job[p].note : mem' = [mem EXCEPT ![p] = Stage(mem[p], n)]
          BY <1>5 DEF NodeCreatesNote
    <2>2. pc[p] = "send" /\ pc' = [pc EXCEPT ![p] = "save"] /\ UNCHANGED file
          BY <1>5 DEF NodeCreatesNote
    <2>3. mem[p] = file /\ Good(chain, file) /\ n \in Note
          BY <2>2 DEF HInv, IInv, TypeOK, Job
    <2>4. mem'[p] = Stage(file, n) /\ pc'[p] = "save" /\ \A q \in Proc : q = p
          BY <2>1, <2>2, <2>3 DEF IInv, TypeOK, Alone
    <2> QED BY <2>2, <2>3, <2>4, StageKeeps DEF HInv
  <1>6. CASE Environment \/ UNCHANGED vars
        BY <1>6 DEF Environment, ArrivesLate, Receive, SpendElsewhere, vars, HInv
  <1> QED BY <1>1, <1>2, <1>3, <1>4, <1>5, <1>6, CommandHInv DEF Next, Answer

LEMMA AloneInvariant == ASSUME Alone PROVE Spec => [](IInv /\ LInv /\ JInv /\ HInv)
  <1>1. Init => HInv
        BY DEF Init, HInv
  <1>2. IInv /\ JInv /\ HInv /\ [Next]_vars => HInv'
        BY NextHInv
  <1> QED BY <1>1, <1>2, CommandInvariant, PTL DEF Spec

(* With one command at a time nothing the operator was told is forgotten:  *)
(* no save drops a record or takes a pointer back along its history        *)
THEOREM HistoryGrows == ASSUME Alone PROVE Spec => HistoryAppendOnly
  <1>1. IInv /\ HInv /\ [Next]_vars => [KeepsHistory(file, file')]_vars
    <2> SUFFICES ASSUME IInv, HInv, Next PROVE KeepsHistory(file, file')
        BY DEF HInv
    <2>1. CASE UNCHANGED file
          BY <2>1, KeepsItself DEF IInv
    <2>2. CASE \E p \in Proc : Save(p)
          BY <2>2 DEF Save, HInv
    <2> QED BY <2>1, <2>2 DEF Next, Command, StartInit, InitAgain, StartDeposit, StageFrom, StartImport,
              StartWithdraw, Answer, NodeAccepts, NodeEchoes, NodeFailsScript, NodeRejects, NodeCreatesNote,
              Fault, GivesUp, Crash, Environment, ArrivesLate, Receive, SpendElsewhere
  <1> QED BY <1>1, AloneInvariant, PTL DEF Spec, HistoryAppendOnly

-----------------------------------------------------------------------------
(* How far a pointer may be behind                                         *)

(* An output that is live and that nothing on the wire spends *)
Untouched(c, w, o) == o \in Live(c) /\ \A t \in w : o \notin t.ins

(* An output spent by a transaction whose own is untouched *)
Behind(c, w, o) == \E k \in DOMAIN c : o \in c[k].ins /\ Untouched(c, w, [txid |-> k, vout |-> 0])

Current(c, w, s) ==
  Initialized(s) => \A i \in Shard : PointsAt(s, i) \in Live(c) \/ Behind(c, w, PointsAt(s, i))

(* The pointers of s that are spent or may be, by what is on the wire *)
Owed(c, w, s) == IF Initialized(s) THEN {i \in Shard : ~Untouched(c, w, PointsAt(s, i))} ELSE {}

(* Each spend continues the thread of its one input, and nobody else's does *)
Linked(c) ==
  \A k \in DOMAIN c : \A o \in c[k].ins :
    LET x == CellAt(c, o).commit
    IN  /\ c[k].ins = {o} /\ o \in Made(c) /\ o.txid < k /\ 0 \in DOMAIN c[k].outs
        /\ OfThread(c[k].outs[0], x.cat, x.shard)
        /\ \A l \in DOMAIN c : /\ l # k => o \notin c[l].ins
                               /\ TouchesIn(c, l, x.cat, x.shard) => l <= o.txid \/ l >= k

(* A pool that init is about to be told of again has not been used *)
NewPool(c, w, j) ==
  j.op = "init" => \A k \in DOMAIN c : (\E m \in DOMAIN j.txs : c[k] = j.txs[m]) =>
                     \A v \in DOMAIN c[k].outs : Untouched(c, w, [txid |-> k, vout |-> v])

WInv ==
  /\ Linked(chain)
  /\ Current(chain, wire, file)
  /\ \A p \in Proc : /\ pc[p] = "save" => Current(chain, wire, mem[p])
                     /\ pc[p] = "send" => NewPool(chain, wire, job[p])

(* Each owed pointer is due to a fault, or to the command that is to save *)
OInv ==
  \/ /\ \A p \in Proc : pc[p] # "save"
     /\ Cardinality(Owed(chain, wire, file)) <= faults
  \/ \E p \in Proc : /\ pc[p] = "save"
                     /\ Cardinality(Owed(chain, wire, file)) <= faults + 1
                     /\ Cardinality(Owed(chain, wire, mem[p])) <= faults

LEMMA LinkedGrows ==
  ASSUME NEW c, Threads(c), Linked(c), NEW t \in Tx, t.ins = {} \/ \E o \in Live(c) : Spends(c, t, o)
  PROVE  Linked(Append(c, t))
  <1> DEFINE d == Append(c, t)
             n == Len(c) + 1
  <1>1. c \in Seq(Tx) /\ Spent(c) \subseteq Made(c)
        BY DEF Threads
  <1>2. /\ DOMAIN d = DOMAIN c \cup {n} /\ n \notin DOMAIN c /\ d[n] = t
        /\ \A k \in DOMAIN c : d[k] = c[k] /\ k \in Nat /\ k < n
        BY <1>1, AppendKeeps
  <1>3. Made(c) \subseteq Made(d) /\ \A o \in Made(c) : o.txid \in DOMAIN c /\ CellAt(d, o) = CellAt(c, o)
    <2>1. Made(d) = Made(c) \cup New(c, t) /\ \A o \in Made(c) : o.txid \in DOMAIN c /\ CellAt(d, o) = CellAt(c, o)
          BY <1>1, Grown
    <2> QED BY <2>1
  <1>4. \A o \in t.ins : o \in Live(c) /\ t.ins = {o} /\ Spends(c, t, o)
        BY DEF Spends
  <1> HIDE DEF d, n
  <1> SUFFICES ASSUME NEW k \in DOMAIN d, NEW o \in d[k].ins
               PROVE  LET x == CellAt(d, o).commit
                      IN  /\ d[k].ins = {o} /\ o \in Made(d) /\ o.txid < k /\ 0 \in DOMAIN d[k].outs
                          /\ OfThread(d[k].outs[0], x.cat, x.shard)
                          /\ \A l \in DOMAIN d : /\ l # k => o \notin d[l].ins
                                                 /\ TouchesIn(d, l, x.cat, x.shard) => l <= o.txid \/ l >= k
      BY DEF Linked, d
  <1> DEFINE x == CellAt(d, o).commit
  <1>5. CASE k \in DOMAIN c
    <2>1. o \in c[k].ins /\ o \in Made(c) /\ o \in Spent(c) /\ CellAt(d, o) = CellAt(c, o)
          BY <1>1, <1>2, <1>3, <1>5 DEF Spent
    <2>2. /\ c[k].ins = {o} /\ o.txid < k /\ 0 \in DOMAIN c[k].outs
          /\ OfThread(c[k].outs[0], x.cat, x.shard)
          /\ \A l \in DOMAIN c : /\ l # k => o \notin c[l].ins
                                 /\ TouchesIn(c, l, x.cat, x.shard) => l <= o.txid \/ l >= k
          BY <1>5, <2>1 DEF Linked
    <2>3. \A l \in DOMAIN c : TouchesIn(d, l, x.cat, x.shard) <=> TouchesIn(c, l, x.cat, x.shard)
          BY <1>2 DEF TouchesIn
    <2>4. o \notin t.ins
          BY <1>4, <2>1 DEF Live
    <2>5. n >= k
          BY <1>1, <1>2, <1>5 DEF n
    <2> QED BY <1>2, <1>3, <1>5, <2>1, <2>2, <2>3, <2>4, <2>5
  <1>6. CASE k = n
    <2>1. o \in Live(c) /\ t.ins = {o} /\ Spends(c, t, o) /\ d[k] = t /\ o \in Made(c) /\ o \notin Spent(c)
          BY <1>2, <1>4, <1>6 DEF Live
    <2>2. CellAt(d, o) = CellAt(c, o) /\ o.txid \in DOMAIN c /\ o \in Made(d)
          BY <1>3, <2>1
    <2>3. t.outs \in [{0} -> Cell] /\ OfThread(t.outs[0], x.cat, x.shard)
      <3>1. x \in Commitment
            BY <2>1, <2>2, MadeAreCells
      <3>2. \A item : StateOut(x, item).cat = x.cat /\ StateOut(x, item).shard = x.shard
            BY <3>1 DEF StateOut, Commitment
      <3>3. \E item : t.outs[0].commit = StateOut(x, item)
            BY <2>1, <2>2 DEF Spends, MakesImport, MakesWithdrawal
      <3> QED BY <2>1, <3>2, <3>3 DEF Spends, OfThread
    <2>4. \A l \in DOMAIN c : o \notin c[l].ins
          BY <2>1 DEF Spent
    <2>5. x.cat \in PoolsIn(c) /\ x.shard \in Shard
          BY <2>1, <2>2, MadeAreCells
    <2>6. PICK tip \in DOMAIN c : IsTip(c, tip, x.cat, x.shard)
          BY <2>5 DEF Threads
    <2>7. o.txid = tip
      <3>1. o \in ThreadIn(c, x.cat, x.shard)
            BY <2>1, <2>2 DEF ThreadIn, OfThread
      <3> QED BY <2>6, <3>1 DEF IsTip, TipAt
    <2>8. \A l \in DOMAIN c : TouchesIn(d, l, x.cat, x.shard) => l <= o.txid
      <3>1. \A l \in DOMAIN c : TouchesIn(d, l, x.cat, x.shard) => TouchesIn(c, l, x.cat, x.shard)
            BY <1>2 DEF TouchesIn
      <3> QED BY <2>6, <2>7, <3>1 DEF IsTip
    <2>9. o.txid < n /\ n >= n /\ 0 \in DOMAIN t.outs
          BY <1>1, <1>2, <2>2, <2>3 DEF n
    <2> QED BY <1>2, <1>6, <2>1, <2>2, <2>3, <2>4, <2>8, <2>9
  <1> QED BY <1>2, <1>5, <1>6

(* t spends no output that makes up for a pointer of s *)
NotAhead(c, w, s, t) ==
  \A i \in Shard, k \in DOMAIN c :
    PointsAt(s, i) \in c[k].ins /\ Untouched(c, w, [txid |-> k, vout |-> 0])
      => [txid |-> k, vout |-> 0] \notin t.ins

LEMMA UntouchedStays ==
  ASSUME NEW c, Threads(c), NEW t \in Tx, t.ins \subseteq Live(c), NEW w, NEW v, v \subseteq w,
         NEW o, Untouched(c, w, o), o \notin t.ins
  PROVE  Untouched(Append(c, t), v, o)
  BY LiveGrows DEF Untouched

LEMMA NewUntouched ==
  ASSUME NEW c, Threads(c), NEW t \in Tx, t.ins \subseteq Live(c), NEW w,
         \A u \in w : u.ins \subseteq Made(c), NEW o \in New(c, t)
  PROVE  Untouched(Append(c, t), w, o)
  <1>1. o \in Live(Append(c, t))
        BY LiveGrows
  <1>2. o \notin Made(c)
    <2>1. Made(c) \cap New(c, t) = {}
          BY Grown DEF Threads
    <2> QED BY <2>1
  <1> QED BY <1>1, <1>2 DEF Untouched

LEMMA CurrentGrows ==
  ASSUME NEW c, Threads(c), NEW t \in Tx, t.ins \subseteq Live(c), NEW w, NEW v, v \subseteq w,
         \A u \in v : u.ins \subseteq Made(c), t.ins # {} => 0 \in DOMAIN t.outs,
         NEW s, Current(c, w, s), NotAhead(c, w, s, t)
  PROVE  Current(Append(c, t), v, s)
  <1> DEFINE d == Append(c, t)
             n == Len(c) + 1
  <1>1. /\ n \in DOMAIN d /\ d[n] = t /\ \A k \in DOMAIN c : k \in DOMAIN d /\ d[k] = c[k]
        BY AppendKeeps DEF Threads
  <1>2. Live(d) = (Live(c) \ t.ins) \cup New(c, t)
        BY LiveGrows
  <1> HIDE DEF d, n
  <1> SUFFICES ASSUME Initialized(s), NEW i \in Shard
               PROVE  PointsAt(s, i) \in Live(d) \/ Behind(d, v, PointsAt(s, i))
      BY DEF Current, d
  <1> DEFINE o == PointsAt(s, i)
  <1>3. CASE o \in t.ins
    <2>1. [txid |-> n, vout |-> 0] \in New(c, t)
          BY <1>3 DEF New, n
    <2>2. Untouched(d, v, [txid |-> n, vout |-> 0])
          BY <2>1, NewUntouched DEF d
    <2> QED BY <1>1, <1>3, <2>2 DEF Behind
  <1>4. CASE o \notin t.ins /\ o \in Live(c)
        BY <1>2, <1>4
  <1>5. CASE o \notin t.ins /\ Behind(c, w, o)
    <2>1. PICK k \in DOMAIN c : o \in c[k].ins /\ Untouched(c, w, [txid |-> k, vout |-> 0])
          BY <1>5 DEF Behind
    <2>2. [txid |-> k, vout |-> 0] \notin t.ins
          BY <2>1 DEF NotAhead
    <2>3. Untouched(d, v, [txid |-> k, vout |-> 0])
          BY <2>1, <2>2, UntouchedStays DEF d
    <2> QED BY <1>1, <2>1, <2>3 DEF Behind
  <1> QED BY <1>3, <1>4, <1>5 DEF Current

LEMMA CurrentOnWire ==
  ASSUME NEW c, NEW w, NEW s, Current(c, w, s), NEW t, NotAhead(c, w, s, t)
  PROVE  Current(c, w \cup {t}, s)
  BY DEF Current, Behind, Untouched, NotAhead

LEMMA OwedGrows ==
  ASSUME NEW c, Threads(c), NEW t \in Tx, t.ins \subseteq Live(c), NEW w, NEW v, v \subseteq w, NEW s
  PROVE  Owed(Append(c, t), v, s) \subseteq Owed(c, w, s) \cup {i \in Shard : PointsAt(s, i) \in t.ins}
  BY UntouchedStays DEF Owed

LEMMA OwedOnWire ==
  ASSUME NEW c, NEW w, NEW s, NEW t
  PROVE  Owed(c, w \cup {t}, s) \subseteq Owed(c, w, s) \cup {i \in Shard : PointsAt(s, i) \in t.ins}
  BY DEF Owed, Untouched

LEMMA PointersApart ==
  ASSUME NEW c, NEW s, Good(c, s), Initialized(s), NEW i \in Shard, NEW j \in Shard, i # j
  PROVE  PointsAt(s, i) # PointsAt(s, j)
  BY DEF Good, Faithful, FaithfulPointer

(* A pointer of s makes up for none of them *)
LEMMA PointerNotAhead ==
  ASSUME NEW c \in Seq(Tx), Linked(c), NEW s, Good(c, s), Initialized(s), NEW w, NEW t,
         NEW j \in Shard, t.ins = {PointsAt(s, j)}
  PROVE  NotAhead(c, w, s, t)
  <1> SUFFICES ASSUME NEW i \in Shard, NEW k \in DOMAIN c, PointsAt(s, i) \in c[k].ins,
                      [txid |-> k, vout |-> 0] = PointsAt(s, j)
               PROVE  FALSE
      BY DEF NotAhead
  <1>1. /\ CellAt(c, PointsAt(s, i)).commit.cat = s.cat /\ CellAt(c, PointsAt(s, i)).commit.shard = i
        /\ CellAt(c, PointsAt(s, j)).commit.cat = s.cat /\ CellAt(c, PointsAt(s, j)).commit.shard = j
        BY DEF Good, Faithful, FaithfulPointer
  <1>2. PointsAt(s, i).txid < k /\ c[k].outs[0].commit.shard = i
        BY <1>1 DEF Linked, OfThread
  <1>3. c[k].outs[0] = CellAt(c, PointsAt(s, j)) /\ PointsAt(s, j).txid = k
        BY DEF CellAt, PointsAt
  <1>4. i = j /\ k < k
        BY <1>1, <1>2, <1>3
  <1>5. k \in Nat
        OBVIOUS
  <1> QED BY <1>4, <1>5

LEMMA WireNotAhead ==
  ASSUME NEW c, NEW s, NEW w, NEW t \in w
  PROVE  NotAhead(c, w, s, t)
  BY DEF NotAhead, Untouched

LEMMA OneOwed ==
  ASSUME NEW c, NEW s, Good(c, s), Initialized(s), NEW j \in Shard, NEW t, t.ins = {PointsAt(s, j)}
  PROVE  {i \in Shard : PointsAt(s, i) \in t.ins} = {j}
  BY PointersApart

LEMMA OwedFinite ==
  ASSUME NEW S, S \subseteq Shard
  PROVE  IsFiniteSet(S) /\ Cardinality(S) \in Nat
  <1>1. 0 \in Int /\ NShards - 1 \in Int
        BY SizesAssumption
  <1>2. IsFiniteSet(Shard)
        BY <1>1, FS_Interval DEF Shard
  <1> QED BY <1>2, FS_Subset, FS_CardinalityType

LEMMA OwedIsFew ==
  ASSUME NEW c, NEW w, NEW s
  PROVE  Owed(c, w, s) \subseteq Shard
  BY DEF Owed

LEMMA FewerOwed ==
  ASSUME NEW S, NEW T, S \subseteq Shard, T \subseteq S
  PROVE  Cardinality(T) <= Cardinality(S)
  BY OwedFinite, FS_Subset

LEMMA OneMoreOwed ==
  ASSUME NEW S, NEW T, NEW j \in Shard, S \subseteq Shard, T \subseteq S \cup {j}
  PROVE  Cardinality(T) <= Cardinality(S) + 1
  <1>1. IsFiniteSet(S) /\ Cardinality(S) \in Nat
        BY OwedFinite
  <1>2. IsFiniteSet(S \cup {j}) /\ Cardinality(S \cup {j}) <= Cardinality(S) + 1 /\ Cardinality(S \cup {j}) \in Nat
        BY <1>1, FS_AddElement
  <1>3. S \cup {j} \subseteq Shard
        OBVIOUS
  <1>4. Cardinality(T) <= Cardinality(S \cup {j}) /\ Cardinality(T) \in Nat
        BY <1>3, FewerOwed, OwedFinite
  <1> QED BY <1>1, <1>2, <1>4

(* What Record makes of the pointers *)
LEMMA StepPointers ==
  ASSUME NEW c, NEW s, Good(c, s), NEW j \in Job, BuiltFrom(s, j), j.op \in {"import", "withdraw"},
         NEW t, NEW k
  PROVE  LET r == Record(s, j, t, k) IN
         /\ Initialized(s) /\ Initialized(r) /\ r.cat = s.cat
         /\ PointsAt(r, j.shard) = [txid |-> k, vout |-> 0]
         /\ \A i \in Shard : i # j.shard => PointsAt(r, i) = PointsAt(s, i)
  <1> DEFINE i == j.shard
             r == Record(s, j, t, k)
  <1>1. Initialized(s) /\ i \in Shard /\ s \in PoolState
        BY DEF BuiltFrom, Job, Good
  <1>2. s.shards \in [Shard -> Pointer]
        BY <1>1, FoldsCount
  <1>3. r = IF j.op = "import" THEN RecordImport(s, i, t, k) ELSE RecordWithdraw(s, i, t, k)
        BY DEF Record
  <1>4. r.shards = [s.shards EXCEPT ![i] = NextPointer(t, k)] /\ r.cat = s.cat
        BY <1>1, <1>3 DEF RecordImport, RecordWithdraw, PoolState
  <1> HIDE DEF r, i
  <1>5. PointsAt(r, i) = [txid |-> k, vout |-> 0]
    <2>1. r.shards[i] = NextPointer(t, k)
          BY <1>1, <1>2, <1>4
    <2> QED BY <2>1 DEF PointsAt, NextPointer
  <1>6. \A l \in Shard : l # i => PointsAt(r, l) = PointsAt(s, l)
    <2> SUFFICES ASSUME NEW l \in Shard, l # i PROVE PointsAt(r, l) = PointsAt(s, l)
        OBVIOUS
    <2>1. r.shards[l] = s.shards[l]
          BY <1>2, <1>4
    <2> QED BY <2>1 DEF PointsAt
  <1>7. Initialized(r)
        BY <1>1, <1>4 DEF Initialized
  <1> QED BY <1>1, <1>4, <1>5, <1>6, <1>7 DEF r, i

LEMMA PoolPointers ==
  ASSUME NEW c, NEW s, Good(c, s), NEW j \in Job, j.op = "init", NEW f \in Funding, NEW k
  PROVE  LET t == InitShardsTx(f)
             r == Record(s, j, t, k)
         IN  \A i \in Shard : PointsAt(r, i) = [txid |-> k, vout |-> i + 1] /\ i + 1 \in DOMAIN t.outs
  <1> DEFINE t == InitShardsTx(f)
             r == Record(s, j, t, k)
  <1>1. s \in PoolState
        BY DEF Good
  <1>2. r = RecordInit(s, t, k)
        BY DEF Record
  <1>3. DOMAIN t.outs = 1 .. NShards
        BY DEF InitShardsTx
  <1> HIDE DEF t
  <1>4. r.shards = InitialPointers(t, k)
        BY <1>1, <1>2 DEF RecordInit, PoolState
  <1> HIDE DEF r
  <1>5. ASSUME NEW i \in Shard
        PROVE  PointsAt(r, i) = [txid |-> k, vout |-> i + 1] /\ i + 1 \in DOMAIN t.outs
    <2>1. r.shards[i] = [txid |-> k, vout |-> i + 1, value |-> t.outs[i + 1].value, commit |-> t.outs[i + 1].commit]
          BY <1>4 DEF InitialPointers
    <2>2. PointsAt(r, i) = [txid |-> k, vout |-> i + 1]
          BY <2>1 DEF PointsAt
    <2>3. i + 1 \in 1 .. NShards
          BY SizesAssumption DEF Shard
    <2> QED BY <1>3, <2>2, <2>3
  <1> QED BY <1>5 DEF r, t

(* The command's own patch points at outputs nobody has touched *)
LEMMA RecordedIsCurrent ==
  ASSUME NEW c, NEW s, Good(c, s), NEW j \in Job, BuiltFrom(s, j), JobGood(c, s, j),
         NEW m \in DOMAIN j.txs, NEW t, t = j.txs[m], NEW k, NEW w, Current(c, w, s),
         \A v \in DOMAIN t.outs : Untouched(c, w, [txid |-> k, vout |-> v])
  PROVE  /\ Current(c, w, Record(s, j, t, k))
         /\ Owed(c, w, Record(s, j, t, k)) \subseteq Owed(c, w, s) \ {i \in Shard : PointsAt(s, i) \in t.ins}
         /\ \E i \in Shard : {l \in Shard : PointsAt(s, l) \in t.ins} \subseteq {i}
  <1> DEFINE r == Record(s, j, t, k)
  <1>1. CASE j.op = "init"
    <2>1. PICK f \in Funding : j.txs = <<InitShardsTx(f)>>
          BY <1>1 DEF JobGood
    <2>2. t = InitShardsTx(f)
          BY <2>1
    <2>3. \A i \in Shard : Untouched(c, w, PointsAt(r, i))
          BY <1>1, <2>2, PoolPointers
    <2>5. t.ins = {} /\ 0 \in Shard
          BY <2>2, SizesAssumption DEF InitShardsTx, Shard
    <2> HIDE DEF r
    <2>4. Current(c, w, r) /\ Owed(c, w, r) = {}
          BY <2>3 DEF Current, Owed, Untouched
    <2> QED BY <2>4, <2>5 DEF r
  <1>2. CASE j.op \in {"import", "withdraw"}
    <2>1. /\ Initialized(s) /\ Initialized(r) /\ PointsAt(r, j.shard) = [txid |-> k, vout |-> 0]
          /\ \A i \in Shard : i # j.shard => PointsAt(r, i) = PointsAt(s, i)
          BY <1>2, StepPointers
    <2>2. 0 \in DOMAIN t.outs
          BY <1>2 DEF BuiltFrom, StepTx
    <2>3. Untouched(c, w, PointsAt(r, j.shard))
          BY <2>1, <2>2
    <2> HIDE DEF r
    <2>4. Current(c, w, r) /\ Owed(c, w, r) \subseteq Owed(c, w, s) \ {j.shard}
          BY <2>1, <2>3 DEF Current, Owed, Untouched
    <2>5. j.shard \in Shard /\ Follows(s, j.shard, t)
          BY <1>2 DEF Job, JobGood
    <2>6. {l \in Shard : PointsAt(s, l) \in t.ins} = {j.shard}
          BY <2>1, <2>5, OneOwed DEF Follows
    <2> QED BY <2>4, <2>5, <2>6 DEF r
  <1>3. CASE j.op = "deposit" /\ j.txs = <<>>
        BY <1>3
  <1> QED BY <1>1, <1>2, <1>3 DEF BuiltFrom

LEMMA MadeFromIns ==
  ASSUME NEW c, NEW u, MadeFrom(c, u)
  PROVE  u.ins \subseteq Made(c)
  BY DEF MadeFrom, InitTx, InitShardsTx, Spends

LEMMA AcceptedTx ==
  ASSUME Threads(chain), NEW t, MadeFrom(chain, t), Acceptable(t)
  PROVE  /\ t \in Tx /\ t.ins \subseteq Live(chain)
         /\ t.ins = {} \/ \E o \in Live(chain) : Spends(chain, t, o)
         /\ t.ins # {} => 0 \in DOMAIN t.outs
  <1>1. t \in Tx /\ t.ins \subseteq Live(chain)
        BY AcceptedKeepsThreads DEF Acceptable, InputsLive
  <1>2. t.ins = {} \/ \E o \in Live(chain) : Spends(chain, t, o)
        BY AcceptedIs DEF InitShardsTx
  <1>3. \A o : Spends(chain, t, o) => 0 \in DOMAIN t.outs
        BY DEF Spends
  <1> QED BY <1>1, <1>2, <1>3

LEMMA Accepts ==
  ASSUME LInv, Linked(chain), NEW t, MadeFrom(chain, t), Acceptable(t), chain' = Append(chain, t),
         wire' \subseteq wire
  PROVE  /\ Linked(chain')
         /\ \A s : Current(chain, wire, s) /\ NotAhead(chain, wire, s, t) => Current(chain', wire', s)
         /\ \A s : Owed(chain', wire', s) \subseteq Owed(chain, wire, s) \cup {i \in Shard : PointsAt(s, i) \in t.ins}
         /\ \A v \in DOMAIN t.outs : Untouched(chain', wire', [txid |-> Len(chain) + 1, vout |-> v])
         /\ \A o : Untouched(chain, wire, o) /\ o \notin t.ins => Untouched(chain', wire', o)
         /\ chain \in Seq(Tx) /\ t \in Tx
  <1>1. Threads(chain) /\ chain \in Seq(Tx)
        BY DEF LInv, Threads
  <1>2. /\ t \in Tx /\ t.ins \subseteq Live(chain)
        /\ t.ins = {} \/ \E o \in Live(chain) : Spends(chain, t, o)
        /\ t.ins # {} => 0 \in DOMAIN t.outs
        BY <1>1, AcceptedTx
  <1>3. \A u \in wire' : u.ins \subseteq Made(chain)
        BY MadeFromIns DEF LInv, Pending
  <1>4. Linked(chain')
        BY <1>1, <1>2, LinkedGrows
  <1>5. \A s : Current(chain, wire, s) /\ NotAhead(chain, wire, s, t) => Current(chain', wire', s)
        BY <1>1, <1>2, <1>3, CurrentGrows
  <1>6. \A s : Owed(chain', wire', s) \subseteq Owed(chain, wire, s) \cup {i \in Shard : PointsAt(s, i) \in t.ins}
        BY <1>1, <1>2, OwedGrows
  <1>7. \A o \in New(chain, t) : Untouched(chain', wire', o)
        BY <1>1, <1>2, <1>3, NewUntouched
  <1>8. \A v \in DOMAIN t.outs : [txid |-> Len(chain) + 1, vout |-> v] \in New(chain, t)
        BY DEF New
  <1>9. \A o : Untouched(chain, wire, o) /\ o \notin t.ins => Untouched(chain', wire', o)
        BY <1>1, <1>2, UntouchedStays
  <1> QED BY <1>1, <1>2, <1>4, <1>5, <1>6, <1>7, <1>8, <1>9

(* The one process's view of OInv *)
LEMMA OInvOf ==
  ASSUME Alone, NEW p \in Proc
  PROVE  OInv <=> IF pc[p] = "save"
                  THEN /\ Cardinality(Owed(chain, wire, file)) <= faults + 1
                       /\ Cardinality(Owed(chain, wire, mem[p])) <= faults
                  ELSE Cardinality(Owed(chain, wire, file)) <= faults
  BY DEF OInv, Alone

LEMMA GetsTxidWInv ==
  ASSUME Alone, IInv, JInv, HInv, OInv, NEW p \in Proc, Sending(p), NEW k, GetsTxid(p, k),
         UNCHANGED <<file, faults>>, Linked(chain'), Current(chain', wire', file),
         Good(chain', file), JobGood(chain', file, job[p]),
         \A v \in DOMAIN Head(job[p].txs).outs : Untouched(chain', wire', [txid |-> k, vout |-> v]),
         Owed(chain', wire', file)
           \subseteq Owed(chain, wire, file) \cup {i \in Shard : PointsAt(file, i) \in Head(job[p].txs).ins}
  PROVE  WInv' /\ OInv'
  <1> DEFINE t == Head(job[p].txs)
             r == Record(file, job[p], t, k)
  <1>1. /\ pc[p] = "send" /\ mem[p] = file /\ job[p] \in Job /\ job[p].txs \in Seq(Tx) /\ job[p].txs # <<>>
        /\ BuiltFrom(file, job[p])
        BY DEF Sending, HInv, IInv, TypeOK, Job
  <1>2. 1 \in DOMAIN job[p].txs /\ t = job[p].txs[1]
        BY <1>1
  <1>3. mem'[p] = r /\ pc'[p] = "save" /\ \A q \in Proc : q = p
        BY <1>1 DEF GetsTxid, IInv, TypeOK, Alone
  <1>4. Cardinality(Owed(chain, wire, file)) <= faults /\ faults \in Nat
        BY <1>1, OInvOf DEF IInv, TypeOK
  <1>12. \A v \in DOMAIN t.outs : Untouched(chain', wire', [txid |-> k, vout |-> v])
        OBVIOUS
  <1> HIDE DEF t
  <1> DEFINE c == chain'
             w == wire'
             j == job[p]
  <1>13. /\ Good(c, file) /\ j \in Job /\ BuiltFrom(file, j) /\ JobGood(c, file, j) /\ 1 \in DOMAIN j.txs
         /\ t = j.txs[1] /\ Current(c, w, file) /\ \A v \in DOMAIN t.outs : Untouched(c, w, [txid |-> k, vout |-> v])
        BY <1>1, <1>2, <1>12
  <1> HIDE DEF c, w, j
  <1>14. /\ Current(c, w, Record(file, j, t, k))
        /\ Owed(c, w, Record(file, j, t, k)) \subseteq Owed(c, w, file) \ {i \in Shard : PointsAt(file, i) \in t.ins}
        /\ \E i \in Shard : {l \in Shard : PointsAt(file, l) \in t.ins} \subseteq {i}
        BY <1>13, RecordedIsCurrent, ZenonT(30)
  <1>5. /\ Current(chain', wire', r)
        /\ Owed(chain', wire', r) \subseteq Owed(chain', wire', file) \ {i \in Shard : PointsAt(file, i) \in t.ins}
        /\ \E i \in Shard : {l \in Shard : PointsAt(file, l) \in t.ins} \subseteq {i}
        BY <1>14 DEF c, w, j
  <1> HIDE DEF r
  <1>6. WInv'
        BY <1>3, <1>5 DEF WInv
  <1>7. PICK i \in Shard : {l \in Shard : PointsAt(file, l) \in t.ins} \subseteq {i}
        BY <1>5
  <1>8. /\ Owed(chain', wire', r) \subseteq Owed(chain, wire, file)
        /\ Owed(chain', wire', file) \subseteq Owed(chain, wire, file) \cup {i}
        BY <1>5, <1>7 DEF t
  <1>9. /\ Cardinality(Owed(chain', wire', r)) <= Cardinality(Owed(chain, wire, file))
        /\ Cardinality(Owed(chain', wire', file)) <= Cardinality(Owed(chain, wire, file)) + 1
        BY <1>8, FewerOwed, OneMoreOwed, OwedIsFew
  <1>10. /\ Cardinality(Owed(chain', wire', r)) \in Nat /\ Cardinality(Owed(chain', wire', file)) \in Nat
         /\ Cardinality(Owed(chain, wire, file)) \in Nat
        BY OwedIsFew, OwedFinite
  <1>11. /\ Cardinality(Owed(chain', wire', r)) <= faults'
         /\ Cardinality(Owed(chain', wire', file)) <= faults' + 1
        BY <1>4, <1>9, <1>10
  <1> QED BY <1>3, <1>6, <1>11 DEF OInv

LEMMA SendingFacts ==
  ASSUME Alone, IInv, LInv, JInv, HInv, Linked(chain), NEW p \in Proc, Sending(p)
  PROVE  LET j == job[p]
             t == Head(j.txs)
         IN  /\ pc[p] = "send" /\ mem[p] = file /\ j \in Job /\ j.txs \in Seq(Tx) /\ j.txs # <<>>
             /\ 1 \in DOMAIN j.txs /\ t = j.txs[1] /\ t \in Tx
             /\ Good(chain, file) /\ BuiltFrom(file, j) /\ JobGood(chain, file, j) /\ MadeFrom(chain, t)
             /\ NotAhead(chain, wire, file, t)
             /\ \/ j.op = "init" /\ t.ins = {}
                \/ /\ j.op \in {"import", "withdraw"} /\ Initialized(file) /\ j.shard \in Shard
                   /\ t.ins = {PointsAt(file, j.shard)} /\ DOMAIN t.outs = {0}
  <1> DEFINE j == job[p]
             t == Head(j.txs)
  <1>1. /\ pc[p] = "send" /\ mem[p] = file /\ j \in Job /\ j.txs \in Seq(Tx) /\ j.txs # <<>>
        /\ Good(chain, file) /\ BuiltFrom(file, j) /\ JobGood(chain, file, j) /\ chain \in Seq(Tx)
        BY DEF Sending, HInv, IInv, JInv, TypeOK, Job
  <1>2. 1 \in DOMAIN j.txs /\ t = j.txs[1] /\ t \in Tx
        BY <1>1
  <1>3. MadeFrom(chain, t)
        BY <1>1, <1>2 DEF LInv, Pending
  <1> HIDE DEF t, j
  <1>4. \/ j.op = "init" /\ t.ins = {}
        \/ /\ j.op \in {"import", "withdraw"} /\ Initialized(file) /\ j.shard \in Shard
           /\ t.ins = {PointsAt(file, j.shard)} /\ DOMAIN t.outs = {0}
    <2>1. CASE j.op = "init"
      <3>1. InitTx(t)
            BY <1>1, <1>2, <2>1 DEF BuiltFrom
      <3> QED BY <2>1, <3>1 DEF InitTx, InitShardsTx
    <2>2. CASE j.op \in {"import", "withdraw"}
      <3>1. Initialized(file) /\ StepTx(t, file.cat, j.shard) /\ Follows(file, j.shard, t)
            BY <1>1, <1>2, <2>2 DEF BuiltFrom, JobGood
      <3>2. j.shard \in Shard
            BY <1>1 DEF Job
      <3> QED BY <2>2, <3>1, <3>2 DEF StepTx, Follows
    <2> QED BY <1>1, <2>1, <2>2 DEF BuiltFrom
  <1>5. NotAhead(chain, wire, file, t)
    <2>1. CASE t.ins = {}
          BY <2>1 DEF NotAhead
    <2>2. CASE j.shard \in Shard /\ t.ins = {PointsAt(file, j.shard)} /\ Initialized(file)
          BY <1>1, <2>2, PointerNotAhead
    <2> QED BY <1>4, <2>1, <2>2
  <1> QED BY <1>1, <1>2, <1>3, <1>4, <1>5 DEF t, j

LEMMA NodeAcceptsWInv ==
  ASSUME Alone, IInv, LInv, JInv, HInv, WInv, OInv, NEW p \in Proc, NodeAccepts(p)
  PROVE  WInv' /\ OInv'
  <1> DEFINE j == job[p]
             t == Head(j.txs)
  <1>1. /\ Sending(p) /\ Acceptable(t) /\ chain' = Append(chain, t) /\ wire' = wire
        /\ GetsTxid(p, Len(chain) + 1) /\ UNCHANGED <<file, faults>>
        BY DEF NodeAccepts
  <1>2. /\ j \in Job /\ t \in Tx /\ Good(chain, file) /\ BuiltFrom(file, j) /\ JobGood(chain, file, j)
        /\ MadeFrom(chain, t) /\ NotAhead(chain, wire, file, t) /\ Linked(chain) /\ Current(chain, wire, file)
        BY <1>1, SendingFacts DEF WInv
  <1> HIDE DEF t
  <1>3. /\ Linked(chain') /\ Current(chain', wire', file)
        /\ Owed(chain', wire', file) \subseteq Owed(chain, wire, file) \cup {i \in Shard : PointsAt(file, i) \in t.ins}
        /\ \A v \in DOMAIN t.outs : Untouched(chain', wire', [txid |-> Len(chain) + 1, vout |-> v])
        /\ chain \in Seq(Tx)
        BY <1>1, <1>2, Accepts
  <1> HIDE DEF j
  <1>4. Good(chain', file) /\ JobGood(chain', file, j)
        BY <1>1, <1>2, <1>3, GoodStays, JobGoodStays
  <1> QED BY <1>1, <1>3, <1>4, GetsTxidWInv DEF t, j

(* An echoed transaction is the one that spent the pointer, and nobody has *)
(* gone on from it                                                         *)
LEMMA EchoUntouched ==
  ASSUME Alone, IInv, LInv, JInv, HInv, WInv, NEW p \in Proc, NodeEchoes(p)
  PROVE  LET t == Head(job[p].txs)
             k == TxidOf(chain, t)
         IN  /\ k \in DOMAIN chain /\ chain[k] = t
             /\ \A v \in DOMAIN t.outs : Untouched(chain, wire, [txid |-> k, vout |-> v])
  <1> DEFINE j == job[p]
             t == Head(j.txs)
             k == TxidOf(chain, t)
  <1>1. Sending(p) /\ Known(chain, t)
        BY DEF NodeEchoes
  <1>2. k \in DOMAIN chain /\ chain[k] = t
        BY <1>1 DEF Known, TxidOf
  <1>3. /\ 1 \in DOMAIN j.txs /\ t = j.txs[1] /\ NewPool(chain, wire, j)
        /\ \/ j.op = "init" /\ t.ins = {}
           \/ /\ j.op \in {"import", "withdraw"} /\ Initialized(file) /\ j.shard \in Shard
              /\ t.ins = {PointsAt(file, j.shard)} /\ DOMAIN t.outs = {0}
        BY <1>1, SendingFacts DEF WInv
  <1>4. Linked(chain) /\ Current(chain, wire, file)
        BY DEF WInv
  <1> HIDE DEF t, k, j
  <1>5. \A v \in DOMAIN t.outs : Untouched(chain, wire, [txid |-> k, vout |-> v])
    <2>1. CASE j.op = "init"
          BY <1>2, <1>3, <2>1 DEF NewPool
    <2>2. CASE j.op \in {"import", "withdraw"}
      <3> DEFINE o == PointsAt(file, j.shard)
      <3>1. o \in chain[k].ins /\ o \in Spent(chain) /\ j.shard \in Shard /\ Initialized(file)
            BY <1>2, <1>3, <2>2 DEF Spent
      <3>2. Behind(chain, wire, o)
            BY <1>4, <3>1 DEF Current, Live
      <3>3. PICK l \in DOMAIN chain : o \in chain[l].ins /\ Untouched(chain, wire, [txid |-> l, vout |-> 0])
            BY <3>2 DEF Behind
      <3>4. l = k
            BY <1>2, <1>4, <3>1, <3>3 DEF Linked
      <3> QED BY <1>3, <2>2, <3>3, <3>4
    <2> QED BY <1>3, <2>1, <2>2
  <1> QED BY <1>2, <1>5 DEF t, k, j

LEMMA NodeEchoesWInv ==
  ASSUME Alone, IInv, LInv, JInv, HInv, WInv, OInv, NEW p \in Proc, NodeEchoes(p)
  PROVE  WInv' /\ OInv'
  <1> DEFINE t == Head(job[p].txs)
             k == TxidOf(chain, t)
  <1>1. Sending(p) /\ GetsTxid(p, k) /\ UNCHANGED <<chain, wire, file, faults>>
        BY DEF NodeEchoes
  <1>2. Good(chain, file) /\ JobGood(chain, file, job[p]) /\ Linked(chain) /\ Current(chain, wire, file)
        BY <1>1, SendingFacts DEF WInv
  <1>3. \A v \in DOMAIN t.outs : Untouched(chain, wire, [txid |-> k, vout |-> v])
        BY EchoUntouched
  <1> HIDE DEF t, k
  <1>4. /\ Linked(chain') /\ Current(chain', wire', file) /\ Good(chain', file) /\ JobGood(chain', file, job[p])
        /\ \A v \in DOMAIN t.outs : Untouched(chain', wire', [txid |-> k, vout |-> v])
        /\ Owed(chain', wire', file) \subseteq Owed(chain, wire, file) \cup {i \in Shard : PointsAt(file, i) \in t.ins}
        BY <1>1, <1>2, <1>3
  <1> QED BY <1>1, <1>4, GetsTxidWInv DEF t

LEMMA SamePointers ==
  ASSUME NEW s, NEW r, r.cat = s.cat, r.shards = s.shards, NEW c, NEW w
  PROVE  /\ Current(c, w, s) => Current(c, w, r)
         /\ Owed(c, w, r) = Owed(c, w, s)
  <1>1. (Initialized(r) <=> Initialized(s)) /\ \A i : PointsAt(r, i) = PointsAt(s, i)
        BY DEF Initialized, PointsAt
  <1> QED BY <1>1 DEF Current, Owed

LEMMA StagePointers ==
  ASSUME NEW s \in PoolState, NEW n
  PROVE  Stage(s, n).cat = s.cat /\ Stage(s, n).shards = s.shards
  BY DEF Stage, PoolState

LEMMA ArrivesLateWInv ==
  ASSUME Alone, IInv, LInv, WInv, OInv, ArrivesLate
  PROVE  WInv' /\ OInv'
  <1>1. PICK t \in wire : /\ Acceptable(t) /\ chain' = Append(chain, t) /\ wire' = wire \ {t}
                          /\ UNCHANGED <<file, mem, pc, job, faults>>
        BY DEF ArrivesLate
  <1>2. MadeFrom(chain, t) /\ wire' \subseteq wire /\ Linked(chain)
        BY <1>1 DEF LInv, Pending, WInv
  <1>3. /\ Linked(chain')
        /\ \A s : Current(chain, wire, s) /\ NotAhead(chain, wire, s, t) => Current(chain', wire', s)
        /\ \A s : Owed(chain', wire', s) \subseteq Owed(chain, wire, s) \cup {i \in Shard : PointsAt(s, i) \in t.ins}
        /\ \A v \in DOMAIN t.outs : Untouched(chain', wire', [txid |-> Len(chain) + 1, vout |-> v])
        /\ \A o : Untouched(chain, wire, o) /\ o \notin t.ins => Untouched(chain', wire', o)
        /\ chain \in Seq(Tx) /\ t \in Tx
        BY <1>1, <1>2, Accepts
  <1>4. \A s : Current(chain, wire, s) => Current(chain', wire', s)
        BY <1>3, WireNotAhead
  <1>5. \A s : Owed(chain', wire', s) \subseteq Owed(chain, wire, s)
    <2> SUFFICES ASSUME NEW s PROVE Owed(chain', wire', s) \subseteq Owed(chain, wire, s)
        OBVIOUS
    <2>1. CASE Initialized(s)
      <3>1. {i \in Shard : PointsAt(s, i) \in t.ins} \subseteq Owed(chain, wire, s)
            BY <1>1, <2>1 DEF Owed, Untouched
      <3> QED BY <1>3, <3>1
    <2>2. CASE ~Initialized(s)
          BY <2>2 DEF Owed
    <2> QED BY <2>1, <2>2
  <1>6. ASSUME NEW j, NewPool(chain, wire, j) PROVE NewPool(chain', wire', j)
    <2> SUFFICES ASSUME j.op = "init", NEW k \in DOMAIN chain', NEW m \in DOMAIN j.txs, chain'[k] = j.txs[m],
                        NEW v \in DOMAIN chain'[k].outs
                 PROVE  Untouched(chain', wire', [txid |-> k, vout |-> v])
        BY DEF NewPool
    <2>1. CASE k \in DOMAIN chain
      <3>1. chain'[k] = chain[k]
            BY <1>1, <1>3, <2>1
      <3>2. Untouched(chain, wire, [txid |-> k, vout |-> v])
            BY <1>6, <2>1, <3>1 DEF NewPool
      <3> QED BY <1>1, <1>3, <3>2 DEF Untouched
    <2>2. CASE k \notin DOMAIN chain
      <3>1. k = Len(chain) + 1 /\ chain'[k] = t
            BY <1>1, <1>3, <2>2, AppendKeeps
      <3> QED BY <1>3, <3>1
    <2> QED BY <2>1, <2>2
  <1>7. WInv'
        BY <1>1, <1>3, <1>4, <1>6 DEF WInv
  <1>8. \A s : /\ Cardinality(Owed(chain', wire', s)) <= Cardinality(Owed(chain, wire, s))
               /\ Cardinality(Owed(chain', wire', s)) \in Nat /\ Cardinality(Owed(chain, wire, s)) \in Nat
        BY <1>5, FewerOwed, OwedFinite, OwedIsFew
  <1>9. OInv'
    <2>1. CASE \E p \in Proc : pc[p] = "save"
      <3>1. PICK p \in Proc : /\ pc[p] = "save"
                              /\ Cardinality(Owed(chain, wire, file)) <= faults + 1
                              /\ Cardinality(Owed(chain, wire, mem[p])) <= faults
            BY <2>1, OInvOf
      <3>2. faults \in Nat
            BY DEF IInv, TypeOK
      <3>3. Cardinality(Owed(chain', wire', file)) <= faults + 1
            BY <1>8, <3>1, <3>2
      <3>4. Cardinality(Owed(chain', wire', mem[p])) <= faults
            BY <1>8, <3>1, <3>2
      <3> QED BY <1>1, <3>1, <3>3, <3>4 DEF OInv
    <2>2. CASE \A p \in Proc : pc[p] # "save"
      <3>1. Cardinality(Owed(chain, wire, file)) <= faults /\ faults \in Nat
            BY <2>2 DEF OInv, IInv, TypeOK
      <3>2. Cardinality(Owed(chain', wire', file)) <= faults
            BY <1>8, <3>1
      <3> QED BY <1>1, <2>2, <3>2 DEF OInv
    <2> QED BY <2>1, <2>2
  <1> QED BY <1>7, <1>9

LEMMA GivesUpWInv ==
  ASSUME Alone, IInv, LInv, JInv, HInv, WInv, OInv, NEW p \in Proc, GivesUp(p)
  PROVE  WInv' /\ OInv'
  <1>1. /\ pc[p] = "send" /\ faults' = faults + 1 /\ UNCHANGED <<chain, file>>
        /\ wire' = wire \cup {job[p].txs[k] : k \in DOMAIN job[p].txs \cap {1}}
        BY DEF GivesUp
  <1>2. pc'[p] = "idle" /\ \A q \in Proc : q = p
        BY DEF GivesUp, Ends, IInv, TypeOK, Alone
  <1>3. /\ Cardinality(Owed(chain, wire, file)) <= faults /\ faults \in Nat
        /\ Cardinality(Owed(chain, wire, file)) \in Nat
        BY <1>1, OInvOf, OwedIsFew, OwedFinite DEF IInv, TypeOK
  <1>4. Linked(chain) /\ Current(chain, wire, file)
        BY DEF WInv
  <1>5. CASE job[p].txs = <<>>
    <2>1. wire' = wire
          BY <1>1, <1>5
    <2>2. Cardinality(Owed(chain, wire, file)) <= faults'
          BY <1>1, <1>3
    <2> QED BY <1>1, <1>2, <1>4, <2>1, <2>2 DEF WInv, OInv
  <1>6. CASE job[p].txs # <<>>
    <2> DEFINE j == job[p]
               t == Head(j.txs)
    <2>1. Sending(p)
          BY <1>1, <1>6 DEF Sending
    <2>2. /\ NotAhead(chain, wire, file, t) /\ 1 \in DOMAIN j.txs /\ t = j.txs[1] /\ Good(chain, file)
          /\ \/ j.op = "init" /\ t.ins = {}
             \/ Initialized(file) /\ j.shard \in Shard /\ t.ins = {PointsAt(file, j.shard)}
          BY <1>4, <2>1, SendingFacts
    <2>3. wire' = wire \cup {t}
          BY <1>1, <2>2
    <2> HIDE DEF t, j
    <2>4. Current(chain, wire', file)
          BY <1>4, <2>2, <2>3, CurrentOnWire
    <2>5. \E i \in Shard : {l \in Shard : PointsAt(file, l) \in t.ins} \subseteq {i}
      <3>1. CASE t.ins = {}
            BY <3>1, SizesAssumption DEF Shard
      <3>2. CASE Initialized(file) /\ j.shard \in Shard /\ t.ins = {PointsAt(file, j.shard)}
            BY <2>2, <3>2, OneOwed
      <3> QED BY <2>2, <3>1, <3>2
    <2>6. PICK i \in Shard : {l \in Shard : PointsAt(file, l) \in t.ins} \subseteq {i}
          BY <2>5
    <2>7. Owed(chain, wire', file) \subseteq Owed(chain, wire, file) \cup {i}
          BY <2>3, <2>6, OwedOnWire
    <2>8. /\ Cardinality(Owed(chain, wire', file)) <= Cardinality(Owed(chain, wire, file)) + 1
          /\ Cardinality(Owed(chain, wire', file)) \in Nat
          BY <2>7, OneMoreOwed, OwedIsFew, OwedFinite
    <2>9. Cardinality(Owed(chain, wire', file)) <= faults'
          BY <1>1, <1>3, <2>8
    <2> QED BY <1>1, <1>2, <1>4, <2>4, <2>9 DEF WInv, OInv
  <1> QED BY <1>5, <1>6

LEMMA CommandWInv ==
  ASSUME Alone, IInv, WInv, OInv, NEW p \in Proc, Command(p)
  PROVE  WInv' /\ OInv'
  <1>1. /\ pc[p] = "idle" /\ \A q \in Proc : q = p
        /\ UNCHANGED <<chain, wire, file, faults>>
        BY DEF Alone, Begin, Command, StartInit, InitAgain, StartDeposit, StageFrom, StartImport, StartWithdraw
  <1>2. Linked(chain) /\ Current(chain, wire, file)
        BY DEF WInv
  <1>3. Cardinality(Owed(chain, wire, file)) <= faults /\ faults \in Nat
        BY <1>1, OInvOf DEF IInv, TypeOK
  <1>4. ASSUME NEW j, Begin(p, j, "send", file), NewPool(chain, wire, j) PROVE WInv' /\ OInv'
    <2>1. pc'[p] = "send" /\ job'[p] = j
          BY <1>4 DEF Begin, IInv, TypeOK
    <2> QED BY <1>1, <1>2, <1>3, <1>4, <2>1 DEF WInv, OInv
  <1>5. ASSUME NEW j, NEW copy, Begin(p, j, "save", copy), copy.cat = file.cat, copy.shards = file.shards
        PROVE  WInv' /\ OInv'
    <2>1. pc'[p] = "save" /\ mem'[p] = copy
          BY <1>5 DEF Begin, IInv, TypeOK
    <2>2. Current(chain, wire, copy) /\ Owed(chain, wire, copy) = Owed(chain, wire, file)
          BY <1>2, <1>5, SamePointers
    <2>3. Cardinality(Owed(chain, wire, file)) <= faults + 1
      <3>1. Cardinality(Owed(chain, wire, file)) \in Nat
            BY OwedIsFew, OwedFinite
      <3> QED BY <1>3, <3>1
    <2> QED BY <1>1, <1>2, <1>3, <2>1, <2>2, <2>3 DEF WInv, OInv
  <1>6. CASE StartInit(p)
    <2>1. PICK f \in UnspentFunding : Begin(p, [NoJob EXCEPT !.op = "init", !.txs = <<InitShardsTx(f)>>], "send", file)
          BY <1>6 DEF StartInit
    <2> DEFINE j == [NoJob EXCEPT !.op = "init", !.txs = <<InitShardsTx(f)>>]
    <2>2. j.txs = <<InitShardsTx(f)>>
          BY DEF NoJob
    <2>3. Begin(p, j, "send", file)
          BY <2>1
    <2> HIDE DEF j
    <2>4. \A k \in DOMAIN chain : chain[k] # InitShardsTx(f)
      <3>1. f \in InitShardsTx(f).fund
            BY DEF InitShardsTx
      <3> QED BY <3>1 DEF UnspentFunding, FundingSpent
    <2>5. NewPool(chain, wire, j)
          BY <2>2, <2>4 DEF NewPool
    <2> QED BY <1>4, <2>3, <2>5
  <1>7. CASE StartDeposit(p)
    <2>1. PICK n : Begin(p, [NoJob EXCEPT !.op = "deposit", !.note = {n}], "send", file)
          BY <1>7 DEF StartDeposit
    <2> DEFINE j == [NoJob EXCEPT !.op = "deposit", !.note = {n}]
    <2>2. j.op = "deposit" /\ Begin(p, j, "send", file)
          BY <2>1 DEF NoJob
    <2> HIDE DEF j
    <2> QED BY <1>4, <2>2 DEF NewPool
  <1>8. CASE StartImport(p) \/ StartWithdraw(p)
    <2>1. \E op, i, n, r, txs :
            /\ op # "init"
            /\ Begin(p, [op |-> op, shard |-> i, note |-> n, req |-> r, txs |-> txs], "send", file)
      <3>1. CASE StartImport(p)
        <4>1. PICK n, i : Begin(p, [op |-> "import", shard |-> i, note |-> {n}, req |-> {},
                                    txs |-> ImportTries(file, i, n)], "send", file)
              BY <3>1 DEF StartImport
        <4> QED BY <4>1
      <3>2. CASE StartWithdraw(p)
        <4>1. PICK r, i, txs : Begin(p, [op |-> "withdraw", shard |-> i, note |-> {}, req |-> {r},
                                         txs |-> txs], "send", file)
              BY <3>2 DEF StartWithdraw
        <4> QED BY <4>1
      <3> QED BY <1>8, <3>1, <3>2
    <2>2. PICK op, i, n, r, txs :
            /\ op # "init"
            /\ Begin(p, [op |-> op, shard |-> i, note |-> n, req |-> r, txs |-> txs], "send", file)
          BY <2>1
    <2> DEFINE j == [op |-> op, shard |-> i, note |-> n, req |-> r, txs |-> txs]
    <2>3. j.op # "init" /\ Begin(p, j, "send", file)
          BY <2>2
    <2> HIDE DEF j
    <2> QED BY <1>4, <2>3 DEF NewPool
  <1>9. CASE InitAgain(p)
    <2>1. Begin(p, [NoJob EXCEPT !.op = "touch"], "save", file)
          BY <1>9 DEF InitAgain
    <2> QED BY <1>5, <2>1
  <1>10. CASE StageFrom(p)
    <2>1. PICK n : Begin(p, [NoJob EXCEPT !.op = "stage", !.note = {n}], "save", Stage(file, n))
          BY <1>10 DEF StageFrom
    <2>2. file \in PoolState
          BY DEF IInv, TypeOK
    <2> QED BY <1>5, <2>1, <2>2, StagePointers
  <1> QED BY <1>6, <1>7, <1>8, <1>9, <1>10 DEF Command

LEMMA OtherWInv ==
  ASSUME Alone, IInv, HInv, WInv, OInv, NEW p \in Proc,
         NodeFailsScript(p) \/ NodeRejects(p) \/ NodeCreatesNote(p) \/ Save(p) \/ Crash(p)
  PROVE  WInv' /\ OInv'
  <1>1. \A q \in Proc : q = p
        BY DEF Alone
  <1>2. Linked(chain) /\ Current(chain, wire, file) /\ faults \in Nat /\ UNCHANGED <<chain, wire>>
        BY DEF WInv, IInv, TypeOK, NodeFailsScript, NodeRejects, NodeCreatesNote, Save, Crash
  <1>3. Cardinality(Owed(chain, wire, file)) \in Nat
        BY OwedIsFew, OwedFinite
  <1>4. CASE NodeFailsScript(p)
    <2>1. job'[p].op = "import" /\ UNCHANGED <<file, mem, pc, faults>>
          BY <1>4 DEF NodeFailsScript, IInv, TypeOK, Job
    <2>2. NewPool(chain', wire', job'[p])
          BY <2>1 DEF NewPool
    <2> QED BY <1>1, <1>2, <2>1, <2>2 DEF WInv, OInv
  <1>5. CASE NodeRejects(p)
    <2>1. pc[p] = "send" /\ pc'[p] = "idle" /\ UNCHANGED <<file, faults>>
          BY <1>5 DEF NodeRejects, Sending, Ends, IInv, TypeOK
    <2>2. Cardinality(Owed(chain, wire, file)) <= faults
          BY <2>1, OInvOf
    <2> QED BY <1>1, <1>2, <2>1, <2>2 DEF WInv, OInv
  <1>6. CASE NodeCreatesNote(p)
    <2>1. pc[p] = "send" /\ pc'[p] = "save" /\ UNCHANGED <<file, faults>> /\ \E n : mem'[p] = Stage(mem[p], n)
          BY <1>6 DEF NodeCreatesNote, IInv, TypeOK
    <2>2. mem[p] = file /\ file \in PoolState
          BY <2>1 DEF HInv, IInv, TypeOK
    <2>3. mem'[p].cat = file.cat /\ mem'[p].shards = file.shards
          BY <2>1, <2>2, StagePointers
    <2>4. Current(chain, wire, mem'[p]) /\ Owed(chain, wire, mem'[p]) = Owed(chain, wire, file)
          BY <1>2, <2>3, SamePointers
    <2>5. Cardinality(Owed(chain, wire, file)) <= faults
          BY <2>1, OInvOf
    <2>6. Cardinality(Owed(chain, wire, file)) <= faults + 1
          BY <1>2, <1>3, <2>5
    <2> QED BY <1>1, <1>2, <2>1, <2>4, <2>5, <2>6 DEF WInv, OInv
  <1>7. CASE Save(p)
    <2>1. pc[p] = "save" /\ pc'[p] = "idle" /\ file' = mem[p] /\ UNCHANGED faults
          BY <1>7 DEF Save, Ends, IInv, TypeOK
    <2>2. Cardinality(Owed(chain, wire, mem[p])) <= faults /\ Current(chain, wire, mem[p])
          BY <2>1, OInvOf DEF WInv
    <2> QED BY <1>1, <1>2, <2>1, <2>2 DEF WInv, OInv
  <1>8. CASE Crash(p)
    <2>1. pc[p] = "save" /\ pc'[p] = "idle" /\ UNCHANGED file /\ faults' = faults + 1
          BY <1>8 DEF Crash, Ends, IInv, TypeOK
    <2>2. Cardinality(Owed(chain, wire, file)) <= faults'
          BY <2>1, OInvOf
    <2> QED BY <1>1, <1>2, <2>1, <2>2 DEF WInv, OInv
  <1> QED BY <1>4, <1>5, <1>6, <1>7, <1>8

LEMMA NextWInv == ASSUME Alone PROVE IInv /\ LInv /\ JInv /\ HInv /\ WInv /\ OInv /\ [Next]_vars => WInv' /\ OInv'
  <1> SUFFICES ASSUME IInv, LInv, JInv, HInv, WInv, OInv, [Next]_vars PROVE WInv' /\ OInv'
      OBVIOUS
  <1>1. CASE Receive \/ SpendElsewhere \/ UNCHANGED vars
    <2>1. UNCHANGED <<chain, wire, file, mem, pc, job, faults>>
          BY <1>1 DEF Receive, SpendElsewhere, vars
    <2> QED BY <2>1 DEF WInv, OInv
  <1> QED BY <1>1, CommandWInv, OtherWInv, NodeAcceptsWInv, NodeEchoesWInv, GivesUpWInv, ArrivesLateWInv
          DEF Next, Answer, Fault, Environment

LEMMA InitWInv == Init => WInv /\ OInv
  <1>1. Init => ~Initialized(file)
        BY DEF Init, EmptyState, Initialized
  <1>2. \A c, w, s : ~Initialized(s) => Current(c, w, s) /\ Cardinality(Owed(c, w, s)) = 0
        BY FS_EmptySet DEF Current, Owed
  <1> QED BY <1>1, <1>2 DEF Init, WInv, OInv, Linked

LEMMA BehindInvariant == ASSUME Alone PROVE Spec => [](IInv /\ LInv /\ JInv /\ HInv /\ WInv /\ OInv)
  <1>1. Init => WInv /\ OInv
        BY InitWInv
  <1>2. IInv /\ LInv /\ JInv /\ HInv /\ WInv /\ OInv /\ [Next]_vars => WInv' /\ OInv'
        BY NextWInv
  <1> QED BY <1>1, <1>2, AloneInvariant, PTL DEF Spec

(* With one command at a time no fault costs more than one pointer, and    *)
(* what a lost answer leaves behind is one transaction from the tip: a     *)
(* refresh finds it, however many faults came before                       *)
THEOREM PointersLagByOne == ASSUME Alone PROVE Spec => []StaleByOneStep
  <1>1. IInv /\ WInv /\ OInv => StaleByOneStep
    <2> SUFFICES ASSUME IInv, WInv, OInv PROVE StaleByOneStep
        OBVIOUS
    <2>1. Stale \subseteq Owed(chain, wire, file)
          BY DEF Stale, Owed, Untouched
    <2>2. /\ Cardinality(Stale) <= Cardinality(Owed(chain, wire, file))
          /\ Cardinality(Stale) \in Nat /\ Cardinality(Owed(chain, wire, file)) \in Nat /\ faults \in Nat
          BY <2>1, OwedIsFew, OwedFinite, FewerOwed DEF IInv, TypeOK
    <2>3. Cardinality(Stale) <= faults + Cardinality({p \in Proc : pc[p] = "save"})
      <3> DEFINE S == {p \in Proc : pc[p] = "save"}
      <3>1. CASE \E p \in Proc : pc[p] = "save"
        <4>1. PICK p \in Proc : pc[p] = "save"
              BY <3>1
        <4>2. S = {p}
              BY <4>1 DEF Alone
        <4> HIDE DEF S
        <4>3. Cardinality(S) = 1
              BY <4>2, FS_Singleton
        <4>4. Cardinality(Owed(chain, wire, file)) <= faults + 1
              BY <4>1, OInvOf
        <4>5. Cardinality(Stale) <= faults + 1
              BY <2>2, <4>4
        <4> QED BY <4>3, <4>5 DEF S
      <3>2. CASE \A p \in Proc : pc[p] # "save"
        <4>1. S = {}
              BY <3>2
        <4> HIDE DEF S
        <4>2. Cardinality(S) = 0
              BY <4>1, FS_EmptySet
        <4>3. Cardinality(Owed(chain, wire, file)) <= faults
              BY <3>2 DEF OInv
        <4>4. Cardinality(Stale) <= faults + 0
              BY <2>2, <4>3
        <4> QED BY <4>2, <4>4 DEF S
      <3> QED BY <3>1, <3>2
    <2>4. ASSUME NEW i \in Stale
          PROVE  \E k \in DOMAIN chain : PointsAt(file, i) \in chain[k].ins /\ [txid |-> k, vout |-> 0] \in Live(chain)
      <3>1. Initialized(file) /\ i \in Shard /\ PointsAt(file, i) \notin Live(chain)
            BY <2>4 DEF Stale
      <3>2. Behind(chain, wire, PointsAt(file, i))
            BY <3>1 DEF WInv, Current
      <3> QED BY <3>2 DEF Behind, Untouched
    <2> QED BY <2>3, <2>4 DEF StaleByOneStep
  <1> QED BY <1>1, BehindInvariant, PTL

-----------------------------------------------------------------------------
(* Every withdrawal reported is on the chain                               *)

(* pay's payments out of the outputs that s has left behind *)
Counted(c, s, pay) ==
  IF Initialized(s)
  THEN {k \in Withdraws(c) : pay \in c[k].pays /\ \A i \in Shard : PointsAt(s, i) \notin c[k].ins}
  ELSE {}
DoneFor(pay) == {q \in Req : req[q] = "done" /\ Want[q].pay = pay}
SoonDone(j, pay) == {q \in j.req : Want[q].pay = pay}

(* A command that serves a request pays what it asks *)
Serves(j) ==
  \/ j.req = {}
  \/ \E r \in Req : j.req = {r} /\ j.op = "withdraw" /\ \A k \in DOMAIN j.txs : j.txs[k].pays = {Want[r].pay}

PInv ==
  /\ \A p \in Proc : Serves(job[p])
  /\ \A r \in Req : LET pay == Want[r].pay IN
       /\ IsFiniteSet(DoneFor(pay))
       /\ Cardinality(DoneFor(pay)) <= Cardinality(Counted(chain, file, pay))
       /\ \A p \in Proc : pc[p] = "save" =>
            Cardinality(DoneFor(pay) \cup SoonDone(job[p], pay)) <= Cardinality(Counted(chain, mem[p], pay))

LEMMA PaymentsFinite ==
  ASSUME NEW c \in Seq(Tx), NEW S, S \subseteq DOMAIN c
  PROVE  IsFiniteSet(S) /\ Cardinality(S) \in Nat /\ \A T : T \subseteq S => Cardinality(T) <= Cardinality(S)
  <1>1. DOMAIN c = 1 .. Len(c) /\ 1 \in Int /\ Len(c) \in Int
        OBVIOUS
  <1>2. IsFiniteSet(DOMAIN c)
        BY <1>1, FS_Interval
  <1>3. IsFiniteSet(S)
        BY <1>2, FS_Subset
  <1> QED BY <1>3, FS_Subset, FS_CardinalityType

LEMMA CountedType ==
  ASSUME NEW c, NEW s, NEW pay
  PROVE  Counted(c, s, pay) \subseteq DOMAIN c
  BY DEF Counted, Withdraws

LEMMA CountedGrows ==
  ASSUME NEW c \in Seq(Tx), NEW t \in Tx, NEW s, NEW pay
  PROVE  Counted(c, s, pay) \subseteq Counted(Append(c, t), s, pay)
  <1>1. \A k \in DOMAIN c : k \in DOMAIN Append(c, t) /\ Append(c, t)[k] = c[k]
        BY AppendKeeps
  <1> QED BY <1>1 DEF Counted, Withdraws

LEMMA SameCounted ==
  ASSUME NEW s, NEW r, r.cat = s.cat, r.shards = s.shards, NEW c, NEW pay
  PROVE  Counted(c, r, pay) = Counted(c, s, pay)
  <1>1. (Initialized(r) <=> Initialized(s)) /\ \A i : PointsAt(r, i) = PointsAt(s, i)
        BY DEF Initialized, PointsAt
  <1> QED BY <1>1 DEF Counted

(* A command leaves behind the output it spent, and points at none spent *)
LEMMA RecordCounts ==
  ASSUME NEW c \in Seq(Tx), NEW s, Good(c, s), NEW j \in Job, BuiltFrom(s, j), JobGood(c, s, j),
         NEW m \in DOMAIN j.txs, NEW t, t = j.txs[m], NEW k \in DOMAIN c, c[k] = t, NEW w,
         \A v \in DOMAIN t.outs : Untouched(c, w, [txid |-> k, vout |-> v]), NEW pay
  PROVE  LET r == Record(s, j, t, k) IN
         /\ Counted(c, s, pay) \subseteq Counted(c, r, pay)
         /\ j.op = "withdraw" /\ pay \in t.pays => k \in Counted(c, r, pay) /\ k \notin Counted(c, s, pay)
  <1> DEFINE r == Record(s, j, t, k)
  <1>1. \A o : Untouched(c, w, o) => \A l \in DOMAIN c : o \notin c[l].ins
        BY DEF Untouched, Live, Spent
  <1>2. CASE j.op = "init"
    <2>1. PICK f \in Funding : j.txs = <<InitShardsTx(f)>>
          BY <1>2 DEF JobGood
    <2>2. t = InitShardsTx(f)
          BY <2>1
    <2>3. \A i \in Shard : Untouched(c, w, PointsAt(r, i))
          BY <1>2, <2>2, PoolPointers
    <2>4. r.cat = f /\ f # NoCat
      <3>1. r = RecordInit(s, t, k) /\ s \in PoolState
            BY <1>2 DEF Record, Good
      <3>2. 1 \in 1 .. NShards
            BY SizesAssumption
      <3>3. t.outs[1].cat = f
            BY <2>2, <3>2 DEF InitShardsTx
      <3> QED BY <3>1, <3>3, OpsAssumption DEF RecordInit, PoolState
    <2>5. Initialized(r)
          BY <2>4 DEF Initialized
    <2> HIDE DEF r
    <2>6. Counted(c, s, pay) \subseteq Counted(c, r, pay)
          BY <1>1, <2>3, <2>5 DEF Counted, Withdraws
    <2> QED BY <1>2, <2>6 DEF r
  <1>3. CASE j.op \in {"import", "withdraw"}
    <2>1. /\ Initialized(s) /\ Initialized(r) /\ PointsAt(r, j.shard) = [txid |-> k, vout |-> 0]
          /\ \A i \in Shard : i # j.shard => PointsAt(r, i) = PointsAt(s, i)
          BY <1>3, StepPointers
    <2>2. 0 \in DOMAIN t.outs /\ j.shard \in Shard /\ t.ins = {PointsAt(s, j.shard)}
          BY <1>3 DEF BuiltFrom, StepTx, Job, JobGood, Follows
    <2>3. \A l \in DOMAIN c : PointsAt(r, j.shard) \notin c[l].ins
          BY <1>1, <2>1, <2>2
    <2>4. \A i \in Shard : PointsAt(r, i) \notin t.ins
          BY <2>1, <2>2, <2>3, PointersApart
    <2> HIDE DEF r
    <2>5. Counted(c, s, pay) \subseteq Counted(c, r, pay)
          BY <2>1, <2>3 DEF Counted, Withdraws
    <2>6. pay \in t.pays => k \in Counted(c, r, pay) /\ k \notin Counted(c, s, pay)
          BY <2>1, <2>2, <2>4 DEF Counted, Withdraws
    <2> QED BY <2>5, <2>6 DEF r
  <1>4. CASE j.op = "deposit" /\ j.txs = <<>>
        BY <1>4
  <1> QED BY <1>2, <1>3, <1>4 DEF BuiltFrom

LEMMA GetsTxidPInv ==
  ASSUME Alone, IInv, JInv, HInv, PInv, NEW p \in Proc, Sending(p), NEW k \in DOMAIN chain',
         chain'[k] = Head(job[p].txs), GetsTxid(p, k), UNCHANGED <<file, job, req>>,
         chain' \in Seq(Tx), Good(chain', file), JobGood(chain', file, job[p]),
         \A v \in DOMAIN Head(job[p].txs).outs : Untouched(chain', wire', [txid |-> k, vout |-> v]),
         \A pay : Counted(chain, file, pay) \subseteq Counted(chain', file, pay)
  PROVE  PInv'
  <1> DEFINE j == job[p]
             t == Head(j.txs)
             c == chain'
             w == wire'
             r == Record(file, j, t, k)
  <1>1. /\ pc[p] = "send" /\ mem[p] = file /\ j \in Job /\ j.txs \in Seq(Tx) /\ j.txs # <<>>
        /\ BuiltFrom(file, j) /\ chain \in Seq(Tx)
        BY DEF Sending, HInv, IInv, TypeOK, Job
  <1>2. 1 \in DOMAIN j.txs /\ t = j.txs[1]
        BY <1>1
  <1>3. mem'[p] = r /\ \A q \in Proc : q = p
        BY <1>1 DEF GetsTxid, IInv, TypeOK, Alone
  <1>4. /\ c \in Seq(Tx) /\ Good(c, file) /\ JobGood(c, file, j) /\ k \in DOMAIN c /\ c[k] = t
        /\ \A v \in DOMAIN t.outs : Untouched(c, w, [txid |-> k, vout |-> v])
        /\ \A pay : Counted(chain, file, pay) \subseteq Counted(c, file, pay)
        OBVIOUS
  <1> HIDE DEF t, c, w, j
  <1>5. ASSUME NEW pay
        PROVE  /\ Counted(c, file, pay) \subseteq Counted(c, r, pay)
               /\ j.op = "withdraw" /\ pay \in t.pays => k \in Counted(c, r, pay) /\ k \notin Counted(c, file, pay)
    <2>1. /\ c \in Seq(Tx) /\ Good(c, file) /\ j \in Job /\ BuiltFrom(file, j) /\ JobGood(c, file, j)
          /\ 1 \in DOMAIN j.txs /\ t = j.txs[1] /\ k \in DOMAIN c /\ c[k] = t
          /\ \A v \in DOMAIN t.outs : Untouched(c, w, [txid |-> k, vout |-> v])
          BY <1>1, <1>2, <1>4
    <2> QED BY <2>1, RecordCounts
  <1> HIDE DEF r
  <1>6. ASSUME NEW q \in Req
        PROVE  LET pay == Want[q].pay IN
               /\ IsFiniteSet(DoneFor(pay))
               /\ Cardinality(DoneFor(pay)) <= Cardinality(Counted(c, file, pay))
               /\ Cardinality(DoneFor(pay) \cup SoonDone(j, pay)) <= Cardinality(Counted(c, r, pay))
    <2> DEFINE pay == Want[q].pay
               D == DoneFor(pay)
               C == Counted(chain, file, pay)
               F == Counted(c, file, pay)
               R == Counted(c, r, pay)
    <2>1. IsFiniteSet(D) /\ Cardinality(D) <= Cardinality(C) /\ Serves(j)
          BY DEF PInv, j
    <2>2. C \subseteq F /\ F \subseteq R
          BY <1>4, <1>5
    <2>3. IsFiniteSet(C) /\ IsFiniteSet(F) /\ IsFiniteSet(R)
          BY <1>1, <1>4, PaymentsFinite, CountedType
    <2> HIDE DEF D, C, F, R
    <2>4. /\ Cardinality(D) \in Nat /\ Cardinality(C) \in Nat /\ Cardinality(F) \in Nat /\ Cardinality(R) \in Nat
          /\ Cardinality(C) <= Cardinality(F) /\ Cardinality(F) <= Cardinality(R)
          BY <2>1, <2>2, <2>3, FS_Subset, FS_CardinalityType
    <2>5. CASE SoonDone(j, pay) = {}
      <3>1. D \cup SoonDone(j, pay) = D
            BY <2>5
      <3>2. Cardinality(D) <= Cardinality(F) /\ Cardinality(D) <= Cardinality(R)
            BY <2>1, <2>4
      <3> QED BY <2>1, <3>1, <3>2 DEF D, F, R
    <2>6. CASE SoonDone(j, pay) # {}
      <3>1. PICK x : SoonDone(j, pay) = {x} /\ j.op = "withdraw" /\ pay \in t.pays
        <4>1. PICK x \in Req : j.req = {x} /\ j.op = "withdraw" /\ t.pays = {Want[x].pay}
              BY <1>2, <2>1, <2>6 DEF Serves, SoonDone
        <4>2. Want[x].pay = pay /\ SoonDone(j, pay) = {x}
              BY <2>6, <4>1 DEF SoonDone
        <4> QED BY <4>1, <4>2
      <3>2. k \in R /\ k \notin F
            BY <1>5, <3>1 DEF F, R
      <3>3. Cardinality(F \cup {k}) = Cardinality(F) + 1 /\ F \cup {k} \subseteq R
            BY <2>2, <2>3, <3>2, FS_AddElement
      <3>4. Cardinality(F) + 1 <= Cardinality(R)
            BY <2>3, <3>3, FS_Subset
      <3>5. Cardinality(D \cup {x}) <= Cardinality(D) + 1 /\ Cardinality(D \cup {x}) \in Nat
        <4>1. /\ IsFiniteSet(D \cup {x})
              /\ Cardinality(D \cup {x}) = IF x \in D THEN Cardinality(D) ELSE Cardinality(D) + 1
              BY <2>1, FS_AddElement
        <4>2. Cardinality(D \cup {x}) \in Nat
              BY <4>1, FS_CardinalityType
        <4> QED BY <2>4, <4>1, <4>2
      <3>6. Cardinality(D \cup {x}) <= Cardinality(R)
            BY <2>1, <2>4, <3>4, <3>5
      <3>7. Cardinality(D) <= Cardinality(F)
            BY <2>1, <2>4
      <3> QED BY <2>1, <3>1, <3>6, <3>7 DEF D, F, R
    <2> QED BY <2>5, <2>6
  <1>7. DoneFor(0)' = DoneFor(0) /\ \A pay : {q \in Req : req'[q] = "done" /\ Want[q].pay = pay} = DoneFor(pay)
        BY DEF DoneFor
  <1>8. ASSUME NEW q \in Req
        PROVE  LET pay == Want[q].pay IN
               /\ IsFiniteSet({x \in Req : req'[x] = "done" /\ Want[x].pay = pay})
               /\ Cardinality({x \in Req : req'[x] = "done" /\ Want[x].pay = pay}) <= Cardinality(Counted(chain', file', pay))
               /\ \A x \in Proc : pc'[x] = "save" =>
                    Cardinality({y \in Req : req'[y] = "done" /\ Want[y].pay = pay} \cup SoonDone(job'[x], pay))
                      <= Cardinality(Counted(chain', mem'[x], pay))
        BY <1>3, <1>6, <1>7 DEF c, j
  <1> QED BY <1>8 DEF PInv, DoneFor

LEMMA NodeTxidPInv ==
  ASSUME Alone, IInv, LInv, JInv, HInv, WInv, PInv, NEW p \in Proc, NodeAccepts(p) \/ NodeEchoes(p)
  PROVE  PInv'
  <1> DEFINE t == Head(job[p].txs)
  <1>1. Sending(p) /\ UNCHANGED <<wire, file, job, req>>
        BY DEF NodeAccepts, NodeEchoes
  <1>2. /\ t \in Tx /\ Good(chain, file) /\ BuiltFrom(file, job[p]) /\ JobGood(chain, file, job[p])
        /\ MadeFrom(chain, t) /\ Linked(chain) /\ job[p] \in Job /\ chain \in Seq(Tx)
        BY <1>1, SendingFacts DEF WInv, IInv, TypeOK
  <1>3. CASE NodeAccepts(p)
    <2> DEFINE k == Len(chain) + 1
    <2>1. Acceptable(t) /\ chain' = Append(chain, t) /\ GetsTxid(p, k)
          BY <1>3 DEF NodeAccepts
    <2> HIDE DEF t
    <2>2. k \in DOMAIN chain' /\ chain'[k] = t /\ chain' \in Seq(Tx)
          BY <1>2, <2>1, AppendKeeps
    <2>3. \A v \in DOMAIN t.outs : Untouched(chain', wire', [txid |-> k, vout |-> v])
          BY <1>1, <1>2, <2>1, Accepts
    <2>4. \A pay : Counted(chain, file, pay) \subseteq Counted(chain', file, pay)
          BY <1>2, <2>1, CountedGrows
    <2>5. Good(chain', file) /\ JobGood(chain', file, job[p])
          BY <1>2, <2>1, GoodStays, JobGoodStays
    <2> HIDE DEF k
    <2> QED BY <1>1, <2>1, <2>2, <2>3, <2>4, <2>5, GetsTxidPInv DEF t
  <1>4. CASE NodeEchoes(p)
    <2> DEFINE k == TxidOf(chain, t)
    <2>1. GetsTxid(p, k) /\ chain' = chain
          BY <1>4 DEF NodeEchoes
    <2>2. /\ k \in DOMAIN chain /\ chain[k] = t
          /\ \A v \in DOMAIN t.outs : Untouched(chain, wire, [txid |-> k, vout |-> v])
          BY <1>4, EchoUntouched
    <2> HIDE DEF t, k
    <2>3. /\ k \in DOMAIN chain' /\ chain'[k] = t /\ chain' \in Seq(Tx)
          /\ \A v \in DOMAIN t.outs : Untouched(chain', wire', [txid |-> k, vout |-> v])
          /\ Good(chain', file) /\ JobGood(chain', file, job[p])
          /\ \A pay : Counted(chain, file, pay) \subseteq Counted(chain', file, pay)
          BY <1>1, <1>2, <2>1, <2>2
    <2> QED BY <1>1, <2>1, <2>3, GetsTxidPInv DEF t
  <1> QED BY <1>3, <1>4

LEMMA BeginPInv ==
  ASSUME Alone, IInv, PInv, NEW p \in Proc, NEW j, NEW step, NEW copy, Begin(p, j, step, copy), Serves(j),
         UNCHANGED <<chain, file>>, \A q \in Req : req'[q] = "done" <=> req[q] = "done",
         step = "save" => j.req = {} /\ copy.cat = file.cat /\ copy.shards = file.shards
  PROVE  PInv'
  <1>1. pc'[p] = step /\ mem'[p] = copy /\ job'[p] = j /\ \A q \in Proc : q = p
        BY DEF Begin, IInv, TypeOK, Alone
  <1>2. \A pay : {q \in Req : req'[q] = "done" /\ Want[q].pay = pay} = DoneFor(pay)
        BY DEF DoneFor
  <1>3. ASSUME NEW r \in Req
        PROVE  LET pay == Want[r].pay IN
               /\ IsFiniteSet(DoneFor(pay))
               /\ Cardinality(DoneFor(pay)) <= Cardinality(Counted(chain, file, pay))
               /\ step = "save" => Cardinality(DoneFor(pay) \cup SoonDone(j, pay)) <= Cardinality(Counted(chain, copy, pay))
    <2> DEFINE pay == Want[r].pay
    <2>1. IsFiniteSet(DoneFor(pay)) /\ Cardinality(DoneFor(pay)) <= Cardinality(Counted(chain, file, pay))
          BY DEF PInv
    <2>2. step = "save" => SoonDone(j, pay) = {} /\ Counted(chain, copy, pay) = Counted(chain, file, pay)
          BY SameCounted DEF SoonDone
    <2>3. step = "save" => DoneFor(pay) \cup SoonDone(j, pay) = DoneFor(pay)
          BY <2>2
    <2> QED BY <2>1, <2>2, <2>3
  <1>4. ASSUME NEW r \in Req
        PROVE  LET pay == Want[r].pay IN
               /\ IsFiniteSet({x \in Req : req'[x] = "done" /\ Want[x].pay = pay})
               /\ Cardinality({x \in Req : req'[x] = "done" /\ Want[x].pay = pay}) <= Cardinality(Counted(chain', file', pay))
               /\ \A x \in Proc : pc'[x] = "save" =>
                    Cardinality({y \in Req : req'[y] = "done" /\ Want[y].pay = pay} \cup SoonDone(job'[x], pay))
                      <= Cardinality(Counted(chain', mem'[x], pay))
        BY <1>1, <1>2, <1>3
  <1> QED BY <1>1, <1>4 DEF PInv, DoneFor

LEMMA CommandPInv ==
  ASSUME Alone, IInv, PInv, NEW p \in Proc, Command(p)
  PROVE  PInv'
  <1>1. UNCHANGED <<chain, file>>
        BY DEF Command, StartInit, InitAgain, StartDeposit, StageFrom, StartImport, StartWithdraw
  <1>2. CASE StartWithdraw(p)
    <2>1. PICK r \in Req, i \in Shard :
            /\ req[r] # "done" /\ req' = [req EXCEPT ![r] = "asked"]
            /\ \E fund \in FeeInputs(Want[r].external) :
                 Begin(p, [op |-> "withdraw", shard |-> i, note |-> {}, req |-> {r},
                           txs |-> <<WithdrawTx(file.cat, file.shards[i],
                                                PrevoutOf(file.shards[i]), Want[r].pay, fund,
                                                WithdrawMode(ForcedMode))>>], "send", file)
          BY <1>2 DEF StartWithdraw
    <2>2. PICK fund : Begin(p, [op |-> "withdraw", shard |-> i, note |-> {}, req |-> {r},
                                txs |-> <<WithdrawTx(file.cat, file.shards[i],
                                                     PrevoutOf(file.shards[i]), Want[r].pay, fund,
                                                     WithdrawMode(ForcedMode))>>], "send", file)
          BY <2>1
    <2> DEFINE t == WithdrawTx(file.cat, file.shards[i], PrevoutOf(file.shards[i]), Want[r].pay, fund,
                               WithdrawMode(ForcedMode))
               j == [op |-> "withdraw", shard |-> i, note |-> {}, req |-> {r}, txs |-> <<t>>]
    <2>3. t.pays = {Want[r].pay} /\ Begin(p, j, "send", file)
          BY <2>2 DEF WithdrawTx
    <2>4. \A q \in Req : req'[q] = "done" <=> req[q] = "done"
          BY <2>1 DEF IInv, TypeOK
    <2> HIDE DEF t
    <2>5. Serves(j)
          BY <2>3 DEF Serves
    <2> HIDE DEF j
    <2> QED BY <1>1, <2>3, <2>4, <2>5, BeginPInv
  <1>3. ASSUME NEW j, NEW step, NEW copy, Begin(p, j, step, copy), j.req = {}, UNCHANGED req,
               copy.cat = file.cat, copy.shards = file.shards
        PROVE  PInv'
        BY <1>1, <1>3, BeginPInv DEF Serves
  <1>4. CASE StartInit(p)
    <2>1. PICK f : Begin(p, [NoJob EXCEPT !.op = "init", !.txs = <<InitShardsTx(f)>>], "send", file)
          BY <1>4 DEF StartInit
    <2> DEFINE j == [NoJob EXCEPT !.op = "init", !.txs = <<InitShardsTx(f)>>]
    <2>2. j.req = {} /\ Begin(p, j, "send", file) /\ UNCHANGED req
          BY <1>4, <2>1 DEF NoJob, StartInit
    <2> HIDE DEF j
    <2> QED BY <1>3, <2>2
  <1>5. CASE StartDeposit(p)
    <2>1. PICK n : Begin(p, [NoJob EXCEPT !.op = "deposit", !.note = {n}], "send", file)
          BY <1>5 DEF StartDeposit
    <2> DEFINE j == [NoJob EXCEPT !.op = "deposit", !.note = {n}]
    <2>2. j.req = {} /\ Begin(p, j, "send", file) /\ UNCHANGED req
          BY <1>5, <2>1 DEF NoJob, StartDeposit
    <2> HIDE DEF j
    <2> QED BY <1>3, <2>2
  <1>6. CASE StartImport(p)
    <2>1. PICK n, i : Begin(p, [op |-> "import", shard |-> i, note |-> {n}, req |-> {},
                                txs |-> ImportTries(file, i, n)], "send", file)
          BY <1>6 DEF StartImport
    <2> DEFINE j == [op |-> "import", shard |-> i, note |-> {n}, req |-> {}, txs |-> ImportTries(file, i, n)]
    <2>2. j.req = {} /\ Begin(p, j, "send", file) /\ UNCHANGED req
          BY <1>6, <2>1 DEF StartImport
    <2> HIDE DEF j
    <2> QED BY <1>3, <2>2
  <1>7. CASE InitAgain(p)
    <2> DEFINE j == [NoJob EXCEPT !.op = "touch"]
    <2>1. j.req = {} /\ Begin(p, j, "save", file) /\ UNCHANGED req
          BY <1>7 DEF NoJob, InitAgain
    <2> HIDE DEF j
    <2> QED BY <1>3, <2>1
  <1>8. CASE StageFrom(p)
    <2>1. PICK n : Begin(p, [NoJob EXCEPT !.op = "stage", !.note = {n}], "save", Stage(file, n))
          BY <1>8 DEF StageFrom
    <2> DEFINE j == [NoJob EXCEPT !.op = "stage", !.note = {n}]
    <2>2. j.req = {} /\ Begin(p, j, "save", Stage(file, n)) /\ UNCHANGED req
          BY <1>8, <2>1 DEF NoJob, StageFrom
    <2>3. Stage(file, n).cat = file.cat /\ Stage(file, n).shards = file.shards
          BY StagePointers DEF IInv, TypeOK
    <2> HIDE DEF j
    <2> QED BY <1>3, <2>2, <2>3
  <1> QED BY <1>2, <1>4, <1>5, <1>6, <1>7, <1>8 DEF Command

LEMMA EndsPInv ==
  ASSUME Alone, IInv, PInv, NEW p \in Proc, Ends(p), UNCHANGED chain,
         \/ UNCHANGED <<file, req>>
         \/ /\ pc[p] = "save" /\ file' = mem[p]
            /\ req' = [r \in Req |-> IF r \in job[p].req THEN "done" ELSE req[r]]
  PROVE  PInv'
  <1>1. pc'[p] = "idle" /\ job'[p] = NoJob /\ \A q \in Proc : q = p
        BY DEF Ends, IInv, TypeOK, Alone
  <1>2. Serves(NoJob)
        BY DEF Serves, NoJob
  <1>3. ASSUME NEW r \in Req
        PROVE  LET pay == Want[r].pay
                   D == {x \in Req : req'[x] = "done" /\ Want[x].pay = pay}
               IN  IsFiniteSet(D) /\ Cardinality(D) <= Cardinality(Counted(chain', file', pay))
    <2> DEFINE pay == Want[r].pay
               D == {x \in Req : req'[x] = "done" /\ Want[x].pay = pay}
    <2>1. CASE UNCHANGED <<file, req>>
      <3>1. D = DoneFor(pay)
            BY <2>1 DEF DoneFor
      <3> QED BY <2>1, <3>1 DEF PInv
    <2>2. CASE /\ pc[p] = "save" /\ file' = mem[p]
               /\ req' = [x \in Req |-> IF x \in job[p].req THEN "done" ELSE req[x]]
      <3>1. job[p].req \subseteq Req
            BY DEF IInv, TypeOK, Job
      <3>2. D = DoneFor(pay) \cup SoonDone(job[p], pay)
            BY <2>2, <3>1 DEF DoneFor, SoonDone
      <3>3. Cardinality(D) <= Cardinality(Counted(chain, mem[p], pay)) /\ IsFiniteSet(DoneFor(pay))
            BY <2>2, <3>2 DEF PInv
      <3>4. IsFiniteSet(D)
        <4>1. SoonDone(job[p], pay) = {} \/ \E x : SoonDone(job[p], pay) = {x}
              BY DEF PInv, Serves, SoonDone
        <4>2. D = DoneFor(pay) \/ \E x : D = DoneFor(pay) \cup {x}
              BY <3>2, <4>1
        <4> HIDE DEF D
        <4> QED BY <3>3, <4>2, FS_AddElement
      <3> QED BY <2>2, <3>3, <3>4
    <2> QED BY <2>1, <2>2
  <1> QED BY <1>1, <1>2, <1>3 DEF PInv, DoneFor

LEMMA ServesRest ==
  ASSUME NEW j \in Job, Serves(j), j.txs # <<>>
  PROVE  Serves([j EXCEPT !.txs = Tail(j.txs)])
  <1> DEFINE h == [j EXCEPT !.txs = Tail(j.txs)]
  <1>1. h.req = j.req /\ h.op = j.op /\ h.txs = Tail(j.txs) /\ j.txs \in Seq(Tx)
        BY DEF Job
  <1>2. ASSUME NEW k \in DOMAIN h.txs PROVE k + 1 \in DOMAIN j.txs /\ h.txs[k] = j.txs[k + 1]
        BY <1>1, <1>2
  <1> HIDE DEF h
  <1>3. Serves(h)
        BY <1>1, <1>2 DEF Serves
  <1> QED BY <1>3 DEF h

LEMMA NextPInv == ASSUME Alone PROVE IInv /\ LInv /\ JInv /\ HInv /\ WInv /\ PInv /\ [Next]_vars => PInv'
  <1> SUFFICES ASSUME IInv, LInv, JInv, HInv, WInv, PInv, [Next]_vars PROVE PInv'
      OBVIOUS
  <1>1. ASSUME NEW p \in Proc, NodeRejects(p) \/ Save(p) \/ Fault(p) PROVE PInv'
        BY <1>1, EndsPInv DEF NodeRejects, Save, Fault, GivesUp, Crash
  <1>2. ASSUME NEW p \in Proc, NodeFailsScript(p) PROVE PInv'
    <2>1. /\ job' = [job EXCEPT ![p] = [job[p] EXCEPT !.txs = Tail(job[p].txs)]]
          /\ pc[p] = "send" /\ UNCHANGED <<chain, file, mem, pc, req>> /\ job[p].txs # <<>>
          BY <1>2 DEF NodeFailsScript, Sending
    <2>2. job'[p] = [job[p] EXCEPT !.txs = Tail(job[p].txs)] /\ job[p] \in Job /\ \A q \in Proc : q = p
          BY <2>1 DEF IInv, TypeOK, Alone
    <2>3. Serves(job'[p])
          BY <2>1, <2>2, ServesRest DEF PInv
    <2> QED BY <2>1, <2>2, <2>3 DEF PInv, DoneFor
  <1>3. ASSUME NEW p \in Proc, NodeCreatesNote(p) PROVE PInv'
    <2>1. /\ pc[p] = "send" /\ job[p].op = "deposit" /\ UNCHANGED <<chain, file, job, req>>
          /\ \E n : mem'[p] = Stage(mem[p], n)
          BY <1>3 DEF NodeCreatesNote, IInv, TypeOK
    <2>2. mem[p] = file /\ file \in PoolState /\ \A q \in Proc : q = p
          BY <2>1 DEF HInv, IInv, TypeOK, Alone
    <2>3. mem'[p].cat = file.cat /\ mem'[p].shards = file.shards
          BY <2>1, <2>2, StagePointers
    <2>4. job[p].req = {}
          BY <2>1 DEF PInv, Serves
    <2>5. \A pay : SoonDone(job[p], pay) = {} /\ Counted(chain, mem'[p], pay) = Counted(chain, file, pay)
          BY <2>3, <2>4, SameCounted DEF SoonDone
    <2>6. \A pay : DoneFor(pay) \cup SoonDone(job[p], pay) = DoneFor(pay)
          BY <2>5
    <2> QED BY <2>1, <2>2, <2>5, <2>6 DEF PInv, DoneFor
  <1>4. CASE ArrivesLate
    <2>1. PICK t \in wire : /\ chain' = Append(chain, t) /\ UNCHANGED <<file, mem, pc, job, req>>
          BY <1>4 DEF ArrivesLate
    <2>2. chain \in Seq(Tx) /\ t \in Tx
          BY DEF IInv, TypeOK
    <2>3. \A s, pay : /\ Counted(chain, s, pay) \subseteq Counted(chain', s, pay)
                      /\ IsFiniteSet(Counted(chain, s, pay)) /\ IsFiniteSet(Counted(chain', s, pay))
      <3>1. chain' \in Seq(Tx)
            BY <2>1, <2>2, AppendKeeps
      <3> QED BY <2>1, <2>2, <3>1, CountedGrows, CountedType, PaymentsFinite
    <2>4. \A s, pay : /\ Cardinality(Counted(chain, s, pay)) <= Cardinality(Counted(chain', s, pay))
                      /\ Cardinality(Counted(chain, s, pay)) \in Nat /\ Cardinality(Counted(chain', s, pay)) \in Nat
          BY <2>3, FS_Subset, FS_CardinalityType
    <2>5. ASSUME NEW D, NEW s, NEW pay, IsFiniteSet(D), Cardinality(D) <= Cardinality(Counted(chain, s, pay))
          PROVE  Cardinality(D) <= Cardinality(Counted(chain', s, pay))
      <3>1. Cardinality(D) \in Nat
            BY <2>5, FS_CardinalityType
      <3> QED BY <2>4, <2>5, <3>1
    <2>6. ASSUME NEW r \in Req
          PROVE  LET pay == Want[r].pay IN
                 /\ IsFiniteSet(DoneFor(pay))
                 /\ Cardinality(DoneFor(pay)) <= Cardinality(Counted(chain', file, pay))
                 /\ \A p \in Proc : pc[p] = "save" =>
                      Cardinality(DoneFor(pay) \cup SoonDone(job[p], pay)) <= Cardinality(Counted(chain', mem[p], pay))
      <3> DEFINE pay == Want[r].pay
      <3>1. /\ IsFiniteSet(DoneFor(pay))
            /\ Cardinality(DoneFor(pay)) <= Cardinality(Counted(chain, file, pay))
            BY DEF PInv
      <3>2. ASSUME NEW p \in Proc, pc[p] = "save"
            PROVE  Cardinality(DoneFor(pay) \cup SoonDone(job[p], pay)) <= Cardinality(Counted(chain', mem[p], pay))
        <4>1. Cardinality(DoneFor(pay) \cup SoonDone(job[p], pay)) <= Cardinality(Counted(chain, mem[p], pay))
              BY <3>2 DEF PInv
        <4>5. job[p].req = {} \/ \E x : job[p].req = {x}
              BY DEF PInv, Serves
        <4>2. SoonDone(job[p], pay) = {} \/ \E x : SoonDone(job[p], pay) = {x}
              BY <4>5 DEF SoonDone
        <4>3. IsFiniteSet(SoonDone(job[p], pay))
              BY <4>2, FS_EmptySet, FS_Singleton
        <4>4. IsFiniteSet(DoneFor(pay) \cup SoonDone(job[p], pay))
              BY <3>1, <4>3, FS_Union
        <4> QED BY <2>5, <4>1, <4>4
      <3> QED BY <2>5, <3>1, <3>2
    <2> QED BY <2>1, <2>6 DEF PInv, DoneFor
  <1>5. CASE Receive \/ SpendElsewhere \/ UNCHANGED vars
    <2>1. UNCHANGED <<chain, file, mem, pc, job, req>>
          BY <1>5 DEF Receive, SpendElsewhere, vars
    <2> QED BY <2>1 DEF PInv, DoneFor
  <1> QED BY <1>1, <1>2, <1>3, <1>4, <1>5, CommandPInv, NodeTxidPInv DEF Next, Answer, Environment

LEMMA InitPInv == Init => PInv
  <1> SUFFICES ASSUME Init PROVE PInv
      OBVIOUS
  <1>1. \A p \in Proc : Serves(job[p]) /\ pc[p] = "idle"
        BY DEF Init, Serves, NoJob
  <1>2. ~Initialized(file) /\ \A r \in Req : req[r] = "new"
        BY DEF Init, EmptyState, Initialized
  <1>3. \A pay : DoneFor(pay) = {} /\ Counted(chain, file, pay) = {}
        BY <1>2 DEF DoneFor, Counted
  <1> QED BY <1>1, <1>3, FS_EmptySet DEF PInv

(* With one command at a time a withdrawal is reported done only for a     *)
(* payment of its own: no echo, retry or late arrival is counted twice     *)
THEOREM ReportsArePaid == ASSUME Alone PROVE Spec => []ReportedArePaid
  <1>1. IInv /\ PInv => ReportedArePaid
    <2> SUFFICES ASSUME IInv, PInv, NEW r \in Req
                 PROVE  Cardinality({q \in Req : req[q] = "done" /\ Want[q].pay = Want[r].pay})
                          <= Cardinality({k \in Withdraws(chain) : Want[r].pay \in chain[k].pays})
        BY DEF ReportedArePaid
    <2> DEFINE pay == Want[r].pay
               C == Counted(chain, file, pay)
               W == {k \in Withdraws(chain) : pay \in chain[k].pays}
               D == {q \in Req : req[q] = "done" /\ Want[q].pay = pay}
    <2>1. C \subseteq W /\ W \subseteq DOMAIN chain /\ chain \in Seq(Tx) /\ C \subseteq DOMAIN chain
          BY DEF Counted, Withdraws, IInv, TypeOK
    <2>2. IsFiniteSet(D) /\ Cardinality(D) <= Cardinality(C)
          BY DEF PInv, DoneFor
    <2> HIDE DEF C, W, D
    <2>3. Cardinality(C) <= Cardinality(W) /\ Cardinality(C) \in Nat /\ Cardinality(W) \in Nat /\ Cardinality(D) \in Nat
          BY <2>1, <2>2, PaymentsFinite, FS_CardinalityType
    <2>4. Cardinality(D) <= Cardinality(W)
          BY <2>2, <2>3
    <2> QED BY <2>4 DEF W, D
  <1>2. Init => PInv
        BY InitPInv
  <1>3. IInv /\ LInv /\ JInv /\ HInv /\ WInv /\ PInv /\ [Next]_vars => PInv'
        BY NextPInv
  <1> QED BY <1>1, <1>2, <1>3, BehindInvariant, PTL DEF Spec

-----------------------------------------------------------------------------
(* A request is paid at most once, whatever runs beside it                 *)

(* Outputs carry their pool's category, and a pool has none before it is opened *)
Opened(c) ==
  \A k \in DOMAIN c :
    /\ \A v \in DOMAIN c[k].outs : c[k].outs[v].cat = c[k].outs[v].commit.cat
    /\ c[k].ins = {} => /\ c[k].pays = {}
                        /\ \A f \in c[k].fund, i \in Shard, l \in DOMAIN c : TouchesIn(c, l, f, i) => l >= k

(* The withdrawals of pay from shard i of pool f, up to transaction b *)
Line(c, f, i, pay, b) == {k \in Withdraws(c) : k <= b /\ pay \in c[k].pays /\ OfThread(c[k].outs[0], f, i)}
Passed(c, s, i, pay) == IF Initialized(s) THEN Line(c, s.cat, i, pay, s.shards[i].txid) ELSE {}

AskedOf(i, pay) == {q \in Req : req[q] # "new" /\ Want[q].pay = pay /\ Want[q].shard = i}
DoneOf(i, pay) == {q \in Req : req[q] = "done" /\ Want[q].pay = pay /\ Want[q].shard = i}
MineOf(j, i, pay) == {q \in j.req : Want[q].pay = pay /\ Want[q].shard = i}
Explicit(pay) == \A q \in Asking(pay) : Want[q].shard # AutoShard

(* What a transaction may still add *)
Allowed(c, t, pay) ==
  \A o \in t.ins : pay \in t.pays =>
    LET x == CellAt(c, o).commit
    IN  Cardinality(Line(c, x.cat, x.shard, pay, o.txid)) + 1 <= Cardinality(AskedOf(x.shard, pay))

Serving(rq, j) ==
  \/ j.req = {} /\ \A k \in DOMAIN j.txs : j.txs[k].pays = {}
  \/ \E r \in Req :
       /\ j.req = {r} /\ j.op = "withdraw" /\ rq[r] # "new"
       /\ Want[r].shard = AutoShard \/ j.shard = Want[r].shard
       /\ \A k \in DOMAIN j.txs : j.txs[k].pays = {Want[r].pay}

(* What a command's copy has passed, against the requests done, D *)
CopyPaid(c, step, s, j, i, pay, D) ==
  /\ step = "send" => Cardinality(Passed(c, s, i, pay)) <= Cardinality(D \ j.req)
  /\ step = "save" => Cardinality(Passed(c, s, i, pay)) <= Cardinality(D \cup MineOf(j, i, pay))

PaidFor(pay) ==
  /\ \A t \in wire : Allowed(chain, t, pay)
  /\ \A i \in Shard :
       /\ Cardinality(Passed(chain, file, i, pay)) <= Cardinality(DoneOf(i, pay))
       /\ \A p \in Proc : CopyPaid(chain, pc[p], mem[p], job[p], i, pay, DoneOf(i, pay))
       /\ \A f \in Funding : Cardinality(Line(chain, f, i, pay, Len(chain))) <= Cardinality(AskedOf(i, pay))

RqInv ==
  /\ Linked(chain) /\ Opened(chain)
  /\ \A p \in Proc : Serving(req, job[p])
  /\ \A r \in Req : IsFiniteSet(Asking(Want[r].pay))
  /\ \A r \in Req : Explicit(Want[r].pay) => PaidFor(Want[r].pay)

LEMMA OpenedGrows ==
  ASSUME NEW c, Threads(c), Opened(c), NEW t \in Tx,
         \/ \E f \in Funding : t = InitShardsTx(f) /\ f \notin PoolsIn(c)
         \/ \E o \in Live(c) : Spends(c, t, o)
  PROVE  Opened(Append(c, t))
  <1> DEFINE d == Append(c, t)
             n == Len(c) + 1
  <1>1. /\ c \in Seq(Tx) /\ DOMAIN d = DOMAIN c \cup {n} /\ n \notin DOMAIN c /\ d[n] = t
        /\ \A k \in DOMAIN c : d[k] = c[k] /\ k \in Nat /\ k < n
        /\ n \in Nat
        BY AppendKeeps DEF Threads
  <1> HIDE DEF d, n
  <1>2. ASSUME NEW k \in DOMAIN c, NEW f, NEW i \in Shard, TouchesIn(c, k, f, i)
        PROVE  f \in PoolsIn(c)
    <2>1. PICK v \in DOMAIN c[k].outs : c[k].outs[v].commit.cat = f
          BY <1>2 DEF TouchesIn, OfThread
    <2>2. [txid |-> k, vout |-> v] \in Made(c) /\ CellAt(c, [txid |-> k, vout |-> v]) = c[k].outs[v]
          BY <2>1 DEF Made, OutpointsOf, CellAt
    <2> QED BY <2>1, <2>2 DEF Threads
  <1>3. \A v \in DOMAIN t.outs : t.outs[v].cat = t.outs[v].commit.cat
    <2>1. CASE \E f \in Funding : t = InitShardsTx(f)
          BY <2>1 DEF InitShardsTx, GenesisCommitment
    <2>2. CASE \E o \in Live(c) : Spends(c, t, o)
      <3>1. PICK o \in Live(c) : Spends(c, t, o)
            BY <2>2
      <3> DEFINE x == CellAt(c, o).commit
      <3>2. o \in Made(c) /\ DOMAIN t.outs = {0} /\ t.outs[0].cat = CellAt(c, o).cat
            BY <3>1 DEF Live, Spends
      <3>3. CellAt(c, o).cat = x.cat
            BY <3>2 DEF Opened, Made, OutpointsOf, CellAt
      <3>4. x \in Commitment
            BY <3>2, MadeAreCells
      <3>5. \A item : StateOut(x, item).cat = x.cat
            BY <3>4 DEF StateOut, Commitment
      <3>6. \E item : t.outs[0].commit = StateOut(x, item)
            BY <3>1 DEF Spends, MakesImport, MakesWithdrawal
      <3> QED BY <3>2, <3>3, <3>5, <3>6
    <2> QED BY <2>1, <2>2
  <1>4. ASSUME t.ins = {}
        PROVE  t.pays = {} /\ \A f \in t.fund : f \notin PoolsIn(c)
    <2>1. PICK f \in Funding : t = InitShardsTx(f) /\ f \notin PoolsIn(c)
          BY <1>4 DEF Spends
    <2> QED BY <2>1 DEF InitShardsTx
  <1>5. \A k \in DOMAIN c : \A f, i : TouchesIn(d, k, f, i) <=> TouchesIn(c, k, f, i)
        BY <1>1 DEF TouchesIn
  <1>6. \A k \in DOMAIN d : \A v \in DOMAIN d[k].outs : d[k].outs[v].cat = d[k].outs[v].commit.cat
        BY <1>1, <1>3 DEF Opened
  <1>7. ASSUME NEW k \in DOMAIN d, d[k].ins = {}
        PROVE  /\ d[k].pays = {}
               /\ \A f \in d[k].fund, i \in Shard, l \in DOMAIN d : TouchesIn(d, l, f, i) => l >= k
    <2>1. CASE k = n
          BY <1>1, <1>2, <1>4, <1>5, <1>7, <2>1
    <2>2. CASE k \in DOMAIN c
      <3>1. n >= k
            BY <1>1, <2>2
      <3>2. c[k].ins = {} /\ d[k] = c[k]
            BY <1>1, <1>7, <2>2
      <3> QED BY <1>1, <1>5, <2>2, <3>1, <3>2 DEF Opened
    <2> QED BY <1>1, <2>1, <2>2
  <1>8. Opened(d)
        BY <1>6, <1>7 DEF Opened
  <1> QED BY <1>8 DEF d

LEMMA LineFinite ==
  ASSUME NEW c \in Seq(Tx), NEW f, NEW i, NEW pay, NEW b
  PROVE  IsFiniteSet(Line(c, f, i, pay, b)) /\ Cardinality(Line(c, f, i, pay, b)) \in Nat
  <1>1. Line(c, f, i, pay, b) \subseteq DOMAIN c
        BY DEF Line, Withdraws
  <1> QED BY <1>1, PaymentsFinite

(* What has been passed does not change as the chain grows *)
LEMMA LineStays ==
  ASSUME NEW c \in Seq(Tx), NEW t \in Tx, NEW f, NEW i, NEW pay, NEW b \in DOMAIN c
  PROVE  Line(Append(c, t), f, i, pay, b) = Line(c, f, i, pay, b)
  <1>1. \A k \in DOMAIN Append(c, t) : k <= b => k \in DOMAIN c
        BY AppendKeeps
  <1>2. \A k \in DOMAIN c : k \in DOMAIN Append(c, t) /\ Append(c, t)[k] = c[k]
        BY AppendKeeps
  <1> QED BY <1>1, <1>2 DEF Line, Withdraws

LEMMA PassedStays ==
  ASSUME NEW c \in Seq(Tx), NEW t \in Tx, NEW s, Good(c, s), NEW i \in Shard, NEW pay
  PROVE  Passed(Append(c, t), s, i, pay) = Passed(c, s, i, pay)
  <1>1. Initialized(s) => s.shards[i].txid \in DOMAIN c
    <2> SUFFICES ASSUME Initialized(s) PROVE s.shards[i].txid \in DOMAIN c
        OBVIOUS
    <2>1. PointsAt(s, i) \in Made(c) /\ PointsAt(s, i).txid = s.shards[i].txid
          BY DEF Good, Faithful, FaithfulPointer, PointsAt
    <2>2. \A o \in Made(c) : o.txid \in DOMAIN c
          BY DEF Made, OutpointsOf
    <2> QED BY <2>1, <2>2
  <1> QED BY <1>1, LineStays DEF Passed

LEMMA WithdrawsSpend ==
  ASSUME NEW c, Linked(c), Opened(c), NEW k \in Withdraws(c), NEW f, NEW i, OfThread(c[k].outs[0], f, i)
  PROVE  TouchesIn(c, k, f, i)
  BY DEF Withdraws, Opened, Linked, TouchesIn

(* A spend is the next of its line *)
LEMMA LineSpend ==
  ASSUME NEW c \in Seq(Tx), Linked(c), Opened(c), NEW k \in DOMAIN c, NEW o \in c[k].ins, NEW pay
  PROVE  LET x == CellAt(c, o).commit IN
         Line(c, x.cat, x.shard, pay, k)
           \subseteq Line(c, x.cat, x.shard, pay, o.txid) \cup (IF pay \in c[k].pays THEN {k} ELSE {})
  <1> DEFINE x == CellAt(c, o).commit
  <1> SUFFICES ASSUME NEW l \in Line(c, x.cat, x.shard, pay, k)
               PROVE  l \in Line(c, x.cat, x.shard, pay, o.txid) \cup (IF pay \in c[k].pays THEN {k} ELSE {})
      OBVIOUS
  <1>1. l \in Withdraws(c) /\ l <= k /\ pay \in c[l].pays /\ OfThread(c[l].outs[0], x.cat, x.shard)
        /\ l \in DOMAIN c
        BY DEF Line, Withdraws
  <1>2. TouchesIn(c, l, x.cat, x.shard)
        BY <1>1, WithdrawsSpend
  <1>3. l <= o.txid \/ l >= k
        BY <1>1, <1>2 DEF Linked
  <1>4. l \in Nat /\ k \in Nat
        BY <1>1
  <1>5. CASE l <= o.txid
        BY <1>1, <1>5 DEF Line
  <1>6. CASE l >= k
    <2>1. l = k
          BY <1>1, <1>4, <1>6
    <2> QED BY <1>1, <2>1
  <1> QED BY <1>3, <1>5, <1>6

LEMMA LineOfNewPool ==
  ASSUME NEW c \in Seq(Tx), Linked(c), Opened(c), NEW k \in DOMAIN c, c[k].ins = {}, NEW f \in c[k].fund,
         NEW i \in Shard, NEW pay
  PROVE  Line(c, f, i, pay, k) = {}
  <1> SUFFICES ASSUME NEW l \in Line(c, f, i, pay, k) PROVE FALSE
      OBVIOUS
  <1>1. l \in Withdraws(c) /\ l <= k /\ OfThread(c[l].outs[0], f, i) /\ l \in DOMAIN c /\ c[l].pays # {}
        BY DEF Line, Withdraws
  <1>2. TouchesIn(c, l, f, i)
        BY <1>1, WithdrawsSpend
  <1>3. l >= k /\ c[k].pays = {}
        BY <1>1, <1>2 DEF Opened
  <1>4. l \in Nat /\ k \in Nat
        BY <1>1
  <1>5. l = k
        BY <1>1, <1>3, <1>4
  <1> QED BY <1>1, <1>3, <1>5

(* A command's copy moves on by its own transaction only *)
LEMMA PassedRecord ==
  ASSUME NEW c \in Seq(Tx), Linked(c), Opened(c), NEW s, Good(c, s), NEW j \in Job, BuiltFrom(s, j),
         JobGood(c, s, j), NEW m \in DOMAIN j.txs, NEW t, t = j.txs[m], NEW k \in DOMAIN c, c[k] = t,
         NEW i \in Shard, NEW pay
  PROVE  \/ Passed(c, Record(s, j, t, k), i, pay) \subseteq Passed(c, s, i, pay)
         \/ /\ i = j.shard /\ pay \in t.pays
            /\ Passed(c, Record(s, j, t, k), i, pay) \subseteq Passed(c, s, i, pay) \cup {k}
  <1> DEFINE r == Record(s, j, t, k)
  <1>1. CASE j.op = "init"
    <2>1. PICK f \in Funding : t = InitShardsTx(f)
          BY <1>1 DEF BuiltFrom, InitTx
    <2>2. r.cat = f
      <3>1. r = RecordInit(s, t, k) /\ s \in PoolState
            BY <1>1 DEF Record, Good
      <3>2. 1 \in 1 .. NShards
            BY SizesAssumption
      <3>3. t.outs[1].cat = f
            BY <2>1, <3>2 DEF InitShardsTx
      <3> QED BY <3>1, <3>3 DEF RecordInit, PoolState
    <2>3. r.shards[i].txid = k
      <3>1. PointsAt(r, i) = [txid |-> k, vout |-> i + 1]
            BY <1>1, <2>1, PoolPointers
      <3> QED BY <3>1 DEF PointsAt
    <2>4. c[k].ins = {} /\ f \in c[k].fund
          BY <2>1 DEF InitShardsTx
    <2>5. Line(c, f, i, pay, k) = {}
          BY <2>4, LineOfNewPool
    <2>6. Passed(c, r, i, pay) = {}
          BY <2>2, <2>3, <2>5 DEF Passed
    <2> QED BY <2>6
  <1>2. CASE j.op \in {"import", "withdraw"}
    <2>1. /\ Initialized(s) /\ Initialized(r) /\ r.cat = s.cat
          /\ PointsAt(r, j.shard) = [txid |-> k, vout |-> 0]
          /\ i # j.shard => PointsAt(r, i) = PointsAt(s, i)
          BY <1>2, StepPointers
    <2> HIDE DEF r
    <2>2. Passed(c, r, i, pay) = Line(c, s.cat, i, pay, r.shards[i].txid)
          BY <2>1 DEF Passed
    <2>3. Passed(c, s, i, pay) = Line(c, s.cat, i, pay, s.shards[i].txid)
          BY <2>1 DEF Passed
    <2>4. CASE i # j.shard
      <3>1. r.shards[i].txid = s.shards[i].txid
            BY <2>1, <2>4 DEF PointsAt
      <3> QED BY <2>2, <2>3, <3>1 DEF r
    <2>5. CASE i = j.shard
      <3> DEFINE o == PointsAt(s, i)
                 x == CellAt(c, o).commit
      <3>1. r.shards[i].txid = k
            BY <2>1, <2>5 DEF PointsAt
      <3>2. o \in c[k].ins
            BY <1>2, <2>5 DEF JobGood, Follows
      <3>3. x.cat = s.cat /\ x.shard = i
            BY <2>1 DEF Good, Faithful, FaithfulPointer
      <3>4. o.txid = s.shards[i].txid
            BY DEF PointsAt
      <3> HIDE DEF o
      <3>5. Line(c, x.cat, x.shard, pay, k)
              \subseteq Line(c, x.cat, x.shard, pay, o.txid) \cup (IF pay \in c[k].pays THEN {k} ELSE {})
            BY <3>2, LineSpend
      <3> HIDE DEF x
      <3> QED BY <2>2, <2>3, <2>5, <3>1, <3>3, <3>4, <3>5 DEF r
    <2> QED BY <2>4, <2>5
  <1>3. CASE j.op = "deposit" /\ j.txs = <<>>
        BY <1>3
  <1> QED BY <1>1, <1>2, <1>3 DEF BuiltFrom

(* What a command sends may still be added *)
LEMMA JobAllowed ==
  ASSUME IInv, JInv, RqInv, NEW p \in Proc, pc[p] = "send", 1 \in DOMAIN job[p].txs,
         NEW r \in Req, Explicit(Want[r].pay)
  PROVE  Allowed(chain, job[p].txs[1], Want[r].pay)
  <1> DEFINE t == job[p].txs[1]
             j == job[p]
             s == mem[p]
             pay == Want[r].pay
  <1> SUFFICES ASSUME NEW o \in t.ins, pay \in t.pays
               PROVE  LET x == CellAt(chain, o).commit
                      IN  Cardinality(Line(chain, x.cat, x.shard, pay, o.txid)) + 1
                            <= Cardinality(AskedOf(x.shard, pay))
      BY DEF Allowed
  <1>1. PICK q \in Req : /\ j.req = {q} /\ j.op = "withdraw" /\ req[q] # "new" /\ t.pays = {Want[q].pay}
                         /\ Want[q].shard = AutoShard \/ j.shard = Want[q].shard
        BY DEF RqInv, Serving
  <1>2. Want[q].pay = pay /\ q \in Asking(pay)
        BY <1>1 DEF Asking
  <1>3. j.shard = Want[q].shard
        BY <1>1, <1>2 DEF Explicit
  <1>4. /\ Initialized(s) /\ j.shard \in Shard /\ t.ins = {PointsAt(s, j.shard)} /\ Good(chain, s)
        BY <1>1 DEF IInv, TypeOK, Job, BuiltFrom, JInv, JobGood, Follows
  <1>5. /\ CellAt(chain, o).commit.cat = s.cat /\ CellAt(chain, o).commit.shard = j.shard
        /\ o.txid = s.shards[j.shard].txid
        BY <1>4, SMTT(30) DEF Good, Faithful, FaithfulPointer, PointsAt
  <1> DEFINE L == Line(chain, s.cat, j.shard, pay, o.txid)
             A == AskedOf(j.shard, pay)
             D == DoneOf(j.shard, pay)
  <1>6. L = Passed(chain, s, j.shard, pay)
        BY <1>4, <1>5 DEF Passed
  <1>7. Cardinality(L) <= Cardinality(D \ {q})
        BY <1>1, <1>4, <1>6 DEF RqInv, PaidFor, CopyPaid
  <1>8. IsFiniteSet(A) /\ (D \ {q}) \cup {q} \subseteq A /\ Cardinality(L) \in Nat
    <2>1. A \subseteq Asking(pay) /\ IsFiniteSet(Asking(pay))
          BY DEF AskedOf, Asking, RqInv
    <2>2. D \subseteq A /\ q \in A
          BY <1>1, <1>2, <1>3 DEF DoneOf, AskedOf
    <2>3. Cardinality(L) \in Nat
          BY LineFinite DEF IInv, TypeOK
    <2> HIDE DEF A, D, L
    <2> QED BY <2>1, <2>2, <2>3, FS_Subset
  <1> HIDE DEF L, A, D
  <1>9. Cardinality(D \ {q}) + 1 <= Cardinality(A) /\ Cardinality(D \ {q}) \in Nat /\ Cardinality(A) \in Nat
    <2> DEFINE E == D \ {q}
    <2>1. IsFiniteSet(E) /\ q \notin E /\ E \cup {q} \subseteq A
          BY <1>8, FS_Subset
    <2> HIDE DEF E
    <2>2. Cardinality(E \cup {q}) = Cardinality(E) + 1 /\ Cardinality(E \cup {q}) <= Cardinality(A)
          BY <1>8, <2>1, FS_AddElement, FS_Subset
    <2> QED BY <1>8, <2>1, <2>2, FS_CardinalityType DEF E
  <1>10. Cardinality(L) + 1 <= Cardinality(A)
        BY <1>7, <1>8, <1>9
  <1> QED BY <1>5, <1>10 DEF L, A

(* An allowed transaction keeps every line within what was asked *)
LEMMA AllowedGrows ==
  ASSUME NEW c, Threads(c), Linked(c), Opened(c), NEW t \in Tx,
         \/ \E f \in Funding : t = InitShardsTx(f) /\ f \notin PoolsIn(c)
         \/ \E o \in Live(c) : Spends(c, t, o),
         NEW f \in Funding, NEW i \in Shard, NEW pay, Allowed(c, t, pay),
         Cardinality(Line(c, f, i, pay, Len(c))) <= Cardinality(AskedOf(i, pay)),
         Cardinality(AskedOf(i, pay)) \in Nat
  PROVE  Cardinality(Line(Append(c, t), f, i, pay, Len(c) + 1)) <= Cardinality(AskedOf(i, pay))
  <1> DEFINE d == Append(c, t)
             n == Len(c) + 1
  <1>1. /\ c \in Seq(Tx) /\ d \in Seq(Tx) /\ DOMAIN d = DOMAIN c \cup {n} /\ n \notin DOMAIN c /\ d[n] = t
        /\ \A k \in DOMAIN c : d[k] = c[k] /\ k \in Nat /\ k < n /\ k <= Len(c)
        /\ n \in Nat
        BY AppendKeeps DEF Threads
  <1>2. Linked(d) /\ Opened(d)
    <2>1. t.ins = {} \/ \E o \in Live(c) : Spends(c, t, o)
          BY DEF InitShardsTx
    <2> QED BY <2>1, LinkedGrows, OpenedGrows
  <1>3. CASE pay \in t.pays /\ t.ins # {} /\ OfThread(t.outs[0], f, i)
    <2>1. PICK o \in Live(c) : Spends(c, t, o)
          BY <1>3 DEF InitShardsTx
    <2> DEFINE x == CellAt(c, o).commit
    <2>2. o \in Made(c) /\ o \in t.ins
          BY <2>1 DEF Live, Spends
    <2>3. CellAt(d, o) = CellAt(c, o)
          BY <1>1, <2>2, MadeStays
    <2>4. x \in Commitment
          BY <2>2, MadeAreCells
    <2>5. x.cat = f /\ x.shard = i
      <3>1. \A item : StateOut(x, item).cat = x.cat /\ StateOut(x, item).shard = x.shard
            BY <2>4 DEF StateOut, Commitment
      <3>2. \E item : t.outs[0].commit = StateOut(x, item)
            BY <2>1 DEF Spends, MakesImport, MakesWithdrawal
      <3> QED BY <1>3, <3>1, <3>2 DEF OfThread
    <2> HIDE DEF d, n, x
    <2>6. o.txid \in DOMAIN c
          BY <2>2 DEF Made, OutpointsOf
    <2>7. Line(d, f, i, pay, o.txid) = Line(c, f, i, pay, o.txid)
          BY <1>1, <2>6, LineStays DEF d
    <2>8. Line(d, f, i, pay, n) \subseteq Line(d, f, i, pay, o.txid) \cup {n}
      <3>1. n \in DOMAIN d /\ o \in d[n].ins
            BY <1>1, <2>2
      <3>2. Line(d, CellAt(d, o).commit.cat, CellAt(d, o).commit.shard, pay, n)
              \subseteq Line(d, CellAt(d, o).commit.cat, CellAt(d, o).commit.shard, pay, o.txid)
                          \cup (IF pay \in d[n].pays THEN {n} ELSE {})
            BY <1>1, <1>2, <3>1, LineSpend
      <3> QED BY <2>3, <2>5, <3>2 DEF x
    <2>9. Cardinality(Line(c, f, i, pay, o.txid)) + 1 <= Cardinality(AskedOf(i, pay))
          BY <1>3, <2>2, <2>5 DEF Allowed, x
    <2>10. IsFiniteSet(Line(c, f, i, pay, o.txid)) /\ Cardinality(Line(c, f, i, pay, o.txid)) \in Nat
          BY <1>1, LineFinite
    <2> DEFINE L == Line(c, f, i, pay, o.txid)
               M == Line(d, f, i, pay, n)
    <2>11. M \subseteq L \cup {n} /\ IsFiniteSet(L) /\ Cardinality(L) \in Nat
          BY <2>7, <2>8, <2>10
    <2> HIDE DEF L, M
    <2>12. IsFiniteSet(L \cup {n}) /\ Cardinality(L \cup {n}) <= Cardinality(L) + 1
      <3>1. /\ IsFiniteSet(L \cup {n})
            /\ Cardinality(L \cup {n}) = IF n \in L THEN Cardinality(L) ELSE Cardinality(L) + 1
            BY <2>11, FS_AddElement
      <3> QED BY <2>11, <3>1
    <2>13. Cardinality(M) <= Cardinality(L \cup {n}) /\ Cardinality(M) \in Nat /\ Cardinality(L \cup {n}) \in Nat
          BY <2>11, <2>12, FS_Subset, FS_CardinalityType
    <2>14. Cardinality(L) + 1 <= Cardinality(AskedOf(i, pay))
          BY <2>9 DEF L
    <2>15. Cardinality(M) <= Cardinality(AskedOf(i, pay))
          BY <2>11, <2>12, <2>13, <2>14
    <2> QED BY <2>15 DEF M, n, d
  <1>4. CASE ~(pay \in t.pays /\ t.ins # {} /\ OfThread(t.outs[0], f, i))
    <2>1. t.ins = {} => t.pays = {}
          BY DEF InitShardsTx, Spends
    <2> HIDE DEF d, n
    <2>2. n \notin Line(d, f, i, pay, n)
          BY <1>1, <1>4, <2>1 DEF Line, Withdraws
    <2>3. Line(d, f, i, pay, n) \subseteq Line(c, f, i, pay, Len(c))
          BY <1>1, <2>2 DEF Line, Withdraws
    <2>4. /\ Cardinality(Line(c, f, i, pay, Len(c))) \in Nat
          /\ Cardinality(Line(d, f, i, pay, n)) \in Nat
          /\ Cardinality(Line(d, f, i, pay, n)) <= Cardinality(Line(c, f, i, pay, Len(c)))
          BY <1>1, <2>3, LineFinite, FS_Subset
    <2>5. Cardinality(Line(d, f, i, pay, n)) <= Cardinality(AskedOf(i, pay))
          BY <2>4
    <2> QED BY <2>5 DEF n, d
  <1> QED BY <1>3, <1>4

-----------------------------------------------------------------------------
(* RqInv, action by action                                                 *)

(* Nothing is unasked, and nothing done is done again *)
LEMMA AskedGrows ==
  ASSUME IInv, RqInv, [Next]_vars
  PROVE  /\ \A q \in Req : /\ req[q] # "new" => req'[q] # "new"
                           /\ req[q] = "done" => req'[q] = "done"
         /\ \E q : \A r \in Req : req[r] = "new" /\ req'[r] # "new" => r = q
  <1>1. ASSUME NEW p \in Proc, StartWithdraw(p)
        PROVE  \E q \in Req : req[q] # "done" /\ req' = [req EXCEPT ![q] = "asked"]
        BY <1>1 DEF StartWithdraw
  <1>2. ASSUME NEW p \in Proc, Save(p)
        PROVE  /\ req' = [r \in Req |-> IF r \in job[p].req THEN "done" ELSE req[r]]
               /\ \A r \in job[p].req : req[r] # "new"
        BY <1>2 DEF Save, RqInv, Serving
  <1>3. ASSUME NEW p \in Proc, StartInit(p) \/ InitAgain(p) \/ StartDeposit(p) \/ StageFrom(p)
               \/ StartImport(p) \/ Answer(p) \/ Fault(p)
        PROVE  req' = req
        BY <1>3 DEF StartInit, InitAgain, StartDeposit, StageFrom, StartImport, Answer, Fault, NodeAccepts,
               NodeEchoes, NodeFailsScript, NodeRejects, NodeCreatesNote, GivesUp, Crash
  <1>4. CASE ArrivesLate \/ Receive \/ SpendElsewhere \/ UNCHANGED vars
        BY <1>4 DEF ArrivesLate, Receive, SpendElsewhere, vars
  <1>5. CASE \E p \in Proc : StartWithdraw(p)
        BY <1>1, <1>5 DEF IInv, TypeOK
  <1>6. CASE \E p \in Proc : Save(p)
        BY <1>2, <1>6 DEF IInv, TypeOK
  <1>7. CASE req' = req
        BY <1>7
  <1> QED BY <1>3, <1>4, <1>5, <1>6, <1>7 DEF Next, Command, Environment

(* The sets of requests grow, and stay finite *)
LEMMA RequestsGrow ==
  ASSUME IInv, RqInv, [Next]_vars, NEW r \in Req, NEW pay, pay = Want[r].pay
  PROVE  /\ IsFiniteSet(Asking(pay)')
         /\ Explicit(pay)' => Explicit(pay)
         /\ \A i : /\ AskedOf(i, pay) \subseteq AskedOf(i, pay)' /\ DoneOf(i, pay) \subseteq DoneOf(i, pay)'
                   /\ IsFiniteSet(AskedOf(i, pay)) /\ IsFiniteSet(AskedOf(i, pay)')
                   /\ IsFiniteSet(DoneOf(i, pay)) /\ IsFiniteSet(DoneOf(i, pay)')
  <1> DEFINE A == Asking(pay)
             B == Asking(pay)'
  <1>1. IsFiniteSet(A)
        BY DEF RqInv
  <1>2. \A q \in Req : /\ req[q] # "new" => req'[q] # "new"
                       /\ req[q] = "done" => req'[q] = "done"
        BY AskedGrows
  <1>3. PICK q : \A x \in Req : req[x] = "new" /\ req'[x] # "new" => x = q
        BY AskedGrows
  <1>4. A \subseteq B /\ B \subseteq A \cup {q}
        BY <1>2, <1>3 DEF Asking
  <1> HIDE DEF A, B
  <1>5. IsFiniteSet(B)
        BY <1>1, <1>4, FS_AddElement, FS_Subset
  <1>6. Explicit(pay)' => Explicit(pay)
        BY <1>4 DEF Explicit, A, B
  <1>7. ASSUME NEW i
        PROVE  /\ AskedOf(i, pay) \subseteq AskedOf(i, pay)' /\ DoneOf(i, pay) \subseteq DoneOf(i, pay)'
               /\ AskedOf(i, pay) \subseteq A /\ AskedOf(i, pay)' \subseteq B
               /\ DoneOf(i, pay) \subseteq A /\ DoneOf(i, pay)' \subseteq B
        BY <1>2 DEF AskedOf, DoneOf, A, B, Asking
  <1>8. \A i : /\ IsFiniteSet(AskedOf(i, pay)) /\ IsFiniteSet(AskedOf(i, pay)')
               /\ IsFiniteSet(DoneOf(i, pay)) /\ IsFiniteSet(DoneOf(i, pay)')
        BY <1>1, <1>5, <1>7, FS_Subset
  <1> QED BY <1>5, <1>6, <1>7, <1>8 DEF B

(* Whose transaction the chain grows by *)
LEMMA GrowsBy ==
  ASSUME IInv, LInv, JInv, RqInv, [Next]_vars, chain' # chain
  PROVE  \E t : /\ MadeFrom(chain, t) /\ Acceptable(t) /\ chain' = Append(chain, t) /\ t \in Tx
                /\ \A r \in Req : Explicit(Want[r].pay) => Allowed(chain, t, Want[r].pay)
  <1>1. ASSUME NEW p \in Proc, NodeAccepts(p)
        PROVE  \E t : /\ MadeFrom(chain, t) /\ Acceptable(t) /\ chain' = Append(chain, t)
                      /\ \A r \in Req : Explicit(Want[r].pay) => Allowed(chain, t, Want[r].pay)
    <2>1. /\ Acceptable(Head(job[p].txs)) /\ chain' = Append(chain, Head(job[p].txs)) /\ pc[p] = "send"
          /\ job[p].txs # <<>> /\ job[p].txs \in Seq(Tx)
          BY <1>1 DEF NodeAccepts, Sending, IInv, TypeOK, Job
    <2>2. 1 \in DOMAIN job[p].txs /\ Head(job[p].txs) = job[p].txs[1]
          BY <2>1
    <2>3. MadeFrom(chain, job[p].txs[1])
          BY <2>2 DEF LInv, Pending
    <2> QED BY <2>1, <2>2, <2>3, JobAllowed
  <1>2. CASE ArrivesLate
    <2>1. PICK t \in wire : Acceptable(t) /\ chain' = Append(chain, t)
          BY <1>2 DEF ArrivesLate
    <2>2. MadeFrom(chain, t) /\ \A r \in Req : Explicit(Want[r].pay) => Allowed(chain, t, Want[r].pay)
          BY DEF LInv, Pending, RqInv, PaidFor
    <2>3. t \in Tx
          BY <2>1, <2>2, AcceptedTx DEF LInv
    <2> QED BY <2>1, <2>2, <2>3
  <1>3. ASSUME NEW p \in Proc, Command(p) \/ Save(p) \/ Fault(p) \/ NodeEchoes(p)
               \/ NodeFailsScript(p) \/ NodeRejects(p) \/ NodeCreatesNote(p)
        PROVE  chain' = chain
        BY <1>3 DEF Command, StartInit, InitAgain, StartDeposit, StageFrom, StartImport, StartWithdraw,
               Save, Fault, GivesUp, Crash, NodeEchoes, NodeFailsScript, NodeRejects, NodeCreatesNote
  <1>4. ~(Receive \/ SpendElsewhere \/ UNCHANGED vars)
        BY DEF Receive, SpendElsewhere, vars
  <1>5. \A t : MadeFrom(chain, t) /\ Acceptable(t) => t \in Tx
        BY AcceptedTx DEF LInv
  <1> QED BY <1>1, <1>2, <1>3, <1>4, <1>5 DEF Next, Answer, Environment

LEMMA Fewer ==
  ASSUME NEW S, NEW T, IsFiniteSet(T), S \subseteq T
  PROVE  Cardinality(S) <= Cardinality(T) /\ Cardinality(S) \in Nat /\ Cardinality(T) \in Nat /\ IsFiniteSet(S)
  BY FS_Subset, FS_CardinalityType

(* What every step keeps: the chain's lines within what was asked, what is *)
(* on the wire allowed, and what the copies have passed                    *)
LEMMA LinesKept ==
  ASSUME IInv, LInv, JInv, RqInv, [Next]_vars, NEW r \in Req, NEW pay, pay = Want[r].pay, Explicit(pay)
  PROVE  /\ Linked(chain') /\ Opened(chain') /\ chain' \in Seq(Tx)
         /\ \A t \in Tx : t.ins \subseteq Made(chain) /\ Allowed(chain, t, pay) => Allowed(chain, t, pay)'
         /\ \A s : \A i \in Shard : Good(chain, s) => Passed(chain', s, i, pay) = Passed(chain, s, i, pay)
         /\ \A s : Good(chain, s) => Good(chain', s)
         /\ \A f \in Funding, i \in Shard :
              Cardinality(Line(chain', f, i, pay, Len(chain'))) <= Cardinality(AskedOf(i, pay)')
  <1> DEFINE c == chain'
             A(i) == AskedOf(i, pay)
             B(i) == {q \in Req : req'[q] # "new" /\ Want[q].pay = pay /\ Want[q].shard = i}
  <1>1. \A i : /\ Cardinality(A(i)) <= Cardinality(B(i)) /\ Cardinality(A(i)) \in Nat /\ Cardinality(B(i)) \in Nat
               /\ B(i) = AskedOf(i, pay)'
    <2> SUFFICES ASSUME NEW i PROVE /\ Cardinality(A(i)) <= Cardinality(B(i)) /\ Cardinality(A(i)) \in Nat
                                    /\ Cardinality(B(i)) \in Nat /\ B(i) = AskedOf(i, pay)'
        OBVIOUS
    <2>1. B(i) = AskedOf(i, pay)'
          BY DEF AskedOf
    <2>2. IsFiniteSet(B(i)) /\ A(i) \subseteq B(i)
          BY <2>1, RequestsGrow
    <2> HIDE DEF A, B
    <2> QED BY <2>1, <2>2, Fewer
  <1>2. /\ chain \in Seq(Tx) /\ Linked(chain) /\ Opened(chain) /\ Threads(chain)
        /\ \A f \in Funding, i \in Shard : Cardinality(Line(chain, f, i, pay, Len(chain))) <= Cardinality(A(i))
        BY DEF IInv, TypeOK, LInv, RqInv, PaidFor
  <1>3. ASSUME NEW t \in Tx,
               \A o \in t.ins : pay \in t.pays =>
                 LET x == CellAt(c, o).commit
                 IN  Cardinality(Line(c, x.cat, x.shard, pay, o.txid)) + 1 <= Cardinality(B(x.shard))
        PROVE  Allowed(chain, t, pay)'
        BY <1>3 DEF Allowed, AskedOf
  <1>4. CASE c = chain
    <2>1. \A f \in Funding, i \in Shard : /\ Cardinality(Line(chain, f, i, pay, Len(chain))) \in Nat
                                          /\ Cardinality(Line(chain, f, i, pay, Len(chain))) <= Cardinality(B(i))
      <3> SUFFICES ASSUME NEW f \in Funding, NEW i \in Shard
                   PROVE  /\ Cardinality(Line(chain, f, i, pay, Len(chain))) \in Nat
                          /\ Cardinality(Line(chain, f, i, pay, Len(chain))) <= Cardinality(B(i))
          OBVIOUS
      <3> HIDE DEF A, B
      <3> QED BY <1>1, <1>2, LineFinite
    <2>2. ASSUME NEW t \in Tx, t.ins \subseteq Made(chain), Allowed(chain, t, pay) PROVE Allowed(chain, t, pay)'
      <3> SUFFICES ASSUME NEW o \in t.ins, pay \in t.pays
                   PROVE  LET x == CellAt(c, o).commit
                          IN  Cardinality(Line(c, x.cat, x.shard, pay, o.txid)) + 1 <= Cardinality(B(x.shard))
          BY <1>3
      <3> DEFINE x == CellAt(chain, o).commit
      <3>1. Cardinality(Line(chain, x.cat, x.shard, pay, o.txid)) + 1 <= Cardinality(A(x.shard))
            BY <2>2 DEF Allowed
      <3>2. Cardinality(Line(chain, x.cat, x.shard, pay, o.txid)) \in Nat
            BY <1>2, LineFinite
      <3> HIDE DEF A, B, x
      <3>3. Cardinality(Line(chain, x.cat, x.shard, pay, o.txid)) + 1 <= Cardinality(B(x.shard))
            BY <1>1, <3>1, <3>2
      <3> QED BY <1>4, <3>3 DEF x
    <2> HIDE DEF A, B
    <2> QED BY <1>1, <1>2, <1>4, <2>1, <2>2
  <1>5. CASE c # chain
    <2>1. PICK t : /\ MadeFrom(chain, t) /\ Acceptable(t) /\ c = Append(chain, t) /\ t \in Tx
                   /\ Allowed(chain, t, pay)
          BY <1>5, GrowsBy
    <2>2. \/ \E f \in Funding : t = InitShardsTx(f) /\ f \notin PoolsIn(chain)
          \/ \E o \in Live(chain) : Spends(chain, t, o)
          BY <1>2, <2>1, AcceptedIs
    <2>3. t.ins = {} \/ \E o \in Live(chain) : Spends(chain, t, o)
          BY <2>2 DEF InitShardsTx
    <2> HIDE DEF c
    <2>4. Linked(c) /\ Opened(c) /\ c \in Seq(Tx) /\ Len(c) = Len(chain) + 1
          BY <1>2, <2>1, <2>2, <2>3, LinkedGrows, OpenedGrows, AppendKeeps
    <2>5. \A s : \A i \in Shard : Good(chain, s) => Passed(c, s, i, pay) = Passed(chain, s, i, pay)
          BY <1>2, <2>1, PassedStays
    <2>6. \A s : Good(chain, s) => Good(c, s)
          BY <1>2, <2>1, GoodStays
    <2>7. ASSUME NEW f \in Funding, NEW i \in Shard
          PROVE  Cardinality(Line(c, f, i, pay, Len(c))) <= Cardinality(B(i))
      <3> HIDE DEF B
      <3>1. Cardinality(Line(c, f, i, pay, Len(chain) + 1)) <= Cardinality(AskedOf(i, pay))
            BY <1>1, <1>2, <2>1, <2>2, AllowedGrows
      <3>2. Cardinality(Line(c, f, i, pay, Len(c))) \in Nat
            BY <2>4, LineFinite
      <3> DEFINE L == Cardinality(Line(c, f, i, pay, Len(c)))
      <3>3. L <= Cardinality(A(i)) /\ L \in Nat
            BY <2>4, <3>1, <3>2
      <3> HIDE DEF L, A
      <3>4. L <= Cardinality(B(i))
            BY <1>1, <3>3
      <3> QED BY <3>4 DEF L
    <2>8. ASSUME NEW u \in Tx, u.ins \subseteq Made(chain), Allowed(chain, u, pay) PROVE Allowed(chain, u, pay)'
      <3> SUFFICES ASSUME NEW o \in u.ins, pay \in u.pays
                   PROVE  LET x == CellAt(c, o).commit
                          IN  Cardinality(Line(c, x.cat, x.shard, pay, o.txid)) + 1 <= Cardinality(B(x.shard))
          BY <1>3
      <3> DEFINE x == CellAt(chain, o).commit
                 L == Cardinality(Line(chain, x.cat, x.shard, pay, o.txid))
      <3>1. L + 1 <= Cardinality(A(x.shard))
            BY <2>8 DEF Allowed
      <3>2. L \in Nat
            BY <1>2, LineFinite
      <3>3. o \in Made(chain) /\ o.txid \in DOMAIN chain
            BY <2>8 DEF Made, OutpointsOf
      <3>4. CellAt(c, o) = CellAt(chain, o)
            BY <1>2, <2>1, <3>3, MadeStays
      <3>5. Line(c, x.cat, x.shard, pay, o.txid) = Line(chain, x.cat, x.shard, pay, o.txid)
            BY <1>2, <2>1, <3>3, LineStays
      <3> HIDE DEF A, B, x
      <3>6. L + 1 <= Cardinality(B(x.shard))
        <4> HIDE DEF L
        <4> QED BY <1>1, <3>1, <3>2
      <3> QED BY <3>4, <3>5, <3>6 DEF x
    <2> HIDE DEF A, B
    <2> QED BY <1>1, <2>4, <2>5, <2>6, <2>7, <2>8 DEF c
  <1> QED BY <1>4, <1>5

LEMMA PassedFinite ==
  ASSUME NEW c \in Seq(Tx), NEW s, NEW i, NEW pay
  PROVE  IsFiniteSet(Passed(c, s, i, pay)) /\ Cardinality(Passed(c, s, i, pay)) \in Nat
  BY LineFinite, FS_EmptySet DEF Passed

LEMMA MineFinite ==
  ASSUME NEW j, NEW rq, Serving(rq, j), NEW i, NEW pay
  PROVE  /\ IsFiniteSet(MineOf(j, i, pay))
         /\ \A D : IsFiniteSet(D) => IsFiniteSet(D \cup MineOf(j, i, pay)) /\ IsFiniteSet(D \ j.req)
  <1>1. j.req = {} \/ \E x : j.req = {x}
        BY DEF Serving
  <1>2. MineOf(j, i, pay) = {} \/ \E x : MineOf(j, i, pay) = {x}
        BY <1>1 DEF MineOf
  <1> DEFINE M == MineOf(j, i, pay)
  <1>3. IsFiniteSet(M)
    <2> HIDE DEF M
    <2>1. M = {} \/ \E x : M = {x}
          BY <1>2 DEF M
    <2> QED BY <2>1, FS_EmptySet, FS_Singleton
  <1>4. \A D : IsFiniteSet(D) => IsFiniteSet(D \ j.req)
        BY FS_Subset
  <1> QED BY <1>3, <1>4, FS_Union

(* A copy that a step leaves alone stays within the requests done *)
LEMMA CopyKept ==
  ASSUME NEW c \in Seq(Tx), NEW d \in Seq(Tx), NEW s, NEW i, NEW pay, Passed(d, s, i, pay) = Passed(c, s, i, pay),
         NEW j, NEW rq, Serving(rq, j), NEW k, k.req = j.req, NEW D, NEW E, D \subseteq E, IsFiniteSet(E), NEW step,
         CopyPaid(c, step, s, j, i, pay, D)
  PROVE  CopyPaid(d, step, s, k, i, pay, E)
  <1> DEFINE n == Cardinality(Passed(c, s, i, pay))
             M == MineOf(j, i, pay)
  <1>1. MineOf(k, i, pay) = M /\ n \in Nat /\ Cardinality(Passed(d, s, i, pay)) = n
        BY PassedFinite DEF MineOf
  <1>2. IsFiniteSet(E \ j.req) /\ IsFiniteSet(E \cup M) /\ D \ j.req \subseteq E \ j.req /\ D \cup M \subseteq E \cup M
        BY MineFinite
  <1> HIDE DEF n, M
  <1>3. /\ Cardinality(D \ j.req) <= Cardinality(E \ j.req) /\ Cardinality(D \ j.req) \in Nat
        /\ Cardinality(E \ j.req) \in Nat
        BY <1>2, Fewer
  <1>4. /\ Cardinality(D \cup M) <= Cardinality(E \cup M) /\ Cardinality(D \cup M) \in Nat
        /\ Cardinality(E \cup M) \in Nat
        BY <1>2, Fewer
  <1>5. CASE step = "send"
    <2>1. n <= Cardinality(D \ j.req)
          BY <1>5 DEF CopyPaid, n
    <2>2. n <= Cardinality(E \ j.req)
          BY <1>1, <1>3, <2>1
    <2> QED BY <1>1, <1>5, <2>2 DEF CopyPaid
  <1>6. CASE step = "save"
    <2>1. n <= Cardinality(D \cup M)
          BY <1>6 DEF CopyPaid, n, M
    <2>2. n <= Cardinality(E \cup M)
          BY <1>1, <1>4, <2>1
    <2> QED BY <1>1, <1>6, <2>2 DEF CopyPaid
  <1>7. CASE step # "send" /\ step # "save"
        BY <1>7 DEF CopyPaid
  <1> QED BY <1>5, <1>6, <1>7

(* It is enough to look at what a step changes: the wire, the saved state  *)
(* and the copy of the process that moves                                  *)
LEMMA PaidForKept ==
  ASSUME IInv, LInv, JInv, RqInv, [Next]_vars, NEW r \in Req, NEW pay, pay = Want[r].pay, Explicit(pay),
         \A t \in wire' : t \in wire \/ (t \in Tx /\ t.ins \subseteq Made(chain) /\ Allowed(chain, t, pay)),
         \A i \in Shard : \/ file' = file
                          \/ Cardinality(Passed(chain', file', i, pay)) <= Cardinality(DoneOf(i, pay)'),
         \A p \in Proc, i \in Shard :
           \/ pc'[p] = pc[p] /\ mem'[p] = mem[p] /\ job'[p].req = job[p].req
           \/ CopyPaid(chain', pc'[p], mem'[p], job'[p], i, pay, DoneOf(i, pay)')
  PROVE  PaidFor(pay)'
  <1>1. PaidFor(pay)
        BY DEF RqInv
  <1>2. \A t \in wire' : Allowed(chain, t, pay)'
    <2>1. \A t \in wire : t \in Tx /\ t.ins \subseteq Made(chain) /\ Allowed(chain, t, pay)
          BY <1>1, MadeFromIns DEF IInv, TypeOK, LInv, Pending, PaidFor
    <2> QED BY <2>1, LinesKept
  <1>3. /\ chain \in Seq(Tx) /\ chain' \in Seq(Tx) /\ Good(chain, file)
        /\ \A p \in Proc : Good(chain, mem[p]) /\ Serving(req, job[p])
        BY LinesKept DEF IInv, TypeOK, RqInv
  <1>4. \A s : \A i \in Shard : Good(chain, s) => Passed(chain', s, i, pay) = Passed(chain, s, i, pay)
        BY LinesKept
  <1>5. ASSUME NEW i \in Shard
        PROVE  Cardinality(Passed(chain', file', i, pay)) <= Cardinality(DoneOf(i, pay)')
    <2>1. CASE file' = file
      <3> DEFINE n == Cardinality(Passed(chain, file, i, pay))
                 D == DoneOf(i, pay)
                 E == DoneOf(i, pay)'
      <3>1. n <= Cardinality(D) /\ n \in Nat
            BY <1>1, <1>3, PassedFinite DEF PaidFor
      <3>2. D \subseteq E /\ IsFiniteSet(E)
            BY RequestsGrow
      <3>3. Cardinality(Passed(chain', file', i, pay)) = n
        <4>1. Passed(chain', file, i, pay) = Passed(chain, file, i, pay)
              BY <1>3, <1>4
        <4> QED BY <2>1, <4>1
      <3> HIDE DEF n, D, E
      <3>4. Cardinality(D) <= Cardinality(E) /\ Cardinality(D) \in Nat /\ Cardinality(E) \in Nat
            BY <3>2, Fewer
      <3>5. n <= Cardinality(E)
            BY <3>1, <3>4
      <3> QED BY <3>3, <3>5 DEF E
    <2> QED BY <2>1
  <1>6. ASSUME NEW i \in Shard, NEW p \in Proc
        PROVE  CopyPaid(chain', pc'[p], mem'[p], job'[p], i, pay, DoneOf(i, pay)')
    <2>1. CASE pc'[p] = pc[p] /\ mem'[p] = mem[p] /\ job'[p].req = job[p].req
      <3> DEFINE c == chain
                 d == chain'
                 s == mem[p]
                 step == pc[p]
                 j == job[p]
                 k == job'[p]
                 D == DoneOf(i, pay)
                 E == DoneOf(i, pay)'
      <3>1. /\ c \in Seq(Tx) /\ d \in Seq(Tx) /\ Serving(req, j) /\ k.req = j.req
            BY <1>3, <2>1
      <3>5. Passed(d, s, i, pay) = Passed(c, s, i, pay)
            BY <1>3, <1>4
      <3>2. CopyPaid(c, step, s, j, i, pay, D)
            BY <1>1 DEF PaidFor
      <3>3. D \subseteq E /\ IsFiniteSet(E)
            BY RequestsGrow
      <3> HIDE DEF c, d, s, step, j, k, D, E
      <3>4. CopyPaid(d, step, s, k, i, pay, E)
            BY <3>1, <3>2, <3>3, <3>5, CopyKept
      <3> QED BY <2>1, <3>4 DEF d, s, step, k, E
    <2> QED BY <2>1
  <1>7. \A i \in Shard, f \in Funding :
          Cardinality(Line(chain', f, i, pay, Len(chain'))) <= Cardinality(AskedOf(i, pay)')
        BY LinesKept
  <1> QED BY <1>2, <1>5, <1>6, <1>7 DEF PaidFor

LEMMA ServingStays ==
  ASSUME IInv, RqInv, [Next]_vars, NEW j, Serving(req, j)
  PROVE  Serving(req', j)
  <1>1. \A q \in Req : req[q] # "new" => req'[q] # "new"
        BY AskedGrows
  <1> QED BY <1>1 DEF Serving

LEMMA LinkKept ==
  ASSUME IInv, LInv, RqInv, [Next]_vars
  PROVE  Linked(chain') /\ Opened(chain') /\ chain' \in Seq(Tx) /\ \A s : Good(chain, s) => Good(chain', s)
  <1> DEFINE c == chain'
  <1>1. chain \in Seq(Tx) /\ Threads(chain) /\ Linked(chain) /\ Opened(chain)
        BY DEF IInv, TypeOK, LInv, RqInv
  <1>2. CASE c = chain
        BY <1>1, <1>2
  <1>3. CASE \E t : MadeFrom(chain, t) /\ Acceptable(t) /\ c = Append(chain, t)
    <2>1. PICK t : MadeFrom(chain, t) /\ Acceptable(t) /\ c = Append(chain, t)
          BY <1>3
    <2>2. t \in Tx
          BY <1>1, <2>1, AcceptedTx
    <2>3. \/ \E f \in Funding : t = InitShardsTx(f) /\ f \notin PoolsIn(chain)
          \/ \E o \in Live(chain) : Spends(chain, t, o)
          BY <1>1, <2>1, AcceptedIs
    <2>4. t.ins = {} \/ \E o \in Live(chain) : Spends(chain, t, o)
          BY <2>3 DEF InitShardsTx
    <2> HIDE DEF c
    <2>5. Linked(c) /\ Opened(c) /\ c \in Seq(Tx)
          BY <1>1, <2>1, <2>2, <2>3, <2>4, LinkedGrows, OpenedGrows, AppendKeeps
    <2>6. \A s : Good(chain, s) => Good(c, s)
          BY <1>1, <2>1, <2>2, GoodStays
    <2> QED BY <2>5, <2>6 DEF c
  <1> QED BY <1>2, <1>3, ChainGrows

(* RqInv from what the step changes *)
LEMMA RqInvKept ==
  ASSUME IInv, LInv, JInv, RqInv, [Next]_vars, \A q \in Proc : Serving(req', job'[q]),
         \A r \in Req : Explicit(Want[r].pay) =>
           LET pay == Want[r].pay IN
           /\ \A t \in wire' : t \in wire \/ (t \in Tx /\ t.ins \subseteq Made(chain) /\ Allowed(chain, t, pay))
           /\ \A i \in Shard : \/ file' = file
                               \/ Cardinality(Passed(chain', file', i, pay)) <= Cardinality(DoneOf(i, pay)')
           /\ \A p \in Proc, i \in Shard :
                \/ pc'[p] = pc[p] /\ mem'[p] = mem[p] /\ job'[p].req = job[p].req
                \/ CopyPaid(chain', pc'[p], mem'[p], job'[p], i, pay, DoneOf(i, pay)')
  PROVE  RqInv'
  <1>1. ASSUME NEW r \in Req
        PROVE  /\ IsFiniteSet(Asking(Want[r].pay)')
               /\ Explicit(Want[r].pay)' => PaidFor(Want[r].pay)'
    <2> DEFINE pay == Want[r].pay
    <2>1. IsFiniteSet(Asking(pay)') /\ (Explicit(pay)' => Explicit(pay))
          BY RequestsGrow
    <2>2. ASSUME Explicit(pay)' PROVE PaidFor(pay)'
      <3>1. Explicit(pay)
            BY <2>1, <2>2
      <3> QED BY <3>1, PaidForKept
    <2> QED BY <2>1, <2>2
  <1> QED BY <1>1, LinkKept DEF RqInv

LEMMA SamePassed ==
  ASSUME NEW s, NEW r, r.cat = s.cat, r.shards = s.shards, NEW c, NEW i, NEW pay
  PROVE  Passed(c, r, i, pay) = Passed(c, s, i, pay)
  BY DEF Passed, Initialized

(* A command starts from the saved state *)
LEMMA BeginRqInv ==
  ASSUME IInv, LInv, JInv, RqInv, [Next]_vars, NEW p \in Proc, NEW j, NEW step, NEW copy,
         Begin(p, j, step, copy), Serving(req', j), \A x \in j.req : req[x] # "done",
         UNCHANGED <<chain, wire, file>>, copy.cat = file.cat, copy.shards = file.shards
  PROVE  RqInv'
  <1>1. /\ pc'[p] = step /\ mem'[p] = copy /\ job'[p] = j
        /\ \A q \in Proc : q # p => pc'[q] = pc[q] /\ mem'[q] = mem[q] /\ job'[q] = job[q]
        BY DEF Begin, IInv, TypeOK
  <1>2. \A q \in Proc : Serving(req', job'[q])
        BY <1>1, ServingStays DEF RqInv
  <1>3. ASSUME NEW r \in Req, Explicit(Want[r].pay), NEW i \in Shard
        PROVE  CopyPaid(chain', step, copy, j, i, Want[r].pay, DoneOf(i, Want[r].pay)')
    <2> DEFINE pay == Want[r].pay
               D == DoneOf(i, pay)
               E == DoneOf(i, pay)'
               M == MineOf(j, i, pay)
               n == Cardinality(Passed(chain, file, i, pay))
    <2>1. n <= Cardinality(D) /\ n \in Nat
          BY <1>3, PassedFinite DEF RqInv, PaidFor, IInv, TypeOK
    <2>2. D \subseteq E /\ IsFiniteSet(E)
          BY RequestsGrow
    <2>3. D \subseteq E \ j.req
          BY <2>2 DEF DoneOf
    <2>4. IsFiniteSet(E \ j.req) /\ IsFiniteSet(E \cup M)
          BY <2>2, MineFinite
    <2>5. Passed(chain', copy, i, pay) = Passed(chain, file, i, pay)
          BY SamePassed
    <2> HIDE DEF D, E, M, n, pay
    <2>6. n <= Cardinality(E \ j.req)
      <3>1. /\ Cardinality(D) <= Cardinality(E \ j.req)
            /\ Cardinality(D) \in Nat /\ Cardinality(E \ j.req) \in Nat
            BY <2>3, <2>4, Fewer
      <3> QED BY <2>1, <3>1
    <2>7. n <= Cardinality(E \cup M)
      <3>1. /\ Cardinality(D) <= Cardinality(E \cup M)
            /\ Cardinality(D) \in Nat /\ Cardinality(E \cup M) \in Nat
            BY <2>2, <2>4, Fewer
      <3> QED BY <2>1, <3>1
    <2> QED BY <2>5, <2>6, <2>7 DEF CopyPaid, n, pay, M, E
  <1>4. ASSUME NEW r \in Req, Explicit(Want[r].pay)
        PROVE  LET pay == Want[r].pay IN
               \A q \in Proc, i \in Shard :
                 \/ pc'[q] = pc[q] /\ mem'[q] = mem[q] /\ job'[q].req = job[q].req
                 \/ CopyPaid(chain', pc'[q], mem'[q], job'[q], i, pay, DoneOf(i, pay)')
    <2> SUFFICES ASSUME NEW q \in Proc, NEW i \in Shard
                 PROVE  \/ pc'[q] = pc[q] /\ mem'[q] = mem[q] /\ job'[q].req = job[q].req
                        \/ CopyPaid(chain', pc'[q], mem'[q], job'[q], i, Want[r].pay, DoneOf(i, Want[r].pay)')
        OBVIOUS
    <2>1. CASE q = p
          BY <1>1, <1>3, <1>4, <2>1
    <2>2. CASE q # p
          BY <1>1, <2>2
    <2> QED BY <2>1, <2>2
  <1>5. wire' = wire /\ file' = file
        OBVIOUS
  <1> QED BY <1>2, <1>4, <1>5, RqInvKept

LEMMA CommandRqInv ==
  ASSUME IInv, LInv, JInv, RqInv, [Next]_vars, NEW p \in Proc, Command(p)
  PROVE  RqInv'
  <1>1. UNCHANGED <<chain, wire, file>>
        BY DEF Command, StartInit, InitAgain, StartDeposit, StageFrom, StartImport, StartWithdraw
  <1>2. CASE StartWithdraw(p)
    <2>1. PICK r \in Req, i \in Shard :
            /\ req[r] # "done" /\ req' = [req EXCEPT ![r] = "asked"]
            /\ IF Want[r].shard = AutoShard THEN Picks(file.shards, Want[r].pay.sats + (IF Want[r].external THEN 0 ELSE Fee), i)
                                            ELSE i = Want[r].shard
            /\ \E fund \in FeeInputs(Want[r].external) :
                 Begin(p, [op |-> "withdraw", shard |-> i, note |-> {}, req |-> {r},
                           txs |-> <<WithdrawTx(file.cat, file.shards[i],
                                                PrevoutOf(file.shards[i]), Want[r].pay, fund,
                                                WithdrawMode(ForcedMode))>>], "send", file)
          BY <1>2 DEF StartWithdraw
    <2>2. PICK fund : Begin(p, [op |-> "withdraw", shard |-> i, note |-> {}, req |-> {r},
                                txs |-> <<WithdrawTx(file.cat, file.shards[i],
                                                     PrevoutOf(file.shards[i]), Want[r].pay, fund,
                                                     WithdrawMode(ForcedMode))>>], "send", file)
          BY <2>1
    <2> DEFINE t == WithdrawTx(file.cat, file.shards[i], PrevoutOf(file.shards[i]), Want[r].pay, fund,
                               WithdrawMode(ForcedMode))
               j == [op |-> "withdraw", shard |-> i, note |-> {}, req |-> {r}, txs |-> <<t>>]
    <2>3. t.pays = {Want[r].pay} /\ Begin(p, j, "send", file)
          BY <2>2 DEF WithdrawTx
    <2>4. req'[r] # "new"
          BY <2>1 DEF IInv, TypeOK
    <2>5. Want[r].shard = AutoShard \/ i = Want[r].shard
          BY <2>1
    <2> HIDE DEF t
    <2>6. Serving(req', j)
          BY <2>3, <2>4, <2>5 DEF Serving
    <2>7. \A x \in j.req : req[x] # "done"
          BY <2>1
    <2> HIDE DEF j
    <2> QED BY <1>1, <2>3, <2>6, <2>7, BeginRqInv
  <1>3. ASSUME NEW j, NEW step, NEW copy, Begin(p, j, step, copy), j.req = {}, \A k \in DOMAIN j.txs : j.txs[k].pays = {},
               copy.cat = file.cat, copy.shards = file.shards
        PROVE  RqInv'
    <2>1. Serving(req', j) /\ \A x \in j.req : req[x] # "done"
          BY <1>3 DEF Serving
    <2> QED BY <1>1, <1>3, <2>1, BeginRqInv
  <1>4. CASE StartInit(p)
    <2>1. PICK f : Begin(p, [NoJob EXCEPT !.op = "init", !.txs = <<InitShardsTx(f)>>], "send", file)
          BY <1>4 DEF StartInit
    <2> DEFINE j == [NoJob EXCEPT !.op = "init", !.txs = <<InitShardsTx(f)>>]
    <2>2. j.req = {} /\ Begin(p, j, "send", file) /\ j.txs = <<InitShardsTx(f)>> /\ InitShardsTx(f).pays = {}
          BY <2>1 DEF NoJob, InitShardsTx
    <2> HIDE DEF j
    <2>3. \A k \in DOMAIN j.txs : j.txs[k].pays = {}
          BY <2>2
    <2> QED BY <1>3, <2>2, <2>3
  <1>5. CASE StartDeposit(p)
    <2>1. PICK n : Begin(p, [NoJob EXCEPT !.op = "deposit", !.note = {n}], "send", file)
          BY <1>5 DEF StartDeposit
    <2> DEFINE j == [NoJob EXCEPT !.op = "deposit", !.note = {n}]
    <2>2. j.req = {} /\ Begin(p, j, "send", file) /\ j.txs = <<>>
          BY <2>1 DEF NoJob
    <2> HIDE DEF j
    <2> QED BY <1>3, <2>2
  <1>6. CASE StartImport(p)
    <2>1. PICK n, i : Begin(p, [op |-> "import", shard |-> i, note |-> {n}, req |-> {},
                                txs |-> ImportTries(file, i, n)], "send", file)
          BY <1>6 DEF StartImport
    <2> DEFINE j == [op |-> "import", shard |-> i, note |-> {n}, req |-> {}, txs |-> ImportTries(file, i, n)]
    <2>2. j.req = {} /\ Begin(p, j, "send", file) /\ j.txs = ImportTries(file, i, n)
          BY <2>1
    <2>3. \A k \in DOMAIN ImportTries(file, i, n) : ImportTries(file, i, n)[k].pays = {}
          BY DEF ImportTries, ImportTx
    <2> HIDE DEF j
    <2> QED BY <1>3, <2>2, <2>3
  <1>7. CASE InitAgain(p)
    <2> DEFINE j == [NoJob EXCEPT !.op = "touch"]
    <2>1. j.req = {} /\ Begin(p, j, "save", file) /\ j.txs = <<>>
          BY <1>7 DEF NoJob, InitAgain
    <2> HIDE DEF j
    <2> QED BY <1>3, <2>1
  <1>8. CASE StageFrom(p)
    <2>1. PICK n : Begin(p, [NoJob EXCEPT !.op = "stage", !.note = {n}], "save", Stage(file, n))
          BY <1>8 DEF StageFrom
    <2> DEFINE j == [NoJob EXCEPT !.op = "stage", !.note = {n}]
    <2>2. j.req = {} /\ Begin(p, j, "save", Stage(file, n)) /\ j.txs = <<>>
          BY <2>1 DEF NoJob
    <2>3. Stage(file, n).cat = file.cat /\ Stage(file, n).shards = file.shards
          BY StagePointers DEF IInv, TypeOK
    <2> HIDE DEF j
    <2> QED BY <1>3, <2>2, <2>3
  <1> QED BY <1>2, <1>4, <1>5, <1>6, <1>7, <1>8 DEF Command

(* The node's answer: the copy moves on by what was paid, and the request  *)
(* it serves is not among those done                                       *)
LEMMA GetsTxidRqInv ==
  ASSUME IInv, LInv, JInv, RqInv, [Next]_vars, NEW p \in Proc, Sending(p), NEW k, k \in DOMAIN chain',
         chain'[k] = Head(job[p].txs), GetsTxid(p, k), UNCHANGED <<wire, file, job, req>>,
         JobGood(chain', mem[p], job[p])
  PROVE  RqInv'
  <1> DEFINE c == chain'
             j == job[p]
             s == mem[p]
             t == Head(j.txs)
             r == Record(s, j, t, k)
  <1>1. /\ pc[p] = "send" /\ j \in Job /\ j.txs \in Seq(Tx) /\ j.txs # <<>> /\ Good(chain, s)
        /\ BuiltFrom(s, j) /\ Serving(req, j)
        BY DEF Sending, IInv, TypeOK, Job, RqInv
  <1>2. 1 \in DOMAIN j.txs /\ t = j.txs[1]
        BY <1>1
  <1>3. /\ pc'[p] = "save" /\ mem'[p] = r /\ job'[p] = j
        /\ \A q \in Proc : q # p => pc'[q] = pc[q] /\ mem'[q] = mem[q] /\ job'[q] = job[q]
        BY DEF GetsTxid, IInv, TypeOK
  <1>4. Linked(c) /\ Opened(c) /\ c \in Seq(Tx) /\ Good(c, s)
        BY <1>1, LinkKept
  <1>5. ASSUME NEW q \in Req, Explicit(Want[q].pay), NEW i \in Shard
        PROVE  CopyPaid(c, "save", r, j, i, Want[q].pay, DoneOf(i, Want[q].pay)')
    <2> DEFINE pay == Want[q].pay
               D == DoneOf(i, pay)
               E == DoneOf(i, pay)'
               M == MineOf(j, i, pay)
               P == Passed(c, s, i, pay)
               R == Passed(c, r, i, pay)
    <2>1. Cardinality(P) <= Cardinality(D \ j.req)
      <3>1. P = Passed(chain, s, i, pay)
            BY <1>1, <1>5, LinesKept
      <3>2. PaidFor(pay)
            BY <1>5 DEF RqInv
      <3> QED BY <1>1, <3>1, <3>2 DEF PaidFor, CopyPaid
    <2>2. E = D /\ IsFiniteSet(D)
      <3>1. E = D
            BY DEF DoneOf
      <3>2. IsFiniteSet(D)
            BY RequestsGrow
      <3> QED BY <3>1, <3>2
    <2>3. IsFiniteSet(D \ j.req) /\ IsFiniteSet(D \cup M)
          BY <1>1, <2>2, MineFinite
    <2>4. IsFiniteSet(P) /\ IsFiniteSet(R)
          BY <1>4, PassedFinite
    <2>5. \/ R \subseteq P
          \/ i = j.shard /\ pay \in t.pays /\ R \subseteq P \cup {k}
      <3> HIDE DEF c, j, s, t, pay
      <3>1. k \in DOMAIN c /\ c[k] = t /\ JobGood(c, s, j)
            BY DEF c, j, s, t
      <3> QED BY <1>1, <1>2, <1>4, <3>1, PassedRecord
    <2>6. CASE R \subseteq P
      <3> HIDE DEF D, E, M, P, R
      <3>1. D \ j.req \subseteq D \cup M
            OBVIOUS
      <3>2. /\ Cardinality(R) <= Cardinality(P) /\ Cardinality(D \ j.req) <= Cardinality(D \cup M)
            /\ Cardinality(R) \in Nat /\ Cardinality(P) \in Nat
            /\ Cardinality(D \ j.req) \in Nat /\ Cardinality(D \cup M) \in Nat
            BY <2>3, <2>4, <2>6, <3>1, Fewer
      <3>3. Cardinality(R) <= Cardinality(D \cup M)
            BY <2>1, <3>2
      <3> QED BY <2>2, <3>3 DEF CopyPaid, R, M, E
    <2>7. CASE i = j.shard /\ pay \in t.pays /\ R \subseteq P \cup {k}
      <3>1. PICK x \in Req : j.req = {x} /\ x \in M
        <4>1. PICK x \in Req : /\ j.req = {x} /\ req[x] # "new" /\ t.pays = {Want[x].pay}
                               /\ Want[x].shard = AutoShard \/ j.shard = Want[x].shard
              BY <1>1, <1>2, <2>7 DEF Serving
        <4>2. Want[x].pay = pay /\ x \in Asking(pay)
              BY <2>7, <4>1 DEF Asking
        <4>3. Want[x].shard = i
              BY <1>5, <2>7, <4>1, <4>2 DEF Explicit
        <4> QED BY <4>1, <4>2, <4>3 DEF MineOf
      <3> HIDE DEF D, E, M, P, R
      <3> DEFINE F == D \ {x}
      <3>2. F \cup {x} \subseteq D \cup M /\ x \notin F /\ IsFiniteSet(F) /\ Cardinality(P) <= Cardinality(F)
            BY <2>1, <2>3, <3>1
      <3> HIDE DEF F
      <3>3. /\ Cardinality(F \cup {x}) = Cardinality(F) + 1
            /\ Cardinality(F \cup {x}) <= Cardinality(D \cup M)
            /\ Cardinality(F) \in Nat /\ Cardinality(D \cup M) \in Nat
        <4>1. IsFiniteSet(F \cup {x}) /\ Cardinality(F \cup {x}) = Cardinality(F) + 1
              BY <3>2, FS_AddElement
        <4> QED BY <2>3, <3>2, <4>1, Fewer
      <3>4. Cardinality(R) <= Cardinality(P) + 1 /\ Cardinality(R) \in Nat /\ Cardinality(P) \in Nat
        <4>1. /\ IsFiniteSet(P \cup {k})
              /\ Cardinality(P \cup {k}) = IF k \in P THEN Cardinality(P) ELSE Cardinality(P) + 1
              BY <2>4, FS_AddElement
        <4>2. Cardinality(R) <= Cardinality(P \cup {k}) /\ Cardinality(R) \in Nat /\ Cardinality(P) \in Nat
              BY <2>4, <2>7, <4>1, Fewer
        <4> QED BY <4>1, <4>2
      <3>5. Cardinality(R) <= Cardinality(D \cup M)
            BY <3>2, <3>3, <3>4
      <3> QED BY <2>2, <3>5 DEF CopyPaid, R, M, E
    <2> QED BY <2>5, <2>6, <2>7
  <1>6. \A q \in Proc : Serving(req', job'[q])
        BY DEF RqInv
  <1>7. ASSUME NEW q \in Req, Explicit(Want[q].pay)
        PROVE  LET pay == Want[q].pay IN
               \A x \in Proc, i \in Shard :
                 \/ pc'[x] = pc[x] /\ mem'[x] = mem[x] /\ job'[x].req = job[x].req
                 \/ CopyPaid(chain', pc'[x], mem'[x], job'[x], i, pay, DoneOf(i, pay)')
    <2> SUFFICES ASSUME NEW x \in Proc, NEW i \in Shard
                 PROVE  \/ pc'[x] = pc[x] /\ mem'[x] = mem[x] /\ job'[x].req = job[x].req
                        \/ CopyPaid(chain', pc'[x], mem'[x], job'[x], i, Want[q].pay, DoneOf(i, Want[q].pay)')
        OBVIOUS
    <2> HIDE DEF j, r
    <2>1. CASE x = p
          BY <1>3, <1>5, <1>7, <2>1
    <2>2. CASE x # p
          BY <1>3, <2>2
    <2> QED BY <2>1, <2>2
  <1>8. wire' = wire /\ file' = file
        OBVIOUS
  <1> QED BY <1>6, <1>7, <1>8, RqInvKept

LEMMA NodeTxidRqInv ==
  ASSUME IInv, LInv, JInv, RqInv, [Next]_vars, NEW p \in Proc, NodeAccepts(p) \/ NodeEchoes(p)
  PROVE  RqInv'
  <1> DEFINE t == Head(job[p].txs)
  <1>1. Sending(p) /\ UNCHANGED <<wire, file, job, req>>
        BY DEF NodeAccepts, NodeEchoes
  <1>2. /\ job[p] \in Job /\ job[p].txs # <<>> /\ job[p].txs \in Seq(Tx) /\ chain \in Seq(Tx)
        /\ Good(chain, mem[p]) /\ BuiltFrom(mem[p], job[p]) /\ JobGood(chain, mem[p], job[p])
        BY <1>1 DEF Sending, IInv, TypeOK, Job, JInv
  <1>3. t \in Tx
        BY <1>2
  <1>4. CASE NodeAccepts(p)
    <2> DEFINE k == Len(chain) + 1
    <2>1. chain' = Append(chain, t) /\ GetsTxid(p, k)
          BY <1>4 DEF NodeAccepts
    <2> HIDE DEF t
    <2>2. k \in DOMAIN chain' /\ chain'[k] = t
          BY <1>2, <1>3, <2>1, AppendKeeps
    <2>3. JobGood(chain', mem[p], job[p])
          BY <1>2, <1>3, <2>1, JobGoodStays
    <2> HIDE DEF k
    <2> QED BY <1>1, <2>1, <2>2, <2>3, GetsTxidRqInv DEF t
  <1>5. CASE NodeEchoes(p)
    <2> DEFINE k == TxidOf(chain, t)
    <2>1. GetsTxid(p, k) /\ chain' = chain /\ \E l \in DOMAIN chain : chain[l] = t
          BY <1>5 DEF NodeEchoes, Known
    <2>2. k \in DOMAIN chain' /\ chain'[k] = t
          BY <2>1 DEF TxidOf
    <2> HIDE DEF t, k
    <2>3. JobGood(chain', mem[p], job[p])
          BY <1>2, <2>1
    <2> QED BY <1>1, <2>1, <2>2, <2>3, GetsTxidRqInv DEF t
  <1> QED BY <1>4, <1>5

(* A command that ends, with or without a save *)
LEMMA EndsRqInv ==
  ASSUME IInv, LInv, JInv, RqInv, [Next]_vars, NEW p \in Proc, Ends(p), UNCHANGED chain,
         \/ UNCHANGED <<file, req>>
         \/ /\ pc[p] = "save" /\ file' = mem[p]
            /\ req' = [r \in Req |-> IF r \in job[p].req THEN "done" ELSE req[r]],
         wire' = wire \/ (pc[p] = "send" /\ wire' = wire \cup {job[p].txs[k] : k \in DOMAIN job[p].txs \cap {1}})
  PROVE  RqInv'
  <1>1. /\ pc'[p] = "idle" /\ job'[p] = NoJob
        /\ \A q \in Proc : q # p => pc'[q] = pc[q] /\ mem'[q] = mem[q] /\ job'[q] = job[q]
        BY DEF Ends, IInv, TypeOK
  <1>2. \A q \in Proc : Serving(req', job'[q])
    <2>1. Serving(req', NoJob)
          BY DEF Serving, NoJob
    <2> QED BY <1>1, <2>1, ServingStays DEF RqInv
  <1>3. ASSUME NEW r \in Req, Explicit(Want[r].pay), NEW t \in wire', t \notin wire
        PROVE  t \in Tx /\ t.ins \subseteq Made(chain) /\ Allowed(chain, t, Want[r].pay)
    <2>1. pc[p] = "send" /\ 1 \in DOMAIN job[p].txs /\ t = job[p].txs[1]
          BY <1>3
    <2>2. t \in Tx
          BY <2>1 DEF IInv, TypeOK, Job
    <2>3. t.ins \subseteq Made(chain)
          BY <2>1, MadeFromIns DEF LInv, Pending
    <2> QED BY <1>3, <2>1, <2>2, <2>3, JobAllowed
  <1>4. ASSUME NEW r \in Req, Explicit(Want[r].pay), NEW i \in Shard, file' # file
        PROVE  Cardinality(Passed(chain', file', i, Want[r].pay)) <= Cardinality(DoneOf(i, Want[r].pay)')
    <2> DEFINE pay == Want[r].pay
               D == DoneOf(i, pay)
               E == DoneOf(i, pay)'
               M == MineOf(job[p], i, pay)
               n == Cardinality(Passed(chain, mem[p], i, pay))
    <2>1. /\ pc[p] = "save" /\ file' = mem[p]
          /\ req' = [x \in Req |-> IF x \in job[p].req THEN "done" ELSE req[x]]
          BY <1>4
    <2>2. n <= Cardinality(D \cup M)
      <3>1. PaidFor(pay)
            BY <1>4 DEF RqInv
      <3> QED BY <2>1, <3>1 DEF PaidFor, CopyPaid
    <2>3. D \cup M \subseteq E /\ IsFiniteSet(E)
      <3>1. job[p].req \subseteq Req
            BY DEF IInv, TypeOK, Job
      <3>2. M \subseteq E
            BY <2>1, <3>1 DEF MineOf, DoneOf
      <3> QED BY <3>2, RequestsGrow
    <2>4. n \in Nat
          BY PassedFinite DEF IInv, TypeOK
    <2> HIDE DEF n, D, E, M
    <2>5. /\ Cardinality(D \cup M) <= Cardinality(E)
          /\ Cardinality(D \cup M) \in Nat /\ Cardinality(E) \in Nat
          BY <2>3, Fewer
    <2>6. n <= Cardinality(E)
          BY <2>2, <2>4, <2>5
    <2> QED BY <2>1, <2>6 DEF n, E
  <1>5. ASSUME NEW r \in Req, Explicit(Want[r].pay)
        PROVE  LET pay == Want[r].pay IN
               \A x \in Proc, i \in Shard :
                 \/ pc'[x] = pc[x] /\ mem'[x] = mem[x] /\ job'[x].req = job[x].req
                 \/ CopyPaid(chain', pc'[x], mem'[x], job'[x], i, pay, DoneOf(i, pay)')
        BY <1>1 DEF CopyPaid
  <1> QED BY <1>2, <1>3, <1>4, <1>5, RqInvKept

LEMMA ServingRest ==
  ASSUME NEW rq, NEW j \in Job, Serving(rq, j), j.txs # <<>>
  PROVE  Serving(rq, [j EXCEPT !.txs = Tail(j.txs)])
  <1> DEFINE h == [j EXCEPT !.txs = Tail(j.txs)]
  <1>1. h.req = j.req /\ h.op = j.op /\ h.shard = j.shard /\ h.txs = Tail(j.txs) /\ j.txs \in Seq(Tx)
        BY DEF Job
  <1>2. ASSUME NEW k \in DOMAIN h.txs PROVE k + 1 \in DOMAIN j.txs /\ h.txs[k] = j.txs[k + 1]
        BY <1>1, <1>2
  <1> HIDE DEF h
  <1>3. Serving(rq, h)
        BY <1>1, <1>2 DEF Serving
  <1> QED BY <1>3 DEF h

LEMMA NextRqInv == IInv /\ LInv /\ JInv /\ RqInv /\ [Next]_vars => RqInv'
  <1> SUFFICES ASSUME IInv, LInv, JInv, RqInv, [Next]_vars PROVE RqInv'
      OBVIOUS
  <1>1. ASSUME NEW p \in Proc, NodeRejects(p) \/ Save(p) \/ Fault(p) PROVE RqInv'
    <2>1. Ends(p) /\ UNCHANGED chain
          BY <1>1 DEF NodeRejects, Save, Fault, GivesUp, Crash
    <2>2. \/ UNCHANGED <<file, req>>
          \/ /\ pc[p] = "save" /\ file' = mem[p]
             /\ req' = [r \in Req |-> IF r \in job[p].req THEN "done" ELSE req[r]]
          BY <1>1 DEF NodeRejects, Save, Fault, GivesUp, Crash
    <2>3. wire' = wire \/ (pc[p] = "send" /\ wire' = wire \cup {job[p].txs[k] : k \in DOMAIN job[p].txs \cap {1}})
          BY <1>1 DEF NodeRejects, Save, Fault, GivesUp, Crash
    <2> QED BY <2>1, <2>2, <2>3, EndsRqInv
  <1>2. ASSUME NEW p \in Proc, NodeFailsScript(p) PROVE RqInv'
    <2>1. /\ job' = [job EXCEPT ![p] = [job[p] EXCEPT !.txs = Tail(job[p].txs)]]
          /\ UNCHANGED <<chain, wire, file, mem, pc, req>> /\ job[p].txs # <<>>
          BY <1>2 DEF NodeFailsScript, Sending
    <2>2. /\ job'[p] = [job[p] EXCEPT !.txs = Tail(job[p].txs)] /\ job[p] \in Job /\ Serving(req, job[p])
          /\ \A q \in Proc : q # p => job'[q] = job[q]
          BY <2>1 DEF IInv, TypeOK, RqInv
    <2>3. Serving(req', job'[p]) /\ job'[p].req = job[p].req
          BY <2>1, <2>2, ServingRest DEF Job
    <2>4. \A q \in Proc : Serving(req', job'[q]) /\ job'[q].req = job[q].req
          BY <2>1, <2>2, <2>3 DEF RqInv
    <2> QED BY <2>1, <2>4, RqInvKept
  <1>3. ASSUME NEW p \in Proc, NodeCreatesNote(p) PROVE RqInv'
    <2>1. /\ pc[p] = "send" /\ pc'[p] = "save" /\ UNCHANGED <<chain, wire, file, job, req>>
          /\ \E n : mem'[p] = Stage(mem[p], n)
          /\ \A q \in Proc : q # p => pc'[q] = pc[q] /\ mem'[q] = mem[q]
          BY <1>3 DEF NodeCreatesNote, IInv, TypeOK
    <2>2. mem'[p].cat = mem[p].cat /\ mem'[p].shards = mem[p].shards
          BY <2>1, StagePointers DEF IInv, TypeOK
    <2>3. ASSUME NEW r \in Req, Explicit(Want[r].pay), NEW i \in Shard
          PROVE  CopyPaid(chain', pc'[p], mem'[p], job'[p], i, Want[r].pay, DoneOf(i, Want[r].pay)')
      <3> DEFINE pay == Want[r].pay
                 j == job[p]
                 D == DoneOf(i, pay)
                 M == MineOf(j, i, pay)
                 n == Cardinality(Passed(chain, mem[p], i, pay))
      <3>1. n <= Cardinality(D \ j.req) /\ n \in Nat
            BY <2>1, <2>3, PassedFinite DEF RqInv, PaidFor, CopyPaid, IInv, TypeOK
      <3>2. Passed(chain', mem'[p], i, pay) = Passed(chain, mem[p], i, pay)
            BY <2>1, <2>2, SamePassed
      <3>3. IsFiniteSet(D)
            BY RequestsGrow
      <3>4. IsFiniteSet(D \cup M)
            BY <3>3, MineFinite DEF RqInv
      <3>5. DoneOf(i, pay)' = D
            BY <2>1 DEF DoneOf
      <3> HIDE DEF D, M, n
      <3>6. /\ Cardinality(D \ j.req) <= Cardinality(D \cup M)
            /\ Cardinality(D \ j.req) \in Nat /\ Cardinality(D \cup M) \in Nat
            BY <3>4, Fewer
      <3>7. n <= Cardinality(D \cup M)
            BY <3>1, <3>6
      <3> QED BY <2>1, <3>2, <3>5, <3>7 DEF CopyPaid, n, M
    <2>4. ASSUME NEW r \in Req, Explicit(Want[r].pay)
          PROVE  LET pay == Want[r].pay IN
                 \A q \in Proc, i \in Shard :
                   \/ pc'[q] = pc[q] /\ mem'[q] = mem[q] /\ job'[q].req = job[q].req
                   \/ CopyPaid(chain', pc'[q], mem'[q], job'[q], i, pay, DoneOf(i, pay)')
      <3> SUFFICES ASSUME NEW q \in Proc, NEW i \in Shard
                   PROVE  \/ pc'[q] = pc[q] /\ mem'[q] = mem[q] /\ job'[q].req = job[q].req
                          \/ CopyPaid(chain', pc'[q], mem'[q], job'[q], i, Want[r].pay, DoneOf(i, Want[r].pay)')
          OBVIOUS
      <3>1. CASE q = p
            BY <2>3, <2>4, <3>1
      <3>2. CASE q # p
            BY <2>1, <3>2
      <3> QED BY <3>1, <3>2
    <2>5. \A q \in Proc : Serving(req', job'[q])
          BY <2>1 DEF RqInv
    <2>6. wire' = wire /\ file' = file
          BY <2>1
    <2> QED BY <2>4, <2>5, <2>6, RqInvKept
  <1>4. CASE ArrivesLate \/ Receive \/ SpendElsewhere \/ UNCHANGED vars
    <2>1. wire' \subseteq wire /\ UNCHANGED <<file, mem, pc, job, req>>
          BY <1>4 DEF ArrivesLate, Receive, SpendElsewhere, vars
    <2>2. \A q \in Proc : Serving(req', job'[q])
          BY <2>1 DEF RqInv
    <2> QED BY <2>1, <2>2, RqInvKept
  <1> QED BY <1>1, <1>2, <1>3, <1>4, CommandRqInv, NodeTxidRqInv DEF Next, Answer, Environment

LEMMA InitRqInv == Init => RqInv
  <1> SUFFICES ASSUME Init PROVE RqInv
      OBVIOUS
  <1>1. Linked(chain) /\ Opened(chain)
        BY DEF Init, Linked, Opened
  <1>2. \A p \in Proc : Serving(req, job[p])
        BY DEF Init, NoJob, Serving
  <1>3. \A pay : Asking(pay) = {} /\ \A i : DoneOf(i, pay) = {} /\ AskedOf(i, pay) = {}
        BY DEF Init, Asking, DoneOf, AskedOf
  <1>4. \A r \in Req : IsFiniteSet(Asking(Want[r].pay))
        BY <1>3, FS_EmptySet
  <1>5. ASSUME NEW pay, NEW i
        PROVE  Passed(chain, file, i, pay) = {} /\ \A f, b : Line(chain, f, i, pay, b) = {}
        BY DEF Init, EmptyState, Initialized, Passed, Line, Withdraws
  <1>6. \A pay : PaidFor(pay)
    <2> SUFFICES ASSUME NEW pay PROVE PaidFor(pay)
        OBVIOUS
    <2>1. Cardinality({}) <= Cardinality({})
          BY FS_EmptySet
    <2>2. wire = {} /\ \A p \in Proc : pc[p] = "idle"
          BY DEF Init
    <2> QED BY <1>3, <1>5, <2>1, <2>2 DEF PaidFor, CopyPaid
  <1> QED BY <1>1, <1>2, <1>4, <1>6 DEF RqInv

LEMMA RequestInvariant == Spec => [](IInv /\ LInv /\ JInv /\ RqInv)
  <1>1. Init => RqInv
        BY InitRqInv
  <1>2. IInv /\ LInv /\ JInv /\ RqInv /\ [Next]_vars => RqInv'
        BY NextRqInv
  <1> QED BY <1>1, <1>2, CommandInvariant, PTL DEF Spec

(* A set that is no larger than another fits into it *)
LEMMA FitsInto ==
  ASSUME NEW S, NEW T, IsFiniteSet(S), IsFiniteSet(T), Cardinality(S) <= Cardinality(T)
  PROVE  \E g \in [S -> T] : \A x, y \in S : g[x] = g[y] => x = y
  <1> DEFINE m == Cardinality(S)
             n == Cardinality(T)
  <1>1. m \in Nat /\ n \in Nat /\ m <= n /\ ExistsBijection(1 .. m, S) /\ ExistsBijection(1 .. n, T)
        BY FS_CardinalityType
  <1> HIDE DEF m, n
  <1>2. PICK b \in [1 .. m -> S] : \A x \in S : \E k \in 1 .. m : b[k] = x
        BY <1>1 DEF ExistsBijection, Bijection, Surjection
  <1>3. PICK e \in [1 .. n -> T] : \A k, l \in 1 .. n : e[k] = e[l] => k = l
        BY <1>1 DEF ExistsBijection, Bijection, Injection, IsInjective
  <1> DEFINE at(x) == CHOOSE k \in 1 .. m : b[k] = x
             g == [x \in S |-> e[at(x)]]
  <1>4. \A x \in S : at(x) \in 1 .. m /\ b[at(x)] = x
        BY <1>2
  <1>5. \A k \in 1 .. m : k \in 1 .. n
        BY <1>1
  <1> HIDE DEF at
  <1>6. g \in [S -> T]
        BY <1>3, <1>4, <1>5
  <1>7. ASSUME NEW x \in S, NEW y \in S, g[x] = g[y] PROVE x = y
    <2>1. e[at(x)] = e[at(y)]
          BY <1>7
    <2>2. at(x) = at(y)
          BY <1>3, <1>4, <1>5, <2>1
    <2> QED BY <1>4, <2>2
  <1> HIDE DEF g
  <1> QED BY <1>6, <1>7

(* Every withdrawal of a pool belongs to the line of one shard *)
LEMMA WithdrawalsInLine ==
  ASSUME NEW c, Threads(c), Linked(c), Opened(c), NEW k \in Withdraws(c), NEW pay, pay \in c[k].pays
  PROVE  LET i == c[k].outs[0].commit.shard
         IN  i \in Shard /\ k \in Line(c, c[k].outs[0].cat, i, pay, Len(c))
  <1>1. k \in DOMAIN c /\ c[k].ins # {} /\ c \in Seq(Tx)
        BY DEF Withdraws, Opened, Threads
  <1>2. PICK o : o \in c[k].ins
        BY <1>1
  <1> DEFINE x == CellAt(c, o).commit
  <1>3. 0 \in DOMAIN c[k].outs /\ o \in Made(c) /\ OfThread(c[k].outs[0], x.cat, x.shard)
        BY <1>1, <1>2 DEF Linked
  <1>4. c[k].outs[0].cat = c[k].outs[0].commit.cat
        BY <1>1, <1>3 DEF Opened
  <1>5. x.shard \in Shard
        BY <1>3, MadeAreCells
  <1>6. k <= Len(c)
        BY <1>1
  <1> QED BY <1>3, <1>4, <1>5, <1>6 DEF Line, OfThread

(* Whatever runs at the same time, and whichever answers are lost or late: *)
(* one pool pays a withdrawal no more often than it was asked for, when the *)
(* requests name their shard                                               *)
THEOREM RequestsPaidOnce == Spec => []PaidOncePerRequest
  <1>1. IInv /\ LInv /\ RqInv => PaidOncePerRequest
    <2> SUFFICES ASSUME IInv, LInv, RqInv, NEW f \in Funding, NEW r \in Req,
                        \A q \in Asking(Want[r].pay) : Want[q].shard # AutoShard
                 PROVE  Cardinality(Paying(f, Want[r].pay)) <= Cardinality(Asking(Want[r].pay))
        BY DEF PaidOncePerRequest
    <2> DEFINE pay == Want[r].pay
               P == Paying(f, pay)
               A == Asking(pay)
               L(i) == Line(chain, f, i, pay, Len(chain))
               Q(i) == AskedOf(i, pay)
               at(k) == chain[k].outs[0].commit.shard
    <2>1. PaidFor(pay) /\ IsFiniteSet(A)
          BY DEF RqInv, Explicit
    <2>2. \A i \in Shard : /\ Q(i) \subseteq A /\ IsFiniteSet(L(i)) /\ Cardinality(L(i)) <= Cardinality(Q(i))
                           /\ \A q \in Q(i) : Want[q].shard = i
          BY <2>1, LineFinite DEF PaidFor, AskedOf, Asking, IInv, TypeOK
    <2>3. \A k \in P : at(k) \in Shard /\ k \in L(at(k))
      <3> SUFFICES ASSUME NEW k \in P PROVE at(k) \in Shard /\ k \in L(at(k))
          OBVIOUS
      <3>1. k \in Withdraws(chain) /\ pay \in chain[k].pays /\ chain[k].outs[0].cat = f
            BY DEF Paying
      <3>2. Threads(chain) /\ Linked(chain) /\ Opened(chain)
            BY DEF LInv, RqInv
      <3> HIDE DEF pay
      <3> QED BY <3>1, <3>2, WithdrawalsInLine
    <2> HIDE DEF pay, P, A, L, Q, at
    <2>4. \A i \in Shard : \E g \in [L(i) -> Q(i)] : \A x, y \in L(i) : g[x] = g[y] => x = y
      <3> SUFFICES ASSUME NEW i \in Shard
                   PROVE  \E g \in [L(i) -> Q(i)] : \A x, y \in L(i) : g[x] = g[y] => x = y
          OBVIOUS
      <3>1. IsFiniteSet(L(i)) /\ IsFiniteSet(Q(i)) /\ Cardinality(L(i)) <= Cardinality(Q(i))
            BY <2>1, <2>2, Fewer
      <3> QED BY <3>1, FitsInto
    <2> DEFINE g(i) == CHOOSE h \in [L(i) -> Q(i)] : \A x, y \in L(i) : h[x] = h[y] => x = y
               G == [k \in P |-> g(at(k))[k]]
    <2>5. \A i \in Shard : g(i) \in [L(i) -> Q(i)] /\ \A x, y \in L(i) : g(i)[x] = g(i)[y] => x = y
          BY <2>4
    <2> HIDE DEF g
    <2>6. \A k \in P : G[k] \in Q(at(k))
          BY <2>3, <2>5
    <2>7. G \in [P -> A]
          BY <2>2, <2>3, <2>6
    <2>8. ASSUME NEW k \in P, NEW l \in P, G[k] = G[l] PROVE k = l
      <3>1. at(k) = at(l)
            BY <2>2, <2>3, <2>6, <2>8
      <3>2. g(at(k))[k] = g(at(k))[l]
            BY <2>8, <3>1
      <3> QED BY <2>3, <2>5, <3>1, <3>2
    <2> HIDE DEF G
    <2>9. G \in Injection(P, A)
          BY <2>7, <2>8 DEF Injection, IsInjective
    <2> QED BY <2>1, <2>9, FS_Injection DEF P, A, pay
  <1> QED BY <1>1, RequestInvariant, PTL
=============================================================================
