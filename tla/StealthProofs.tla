--------------------------- MODULE StealthProofs ----------------------------
(***************************************************************************)
(* Proofs about the stealth wallet, for any number of wallets, commands,   *)
(* coins and faults:                                                       *)
(*   - RecordsFaithful, SpentTrue: what a profile has on record is true;   *)
(*   - OneTimeKeys: no two transactions pay to the same one-time key;      *)
(*   - NothingLost: a scan of its transaction finds every one-time coin,   *)
(*     but for the code's own exceptions;                                  *)
(* and with one command per profile at a time                              *)
(*   - NeverForgets: no save drops a record, a marker or a change index;   *)
(*   - InboxKept: the wallet implements Inbox.                             *)
(*                                                                         *)
(* None of them speaks of a command that waits for the node, so none is    *)
(* inductive.  WInv adds what such a command is about to record: outputs   *)
(* its transaction has, with contexts that derive their keys, and inputs   *)
(* its transaction spends; and that what a scan found is on the chain.     *)
(* Sound is asked of files and of copies alike, because a save makes a     *)
(* file of a copy and a load a copy of a file.  KInv adds that each        *)
(* transaction, on the chain, on its way or about to be sent, derives its  *)
(* one-time keys from its own inputs; EInv that a copy to be saved has     *)
(* all the file has.                                                       *)
(***************************************************************************)
EXTENDS StealthWallet, TLAPS

Over(f, S) == f = [x \in S |-> f[x]]

RecordShape(r) ==
  r = [at |-> r.at, owner |-> r.owner, key |-> r.key, ctx |-> r.ctx, spent |-> r.spent]
StateShape(s) == s = [utxos |-> s.utxos, head |-> s.head, next |-> s.next, deposits |-> s.deposits]

(* a record of an output of c that w can spend *)
Spendable(w, r, c) ==
  RecordShape(r) /\ r.at \in Made(c) /\ KeyAt(c, r.at) = r.key /\ r.key = ChildKey(w, r.ctx)
NoneTwice(recs) == \A r, q \in recs : q.at = r.at => q = r
Sound(w, s, c) ==
  /\ StateShape(s)
  /\ NoneTwice(s.utxos)
  /\ \A r \in s.utxos : Spendable(w, r, c) /\ (r.spent => r.at \in Spent(c))

(* a transaction about to be sent, and what will be recorded of it *)
Prepared(w, j) ==
  /\ j.mark \subseteq InputsOf(j.tx)
  /\ \A k \in j.keep : /\ k.vout + 1 \in DOMAIN j.tx.outs /\ (k.vout + 1) - 1 = k.vout
                       /\ j.tx.outs[k.vout + 1].key = ChildKey(w, k.ctx)
  /\ \A k, l \in j.keep : k = l

Seen(w, found, c) ==
  \A m \in found : m.at \in Made(c) /\ KeyAt(c, m.at) = ChildKey(w, m.ctx)

(* WInv with c for the chain: a step that extends the chain is proved in    *)
(* two halves                                                               *)
WellAt(c) ==
  /\ \E S : c \in Seq(S)
  /\ mined \in Nat /\ mined <= Len(c)
  /\ Over(file, Wallet) /\ Over(mem, Proc) /\ Over(pc, Proc) /\ Over(job, Proc)
  /\ \A w \in Wallet : Sound(w, file[w], c)
  /\ \A p \in Proc :
       /\ Sound(Profile[p], mem[p], c)
       /\ pc[p] = "send" => Prepared(Profile[p], job[p])
       /\ pc[p] = "found" => Seen(Profile[p], job[p].found, c)

WInv == WellAt(chain)

-----------------------------------------------------------------------------
(* The chain only grows, and what is true of it stays true                 *)

(* an appended transaction leaves the outputs and spends there were *)
LEMMA Grows ==
  ASSUME NEW S, NEW c \in Seq(S), NEW t
  PROVE  LET d == Append(c, t)
         IN  /\ d \in Seq(S \cup {t})
             /\ DOMAIN c \subseteq DOMAIN d /\ Len(c) + 1 \in DOMAIN d
             /\ d[Len(c) + 1] = t
             /\ \A k \in DOMAIN c : d[k] = c[k]
  OBVIOUS

(* an output keeps its key *)
LEMMA MadeGrows ==
  ASSUME NEW S, NEW c \in Seq(S), NEW t, NEW o \in Made(c)
  PROVE  o \in Made(Append(c, t)) /\ KeyAt(Append(c, t), o) = KeyAt(c, o)
  <1> DEFINE d == Append(c, t)
  <1>1. PICK k \in DOMAIN c : o \in OutpointsOf(c, k)
        BY DEF Made
  <1>2. o.txid = k
        BY <1>1 DEF OutpointsOf
  <1>3. k \in DOMAIN d /\ d[k] = c[k]
        BY Grows
  <1> HIDE DEF d
  <1>4. o \in OutpointsOf(d, k)
        BY <1>1, <1>3 DEF OutpointsOf
  <1>5. o \in Made(d)
        BY <1>3, <1>4 DEF Made
  <1>6. KeyAt(d, o) = KeyAt(c, o)
        BY <1>2, <1>3 DEF KeyAt, OutAt
  <1> QED BY <1>5, <1>6 DEF d

(* what is spent stays spent, and what the transaction spends is spent *)
LEMMA SpentGrows ==
  ASSUME NEW S, NEW c \in Seq(S), NEW t
  PROVE  Spent(c) \subseteq Spent(Append(c, t)) /\ InputsOf(t) \subseteq Spent(Append(c, t))
  <1> DEFINE d == Append(c, t)
  <1>1. /\ DOMAIN c \subseteq DOMAIN d /\ Len(c) + 1 \in DOMAIN d /\ d[Len(c) + 1] = t
        /\ \A k \in DOMAIN c : d[k] = c[k]
        BY Grows
  <1> HIDE DEF d
  <1>2. Spent(c) \subseteq Spent(d)
        BY <1>1 DEF Spent
  <1>3. InputsOf(t) \subseteq Spent(d)
        BY <1>1 DEF Spent
  <1> QED BY <1>2, <1>3 DEF d

(* a file or copy that is sound stays so when another transaction comes *)
LEMMA SoundGrows ==
  ASSUME NEW S, NEW c \in Seq(S), NEW t, NEW w, NEW s, Sound(w, s, c)
  PROVE  Sound(w, s, Append(c, t))
  <1>1. ASSUME NEW r \in s.utxos PROVE Spendable(w, r, Append(c, t))
        BY <1>1, MadeGrows DEF Sound, Spendable
  <1>2. ASSUME NEW r \in s.utxos, r.spent PROVE r.at \in Spent(Append(c, t))
        BY <1>2, SpentGrows DEF Sound
  <1> QED BY <1>1, <1>2 DEF Sound

(* and so does what a scan found before it came *)
LEMMA SeenGrows ==
  ASSUME NEW S, NEW c \in Seq(S), NEW t, NEW w, NEW found, Seen(w, found, c)
  PROVE  Seen(w, found, Append(c, t))
  BY MadeGrows DEF Seen

-----------------------------------------------------------------------------
(* Records                                                                 *)

(* setting the spent marker changes nothing else *)
LEMMA Marked ==
  ASSUME NEW r, RecordShape(r), NEW b
  PROVE  LET q == [r EXCEPT !.spent = b]
         IN  /\ RecordShape(q) /\ q.at = r.at /\ q.key = r.key /\ q.ctx = r.ctx /\ q.spent = b
             /\ q.owner = r.owner
  BY DEF RecordShape

(* the fields of a new record *)
LEMMA RecordFields ==
  ASSUME NEW at, NEW owner, NEW w, NEW ctx
  PROVE  /\ RecordShape(Record(at, owner, w, ctx))
         /\ Record(at, owner, w, ctx).at = at
         /\ Record(at, owner, w, ctx).ctx = ctx
         /\ Record(at, owner, w, ctx).key = ChildKey(w, ctx)
  BY DEF Record, RecordShape

(* setting one field of the state leaves the others *)
LEMMA UtxosRefilled ==
  ASSUME NEW s, StateShape(s), NEW x
  PROVE  LET u == [s EXCEPT !.utxos = x]
         IN  StateShape(u) /\ u.utxos = x /\ u.next = s.next /\ u.deposits = s.deposits
  BY DEF StateShape

LEMMA HeadRefilled ==
  ASSUME NEW s, StateShape(s), NEW x
  PROVE  LET u == [s EXCEPT !.head = x]
         IN  StateShape(u) /\ u.utxos = s.utxos /\ u.next = s.next /\ u.deposits = s.deposits
  BY DEF StateShape

LEMMA NextRefilled ==
  ASSUME NEW s, StateShape(s), NEW x
  PROVE  LET u == [s EXCEPT !.next = x]
         IN  StateShape(u) /\ u.utxos = s.utxos /\ u.next = x /\ u.deposits = s.deposits
  BY DEF StateShape

LEMMA DepositsRefilled ==
  ASSUME NEW s, StateShape(s), NEW x
  PROVE  LET u == [s EXCEPT !.deposits = x]
         IN  StateShape(u) /\ u.utxos = s.utxos /\ u.next = s.next /\ u.deposits = x
  BY DEF StateShape

(* an upsert of spendable records keeps what is on record sound *)
LEMMA UpsertSound ==
  ASSUME NEW w, NEW s, NEW c, Sound(w, s, c),
         NEW recs, NoneTwice(recs), \A r \in recs : Spendable(w, r, c)
  PROVE  Sound(w, Upsert(s, recs), c)
  <1> DEFINE merged(n) == [n EXCEPT !.spent = \E r \in s.utxos : r.at = n.at /\ r.spent]
             old == {r \in s.utxos : \A n \in recs : n.at # r.at}
             new == {merged(n) : n \in recs}
  <1>1. ASSUME NEW n \in recs
        PROVE  /\ Spendable(w, merged(n), c) /\ merged(n).at = n.at
               /\ merged(n).spent = \E r \in s.utxos : r.at = n.at /\ r.spent
    <2> DEFINE b == \E r \in s.utxos : r.at = n.at /\ r.spent
    <2>1. RecordShape(n)
          BY DEF Spendable
    <2> HIDE DEF b
    <2>2. LET q == [n EXCEPT !.spent = b]
          IN  RecordShape(q) /\ q.at = n.at /\ q.key = n.key /\ q.ctx = n.ctx /\ q.spent = b
          BY <2>1, Marked
    <2> QED BY <2>2 DEF Spendable, b
  <1> HIDE DEF merged
  <1>2. \A r \in old \cup new : Spendable(w, r, c)
        BY <1>1 DEF Sound
  <1>3. \A r \in old \cup new : r.spent => r.at \in Spent(c)
    <2>1. \A r \in old : r.spent => r.at \in Spent(c)
          BY DEF Sound
    <2>2. ASSUME NEW n \in recs, merged(n).spent PROVE merged(n).at \in Spent(c)
      <3>1. PICK r \in s.utxos : r.at = n.at /\ r.spent
            BY <2>2, <1>1
      <3> QED BY <3>1, <1>1 DEF Sound
    <2> QED BY <2>1, <2>2
  <1>4. NoneTwice(old \cup new)
    <2> SUFFICES ASSUME NEW r \in old \cup new, NEW q \in old \cup new, q.at = r.at PROVE q = r
        BY DEF NoneTwice
    <2>1. CASE r \in old /\ q \in old
          BY <2>1 DEF Sound, NoneTwice
    <2>2. CASE r \in new /\ q \in new
      <3>1. PICK m \in recs, n \in recs : r = merged(m) /\ q = merged(n)
            BY <2>2
      <3>2. m = n
            BY <3>1, <1>1, ZenonT(30) DEF NoneTwice
      <3> QED BY <3>1, <3>2
    <2>3. CASE r \in old /\ q \in new
          BY <2>3, <1>1
    <2>4. CASE r \in new /\ q \in old
          BY <2>4, <1>1
    <2> QED BY <2>1, <2>2, <2>3, <2>4
  <1> DEFINE u == Upsert(s, recs)
  <1>5. u.utxos = old \cup new /\ StateShape(u)
    <2> DEFINE h == HeadAfter(s, recs)
               x == [s EXCEPT !.utxos = old \cup new]
               v == [x EXCEPT !.head = h]
    <2>1. u = v
          BY DEF Upsert, merged
    <2> HIDE DEF old, new, h, u
    <2>2. StateShape(x) /\ x.utxos = old \cup new
          BY UtxosRefilled DEF Sound
    <2> HIDE DEF x
    <2>3. StateShape(v) /\ v.utxos = x.utxos
          BY <2>2, HeadRefilled
    <2> QED BY <2>1, <2>2, <2>3
  <1> HIDE DEF old, new, u
  <1> QED BY <1>2, <1>3, <1>4, <1>5 DEF Sound, u

(* marking what the chain has spent does too *)
LEMMA MarkSound ==
  ASSUME NEW w, NEW s, NEW c, Sound(w, s, c), NEW os, os \subseteq Spent(c)
  PROVE  Sound(w, MarkSpent(s, os), c)
  <1> DEFINE marked(r) == [r EXCEPT !.spent = @ \/ r.at \in os]
             all == {marked(r) : r \in s.utxos}
             u == MarkSpent(s, os)
  <1>1. ASSUME NEW r \in s.utxos
        PROVE  /\ Spendable(w, marked(r), c) /\ marked(r).at = r.at
               /\ marked(r).spent => r.at \in Spent(c)
    <2> DEFINE b == r.spent \/ r.at \in os
    <2>1. RecordShape(r) /\ marked(r) = [r EXCEPT !.spent = b]
          BY DEF Sound, Spendable
    <2>2. b => r.at \in Spent(c)
          BY DEF Sound
    <2> HIDE DEF b
    <2>3. LET q == [r EXCEPT !.spent = b]
          IN  RecordShape(q) /\ q.at = r.at /\ q.key = r.key /\ q.ctx = r.ctx /\ q.spent = b
          BY <2>1, Marked
    <2> QED BY <2>1, <2>2, <2>3 DEF Sound, Spendable
  <1>2. u.utxos = all /\ StateShape(u)
    <2> DEFINE v == [s EXCEPT !.utxos = all]
    <2>1. u = v
          BY DEF MarkSpent
    <2> HIDE DEF all, u
    <2>2. StateShape(v) /\ v.utxos = all
          BY UtxosRefilled DEF Sound
    <2> QED BY <2>1, <2>2
  <1> HIDE DEF marked, u
  <1>3. NoneTwice(all)
        BY <1>1 DEF Sound, NoneTwice
  <1> QED BY <1>1, <1>2, <1>3 DEF Sound, u
-----------------------------------------------------------------------------
(* What a command prepares                                                 *)

(* the fields of a job as the commands fill it *)
LEMMA Filled ==
  ASSUME NEW r, NEW t, NEW k, NEW m, NEW d, NEW f
  PROVE  /\ LET j == [NoJob EXCEPT !.req = r, !.found = f] IN j.found = f
         /\ LET j == [NoJob EXCEPT !.req = r, !.tx = t]
            IN  j.tx = t /\ j.keep = {} /\ j.mark = {}
         /\ LET j == [NoJob EXCEPT !.req = r, !.tx = t, !.keep = k, !.mark = m]
            IN  j.tx = t /\ j.keep = k /\ j.mark = m
         /\ LET j == [NoJob EXCEPT !.req = r, !.tx = t, !.keep = k, !.mark = m, !.stage = d]
            IN  j.tx = t /\ j.keep = k /\ j.mark = m
  BY DEF NoJob

(* the change that send will record is its second output *)
LEMMA SendPrepared ==
  ASSUME NEW p \in Proc, NEW c, NEW near
  PROVE  Prepared(Profile[p], SendJob(p, c, near))
  <1> DEFINE change == Context(SendingKey(p, c), c.at, mem[p].next)
             r == job[p].req
             pay == Output(PayKey(r.to, Context(SendingKey(p, c), c.at, 0)), r.sats)
             back == Output(ChildKey(Profile[p], change), c.value - r.sats - Fee)
             t == [op |-> "send", who |-> Profile[p], ins |-> <<SpendCoin(c)>>, near |-> near,
                   outs |-> <<pay, back>>]
             k == {[vout |-> 1, owner |-> Profile[p], ctx |-> change]}
             j == SendJob(p, c, near)
  <1>1. j.tx = t /\ j.keep = k /\ j.mark = {}
    <2>1. j = [NoJob EXCEPT !.req = r, !.tx = t, !.keep = k, !.mark = {}]
          BY DEF SendJob, MarkedBySend
    <2> HIDE DEF r, t, k, j
    <2> QED BY <2>1, Filled
  <1>2. back.key = ChildKey(Profile[p], change)
        BY DEF Output
  <1> HIDE DEF j, change, pay, back, r
  <1>3. t.outs = <<pay, back>>
        OBVIOUS
  <1>4. Prepared(Profile[p], j)
        BY <1>1, <1>2, <1>3 DEF Prepared
  <1> QED BY <1>4 DEF j

(* the change that deposit will record, if any, is its second output, and   *)
(* the record it will mark is its input                                     *)
LEMMA DepositPrepared ==
  ASSUME NEW p \in Proc, NEW c, NEW near
  PROVE  Prepared(Profile[p], DepositJob(p, c, near))
  <1> DEFINE w == Profile[p]
             r == job[p].req
             pay == Context(BaseKey(w), c.at, 0)
             change == Context(BaseKey(w), c.at, 1)
             rest == c.value - r.sats - Fee
             note == Output(IF r.how = "rpa" THEN ChildKey(w, pay) ELSE BaseKey(w), r.sats)
             back == Output(IF StealthChange(r, c) THEN ChildKey(w, change) ELSE BaseKey(w), rest)
             enough == rest >= Dust
             stealth == StealthChange(r, c)
             t == [op |-> "deposit", who |-> w, ins |-> <<SpendCoin(c)>>, near |-> near,
                   outs |-> IF enough THEN <<note, back>> ELSE <<note>>]
             k == IF enough /\ stealth THEN {[vout |-> 1, owner |-> Me, ctx |-> change]} ELSE {}
             m == IF c.source = "stealth" THEN {c.at} ELSE {}
             d == {[vout |-> 0, key |-> note.key]}
             j == DepositJob(p, c, near)
  <1>1. j.tx = t /\ j.keep = k /\ j.mark = m
    <2>1. j = [NoJob EXCEPT !.req = r, !.tx = t, !.keep = k, !.mark = m, !.stage = d]
          BY DEF DepositJob
    <2> HIDE DEF r, t, k, m, d, j
    <2> QED BY <2>1, Filled
  <1>2. stealth => back.key = ChildKey(w, change)
        BY DEF Output
  <1>3. m \subseteq InputsOf(t)
    <2>1. 1 \in DOMAIN t.ins /\ t.ins[1].from = c.at
          BY DEF SpendCoin
    <2> QED BY <2>1 DEF InputsOf
  <1> HIDE DEF j, change, pay, back, note, enough, stealth, r, d
  <1>4. \A x \in k : enough /\ stealth /\ x.vout = 1 /\ x.ctx = change
        OBVIOUS
  <1>5. \A x, y \in k : x = y
        OBVIOUS
  <1>6. enough => t.outs = <<note, back>>
        OBVIOUS
  <1> HIDE DEF k, t, m
  <1>7. Prepared(Profile[p], j)
        BY <1>1, <1>2, <1>3, <1>4, <1>5, <1>6 DEF Prepared
  <1> QED BY <1>7 DEF j

(* a withdrawal's change, if any, is its third output; the coin that paid   *)
(* the fee is its second input                                              *)
LEMMA ExternalPrepared ==
  ASSUME NEW p \in Proc, NEW o, NEW c, NEW near
  PROVE  Prepared(Profile[p], ExternalJob(p, o, c, near))
  <1> DEFINE w == Profile[p]
             r == job[p].req
             pay == Context(BaseKey(w), c.at, 0)
             change == Context(BaseKey(w), c.at, mem[p].next)
             rest == c.value - Fee
             keeps == Output(BaseKey(Shard), ValueAt(chain, o) - r.sats)
             pays == Output(PayKey(r.to, pay), r.sats)
             back == Output(ChildKey(w, change), rest)
             enough == rest >= Dust
             t == [op |-> "withdraw", who |-> w, ins |-> <<SpendShard(o), SpendCoin(c)>>,
                   near |-> near,
                   outs |-> IF enough THEN Append(<<keeps, pays>>, back) ELSE <<keeps, pays>>]
             k == IF enough THEN {[vout |-> 2, owner |-> w, ctx |-> change]} ELSE {}
             m == IF enough /\ c.source = "stealth" THEN {c.at} ELSE {}
             j == ExternalJob(p, o, c, near)
  <1>1. j.tx = t /\ j.keep = k /\ j.mark = m
    <2>1. j = [NoJob EXCEPT !.req = r, !.tx = t, !.keep = k, !.mark = m]
          BY DEF ExternalJob
    <2> HIDE DEF r, t, k, m, j
    <2> QED BY <2>1, Filled
  <1>2. back.key = ChildKey(w, change)
        BY DEF Output
  <1>3. m \subseteq InputsOf(t)
    <2>1. 2 \in DOMAIN t.ins /\ t.ins[2].from = c.at
          BY DEF SpendCoin
    <2> QED BY <2>1 DEF InputsOf
  <1> HIDE DEF j, change, pay, keeps, pays, back, enough, r
  <1>4. \A x \in k : enough /\ x.vout = 2 /\ x.ctx = change
        OBVIOUS
  <1>5. \A x, y \in k : x = y
        OBVIOUS
  <1>6. enough => 3 \in DOMAIN t.outs /\ t.outs[3] = back
        OBVIOUS
  <1> HIDE DEF k, t, m
  <1>7. Prepared(Profile[p], j)
        BY <1>1, <1>2, <1>3, <1>4, <1>5, <1>6 DEF Prepared
  <1> QED BY <1>7 DEF j

(* a withdrawal without a fee coin records and marks nothing *)
LEMMA FromShardPrepared ==
  ASSUME NEW p \in Proc, NEW o, NEW near
  PROVE  Prepared(Profile[p], FromShardJob(p, o, near))
  <1> DEFINE j == FromShardJob(p, o, near)
  <1>1. \E r, t : j = [NoJob EXCEPT !.req = r, !.tx = t]
        BY DEF FromShardJob
  <1> HIDE DEF j
  <1>2. j.keep = {} /\ j.mark = {}
        BY <1>1, Filled
  <1>3. Prepared(Profile[p], j)
        BY <1>2 DEF Prepared
  <1> QED BY <1>3 DEF j

(* once its transaction is on the chain, the patch of a prepared command    *)
(* keeps its copy sound                                                     *)
LEMMA PatchSound ==
  ASSUME NEW w, NEW s, NEW c, Sound(w, s, c), NEW j, Prepared(w, j),
         NEW txid \in DOMAIN c, c[txid] = j.tx, InputsOf(j.tx) \subseteq Spent(c)
  PROVE  Sound(w, Patch(s, j, txid, w), c)
  <1> DEFINE recs == Recorded(txid, w, j.keep)
             u == MarkSpent(s, j.mark)
             v == Upsert(u, recs)
             q == [v EXCEPT !.deposits = @ \cup Staged(txid, j.stage)]
  <1>1. Sound(w, u, c)
        BY MarkSound DEF Prepared
  <1>2. ASSUME NEW k \in j.keep
        PROVE  Spendable(w, Record([txid |-> txid, vout |-> k.vout], k.owner, w, k.ctx), c)
    <2> DEFINE at == [txid |-> txid, vout |-> k.vout]
               r == Record(at, k.owner, w, k.ctx)
    <2>1. /\ k.vout + 1 \in DOMAIN c[txid].outs /\ (k.vout + 1) - 1 = k.vout
          /\ c[txid].outs[k.vout + 1].key = ChildKey(w, k.ctx)
          BY DEF Prepared
    <2>2. at \in OutpointsOf(c, txid)
          BY <2>1 DEF OutpointsOf
    <2>3. at \in Made(c)
          BY <2>2 DEF Made
    <2>4. KeyAt(c, at) = ChildKey(w, k.ctx)
          BY <2>1 DEF KeyAt, OutAt
    <2>5. RecordShape(r) /\ r.at = at /\ r.ctx = k.ctx /\ r.key = ChildKey(w, k.ctx)
          BY RecordFields
    <2> HIDE DEF r, at
    <2>6. Spendable(w, r, c)
          BY <2>3, <2>4, <2>5 DEF Spendable
    <2> QED BY <2>6 DEF r, at
  <1>3. \A r \in recs : Spendable(w, r, c)
        BY <1>2 DEF Recorded
  <1>4. NoneTwice(recs)
        BY DEF Prepared, Recorded, NoneTwice
  <1>5. Sound(w, v, c)
        BY <1>1, <1>3, <1>4, UpsertSound
  <1>6. Patch(s, j, txid, w) = q
        BY DEF Patch
  <1> HIDE DEF v
  <1>7. StateShape(q) /\ q.utxos = v.utxos
        BY <1>5, DepositsRefilled DEF Sound
  <1> HIDE DEF q
  <1> QED BY <1>5, <1>6, <1>7 DEF Sound

(* so does the merge of what a scan found: an output is derived from one    *)
(* context only                                                             *)
LEMMA MergeSound ==
  ASSUME NEW w, NEW s, NEW c, Sound(w, s, c), NEW found, Seen(w, found, c)
  PROVE  Sound(w, Upsert(s, {Record(m.at, w, w, m.ctx) : m \in found}), c)
  <1> DEFINE recs == {Record(m.at, w, w, m.ctx) : m \in found}
  <1>1. ASSUME NEW m \in found PROVE Spendable(w, Record(m.at, w, w, m.ctx), c)
        BY RecordFields DEF Seen, Spendable
  <1>2. \A r \in recs : Spendable(w, r, c)
        BY <1>1
  <1>3. NoneTwice(recs)
    <2> SUFFICES ASSUME NEW m \in found, NEW n \in found,
                        Record(n.at, w, w, n.ctx).at = Record(m.at, w, w, m.ctx).at
                 PROVE  Record(n.at, w, w, n.ctx) = Record(m.at, w, w, m.ctx)
        BY DEF NoneTwice
    <2>1. n.at = m.at
          BY RecordFields
    <2>2. ChildKey(w, n.ctx) = ChildKey(w, m.ctx)
          BY <2>1 DEF Seen
    <2>3. n.ctx = m.ctx
          BY <2>2 DEF ChildKey
    <2> QED BY <2>1, <2>3
  <1> QED BY <1>2, <1>3, UpsertSound

-----------------------------------------------------------------------------
(* The invariant                                                           *)

(* an empty state is sound *)
LEMMA EmptySound ==
  ASSUME NEW w, NEW c
  PROVE  Sound(w, EmptyState, c)
  BY DEF Sound, EmptyState, StateShape, NoneTwice

(* a step of one command, whatever it did to the chain, keeps the invariant *)
(* when the command's new copy is sound and what it waits with is prepared  *)
LEMMA OneMoves ==
  ASSUME WellAt(chain'), mined' = mined, file' = file, NEW p \in Proc,
         Over(mem', Proc), Over(pc', Proc), Over(job', Proc),
         \A q \in Proc : q # p => mem'[q] = mem[q] /\ pc'[q] = pc[q] /\ job'[q] = job[q],
         Sound(Profile[p], mem'[p], chain'),
         pc'[p] = "send" => Prepared(Profile[p], job'[p]),
         pc'[p] = "found" => Seen(Profile[p], job'[p].found, chain')
  PROVE  WInv'
  <1>1. ASSUME NEW q \in Proc
        PROVE  /\ Sound(Profile[q], mem'[q], chain')
               /\ pc'[q] = "send" => Prepared(Profile[q], job'[q])
               /\ pc'[q] = "found" => Seen(Profile[q], job'[q].found, chain')
    <2>1. CASE q = p
          BY <2>1
    <2>2. CASE q # p
          BY <2>2 DEF WellAt
    <2> QED BY <2>1, <2>2
  <1> QED BY <1>1 DEF WInv, WellAt

(* a command that ends has an empty copy *)
LEMMA EndsWell ==
  ASSUME WellAt(chain'), mined' = mined, file' = file, NEW p \in Proc, Ends(p)
  PROVE  WInv'
  <1>0. Over(mem, Proc) /\ Over(pc, Proc) /\ Over(job, Proc)
        BY DEF WellAt
  <1>1. Over(mem', Proc) /\ mem'[p] = EmptyState /\ \A q \in Proc : q # p => mem'[q] = mem[q]
        BY <1>0 DEF Ends, Over
  <1>2. Over(pc', Proc) /\ pc'[p] = "idle" /\ \A q \in Proc : q # p => pc'[q] = pc[q]
        BY <1>0 DEF Ends, Over
  <1>3. Over(job', Proc) /\ \A q \in Proc : q # p => job'[q] = job[q]
        BY <1>0 DEF Ends, Over
  <1> QED BY <1>1, <1>2, <1>3, EmptySound, OneMoves

(* a command that sends a prepared transaction *)
LEMMA BroadcastsWell ==
  ASSUME WInv, NEW p \in Proc, NEW j, NEW copy, Broadcasts(p, j, copy),
         Prepared(Profile[p], j), Sound(Profile[p], copy, chain)
  PROVE  WInv'
  <1>1. chain' = chain /\ mined' = mined /\ file' = file
        BY DEF Broadcasts
  <1>2. WellAt(chain')
        BY <1>1 DEF WInv
  <1>0. Over(mem, Proc) /\ Over(pc, Proc) /\ Over(job, Proc)
        BY DEF WInv, WellAt
  <1>3. Over(mem', Proc) /\ mem'[p] = copy /\ \A q \in Proc : q # p => mem'[q] = mem[q]
        BY <1>0 DEF Broadcasts, Over
  <1>4. Over(pc', Proc) /\ pc'[p] = "send" /\ \A q \in Proc : q # p => pc'[q] = pc[q]
        BY <1>0 DEF Broadcasts, Over
  <1>5. Over(job', Proc) /\ job'[p] = j /\ \A q \in Proc : q # p => job'[q] = job[q]
        BY <1>0 DEF Broadcasts, Over
  <1> QED BY <1>1, <1>2, <1>3, <1>4, <1>5, OneMoves

(* counting a change index touches no record *)
LEMMA TakeSound ==
  ASSUME NEW w, NEW s, NEW c, Sound(w, s, c)
  PROVE  Sound(w, TakeChangeIndex(s), c)
  <1> DEFINE u == TakeChangeIndex(s)
  <1>1. u = [s EXCEPT !.next = s.next + 1]
        BY DEF TakeChangeIndex
  <1> HIDE DEF u
  <1>2. StateShape(u) /\ u.utxos = s.utxos
        BY <1>1, NextRefilled DEF Sound
  <1>3. Sound(w, u, c)
        BY <1>2 DEF Sound
  <1> QED BY <1>3 DEF u

(* the chain may always be extended *)
LEMMA WellGrows ==
  ASSUME WInv, NEW t
  PROVE  WellAt(Append(chain, t))
  <1>1. PICK S : chain \in Seq(S)
        BY DEF WInv, WellAt
  <1>2. Append(chain, t) \in Seq(S \cup {t}) /\ Len(Append(chain, t)) = Len(chain) + 1
        BY <1>1
  <1>3. mined \in Nat /\ mined <= Len(Append(chain, t))
        BY <1>1, <1>2 DEF WInv, WellAt
  <1>4. \A w \in Wallet : Sound(w, file[w], Append(chain, t))
        BY <1>1, SoundGrows DEF WInv, WellAt
  <1>5. ASSUME NEW p \in Proc
        PROVE  /\ Sound(Profile[p], mem[p], Append(chain, t))
               /\ pc[p] = "found" => Seen(Profile[p], job[p].found, Append(chain, t))
        BY <1>1, SoundGrows, SeenGrows DEF WInv, WellAt
  <1> QED BY <1>2, <1>3, <1>4, <1>5 DEF WInv, WellAt

(* a scan finds outputs of the chain that pay to the wallet *)
LEMMA FoundSeen ==
  ASSUME WInv, NEW w, NEW how \in ScanWays,
         NEW found \in Found(w, how)
  PROVE  Seen(w, found, chain)
  <1>1. Candidates(chain, mined, w, how) \subseteq DOMAIN chain
    <2>1. 1 .. mined \subseteq DOMAIN chain
          BY DEF WInv, WellAt
    <2> QED BY <2>1 DEF Candidates, ScanWays
  <1>2. ASSUME NEW k \in DOMAIN chain, NEW m \in Matches(chain, w, k)
        PROVE  m.at \in Made(chain) /\ KeyAt(chain, m.at) = ChildKey(w, m.ctx)
    <2>1. m.at \in OutpointsOf(chain, k) /\ KeyAt(chain, m.at) = ChildKey(w, m.ctx)
          BY DEF Matches, Match
    <2> QED BY <2>1 DEF Made
  <1>3. found \subseteq UNION {Matches(chain, w, k) : k \in Candidates(chain, mined, w, how)}
        BY DEF Found
  <1> QED BY <1>1, <1>2, <1>3 DEF Seen

(* initially there is nothing on record and nothing is under way *)
LEMMA InitWInv == Init => WInv
  <1> SUFFICES ASSUME Init PROVE WInv
      OBVIOUS
  <1>1. chain \in Seq({Genesis}) /\ Len(chain) = 1 /\ mined = 1
        BY DEF Init
  <1>2. Over(file, Wallet) /\ Over(mem, Proc) /\ Over(pc, Proc) /\ Over(job, Proc)
        BY DEF Init, Over
  <1>3. ASSUME NEW w \in Wallet PROVE Sound(w, file[w], chain)
        BY EmptySound DEF Init
  <1>4. ASSUME NEW p \in Proc
        PROVE  Sound(Profile[p], mem[p], chain) /\ pc[p] = "idle"
        BY EmptySound DEF Init
  <1> QED BY <1>1, <1>2, <1>3, <1>4 DEF WInv, WellAt

(* Every step keeps it.  A command's transaction is on the chain when its   *)
(* copy is patched, because the node has just appended it or knows it; a    *)
(* file only ever becomes one of the copies.                                *)
LEMMA StepWInv == WInv /\ [Next]_vars => WInv'
  <1> SUFFICES ASSUME WInv, [Next]_vars PROVE WInv'
      OBVIOUS
  <1>0. /\ WellAt(chain)
        /\ Over(mem, Proc) /\ Over(pc, Proc) /\ Over(job, Proc) /\ Over(file, Wallet)
        /\ \A p \in Proc : Profile[p] \in Wallet
        BY WalletAssumption DEF WInv, WellAt
  <1>1. ASSUME NEW p \in Proc, Start(p) PROVE WInv'
    <2>1. /\ chain' = chain /\ mined' = mined /\ file' = file
          /\ Over(mem', Proc) /\ mem'[p] = file[Profile[p]]
          /\ Over(pc', Proc) /\ pc'[p] = "ready" /\ Over(job', Proc)
          /\ \A q \in Proc : q # p => mem'[q] = mem[q] /\ pc'[q] = pc[q] /\ job'[q] = job[q]
          BY <1>0, <1>1 DEF Start, Over
    <2>2. Sound(Profile[p], file[Profile[p]], chain)
          BY <1>0 DEF WellAt
    <2> QED BY <1>0, <2>1, <2>2, OneMoves
  <1>2. ASSUME NEW p \in Proc, Send(p) PROVE WInv'
    <2>1. PICK c, near : Broadcasts(p, SendJob(p, c, near), TakeChangeIndex(mem[p]))
          BY <1>2 DEF Send
    <2>2. Sound(Profile[p], TakeChangeIndex(mem[p]), chain)
      <3>1. Sound(Profile[p], mem[p], chain)
            BY <1>0 DEF WellAt
      <3> QED BY <3>1, TakeSound
    <2> QED BY <2>1, <2>2, SendPrepared, BroadcastsWell
  <1>3. ASSUME NEW p \in Proc, Deposit(p) PROVE WInv'
    <2>1. PICK c, near : Broadcasts(p, DepositJob(p, c, near), mem[p])
          BY <1>3 DEF Deposit
    <2>2. Sound(Profile[p], mem[p], chain)
          BY <1>0 DEF WellAt
    <2> QED BY <2>1, <2>2, DepositPrepared, BroadcastsWell
  <1>4. ASSUME NEW p \in Proc, WithdrawExternal(p) PROVE WInv'
    <2>1. PICK o, c, near : Broadcasts(p, ExternalJob(p, o, c, near), TakeChangeIndex(mem[p]))
          BY <1>4 DEF WithdrawExternal
    <2>2. Sound(Profile[p], TakeChangeIndex(mem[p]), chain)
      <3>1. Sound(Profile[p], mem[p], chain)
            BY <1>0 DEF WellAt
      <3> QED BY <3>1, TakeSound
    <2> QED BY <2>1, <2>2, ExternalPrepared, BroadcastsWell
  <1>5. ASSUME NEW p \in Proc, WithdrawFromShard(p) PROVE WInv'
    <2>1. PICK o, near : Broadcasts(p, FromShardJob(p, o, near), mem[p])
          BY <1>5 DEF WithdrawFromShard
    <2>2. Sound(Profile[p], mem[p], chain)
          BY <1>0 DEF WellAt
    <2> QED BY <2>1, <2>2, FromShardPrepared, BroadcastsWell
  <1>6. ASSUME NEW p \in Proc, Throws(p) \/ Refuses(p) \/ NodeRejects(p) PROVE WInv'
    <2>1. Ends(p) /\ chain' = chain /\ mined' = mined /\ file' = file
          BY <1>6 DEF Throws, Refuses, NodeRejects
    <2> QED BY <1>0, <2>1, EndsWell
  <1>7. ASSUME NEW p \in Proc, Scan(p) PROVE WInv'
    <2>1. PICK r \in Request : /\ r.op = "scan"
                               /\ \E found \in Found(Profile[p], r.how) :
                                    job' = [job EXCEPT ![p] = [NoJob EXCEPT !.req = r, !.found = found]]
          BY <1>7 DEF Scan
    <2>2. r.how \in ScanWays
          BY <2>1, WalletAssumption
    <2>3. PICK found \in Found(Profile[p], r.how) :
                 job' = [job EXCEPT ![p] = [NoJob EXCEPT !.req = r, !.found = found]]
          BY <2>1
    <2>4. Seen(Profile[p], found, chain)
          BY <2>2, FoundSeen
    <2> DEFINE j == [NoJob EXCEPT !.req = r, !.found = found]
    <2>5. j.found = found
          BY Filled
    <2> HIDE DEF j
    <2>6. Over(job', Proc) /\ job'[p] = j /\ \A q \in Proc : q # p => job'[q] = job[q]
          BY <1>0, <2>3 DEF Over, j
    <2>7. /\ chain' = chain /\ mined' = mined /\ file' = file /\ mem' = mem
          /\ Over(pc', Proc) /\ pc'[p] = "found" /\ \A q \in Proc : q # p => pc'[q] = pc[q]
          BY <1>0, <1>7 DEF Scan, Over
    <2>8. Sound(Profile[p], mem[p], chain)
          BY <1>0 DEF WellAt
    <2> QED BY <1>0, <2>4, <2>5, <2>6, <2>7, <2>8, OneMoves
  <1>8. ASSUME NEW p \in Proc, Merge(p) PROVE WInv'
    <2> DEFINE w == Profile[p]
               u == Upsert(file[w], {Record(m.at, w, w, m.ctx) : m \in job[p].found})
    <2>1. Sound(w, file[w], chain) /\ Seen(w, job[p].found, chain)
          BY <1>0, <1>8 DEF WellAt, Merge
    <2>2. Sound(w, u, chain)
          BY <2>1, MergeSound
    <2>3. mem' = [mem EXCEPT ![p] = u] /\ pc' = [pc EXCEPT ![p] = "save"]
          /\ chain' = chain /\ mined' = mined /\ file' = file /\ job' = job
          BY <1>8 DEF Merge
    <2> HIDE DEF u
    <2>4. /\ Over(mem', Proc) /\ mem'[p] = u /\ \A q \in Proc : q # p => mem'[q] = mem[q]
          /\ Over(pc', Proc) /\ pc'[p] = "save" /\ \A q \in Proc : q # p => pc'[q] = pc[q]
          BY <1>0, <2>3 DEF Over
    <2> QED BY <1>0, <2>2, <2>3, <2>4, OneMoves
  <1>9. ASSUME NEW p \in Proc, NEW txid \in DOMAIN chain', GetsTxid(p, txid), pc[p] = "send",
               WellAt(chain'), mined' = mined, file' = file, job' = job,
               chain'[txid] = job[p].tx, InputsOf(job[p].tx) \subseteq Spent(chain')
        PROVE  WInv'
    <2> DEFINE u == Patch(mem[p], job[p], txid, Profile[p])
    <2>1. Sound(Profile[p], mem[p], chain') /\ Prepared(Profile[p], job[p])
          BY <1>9 DEF WellAt
    <2>2. Sound(Profile[p], u, chain')
          BY <2>1, <1>9, PatchSound
    <2>3. mem' = [mem EXCEPT ![p] = u] /\ pc' = [pc EXCEPT ![p] = "save"]
          BY <1>9 DEF GetsTxid
    <2> HIDE DEF u
    <2>4. /\ Over(mem', Proc) /\ mem'[p] = u /\ \A q \in Proc : q # p => mem'[q] = mem[q]
          /\ Over(pc', Proc) /\ pc'[p] = "save" /\ \A q \in Proc : q # p => pc'[q] = pc[q]
          BY <1>0, <2>3 DEF Over
    <2> QED BY <1>0, <1>9, <2>2, <2>4, OneMoves
  <1>10. ASSUME NEW p \in Proc, NodeAccepts(p) PROVE WInv'
    <2>1. /\ chain' = Append(chain, job[p].tx) /\ GetsTxid(p, Len(chain) + 1)
          /\ pc[p] = "send" /\ mined' = mined /\ file' = file /\ job' = job
          BY <1>10 DEF NodeAccepts
    <2>2. WellAt(chain')
          BY <2>1, WellGrows
    <2>3. PICK S : chain \in Seq(S)
          BY <1>0 DEF WellAt
    <2>4. Len(chain) + 1 \in DOMAIN chain' /\ chain'[Len(chain) + 1] = job[p].tx
          BY <2>1, <2>3, Grows
    <2>5. InputsOf(job[p].tx) \subseteq Spent(chain')
          BY <2>1, <2>3, SpentGrows
    <2> QED BY <1>9, <2>1, <2>2, <2>4, <2>5
  <1>11. ASSUME NEW p \in Proc, NodeEchoes(p) PROVE WInv'
    <2>1. /\ GetsTxid(p, TxidOf(chain, job[p].tx)) /\ pc[p] = "send"
          /\ chain' = chain /\ mined' = mined /\ file' = file /\ job' = job
          BY <1>11 DEF NodeEchoes
    <2>2. \E k \in DOMAIN chain : chain[k] = job[p].tx
          BY <1>11 DEF NodeEchoes, Known
    <2>3. TxidOf(chain, job[p].tx) \in DOMAIN chain /\ chain[TxidOf(chain, job[p].tx)] = job[p].tx
          BY <2>2 DEF TxidOf
    <2>4. InputsOf(job[p].tx) \subseteq Spent(chain)
          BY <2>2 DEF Spent
    <2> QED BY <1>0, <1>9, <2>1, <2>3, <2>4
  <1>12. ASSUME NEW p \in Proc, Save(p) PROVE WInv'
    <2> DEFINE w == Profile[p]
    <2>1. /\ chain' = chain /\ mined' = mined
          /\ Over(file', Wallet) /\ file'[w] = mem[p]
          /\ \A v \in Wallet : v # w => file'[v] = file[v]
          BY <1>0, <1>12 DEF Save, Over
    <2>2. /\ Over(mem', Proc) /\ mem'[p] = EmptyState /\ \A q \in Proc : q # p => mem'[q] = mem[q]
          /\ Over(pc', Proc) /\ pc'[p] = "idle" /\ \A q \in Proc : q # p => pc'[q] = pc[q]
          /\ Over(job', Proc) /\ \A q \in Proc : q # p => job'[q] = job[q]
          BY <1>0, <1>12 DEF Save, Ends, Over
    <2>3. \A v \in Wallet : Sound(v, file'[v], chain')
          BY <1>0, <2>1 DEF WellAt
    <2>4. ASSUME NEW q \in Proc
          PROVE  /\ Sound(Profile[q], mem'[q], chain')
                 /\ pc'[q] = "send" => Prepared(Profile[q], job'[q])
                 /\ pc'[q] = "found" => Seen(Profile[q], job'[q].found, chain')
      <3>1. CASE q = p
            BY <3>1, <2>2, EmptySound
      <3>2. CASE q # p
            BY <3>2, <1>0, <2>1, <2>2 DEF WellAt
      <3> QED BY <3>1, <3>2
    <2> QED BY <1>0, <2>1, <2>2, <2>3, <2>4 DEF WInv, WellAt
  <1>13. ASSUME NEW p \in Proc, GivesUp(p) \/ Crash(p) PROVE WInv'
    <2>1. Ends(p) /\ chain' = chain /\ mined' = mined /\ file' = file
          BY <1>13 DEF GivesUp, Crash
    <2> QED BY <1>0, <2>1, EndsWell
  <1>14. CASE ArrivesLate
    <2>1. PICK t : chain' = Append(chain, t)
          BY <1>14 DEF ArrivesLate
    <2>2. WellAt(chain')
          BY <2>1, WellGrows
    <2> QED BY <2>2, <1>14 DEF WInv, WellAt, ArrivesLate
  <1>15. CASE Mine
    <2>1. chain' = chain /\ mined' = Len(chain) /\ UNCHANGED <<file, mem, pc, job>>
          BY <1>15 DEF Mine
    <2>2. mined' \in Nat /\ mined' <= Len(chain')
          BY <1>0, <2>1 DEF WellAt
    <2> QED BY <1>0, <2>1, <2>2 DEF WInv, WellAt
  <1>16. CASE UNCHANGED vars
         BY <1>16 DEF WInv, WellAt, vars
  <1> QED BY <1>1, <1>2, <1>3, <1>4, <1>5, <1>6, <1>7, <1>8, <1>10, <1>11, <1>12, <1>13, <1>14,
             <1>15, <1>16 DEF Next, Pays, Scans, Answer, Fault

(* The invariant holds of every behaviour.                                 *)
THEOREM WInvHolds == Spec => []WInv
  <1> QED BY InitWInv, StepWInv, PTL DEF Spec

(* Every record a file or a copy holds can be spent by its owner, and none  *)
(* is doubled: whatever commands run together and wherever they die.        *)
THEOREM RecordsAlwaysFaithful == Spec => []RecordsFaithful
  <1>1. ASSUME NEW w, NEW s, Sound(w, s, chain) PROVE FaithfulState(w, s)
        BY <1>1 DEF Sound, Spendable, NoneTwice, FaithfulState
  <1>2. WInv => RecordsFaithful
        BY <1>1 DEF WInv, WellAt, RecordsFaithful
  <1> QED BY <1>2, WInvHolds, PTL

(* A spent marker in a file is never wrong.                                *)
THEOREM MarkersAlwaysTrue == Spec => []SpentTrue
  <1>1. WInv => SpentTrue
        BY DEF WInv, WellAt, Sound, SpentTrue
  <1> QED BY <1>1, WInvHolds, PTL

-----------------------------------------------------------------------------
(* One-time keys.  A key is derived with an input of the transaction that   *)
(* pays to it as its anchor, and no two transactions on the chain spend the *)
(* same output: so no two of them pay to the same one-time key.  Of a send, *)
(* the key that signs the anchor is the one the derivation used, so a scan  *)
(* arrives at the same context.                                             *)

KeyFrom(key, t) ==
  LET ctx == key.path[1]
  IN  /\ key = ChildKey(key.of, ctx) /\ ctx = Context(ctx.sender, ctx.anchor, ctx.index)
      /\ ctx.anchor \in InputsOf(t) /\ ctx.sender.of \in Wallet /\ ctx.index \in Nat
      /\ t.op = "send" => \E i \in DOMAIN t.ins : t.ins[i].from = ctx.anchor /\ t.ins[i].by = ctx.sender
Derived(t) == \A v \in DOMAIN t.outs : v \in Nat /\ (IsChild(t.outs[v].key) => KeyFrom(t.outs[v].key, t))

KeysAt(c) ==
  /\ \A k \in DOMAIN c : Derived(c[k])
  /\ \A j, k \in DOMAIN c : \A o : o \in InputsOf(c[j]) /\ o \in InputsOf(c[k]) => j = k
KInv ==
  /\ KeysAt(chain)
  /\ \A t \in wire : Derived(t)
  /\ \A w \in Wallet : file[w].next \in Nat
  /\ \A p \in Proc : mem[p].next \in Nat /\ (pc[p] = "send" => Derived(job[p].tx))

(* what a payer derives *)
LEMMA ChildFrom ==
  ASSUME NEW w, NEW s, s.of \in Wallet, NEW a, NEW n \in Nat, NEW t, a \in InputsOf(t),
         t.op = "send" => \E i \in DOMAIN t.ins : t.ins[i].from = a /\ t.ins[i].by = s
  PROVE  KeyFrom(ChildKey(w, Context(s, a, n)), t)
  <1> DEFINE ctx == Context(s, a, n)
             key == ChildKey(w, ctx)
  <1>1. ctx.sender = s /\ ctx.anchor = a /\ ctx.index = n
        BY DEF Context
  <1>2. ctx = Context(ctx.sender, ctx.anchor, ctx.index)
        BY <1>1
  <1> HIDE DEF ctx
  <1>3. key.of = w /\ key.path[1] = ctx
        BY DEF ChildKey
  <1>4. key = ChildKey(key.of, key.path[1])
        BY <1>3
  <1> HIDE DEF key
  <1> QED BY <1>1, <1>2, <1>3, <1>4 DEF KeyFrom, key, ctx

LEMMA BaseIsNoChild == \A w : ~IsChild(BaseKey(w)) /\ BaseKey(w).of = w
  BY DEF IsChild, BaseKey

(* what the other side is paid with: a derived key, or a stranger's own *)
LEMMA PaidFrom ==
  ASSUME NEW to, NEW s, s.of \in Wallet, NEW a, NEW n \in Nat, NEW t, a \in InputsOf(t),
         t.op = "send" => \E i \in DOMAIN t.ins : t.ins[i].from = a /\ t.ins[i].by = s
  PROVE  IsChild(PayKey(to, Context(s, a, n))) => KeyFrom(PayKey(to, Context(s, a, n)), t)
  BY ChildFrom, BaseIsNoChild DEF PayKey

(* the funding a command finds is on a key of its own wallet *)
LEMMA FundingIsOwn ==
  ASSUME NEW s, NEW w, NEW tag, NEW min, NEW c \in SelectFunding(chain, s, w, tag, min, Prefer)
  PROVE  c.key.of = w
  <1>1. c \in BaseCoins(chain, w, min) \/ c \in StealthCoins(chain, s, w, tag, min)
        BY DEF SelectFunding, Largest
  <1>2. CASE c \in BaseCoins(chain, w, min)
        BY <1>2 DEF BaseCoins, Coin, BaseKey
  <1>3. CASE c \in StealthCoins(chain, s, w, tag, min)
    <2>1. PICK r \in s.utxos : c = Coin(r.at, ChildKey(w, r.ctx), "stealth", ValueAt(chain, r.at))
          BY <1>3 DEF StealthCoins
    <2>2. c.key = ChildKey(w, r.ctx)
          BY <2>1 DEF Coin
    <2> QED BY <2>2 DEF ChildKey
  <1> QED BY <1>1, <1>2, <1>3

(* send derives with the key that signs *)
LEMMA SendDerived ==
  ASSUME NEW p \in Proc, NEW c, c.key.of \in Wallet, mem[p].next \in Nat, NEW near
  PROVE  Derived(SendJob(p, c, near).tx)
  <1> DEFINE r == job[p].req
             pay == Output(PayKey(r.to, Context(SendingKey(p, c), c.at, 0)), r.sats)
             change == Context(SendingKey(p, c), c.at, mem[p].next)
             back == Output(ChildKey(Profile[p], change), c.value - r.sats - Fee)
             in == SpendCoin(c)
             t == [op |-> "send", who |-> Profile[p], ins |-> <<in>>, near |-> near, outs |-> <<pay, back>>]
             k == {[vout |-> 1, owner |-> Profile[p], ctx |-> change]}
             j == SendJob(p, c, near)
  <1>1. j.tx = t
    <2>1. j = [NoJob EXCEPT !.req = r, !.tx = t, !.keep = k, !.mark = {}]
          BY DEF SendJob, MarkedBySend
    <2> HIDE DEF r, t, k, j
    <2> QED BY <2>1, Filled
  <1>2. in.from = c.at /\ in.by = c.key
        BY DEF SpendCoin
  <1>3. pay.key = PayKey(r.to, Context(c.key, c.at, 0)) /\ back.key = ChildKey(Profile[p], Context(c.key, c.at, mem[p].next))
        BY DEF Output, SendingKey
  <1> HIDE DEF r, pay, change, back, in, j
  <1>4. t.outs = <<pay, back>> /\ t.ins = <<in>>
        OBVIOUS
  <1> HIDE DEF t
  <1>5. 1 \in DOMAIN t.ins /\ t.ins[1].from = c.at /\ t.ins[1].by = c.key
        BY <1>2, <1>4
  <1>6. c.at \in InputsOf(t)
        BY <1>5 DEF InputsOf
  <1>7. IsChild(pay.key) => KeyFrom(pay.key, t)
        BY <1>3, <1>5, <1>6, PaidFrom
  <1>8. KeyFrom(back.key, t)
        BY <1>3, <1>5, <1>6, ChildFrom
  <1>9. \A v \in DOMAIN t.outs : v \in Nat /\ (t.outs[v] = pay \/ t.outs[v] = back)
        BY <1>4
  <1>10. Derived(t)
        BY <1>7, <1>8, <1>9 DEF Derived
  <1> QED BY <1>1, <1>10 DEF j

(* deposit derives with its base key, whatever coin it spends *)
LEMMA DepositDerived ==
  ASSUME NEW p \in Proc, NEW c, Profile[p] \in Wallet, NEW near
  PROVE  Derived(DepositJob(p, c, near).tx)
  <1> DEFINE w == Profile[p]
             r == job[p].req
             pay == Context(BaseKey(w), c.at, 0)
             change == Context(BaseKey(w), c.at, 1)
             rest == c.value - r.sats - Fee
             note == Output(IF r.how = "rpa" THEN ChildKey(w, pay) ELSE BaseKey(w), r.sats)
             back == Output(IF StealthChange(r, c) THEN ChildKey(w, change) ELSE BaseKey(w), rest)
             in == SpendCoin(c)
             t == [op |-> "deposit", who |-> w, ins |-> <<in>>, near |-> near,
                   outs |-> IF rest >= Dust THEN <<note, back>> ELSE <<note>>]
             k == IF rest >= Dust /\ StealthChange(r, c) THEN {[vout |-> 1, owner |-> Me, ctx |-> change]} ELSE {}
             m == IF c.source = "stealth" THEN {c.at} ELSE {}
             d == {[vout |-> 0, key |-> note.key]}
             j == DepositJob(p, c, near)
  <1>1. j.tx = t
    <2>1. j = [NoJob EXCEPT !.req = r, !.tx = t, !.keep = k, !.mark = m, !.stage = d]
          BY DEF DepositJob
    <2> HIDE DEF r, t, k, m, d, j
    <2> QED BY <2>1, Filled
  <1>2. in.from = c.at
        BY DEF SpendCoin
  <1>3. /\ note.key \in {ChildKey(w, pay), BaseKey(w)}
        /\ back.key \in {ChildKey(w, change), BaseKey(w)}
        BY DEF Output
  <1> HIDE DEF r, rest, note, back, in, j
  <1>4. (t.outs = <<note, back>> \/ t.outs = <<note>>) /\ t.ins = <<in>> /\ t.op = "deposit"
        OBVIOUS
  <1> HIDE DEF t
  <1>5. 1 \in DOMAIN t.ins /\ t.ins[1].from = c.at
        BY <1>2, <1>4
  <1>6. c.at \in InputsOf(t)
        BY <1>5 DEF InputsOf
  <1>7. KeyFrom(ChildKey(w, pay), t) /\ KeyFrom(ChildKey(w, change), t)
        BY <1>4, <1>6, ChildFrom, BaseIsNoChild
  <1>8. (IsChild(note.key) => KeyFrom(note.key, t)) /\ (IsChild(back.key) => KeyFrom(back.key, t))
        BY <1>3, <1>7, BaseIsNoChild
  <1>9. \A v \in DOMAIN t.outs : v \in Nat /\ (t.outs[v] = note \/ t.outs[v] = back)
        BY <1>4
  <1>10. Derived(t)
        BY <1>8, <1>9 DEF Derived
  <1> QED BY <1>1, <1>10 DEF j

(* a withdrawal is anchored at its fee coin *)
LEMMA ExternalDerived ==
  ASSUME NEW p \in Proc, NEW o, NEW c, Profile[p] \in Wallet, mem[p].next \in Nat, NEW near
  PROVE  Derived(ExternalJob(p, o, c, near).tx)
  <1> DEFINE w == Profile[p]
             r == job[p].req
             pay == Context(BaseKey(w), c.at, 0)
             change == Context(BaseKey(w), c.at, mem[p].next)
             rest == c.value - Fee
             keeps == Output(BaseKey(Shard), ValueAt(chain, o) - r.sats)
             pays == Output(PayKey(r.to, pay), r.sats)
             back == Output(ChildKey(w, change), rest)
             shard == SpendShard(o)
             in == SpendCoin(c)
             t == [op |-> "withdraw", who |-> w, ins |-> <<shard, in>>, near |-> near,
                   outs |-> IF rest >= Dust THEN Append(<<keeps, pays>>, back) ELSE <<keeps, pays>>]
             k == IF rest >= Dust THEN {[vout |-> 2, owner |-> w, ctx |-> change]} ELSE {}
             m == IF rest >= Dust /\ c.source = "stealth" THEN {c.at} ELSE {}
             j == ExternalJob(p, o, c, near)
  <1>1. j.tx = t
    <2>1. j = [NoJob EXCEPT !.req = r, !.tx = t, !.keep = k, !.mark = m]
          BY DEF ExternalJob
    <2> HIDE DEF r, t, k, m, j
    <2> QED BY <2>1, Filled
  <1>2. in.from = c.at
        BY DEF SpendCoin
  <1>3. keeps.key = BaseKey(Shard) /\ pays.key = PayKey(r.to, pay) /\ back.key = ChildKey(w, change)
        BY DEF Output
  <1> HIDE DEF r, rest, keeps, pays, back, shard, in, j
  <1>4. /\ \A v \in DOMAIN t.outs : v \in Nat /\ (t.outs[v] = keeps \/ t.outs[v] = pays \/ t.outs[v] = back)
        /\ t.ins = <<shard, in>> /\ t.op = "withdraw"
    <2>1. t.outs = Append(<<keeps, pays>>, back) \/ t.outs = <<keeps, pays>>
          OBVIOUS
    <2>2. t.ins = <<shard, in>> /\ t.op = "withdraw"
          OBVIOUS
    <2> HIDE DEF t
    <2> QED BY <2>1, <2>2
  <1> HIDE DEF t
  <1>5. 2 \in DOMAIN t.ins /\ t.ins[2].from = c.at
        BY <1>2, <1>4
  <1>6. c.at \in InputsOf(t)
        BY <1>5 DEF InputsOf
  <1>7. KeyFrom(ChildKey(w, change), t)
        BY <1>4, <1>6, ChildFrom, BaseIsNoChild
  <1>8. IsChild(PayKey(r.to, pay)) => KeyFrom(PayKey(r.to, pay), t)
        BY <1>4, <1>6, PaidFrom, BaseIsNoChild
  <1>9. /\ IsChild(keeps.key) => KeyFrom(keeps.key, t)
        /\ IsChild(pays.key) => KeyFrom(pays.key, t)
        /\ IsChild(back.key) => KeyFrom(back.key, t)
        BY <1>3, <1>7, <1>8, BaseIsNoChild
  <1>10. Derived(t)
        BY <1>4, <1>9 DEF Derived
  <1> QED BY <1>1, <1>10 DEF j

(* without one it is anchored at the covenant output it spends *)
LEMMA FromShardDerived ==
  ASSUME NEW p \in Proc, NEW o, Profile[p] \in Wallet, NEW near
  PROVE  Derived(FromShardJob(p, o, near).tx)
  <1> DEFINE w == Profile[p]
             r == job[p].req
             pay == Context(BaseKey(w), ShardAnchor(o), 0)
             keeps == Output(BaseKey(Shard), ValueAt(chain, o) - r.sats - Fee)
             pays == Output(PayKey(r.to, pay), r.sats)
             shard == SpendShard(o)
             t == [op |-> "withdraw", who |-> w, ins |-> <<shard>>, near |-> near, outs |-> <<keeps, pays>>]
             j == FromShardJob(p, o, near)
  <1>1. j.tx = t
    <2>1. j = [NoJob EXCEPT !.req = r, !.tx = t]
          BY DEF FromShardJob
    <2> HIDE DEF r, t, j
    <2> QED BY <2>1, Filled
  <1>2. shard.from = o
        BY DEF SpendShard
  <1>3. keeps.key = BaseKey(Shard) /\ pays.key = PayKey(r.to, Context(BaseKey(w), o, 0))
        BY DEF Output, ShardAnchor
  <1> HIDE DEF r, keeps, pays, shard, j
  <1>4. t.outs = <<keeps, pays>> /\ t.ins = <<shard>> /\ t.op = "withdraw"
        OBVIOUS
  <1> HIDE DEF t
  <1>5. 1 \in DOMAIN t.ins /\ t.ins[1].from = o
        BY <1>2, <1>4
  <1>6. o \in InputsOf(t)
        BY <1>5 DEF InputsOf
  <1>7. ~IsChild(keeps.key) /\ (IsChild(pays.key) => KeyFrom(pays.key, t))
        BY <1>3, <1>4, <1>6, PaidFrom, BaseIsNoChild
  <1>8. \A v \in DOMAIN t.outs : v \in Nat /\ (t.outs[v] = keeps \/ t.outs[v] = pays)
        BY <1>4
  <1>10. Derived(t)
        BY <1>7, <1>8 DEF Derived
  <1> QED BY <1>1, <1>10 DEF j

-----------------------------------------------------------------------------
(* What a patch and a merge make of the other fields                       *)

(* the fields after an upsert *)
LEMMA UpsertFields ==
  ASSUME NEW s, StateShape(s), NEW recs
  PROVE  LET merged(n) == [n EXCEPT !.spent = \E r \in s.utxos : r.at = n.at /\ r.spent]
             u == Upsert(s, recs)
         IN  /\ StateShape(u) /\ u.next = s.next /\ u.deposits = s.deposits
             /\ u.utxos = {r \in s.utxos : \A n \in recs : n.at # r.at} \cup {merged(n) : n \in recs}
  <1> DEFINE merged(n) == [n EXCEPT !.spent = \E r \in s.utxos : r.at = n.at /\ r.spent]
             all == {r \in s.utxos : \A n \in recs : n.at # r.at} \cup {merged(n) : n \in recs}
             h == HeadAfter(s, recs)
             x == [s EXCEPT !.utxos = all]
             v == [x EXCEPT !.head = h]
             u == Upsert(s, recs)
  <1>1. u = v
        BY DEF Upsert
  <1> HIDE DEF all, h, u
  <1>2. StateShape(x) /\ x.utxos = all /\ x.next = s.next /\ x.deposits = s.deposits
        BY UtxosRefilled
  <1> HIDE DEF x
  <1>3. StateShape(v) /\ v.utxos = all /\ v.next = s.next /\ v.deposits = s.deposits
        BY <1>2, HeadRefilled
  <1>4. StateShape(u) /\ u.next = s.next /\ u.deposits = s.deposits /\ u.utxos = all
        BY <1>1, <1>3
  <1> QED BY <1>4 DEF u, all

(* and after outpoints are marked *)
LEMMA MarkFields ==
  ASSUME NEW s, StateShape(s), NEW os
  PROVE  LET u == MarkSpent(s, os)
         IN  /\ StateShape(u) /\ u.next = s.next /\ u.deposits = s.deposits
             /\ u.utxos = {[r EXCEPT !.spent = @ \/ r.at \in os] : r \in s.utxos}
  <1> DEFINE all == {[r EXCEPT !.spent = @ \/ r.at \in os] : r \in s.utxos}
             u == MarkSpent(s, os)
  <1>1. u = [s EXCEPT !.utxos = all]
        BY DEF MarkSpent
  <1> HIDE DEF all, u
  <1>2. StateShape(u) /\ u.next = s.next /\ u.deposits = s.deposits /\ u.utxos = all
        BY <1>1, UtxosRefilled
  <1> QED BY <1>2 DEF u, all

(* what a later state of a profile keeps of an earlier one *)
AtsOf(recs) == {r.at : r \in recs}
SpentOf(s) == {r.at : r \in {r \in s.utxos : r.spent}}
Keeps(s, u) ==
  /\ AtsOf(s.utxos) \subseteq AtsOf(u.utxos)
  /\ AtsOf(s.deposits) \subseteq AtsOf(u.deposits)
  /\ SpentOf(s) \subseteq SpentOf(u)
  /\ s.next \in Nat => u.next \in Nat /\ s.next <= u.next

LEMMA KeepsItself == \A s : Keeps(s, s)
  BY DEF Keeps

LEMMA KeepsOn ==
  ASSUME NEW s, NEW u, NEW v, Keeps(s, u), Keeps(u, v)
  PROVE  Keeps(s, v)
  <1>1. s.next \in Nat => v.next \in Nat /\ s.next <= v.next
        BY DEF Keeps
  <1> QED BY <1>1 DEF Keeps

(* an upsert forgets no record and no marker *)
LEMMA UpsertKeeps ==
  ASSUME NEW s, StateShape(s), NEW recs, \A n \in recs : RecordShape(n)
  PROVE  Keeps(s, Upsert(s, recs)) /\ Upsert(s, recs).next = s.next
  <1> DEFINE merged(n) == [n EXCEPT !.spent = \E r \in s.utxos : r.at = n.at /\ r.spent]
             u == Upsert(s, recs)
  <1>1. /\ u.utxos = {r \in s.utxos : \A n \in recs : n.at # r.at} \cup {merged(n) : n \in recs}
        /\ u.next = s.next /\ u.deposits = s.deposits
        BY UpsertFields
  <1>2. ASSUME NEW n \in recs
        PROVE  merged(n).at = n.at /\ merged(n).spent = \E r \in s.utxos : r.at = n.at /\ r.spent
    <2> DEFINE b == \E r \in s.utxos : r.at = n.at /\ r.spent
    <2> HIDE DEF b
    <2>1. LET q == [n EXCEPT !.spent = b] IN q.at = n.at /\ q.spent = b
          BY Marked
    <2> QED BY <2>1 DEF b
  <1> HIDE DEF merged, u
  <1>3. ASSUME NEW r \in s.utxos
        PROVE  \E q \in u.utxos : q.at = r.at /\ (r.spent => q.spent)
    <2>1. CASE \A n \in recs : n.at # r.at
          BY <2>1, <1>1
    <2>2. CASE \E n \in recs : n.at = r.at
      <3>1. PICK n \in recs : n.at = r.at
            BY <2>2
      <3>2. merged(n) \in u.utxos
            BY <1>1
      <3>3. r.spent => merged(n).spent
            BY <3>1, <1>2
      <3> QED BY <3>1, <3>2, <3>3, <1>2, ZenonT(30)
    <2> QED BY <2>1, <2>2
  <1>4. Keeps(s, u)
    <2>1. AtsOf(s.utxos) \subseteq AtsOf(u.utxos)
          BY <1>3 DEF AtsOf
    <2>2. SpentOf(s) \subseteq SpentOf(u)
          BY <1>3 DEF SpentOf
    <2> QED BY <2>1, <2>2, <1>1 DEF Keeps
  <1> QED BY <1>1, <1>4 DEF u

(* neither does marking *)
LEMMA MarkKeeps ==
  ASSUME NEW s, StateShape(s), \A r \in s.utxos : RecordShape(r), NEW os
  PROVE  /\ Keeps(s, MarkSpent(s, os)) /\ MarkSpent(s, os).next = s.next
         /\ StateShape(MarkSpent(s, os))
  <1> DEFINE marked(r) == [r EXCEPT !.spent = @ \/ r.at \in os]
             u == MarkSpent(s, os)
  <1>1. /\ u.utxos = {marked(r) : r \in s.utxos} /\ u.next = s.next /\ u.deposits = s.deposits
        /\ StateShape(u)
        BY MarkFields
  <1>2. ASSUME NEW r \in s.utxos
        PROVE  marked(r).at = r.at /\ (r.spent => marked(r).spent)
    <2> DEFINE b == r.spent \/ r.at \in os
    <2>1. marked(r) = [r EXCEPT !.spent = b] /\ RecordShape(r)
          BY DEF RecordShape
    <2>2. r.spent => b
          OBVIOUS
    <2> HIDE DEF b, marked
    <2>3. LET q == [r EXCEPT !.spent = b] IN q.at = r.at /\ q.spent = b
          BY <2>1, Marked
    <2> QED BY <2>1, <2>2, <2>3
  <1> HIDE DEF marked, u
  <1>3. AtsOf(s.utxos) \subseteq AtsOf(u.utxos)
        BY <1>1, <1>2 DEF AtsOf
  <1>4. SpentOf(s) \subseteq SpentOf(u)
        BY <1>1, <1>2 DEF SpentOf
  <1>5. Keeps(s, u)
        BY <1>1, <1>3, <1>4 DEF Keeps
  <1> QED BY <1>1, <1>5 DEF u

(* nor the patch after the node's answer *)
LEMMA PatchKeeps ==
  ASSUME NEW s, StateShape(s), \A r \in s.utxos : RecordShape(r), NEW j, NEW txid, NEW w
  PROVE  Keeps(s, Patch(s, j, txid, w)) /\ Patch(s, j, txid, w).next = s.next
  <1> DEFINE recs == Recorded(txid, w, j.keep)
             u == MarkSpent(s, j.mark)
             v == Upsert(u, recs)
             more == Staged(txid, j.stage)
             q == [v EXCEPT !.deposits = v.deposits \cup more]
  <1>1. Keeps(s, u) /\ u.next = s.next /\ StateShape(u)
        BY MarkKeeps
  <1>2. \A n \in recs : RecordShape(n)
    <2>1. ASSUME NEW k \in j.keep
          PROVE  RecordShape(Record([txid |-> txid, vout |-> k.vout], k.owner, w, k.ctx))
          BY RecordFields
    <2> QED BY <2>1 DEF Recorded
  <1>3. Patch(s, j, txid, w) = q
        BY DEF Patch
  <1> HIDE DEF u, recs, more
  <1>4. Keeps(u, v) /\ v.next = u.next /\ StateShape(v)
        BY <1>1, <1>2, UpsertKeeps, UpsertFields
  <1> HIDE DEF v
  <1>5. q.utxos = v.utxos /\ q.next = v.next /\ q.deposits = v.deposits \cup more
        BY <1>4, DepositsRefilled
  <1> HIDE DEF q
  <1>6. Keeps(v, q)
        BY <1>5 DEF Keeps, AtsOf, SpentOf
  <1>7. Keeps(s, q) /\ q.next = s.next
        BY <1>1, <1>4, <1>5, <1>6, KeepsOn
  <1> QED BY <1>3, <1>7

(* the counter moves on by one *)
LEMMA TakeKeeps ==
  ASSUME NEW s, StateShape(s), s.next \in Nat
  PROVE  Keeps(s, TakeChangeIndex(s)) /\ TakeChangeIndex(s).next \in Nat
  <1> DEFINE u == TakeChangeIndex(s)
  <1>1. u = [s EXCEPT !.next = s.next + 1]
        BY DEF TakeChangeIndex
  <1> HIDE DEF u
  <1>2. u.utxos = s.utxos /\ u.next = s.next + 1 /\ u.deposits = s.deposits
        BY <1>1, NextRefilled
  <1>3. Keeps(s, u) /\ u.next \in Nat
        BY <1>2 DEF Keeps, SpentOf
  <1> QED BY <1>3 DEF u

-----------------------------------------------------------------------------
(* The keys' invariant                                                     *)

(* a transaction the node accepts spends what no other on the chain spends *)
LEMMA KeysGrow ==
  ASSUME NEW S, NEW c \in Seq(S), KeysAt(c), NEW t, Derived(t), Acceptable(c, t)
  PROVE  KeysAt(Append(c, t))
  <1> DEFINE d == Append(c, t)
             n == Len(c) + 1
  <1>1. /\ DOMAIN d = DOMAIN c \cup {n} /\ n \notin DOMAIN c
        /\ d[n] = t /\ \A k \in DOMAIN c : d[k] = c[k]
        OBVIOUS
  <1>2. InputsOf(t) \cap Spent(c) = {}
        BY DEF Acceptable, InputsOf, Live
  <1>3. ASSUME NEW k \in DOMAIN c PROVE InputsOf(c[k]) \subseteq Spent(c)
        BY DEF Spent
  <1> HIDE DEF d, n
  <1>4. \A k \in DOMAIN d : Derived(d[k])
        BY <1>1 DEF KeysAt
  <1>5. ASSUME NEW j \in DOMAIN d, NEW k \in DOMAIN d, NEW o, o \in InputsOf(d[j]), o \in InputsOf(d[k])
        PROVE  j = k
    <2>1. CASE j \in DOMAIN c /\ k \in DOMAIN c
          BY <2>1, <1>1, <1>5 DEF KeysAt
    <2>2. CASE j = n /\ k \in DOMAIN c
          BY <2>2, <1>1, <1>2, <1>3, <1>5
    <2>3. CASE j \in DOMAIN c /\ k = n
          BY <2>3, <1>1, <1>2, <1>3, <1>5
    <2> QED BY <2>1, <2>2, <2>3, <1>1
  <1>6. KeysAt(d)
        BY <1>4, <1>5 DEF KeysAt
  <1> QED BY <1>6 DEF d

(* a step of one command that leaves the files as they are *)
LEMMA KMoves ==
  ASSUME KInv, KeysAt(chain'), wire' = wire, file' = file, NEW p \in Proc,
         \A q \in Proc : q # p => mem'[q] = mem[q] /\ pc'[q] = pc[q] /\ job'[q] = job[q],
         mem'[p].next \in Nat,
         pc'[p] = "send" => Derived(job'[p].tx)
  PROVE  KInv'
  <1>1. ASSUME NEW q \in Proc
        PROVE  mem'[q].next \in Nat /\ (pc'[q] = "send" => Derived(job'[q].tx))
    <2>1. CASE q = p
          BY <2>1
    <2>2. CASE q # p
          BY <2>2 DEF KInv
    <2> QED BY <2>1, <2>2
  <1> QED BY <1>1 DEF KInv

(* what a command that ends leaves of itself *)
LEMMA EndsLeaves ==
  ASSUME Over(mem, Proc), Over(pc, Proc), Over(job, Proc), NEW p \in Proc, Ends(p)
  PROVE  /\ mem'[p] = EmptyState /\ pc'[p] = "idle" /\ mem'[p].next \in Nat
         /\ \A q \in Proc : q # p => mem'[q] = mem[q] /\ pc'[q] = pc[q] /\ job'[q] = job[q]
  <1>1. mem'[p] = EmptyState /\ pc'[p] = "idle"
        BY DEF Ends, Over
  <1>2. EmptyState.next \in Nat
        BY DEF EmptyState
  <1>3. \A q \in Proc : q # p => mem'[q] = mem[q] /\ pc'[q] = pc[q] /\ job'[q] = job[q]
        BY DEF Ends, Over
  <1> QED BY <1>1, <1>2, <1>3

(* what one that sends has then *)
LEMMA BroadcastsHas ==
  ASSUME Over(mem, Proc), Over(pc, Proc), Over(job, Proc), NEW p \in Proc, NEW j, NEW copy,
         Broadcasts(p, j, copy)
  PROVE  /\ mem'[p] = copy /\ pc'[p] = "send" /\ job'[p] = j
         /\ \A q \in Proc : q # p => mem'[q] = mem[q] /\ pc'[q] = pc[q] /\ job'[q] = job[q]
         /\ chain' = chain /\ wire' = wire /\ file' = file /\ mined' = mined
  BY DEF Broadcasts, Over

LEMMA InitKInv == Init => KInv
  <1> SUFFICES ASSUME Init PROVE KInv
      OBVIOUS
  <1>1. EmptyState.next \in Nat
        BY DEF EmptyState
  <1>2. Derived(Genesis)
    <2>1. DOMAIN Genesis.outs = DOMAIN Coins /\ DOMAIN Coins \subseteq Nat
          BY TxAssumption DEF Genesis
    <2>2. ASSUME NEW v \in DOMAIN Coins PROVE Genesis.outs[v].key = BaseKey(Coins[v].owner)
          BY DEF Genesis
    <2> QED BY <2>1, <2>2, BaseIsNoChild DEF Derived
  <1>3. DOMAIN chain = {1} /\ chain[1] = Genesis
        BY DEF Init
  <1>4. KeysAt(chain)
        BY <1>2, <1>3 DEF KeysAt
  <1> QED BY <1>1, <1>4 DEF KInv, Init

(* Every step keeps it: each command derives from an input of the           *)
(* transaction it builds, and the node accepts a transaction only if what   *)
(* it spends is unspent.                                                    *)
LEMMA StepKInv == WInv /\ KInv /\ [Next]_vars => KInv'
  <1> SUFFICES ASSUME WInv, KInv, [Next]_vars PROVE KInv'
      OBVIOUS
  <1>0. /\ Over(mem, Proc) /\ Over(pc, Proc) /\ Over(job, Proc) /\ Over(file, Wallet)
        /\ \A p \in Proc : Profile[p] \in Wallet /\ StateShape(mem[p]) /\ \A r \in mem[p].utxos : RecordShape(r)
        /\ \A w \in Wallet : StateShape(file[w])
        BY WalletAssumption DEF WInv, WellAt, Sound, Spendable
  <1>k. KeysAt(chain)
        BY DEF KInv
  <1>1. ASSUME NEW p \in Proc, Start(p) PROVE KInv'
    <2>1. /\ chain' = chain /\ wire' = wire /\ file' = file
          /\ mem'[p] = file[Profile[p]] /\ pc'[p] = "ready"
          /\ \A q \in Proc : q # p => mem'[q] = mem[q] /\ pc'[q] = pc[q] /\ job'[q] = job[q]
          BY <1>0, <1>1 DEF Start, Over
    <2>2. file[Profile[p]].next \in Nat
          BY <1>0 DEF KInv
    <2> QED BY <1>k, <2>1, <2>2, KMoves
  <1>2. ASSUME NEW p \in Proc, Send(p) PROVE KInv'
    <2>1. PICK c \in SelectFunding(chain, mem[p], Profile[p], Profile[p], SendNeeds(job[p].req), Prefer),
               near \in Bucket : Broadcasts(p, SendJob(p, c, near), TakeChangeIndex(mem[p]))
          BY <1>2 DEF Send
    <2>2. c.key.of \in Wallet
          BY <1>0, FundingIsOwn
    <2>3. mem[p].next \in Nat /\ TakeChangeIndex(mem[p]).next \in Nat
          BY <1>0, TakeKeeps DEF KInv
    <2>4. Derived(SendJob(p, c, near).tx)
          BY <2>2, <2>3, SendDerived
    <2> QED BY <1>0, <1>k, <2>1, <2>3, <2>4, BroadcastsHas, KMoves
  <1>3. ASSUME NEW p \in Proc, Deposit(p) PROVE KInv'
    <2>1. PICK c, near : Broadcasts(p, DepositJob(p, c, near), mem[p])
          BY <1>3 DEF Deposit
    <2>2. mem[p].next \in Nat /\ Derived(DepositJob(p, c, near).tx)
          BY <1>0, DepositDerived DEF KInv
    <2> QED BY <1>0, <1>k, <2>1, <2>2, BroadcastsHas, KMoves
  <1>4. ASSUME NEW p \in Proc, WithdrawExternal(p) PROVE KInv'
    <2>1. PICK o, c, near : Broadcasts(p, ExternalJob(p, o, c, near), TakeChangeIndex(mem[p]))
          BY <1>4 DEF WithdrawExternal
    <2>2. mem[p].next \in Nat /\ TakeChangeIndex(mem[p]).next \in Nat
          BY <1>0, TakeKeeps DEF KInv
    <2>3. Derived(ExternalJob(p, o, c, near).tx)
          BY <1>0, <2>2, ExternalDerived
    <2> QED BY <1>0, <1>k, <2>1, <2>2, <2>3, BroadcastsHas, KMoves
  <1>5. ASSUME NEW p \in Proc, WithdrawFromShard(p) PROVE KInv'
    <2>1. PICK o, near : Broadcasts(p, FromShardJob(p, o, near), mem[p])
          BY <1>5 DEF WithdrawFromShard
    <2>2. mem[p].next \in Nat /\ Derived(FromShardJob(p, o, near).tx)
          BY <1>0, FromShardDerived DEF KInv
    <2> QED BY <1>0, <1>k, <2>1, <2>2, BroadcastsHas, KMoves
  <1>6. ASSUME NEW p \in Proc, Throws(p) \/ Refuses(p) \/ NodeRejects(p) \/ Crash(p) PROVE KInv'
    <2>1. Ends(p) /\ chain' = chain /\ wire' = wire /\ file' = file
          BY <1>6 DEF Throws, Refuses, NodeRejects, Crash
    <2>2. /\ pc'[p] = "idle" /\ mem'[p].next \in Nat
          /\ \A q \in Proc : q # p => mem'[q] = mem[q] /\ pc'[q] = pc[q] /\ job'[q] = job[q]
          BY <1>0, <2>1, EndsLeaves
    <2> QED BY <1>k, <2>1, <2>2, KMoves
  <1>7. ASSUME NEW p \in Proc, Scan(p) PROVE KInv'
    <2>1. /\ chain' = chain /\ wire' = wire /\ file' = file /\ mem' = mem /\ pc'[p] = "found"
          /\ \A q \in Proc : q # p => pc'[q] = pc[q] /\ job'[q] = job[q]
          BY <1>0, <1>7 DEF Scan, Over
    <2>2. mem[p].next \in Nat
          BY DEF KInv
    <2> QED BY <1>k, <2>1, <2>2, KMoves
  <1>8. ASSUME NEW p \in Proc, Merge(p) PROVE KInv'
    <2> DEFINE w == Profile[p]
               recs == {Record(m.at, w, w, m.ctx) : m \in job[p].found}
    <2>1. \A n \in recs : RecordShape(n)
          BY RecordFields
    <2> HIDE DEF recs
    <2>2. Upsert(file[w], recs).next = file[w].next
          BY <1>0, <2>1, UpsertKeeps
    <2>3. /\ chain' = chain /\ wire' = wire /\ file' = file
          /\ mem'[p] = Upsert(file[w], recs) /\ pc'[p] = "save"
          /\ \A q \in Proc : q # p => mem'[q] = mem[q] /\ pc'[q] = pc[q] /\ job'[q] = job[q]
          BY <1>0, <1>8 DEF Merge, Over, recs
    <2>4. mem'[p].next \in Nat
          BY <1>0, <2>2, <2>3 DEF KInv
    <2> QED BY <1>k, <2>3, <2>4, KMoves
  <1>9. ASSUME NEW p \in Proc, NEW txid, GetsTxid(p, txid), KeysAt(chain'),
               wire' = wire, file' = file, job' = job
        PROVE  KInv'
    <2>1. mem'[p] = Patch(mem[p], job[p], txid, Profile[p]) /\ pc'[p] = "save"
          BY <1>0, <1>9 DEF GetsTxid, Over
    <2>2. \A q \in Proc : q # p => mem'[q] = mem[q] /\ pc'[q] = pc[q]
          BY <1>0, <1>9 DEF GetsTxid, Over
    <2>3. mem'[p].next \in Nat
          BY <1>0, <2>1, PatchKeeps DEF KInv
    <2> QED BY <1>9, <2>1, <2>2, <2>3, KMoves
  <1>10. ASSUME NEW p \in Proc, NodeAccepts(p) PROVE KInv'
    <2>1. PICK S : chain \in Seq(S)
          BY DEF WInv, WellAt
    <2>2. Derived(job[p].tx) /\ Acceptable(chain, job[p].tx)
          BY <1>10 DEF NodeAccepts, KInv
    <2>3. KeysAt(Append(chain, job[p].tx))
          BY <1>k, <2>1, <2>2, KeysGrow
    <2>4. /\ chain' = Append(chain, job[p].tx) /\ GetsTxid(p, Len(chain) + 1)
          /\ wire' = wire /\ file' = file /\ job' = job
          BY <1>10 DEF NodeAccepts
    <2> QED BY <1>9, <2>3, <2>4
  <1>11. ASSUME NEW p \in Proc, NodeEchoes(p) PROVE KInv'
    <2>1. /\ GetsTxid(p, TxidOf(chain, job[p].tx))
          /\ chain' = chain /\ wire' = wire /\ file' = file /\ job' = job
          BY <1>11 DEF NodeEchoes
    <2> QED BY <1>9, <1>k, <2>1
  <1>12. ASSUME NEW p \in Proc, Save(p) PROVE KInv'
    <2>1. \A w \in Wallet : file'[w].next \in Nat
          BY <1>0, <1>12 DEF Save, Over, KInv
    <2>2. Ends(p) /\ chain' = chain /\ wire' = wire
          BY <1>12 DEF Save
    <2>3. /\ pc'[p] = "idle" /\ mem'[p].next \in Nat
          /\ \A q \in Proc : q # p => mem'[q] = mem[q] /\ pc'[q] = pc[q] /\ job'[q] = job[q]
          BY <1>0, <2>2, EndsLeaves
    <2>4. \A q \in Proc : mem'[q].next \in Nat /\ (pc'[q] = "send" => Derived(job'[q].tx))
          BY <2>3 DEF KInv
    <2> QED BY <1>k, <2>1, <2>2, <2>4 DEF KInv
  <1>13. ASSUME NEW p \in Proc, GivesUp(p) PROVE KInv'
    <2>1. pc[p] = "send" /\ wire' = wire \cup {job[p].tx} /\ Ends(p) /\ chain' = chain /\ file' = file
          BY <1>13 DEF GivesUp
    <2>2. /\ pc'[p] = "idle" /\ mem'[p].next \in Nat
          /\ \A q \in Proc : q # p => mem'[q] = mem[q] /\ pc'[q] = pc[q] /\ job'[q] = job[q]
          BY <1>0, <2>1, EndsLeaves
    <2>3. \A q \in Proc : mem'[q].next \in Nat /\ (pc'[q] = "send" => Derived(job'[q].tx))
          BY <2>2 DEF KInv
    <2>4. \A t \in wire' : Derived(t)
          BY <2>1 DEF KInv
    <2> QED BY <1>k, <2>1, <2>3, <2>4 DEF KInv
  <1>14. CASE ArrivesLate
    <2>1. PICK t \in wire : /\ Acceptable(chain, t) /\ chain' = Append(chain, t) /\ wire' = wire \ {t}
                            /\ UNCHANGED <<mined, file, mem, pc, job>>
          BY <1>14 DEF ArrivesLate
    <2>2. PICK S : chain \in Seq(S)
          BY DEF WInv, WellAt
    <2>3. Derived(t)
          BY DEF KInv
    <2>4. KeysAt(chain')
          BY <1>k, <2>1, <2>2, <2>3, KeysGrow
    <2> QED BY <2>1, <2>4 DEF KInv
  <1>15. CASE Mine \/ UNCHANGED vars
    <2>1. UNCHANGED <<chain, wire, file, mem, pc, job>>
          BY <1>15 DEF Mine, vars
    <2> QED BY <2>1 DEF KInv
  <1> QED BY <1>1, <1>2, <1>3, <1>4, <1>5, <1>6, <1>7, <1>8, <1>10, <1>11, <1>12, <1>13, <1>14,
             <1>15 DEF Next, Pays, Scans, Answer, Fault

(* Both invariants hold of every behaviour.                                *)
LEMMA KInvHolds == Spec => [](WInv /\ KInv)
  <1>1. Init => WInv /\ KInv
        BY InitWInv, InitKInv
  <1>2. WInv /\ KInv /\ [Next]_vars => (WInv /\ KInv)'
        BY StepWInv, StepKInv
  <1> QED BY <1>1, <1>2, PTL DEF Spec

(* No two transactions pay to the same one-time key, for any number of     *)
(* commands on any number of profiles: the counter of change indices plays *)
(* no part in the argument, only the anchor does.                          *)
THEOREM KeysAreUsedOnce == Spec => []OneTimeKeys
  <1>1. ASSUME KInv PROVE OneTimeKeys
    <2> SUFFICES ASSUME NEW j \in DOMAIN chain, NEW k \in DOMAIN chain,
                        NEW key \in KeysOf(j) \cap KeysOf(k), IsChild(key)
                 PROVE  j = k
        BY DEF OneTimeKeys
    <2>1. Derived(chain[j]) /\ Derived(chain[k])
          BY <1>1 DEF KInv, KeysAt
    <2>2. KeyFrom(key, chain[j]) /\ KeyFrom(key, chain[k])
          BY <2>1 DEF Derived, KeysOf
    <2>3. key.path[1].anchor \in InputsOf(chain[j]) \cap InputsOf(chain[k])
          BY <2>2 DEF KeyFrom
    <2> QED BY <1>1, <2>3 DEF KInv, KeysAt
  <1> QED BY <1>1, KInvHolds, PTL

(* a derivation with the key that signs its anchor is one a scan tries *)
LEMMA SignedIsFound ==
  ASSUME NEW t, NEW key, KeyFrom(key, t), ~(key.path[1].index >= MaxRole),
         \E i \in DOMAIN t.ins : /\ t.ins[i].from = key.path[1].anchor
                                 /\ t.ins[i].by = key.path[1].sender
  PROVE  key.path[1] \in TriedContexts(t)
  <1> DEFINE ctx == key.path[1]
  <1>1. /\ ctx = Context(ctx.sender, ctx.anchor, ctx.index)
        /\ ctx.sender.of \in Wallet /\ ctx.index \in Nat
        BY DEF KeyFrom
  <1>2. PICK i \in DOMAIN t.ins : t.ins[i].from = ctx.anchor /\ t.ins[i].by = ctx.sender
        OBVIOUS
  <1>3. i \in {n \in DOMAIN t.ins : t.ins[n].by.of # Shard}
        BY <1>1, <1>2, TxAssumption
  <1>4. ctx.index \in 0 .. MaxRole - 1
        BY <1>1, TxAssumption
  <1>5. ctx = Context(t.ins[i].by, t.ins[i].from, ctx.index)
        BY <1>1, <1>2
  <1> HIDE DEF ctx
  <1>6. ctx \in TriedContexts(t)
        BY <1>3, <1>4, <1>5 DEF TriedContexts
  <1> QED BY <1>6 DEF ctx

(* A coin on a one-time key is never lost, whatever commands run together,  *)
(* whichever die and whatever save is overwritten: the transaction that     *)
(* paid it holds all a scan needs, except where the code derives with       *)
(* another key than the one that signs or counts beyond the scan's window.  *)
THEOREM CoinsAreNotLost == Spec => []NothingLost
  <1>1. ASSUME KInv PROVE NothingLost
    <2> SUFFICES ASSUME NEW w \in Wallet, NEW o \in Owned(w), IsChild(KeyAt(chain, o)), ~BeyondScan(o),
                        chain[o.txid].op = "send" \/ SignedByDeriver(o.txid)
                 PROVE  Findable(chain, w, o)
        BY DEF NothingLost
    <2>1. PICK k \in DOMAIN chain : o \in OutpointsOf(chain, k)
          BY DEF Owned, Made
    <2>2. PICK v \in DOMAIN chain[k].outs : o = [txid |-> k, vout |-> v - 1]
          BY <2>1 DEF OutpointsOf
    <2>3. Derived(chain[k]) /\ v \in Nat
          BY <1>1 DEF KInv, KeysAt, Derived
    <2>4. o.txid = k /\ o.vout + 1 = v
          BY <2>2, <2>3
    <2> DEFINE key == chain[k].outs[v].key
    <2>5. KeyAt(chain, o) = key
          BY <2>4 DEF KeyAt, OutAt
    <2>6. KeyFrom(key, chain[k])
          BY <2>3, <2>5 DEF Derived
    <2>7. \E i \in DOMAIN chain[k].ins : /\ chain[k].ins[i].from = key.path[1].anchor
                                         /\ chain[k].ins[i].by = key.path[1].sender
      <3>1. CASE chain[k].op = "send"
            BY <3>1, <2>6 DEF KeyFrom
      <3>2. CASE SignedByDeriver(k)
            BY <3>2, <2>5 DEF SignedByDeriver
      <3> QED BY <3>1, <3>2, <2>4
    <2> HIDE DEF key
    <2>8. key.path[1] \in TriedContexts(chain[k])
          BY <2>5, <2>6, <2>7, SignedIsFound DEF BeyondScan
    <2>9. key = ChildKey(w, key.path[1])
          BY <2>5, <2>6 DEF KeyFrom, Owned
    <2> QED BY <2>4, <2>5, <2>8, <2>9 DEF Findable
  <1> QED BY <1>1, KInvHolds, PTL

-----------------------------------------------------------------------------
(* What a profile with one command at a time keeps.  Two commands on one    *)
(* profile overwrite each other's saves: nothing the code does prevents it, *)
(* and what is kept then is what the theorems above say.  With one, the     *)
(* copy a command will save has all that the file has.                      *)

OnePerProfile == \A p, q \in Proc : Profile[p] = Profile[q] => p = q

EInv == \A p \in Proc : pc[p] \in {"ready", "send", "save"} => Keeps(file[Profile[p]], mem[p])

(* what the files become in one step *)
Holds == \A w \in Wallet : Keeps(file[w], file'[w])

(* a step of one command that leaves the files as they are *)
LEMMA EMoves ==
  ASSUME EInv, file' = file, NEW p \in Proc,
         \A q \in Proc : q # p => mem'[q] = mem[q] /\ pc'[q] = pc[q],
         pc'[p] \in {"ready", "send", "save"} => Keeps(file[Profile[p]], mem'[p])
  PROVE  EInv' /\ Holds
  <1>1. ASSUME NEW q \in Proc, pc'[q] \in {"ready", "send", "save"}
        PROVE  Keeps(file'[Profile[q]], mem'[q])
    <2>1. CASE q = p
          BY <2>1, <1>1
    <2>2. CASE q # p
          BY <2>2, <1>1 DEF EInv
    <2> QED BY <2>1, <2>2
  <1>2. Holds
        BY KeepsItself DEF Holds
  <1> QED BY <1>1, <1>2 DEF EInv

LEMMA InitEInv == Init => EInv
  BY DEF Init, EInv

(* Every step keeps it, and no step's file loses anything: the only step    *)
(* that writes a file writes the copy of the only command on that profile.  *)
LEMMA StepEInv ==
  ASSUME OnePerProfile, WInv, KInv, EInv, [Next]_vars
  PROVE  EInv' /\ Holds
  <1>0. /\ Over(mem, Proc) /\ Over(pc, Proc) /\ Over(job, Proc) /\ Over(file, Wallet)
        /\ \A p \in Proc : /\ Profile[p] \in Wallet /\ StateShape(mem[p])
                           /\ mem[p].next \in Nat /\ \A r \in mem[p].utxos : RecordShape(r)
        /\ \A w \in Wallet : StateShape(file[w])
        BY WalletAssumption DEF WInv, WellAt, Sound, Spendable, KInv
  <1>1. ASSUME NEW p \in Proc, Start(p) PROVE EInv' /\ Holds
    <2>1. /\ file' = file /\ mem'[p] = file[Profile[p]]
          /\ \A q \in Proc : q # p => mem'[q] = mem[q] /\ pc'[q] = pc[q]
          BY <1>0, <1>1 DEF Start, Over
    <2> QED BY <2>1, KeepsItself, EMoves
  <1>2. ASSUME NEW p \in Proc, NEW j, NEW copy, pc[p] = "ready", Broadcasts(p, j, copy), Keeps(mem[p], copy)
        PROVE  EInv' /\ Holds
    <2>1. /\ mem'[p] = copy /\ file' = file
          /\ \A q \in Proc : q # p => mem'[q] = mem[q] /\ pc'[q] = pc[q]
          BY <1>0, <1>2, BroadcastsHas
    <2>2. Keeps(file[Profile[p]], mem[p])
          BY <1>2 DEF EInv
    <2>3. Keeps(file[Profile[p]], copy)
          BY <1>2, <2>2, KeepsOn
    <2> QED BY <2>1, <2>3, EMoves
  <1>3. ASSUME NEW p \in Proc, Send(p) \/ Deposit(p) \/ WithdrawExternal(p) \/ WithdrawFromShard(p)
        PROVE  EInv' /\ Holds
    <2>1. pc[p] = "ready" /\ \E j : Broadcasts(p, j, mem[p]) \/ Broadcasts(p, j, TakeChangeIndex(mem[p]))
          BY <1>3 DEF Send, Deposit, WithdrawExternal, WithdrawFromShard, Asked
    <2>2. Keeps(mem[p], mem[p]) /\ Keeps(mem[p], TakeChangeIndex(mem[p]))
          BY <1>0, KeepsItself, TakeKeeps
    <2> QED BY <1>2, <2>1, <2>2
  <1>4. ASSUME NEW p \in Proc, Ends(p), file' = file PROVE EInv' /\ Holds
    <2>1. pc'[p] = "idle" /\ \A q \in Proc : q # p => mem'[q] = mem[q] /\ pc'[q] = pc[q]
          BY <1>0, <1>4, EndsLeaves
    <2> QED BY <1>4, <2>1, EMoves
  <1>5. ASSUME NEW p \in Proc, Throws(p) \/ Refuses(p) \/ NodeRejects(p) \/ GivesUp(p) \/ Crash(p)
        PROVE  EInv' /\ Holds
        BY <1>4, <1>5 DEF Throws, Refuses, NodeRejects, GivesUp, Crash
  <1>6. ASSUME NEW p \in Proc, Scan(p) PROVE EInv' /\ Holds
    <2>1. /\ file' = file /\ mem' = mem /\ pc'[p] = "found"
          /\ \A q \in Proc : q # p => pc'[q] = pc[q]
          BY <1>0, <1>6 DEF Scan, Over
    <2> QED BY <2>1, EMoves
  <1>7. ASSUME NEW p \in Proc, Merge(p) PROVE EInv' /\ Holds
    <2> DEFINE w == Profile[p]
               recs == {Record(m.at, w, w, m.ctx) : m \in job[p].found}
    <2>1. \A n \in recs : RecordShape(n)
          BY RecordFields
    <2> HIDE DEF recs
    <2>2. Keeps(file[w], Upsert(file[w], recs))
          BY <1>0, <2>1, UpsertKeeps
    <2>3. /\ file' = file /\ mem'[p] = Upsert(file[w], recs)
          /\ \A q \in Proc : q # p => mem'[q] = mem[q] /\ pc'[q] = pc[q]
          BY <1>0, <1>7 DEF Merge, Over, recs
    <2> QED BY <2>2, <2>3, EMoves
  <1>8. ASSUME NEW p \in Proc, NodeAccepts(p) \/ NodeEchoes(p) PROVE EInv' /\ Holds
    <2>1. PICK txid : GetsTxid(p, txid)
          BY <1>8 DEF NodeAccepts, NodeEchoes
    <2>2. pc[p] = "send" /\ file' = file
          BY <1>8 DEF NodeAccepts, NodeEchoes
    <2>3. /\ mem'[p] = Patch(mem[p], job[p], txid, Profile[p])
          /\ \A q \in Proc : q # p => mem'[q] = mem[q] /\ pc'[q] = pc[q]
          BY <1>0, <2>1 DEF GetsTxid, Over
    <2>4. Keeps(file[Profile[p]], mem[p])
          BY <2>2 DEF EInv
    <2>5. Keeps(mem[p], mem'[p])
          BY <1>0, <2>3, PatchKeeps
    <2>6. Keeps(file[Profile[p]], mem'[p])
          BY <2>4, <2>5, KeepsOn
    <2> QED BY <2>2, <2>3, <2>6, EMoves
  <1>9. ASSUME NEW p \in Proc, Save(p) PROVE EInv' /\ Holds
    <2>1. /\ pc[p] = "save" /\ file'[Profile[p]] = mem[p]
          /\ \A w \in Wallet : w # Profile[p] => file'[w] = file[w]
          BY <1>0, <1>9 DEF Save, Over
    <2>2. Ends(p)
          BY <1>9 DEF Save
    <2>3. pc'[p] = "idle" /\ \A q \in Proc : q # p => mem'[q] = mem[q] /\ pc'[q] = pc[q]
          BY <1>0, <2>2, EndsLeaves
    <2>4. \A q \in Proc : q # p => file'[Profile[q]] = file[Profile[q]]
          BY <1>0, <2>1 DEF OnePerProfile
    <2>5. EInv'
          BY <2>3, <2>4 DEF EInv
    <2>6. Keeps(file[Profile[p]], mem[p])
          BY <2>1 DEF EInv
    <2>7. Holds
          BY <2>1, <2>6, KeepsItself DEF Holds
    <2> QED BY <2>5, <2>7
  <1>10. CASE ArrivesLate \/ Mine \/ UNCHANGED vars
    <2>1. UNCHANGED <<file, mem, pc>>
          BY <1>10 DEF ArrivesLate, Mine, vars
    <2>2. Holds
          BY <2>1, KeepsItself DEF Holds
    <2> QED BY <2>1, <2>2 DEF EInv
  <1> QED BY <1>1, <1>3, <1>5, <1>6, <1>7, <1>8, <1>9, <1>10 DEF Next, Pays, Scans, Answer, Fault

(* With one command per profile nothing that is recorded is forgotten, a    *)
(* spent marker stays, and the change counter never goes back: whichever    *)
(* commands die, and whatever others do on other profiles.                  *)
THEOREM RecordsAreKept ==
  ASSUME OnePerProfile
  PROVE  Spec => NeverForgets
  <1>1. Init => EInv
        BY InitEInv
  <1>2. WInv /\ KInv /\ EInv /\ [Next]_vars => EInv'
        BY StepEInv
  <1>3. ASSUME WInv, KInv, EInv, [Next]_vars, NEW w \in Wallet
        PROVE  /\ RecordedIn(file[w]) \subseteq RecordedIn(file'[w])
               /\ {r.at : r \in {r \in file[w].utxos : r.spent}}
                    \subseteq {r.at : r \in {r \in file'[w].utxos : r.spent}}
               /\ file[w].next <= file'[w].next
    <2>1. Keeps(file[w], file'[w])
          BY <1>3, StepEInv DEF Holds
    <2>2. file[w].next \in Nat
          BY <1>3 DEF KInv
    <2>3. RecordedIn(file[w]) \subseteq RecordedIn(file'[w])
          BY <2>1 DEF Keeps, AtsOf, RecordedIn
    <2>4. SpentOf(file[w]) \subseteq SpentOf(file'[w])
          BY <2>1 DEF Keeps
    <2> QED BY <2>1, <2>2, <2>3, <2>4 DEF Keeps, SpentOf
  <1> DEFINE Kept ==
        \A w \in Wallet :
          /\ RecordedIn(file[w]) \subseteq RecordedIn(file'[w])
          /\ {r.at : r \in {r \in file[w].utxos : r.spent}}
               \subseteq {r.at : r \in {r \in file'[w].utxos : r.spent}}
          /\ file[w].next <= file'[w].next
  <1>4. WInv /\ KInv /\ EInv /\ [Next]_vars => [Kept]_vars
        BY <1>3
  <1>5. Spec => [][Kept]_vars
    <2> HIDE DEF Kept
    <2> QED BY <1>1, <1>2, <1>4, KInvHolds, PTL DEF Spec
  <1> QED BY <1>5 DEF NeverForgets

-----------------------------------------------------------------------------
(* The inbox *)

(* what a scan finds in a transaction does not depend on later ones *)
LEMMA MatchesStay ==
  ASSUME NEW S, NEW c \in Seq(S), NEW t, NEW w, NEW k \in DOMAIN c
  PROVE  Matches(Append(c, t), w, k) = Matches(c, w, k)
  <1> DEFINE d == Append(c, t)
  <1>1. d[k] = c[k]
        BY Grows
  <1> HIDE DEF d
  <1>2. OutpointsOf(d, k) = OutpointsOf(c, k) /\ \A o \in OutpointsOf(c, k) : o.txid = k
        BY <1>1 DEF OutpointsOf
  <1>3. \A o \in OutpointsOf(c, k) : KeyAt(d, o) = KeyAt(c, o)
        BY <1>1, <1>2 DEF KeyAt, OutAt
  <1>4. ASSUME NEW o \in OutpointsOf(c, k), NEW ctx PROVE Match(o, ctx).at = o
        BY DEF Match
  <1>5. Matches(d, w, k) = Matches(c, w, k)
        BY <1>1, <1>2, <1>3, <1>4 DEF Matches
  <1> QED BY <1>5 DEF d

(* the blocks a step finds or does not find only show more *)
LEMMA ShownGrows ==
  ASSUME WInv, chain' = chain \/ (\E t : chain' = Append(chain, t)),
         mined' \in Nat, mined <= mined', NEW w
  PROVE  Shown(w) \subseteq Shown(w)'
  <1>1. PICK S : chain \in Seq(S)
        BY DEF WInv, WellAt
  <1>2. 1 .. mined \subseteq DOMAIN chain /\ 1 .. mined \subseteq 1 .. mined'
        BY <1>1 DEF WInv, WellAt
  <1>3. ASSUME NEW k \in DOMAIN chain
        PROVE  chain'[k] = chain[k] /\ Matches(chain', w, k) = Matches(chain, w, k)
    <2>1. CASE chain' = chain
          BY <2>1
    <2>2. CASE \E t : chain' = Append(chain, t)
          BY <2>2, <1>1, Grows, MatchesStay
    <2> QED BY <2>1, <2>2
  <1>4. /\ Candidates(chain, mined, w, "own") = {k \in 1 .. mined : w \in chain[k].near}
        /\ Candidates(chain', mined', w, "own") = {k \in 1 .. mined' : w \in chain'[k].near}
        BY DEF Candidates
  <1>5. ASSUME NEW k \in Candidates(chain, mined, w, "own")
        PROVE  k \in Candidates(chain', mined', w, "own") /\ Matches(chain', w, k) = Matches(chain, w, k)
        BY <1>2, <1>3, <1>4
  <1>6. UNION {Matches(chain, w, k) : k \in Candidates(chain, mined, w, "own")}
          \subseteq UNION {Matches(chain', w, k) : k \in Candidates(chain', mined', w, "own")}
        BY <1>5
  <1> QED BY <1>6 DEF Shown

(* Only the node lets the chain grow, and only a block shows more of it *)
LEMMA ChainMoves ==
  ASSUME WInv, [Next]_vars
  PROVE  /\ chain' = chain \/ (\E t : chain' = Append(chain, t))
         /\ mined' \in Nat /\ mined <= mined'
  <1>0. mined \in Nat /\ mined <= Len(chain) /\ Len(chain) \in Nat
        BY DEF WInv, WellAt
  <1>1. ASSUME NEW p \in Proc, Start(p) \/ Pays(p) PROVE chain' = chain /\ mined' = mined
        BY <1>1 DEF Start, Pays, Send, Deposit, WithdrawExternal, WithdrawFromShard, Throws, Broadcasts
  <1>2. ASSUME NEW p \in Proc, Scans(p) \/ Save(p) \/ Fault(p) \/ NodeEchoes(p) \/ NodeRejects(p)
        PROVE  chain' = chain /\ mined' = mined
        BY <1>2 DEF Scans, Scan, Merge, Refuses, Save, Fault, GivesUp, Crash, NodeEchoes, NodeRejects
  <1>3. ASSUME (\E p \in Proc : NodeAccepts(p)) \/ ArrivesLate
        PROVE  (\E t : chain' = Append(chain, t)) /\ mined' = mined
        BY <1>3 DEF NodeAccepts, ArrivesLate
  <1>4. CASE Mine
        BY <1>0, <1>4 DEF Mine
  <1>5. CASE UNCHANGED vars
        BY <1>0, <1>5 DEF vars
  <1> QED BY <1>0, <1>1, <1>2, <1>3, <1>4, <1>5 DEF Next, Answer

(* StealthWallet implements Inbox.  With one command per profile, what is   *)
(* shown to a receiver stays shown, what it has learned of it stays         *)
(* learned, and it learns nothing that is not shown.                        *)
THEOREM InboxIsKept ==
  ASSUME OnePerProfile
  PROVE  Spec => InboxKept
  <1>1. ASSUME Init PROVE Inboxes!Init
    <2>1. ASSUME NEW w \in Wallet PROVE Shown(w) = {} /\ OnRecord(w) = {}
      <3>1. Candidates(chain, mined, w, "own") = {k \in 1 .. mined : w \in chain[k].near}
            BY DEF Candidates
      <3>2. mined = 1 /\ chain[1].near = {}
            BY <1>1 DEF Init, Genesis
      <3>3. Candidates(chain, mined, w, "own") = {}
            BY <3>1, <3>2
      <3> QED BY <3>3 DEF Shown, OnRecord
    <2> QED BY <2>1 DEF Inboxes!Init
  <1>2. ASSUME WInv, KInv, EInv, [Next]_vars PROVE [Inboxes!Next]_(Inboxes!vars)
    <2>1. ASSUME NEW w \in Wallet
          PROVE  Inboxes!Arrive(w) \/ Inboxes!Learn(w) \/ Inboxes!Rest(w)
      <3>1. Shown(w) \subseteq Shown(w)'
            BY <1>2, ChainMoves, ShownGrows
      <3>2. AtsOf(file[w].utxos) \subseteq AtsOf(file'[w].utxos)
            BY <1>2, StepEInv DEF Holds, Keeps
      <3>3. OnRecord(w) \subseteq OnRecord(w)' /\ OnRecord(w)' \subseteq Shown(w)'
            BY <3>1, <3>2 DEF OnRecord, AtsOf
      <3> QED BY <3>1, <3>3 DEF Inboxes!Arrive, Inboxes!Learn, Inboxes!Rest
    <2> QED BY <2>1 DEF Inboxes!Next
  <1>3. Init => EInv
        BY InitEInv
  <1>4. WInv /\ KInv /\ EInv /\ [Next]_vars => EInv'
        BY StepEInv
  <1> QED BY <1>1, <1>2, <1>3, <1>4, KInvHolds, PTL DEF Spec, InboxKept, Inboxes!Spec
=============================================================================
