--------------------------- MODULE StealthWallet ----------------------------
(***************************************************************************)
(* The stealth side of the wallet: send, deposit and withdraw pay to       *)
(* one-time keys and take their change on them, scan finds what was paid.  *)
(* Each command is a process on one profile.  It loads the profile's state *)
(* file, chooses funding and builds, waits for the node, and saves its     *)
(* whole copy; it may lose the connection or die on the way.               *)
(*                                                                         *)
(* What the pool side of deposit and withdraw does is PoolOps's matter;    *)
(* here a withdrawal spends the covenant output that is live.              *)
(***************************************************************************)
EXTENDS StealthTx

CONSTANTS
  Proc,      \* commands that may run at the same time
  Profile,   \* the profile each runs on
  Me,        \* the owner tag 'me'
  Request,   \* what the operators may ask for
  Prefer,    \* BCH_STEALTH_FUNDING_PREFER
  MaxTx,     \* bound: no spending command starts once the chain is this long
  MaxFaults  \* bound: commands cut short

ScanWays == {"own", "mempool", "brute", "txid"}

(* how: "" for send; "rpa" or "base" for deposit; "external" or "shard",   *)
(* the fee of a withdrawal; the way to scan.  change: deposit's changeMode *)
Requests == [op : {"send", "deposit", "withdraw", "scan"}, to : Wallet \cup {Stranger},
             sats : Nat, how : STRING, change : {"auto", "transparent", "stealth"}]

ASSUME WalletAssumption ==
  /\ Profile \in [Proc -> Wallet]
  /\ Me \notin Wallet
  /\ Request \subseteq Requests /\ \A r \in Request : r.op = "scan" => r.how \in ScanWays
  /\ Prefer \in {"base", "stealth"}
  /\ MaxTx \in Nat /\ MaxFaults \in Nat

VARIABLES
  chain,  \* transactions the node accepted, in order
  mined,  \* how many of them are in blocks
  wire,   \* transactions sent by a command that gave up waiting
  file,   \* each profile's state file
  mem,    \* each process's copy
  pc,     \* "idle", "ready" (state loaded), "send", "found" (scan done), "save"
  job,    \* what each process is doing
  faults  \* commands cut short so far

vars == <<chain, mined, wire, file, mem, pc, job, faults>>

NoTx == [op |-> "none", who |-> Stranger, ins |-> <<>>, outs |-> <<>>, near |-> {}]
NoRequest == [op |-> "none", to |-> Stranger, sats |-> 0, how |-> "", change |-> "auto"]

(* keep: outputs to record as stealth UTXOs; mark: records to mark spent;  *)
(* stage: outputs to record as deposits; found: what a scan found          *)
NoJob == [req |-> NoRequest, tx |-> NoTx, keep |-> {}, mark |-> {}, stage |-> {}, found |-> {}]

Init ==
  /\ chain = <<Genesis>> /\ mined = 1 /\ wire = {}
  /\ file = [w \in Wallet |-> EmptyState]
  /\ mem = [p \in Proc |-> EmptyState]
  /\ pc = [p \in Proc |-> "idle"]
  /\ job = [p \in Proc |-> NoJob]
  /\ faults = 0

-----------------------------------------------------------------------------
(* A command starts, and ends without a save when it throws                *)

Start(p) ==
  \E r \in Request :
    /\ pc[p] = "idle" /\ r.op # "scan"
    /\ Len(chain) < MaxTx
    /\ pc' = [pc EXCEPT ![p] = "ready"]
    /\ mem' = [mem EXCEPT ![p] = file[Profile[p]]]
    /\ job' = [job EXCEPT ![p] = [NoJob EXCEPT !.req = r]]
    /\ UNCHANGED <<chain, mined, wire, file, faults>>

Ends(p) ==
  /\ pc' = [pc EXCEPT ![p] = "idle"]
  /\ mem' = [mem EXCEPT ![p] = EmptyState]
  /\ job' = [job EXCEPT ![p] = NoJob]

Asked(p, op) == pc[p] = "ready" /\ job[p].req.op = op

Broadcasts(p, j, copy) ==
  /\ pc' = [pc EXCEPT ![p] = "send"]
  /\ mem' = [mem EXCEPT ![p] = copy]
  /\ job' = [job EXCEPT ![p] = j]
  /\ UNCHANGED <<chain, mined, wire, file, faults>>

PayKey(to, ctx) == IF to \in Wallet THEN ChildKey(to, ctx) ELSE BaseKey(Stranger)
SpendCoin(c) == [from |-> c.at, by |-> c.key]
Output(key, value) == [key |-> key, value |-> value]

(* nextSelfChangeIndex *)
TakeChangeIndex(s) == [s EXCEPT !.next = @ + 1]

-----------------------------------------------------------------------------
(* send: one payment, one change output to the sender's own paycode.  The  *)
(* funding covers dust for the change, so there always is one.             *)

SendNeeds(r) == r.sats + Fee + Dust

\* faulty variant: the sender's base key, whatever signs the input
WalletKey(p, c) == BaseKey(Profile[p])

(* the key pair send derives with is the one that signs the input *)
SendingKey(p, c) == c.key

(* markStealthRecordSpent looks the record up in                            *)
(* state.data.pool.state.stealthUtxos, which it creates, empty, inside the  *)
(* state already taken out of that envelope: it finds none                  *)
MarkedBySend(c) == {}

SendJob(p, c, near) ==
  LET w == Profile[p]
      r == job[p].req
      pay == Context(SendingKey(p, c), c.at, 0)
      change == Context(SendingKey(p, c), c.at, mem[p].next)
  IN  [NoJob EXCEPT
         !.req = r,
         !.tx = [op |-> "send", who |-> w, ins |-> <<SpendCoin(c)>>, near |-> near,
                 outs |-> <<Output(PayKey(r.to, pay), r.sats),
                            Output(ChildKey(w, change), c.value - r.sats - Fee)>>],
         !.keep = {[vout |-> 1, owner |-> w, ctx |-> change]},
         !.mark = MarkedBySend(c)]

Send(p) ==
  /\ Asked(p, "send")
  /\ \E c \in SelectFunding(chain, mem[p], Profile[p], Profile[p], SendNeeds(job[p].req), Prefer),
        near \in Bucket :
       Broadcasts(p, SendJob(p, c, near), TakeChangeIndex(mem[p]))

-----------------------------------------------------------------------------
(* deposit: a payment to oneself at index 0 and change at index 1, both    *)
(* derived with the base key, whatever signs the input.  It knows its      *)
(* owner as 'me'.                                                          *)

DepositNeeds(r) == r.sats + Dust + Margin

StealthChange(r, c) == r.change = "stealth" \/ (r.change = "auto" /\ c.source = "stealth")

DepositJob(p, c, near) ==
  LET w == Profile[p]
      r == job[p].req
      pay == Context(BaseKey(w), c.at, 0)
      change == Context(BaseKey(w), c.at, 1)
      rest == c.value - r.sats - Fee
      note == Output(IF r.how = "rpa" THEN ChildKey(w, pay) ELSE BaseKey(w), r.sats)
      back == Output(IF StealthChange(r, c) THEN ChildKey(w, change) ELSE BaseKey(w), rest)
  IN  [NoJob EXCEPT
         !.req = r,
         !.tx = [op |-> "deposit", who |-> w, ins |-> <<SpendCoin(c)>>, near |-> near,
                 outs |-> IF rest >= Dust THEN <<note, back>> ELSE <<note>>],
         !.keep = IF rest >= Dust /\ StealthChange(r, c)
                    THEN {[vout |-> 1, owner |-> Me, ctx |-> change]} ELSE {},
         !.mark = IF c.source = "stealth" THEN {c.at} ELSE {},
         !.stage = {[vout |-> 0, key |-> note.key]}]

Deposit(p) ==
  /\ Asked(p, "deposit")
  /\ \E c \in SelectFunding(chain, mem[p], Profile[p], Me, DepositNeeds(job[p].req), Prefer),
        near \in Bucket :
       Broadcasts(p, DepositJob(p, c, near), mem[p])

-----------------------------------------------------------------------------
(* withdraw: the covenant output pays; a fee coin's change goes to the     *)
(* wallet's paycode, below dust it is left to the miner.  The derivations  *)
(* use the base key and are anchored at the fee coin, without one at the   *)
(* covenant output.  A spent fee record is marked where the change is      *)
(* recorded, and only then.                                                *)

ShardOutputs == {o \in Live(chain) : KeyAt(chain, o) = BaseKey(Shard)}
SpendShard(o) == [from |-> o, by |-> BaseKey(Shard)]

ExternalJob(p, o, c, near) ==
  LET w == Profile[p]
      r == job[p].req
      pay == Context(BaseKey(w), c.at, 0)
      change == Context(BaseKey(w), c.at, mem[p].next)
      rest == c.value - Fee
      outs == <<Output(BaseKey(Shard), ValueAt(chain, o) - r.sats),
                Output(PayKey(r.to, pay), r.sats)>>
  IN  [NoJob EXCEPT
         !.req = r,
         !.tx = [op |-> "withdraw", who |-> w, ins |-> <<SpendShard(o), SpendCoin(c)>>,
                 near |-> near,
                 outs |-> IF rest >= Dust THEN Append(outs, Output(ChildKey(w, change), rest))
                                          ELSE outs],
         !.keep = IF rest >= Dust THEN {[vout |-> 2, owner |-> w, ctx |-> change]} ELSE {},
         !.mark = IF rest >= Dust /\ c.source = "stealth" THEN {c.at} ELSE {}]

WithdrawExternal(p) ==
  /\ Asked(p, "withdraw") /\ job[p].req.how = "external"
  /\ \E o \in ShardOutputs, near \in Bucket,
        c \in SelectFunding(chain, mem[p], Profile[p], Profile[p], Fee, Prefer) :
       /\ ValueAt(chain, o) - job[p].req.sats >= Dust
       /\ Broadcasts(p, ExternalJob(p, o, c, near), TakeChangeIndex(mem[p]))

\* faulty variant: every payment anchored at the same outpoint
FixedAnchor(o) == [txid |-> 1, vout |-> 0]

ShardAnchor(o) == o

FromShardJob(p, o, near) ==
  LET w == Profile[p]
      r == job[p].req
      pay == Context(BaseKey(w), ShardAnchor(o), 0)
  IN  [NoJob EXCEPT
         !.req = r,
         !.tx = [op |-> "withdraw", who |-> w, ins |-> <<SpendShard(o)>>, near |-> near,
                 outs |-> <<Output(BaseKey(Shard), ValueAt(chain, o) - r.sats - Fee),
                            Output(PayKey(r.to, pay), r.sats)>>]]

WithdrawFromShard(p) ==
  /\ Asked(p, "withdraw") /\ job[p].req.how = "shard"
  /\ \E o \in ShardOutputs, near \in Bucket :
       /\ ValueAt(chain, o) - job[p].req.sats - Fee >= Dust
       /\ Broadcasts(p, FromShardJob(p, o, near), mem[p])

(* no coin is large enough, or the shard's value is too small *)
CannotFund(p) ==
  LET r == job[p].req
      w == Profile[p]
      short(o, fee) == ValueAt(chain, o) - r.sats - fee < Dust
  IN  CASE r.op = "send" -> SelectFunding(chain, mem[p], w, w, SendNeeds(r), Prefer) = {}
        [] r.op = "deposit" -> SelectFunding(chain, mem[p], w, Me, DepositNeeds(r), Prefer) = {}
        [] r.how = "external" -> \/ SelectFunding(chain, mem[p], w, w, Fee, Prefer) = {}
                                 \/ \A o \in ShardOutputs : short(o, 0)
        [] OTHER -> \A o \in ShardOutputs : short(o, Fee)

Throws(p) ==
  /\ pc[p] = "ready"
  /\ CannotFund(p)
  /\ Ends(p)
  /\ UNCHANGED <<chain, mined, wire, file, faults>>

-----------------------------------------------------------------------------
(* scan --update-state: candidates, matches, then a fresh load of the file. *)
(* With --txid it stops at the first match.  A scan that finds nothing      *)
(* saves what it loaded.                                                    *)

\* faulty variant: the window ends below the tip
FoundBelowTip(w, how) == {UNION {Matches(chain, w, k) : k \in Candidates(chain, mined - 1, w, how)}}

Found(w, how) ==
  LET all == UNION {Matches(chain, w, k) : k \in Candidates(chain, mined, w, how)}
  IN  IF how = "txid" THEN {{m} : m \in all} ELSE {all}

Scan(p) ==
  \E r \in Request :
    /\ pc[p] = "idle" /\ r.op = "scan"
    /\ \E found \in Found(Profile[p], r.how) :
         job' = [job EXCEPT ![p] = [NoJob EXCEPT !.req = r, !.found = found]]
    /\ pc' = [pc EXCEPT ![p] = "found"]
    /\ UNCHANGED <<chain, mined, wire, file, mem, faults>>

Merge(p) ==
  LET w == Profile[p]
  IN  /\ pc[p] = "found"
      /\ OwnerHint(file[w]) \subseteq {w}
      /\ mem' = [mem EXCEPT ![p] =
                   Upsert(file[w], {Record(m.at, w, w, m.ctx) : m \in job[p].found})]
      /\ pc' = [pc EXCEPT ![p] = "save"]
      /\ UNCHANGED <<chain, mined, wire, file, job, faults>>

Refuses(p) ==
  /\ pc[p] = "found"
  /\ ~(OwnerHint(file[Profile[p]]) \subseteq {Profile[p]})
  /\ Ends(p)
  /\ UNCHANGED <<chain, mined, wire, file, faults>>

-----------------------------------------------------------------------------
(* The node's answers, and the patch of the copy                           *)

\* faulty variant: the index is read again once the counter has moved
RecordedNext(txid, w, keep) ==
  {Record([txid |-> txid, vout |-> k.vout], k.owner, w, [k.ctx EXCEPT !.index = @ + 1]) : k \in keep}

Recorded(txid, w, keep) == {Record([txid |-> txid, vout |-> k.vout], k.owner, w, k.ctx) : k \in keep}
Staged(txid, stage) == {[at |-> [txid |-> txid, vout |-> d.vout], key |-> d.key] : d \in stage}

Patch(s, j, txid, w) ==
  [Upsert(MarkSpent(s, j.mark), Recorded(txid, w, j.keep))
     EXCEPT !.deposits = @ \cup Staged(txid, j.stage)]

GetsTxid(p, txid) ==
  /\ mem' = [mem EXCEPT ![p] = Patch(@, job[p], txid, Profile[p])]
  /\ pc' = [pc EXCEPT ![p] = "save"]

NodeAccepts(p) ==
  /\ pc[p] = "send"
  /\ Acceptable(chain, job[p].tx)
  /\ chain' = Append(chain, job[p].tx)
  /\ GetsTxid(p, Len(chain) + 1)
  /\ UNCHANGED <<mined, wire, file, job, faults>>

(* the very same transaction was accepted before *)
NodeEchoes(p) ==
  /\ pc[p] = "send"
  /\ Known(chain, job[p].tx)
  /\ GetsTxid(p, TxidOf(chain, job[p].tx))
  /\ UNCHANGED <<chain, mined, wire, file, job, faults>>

NodeRejects(p) ==
  /\ pc[p] = "send"
  /\ ~Acceptable(chain, job[p].tx)
  /\ Ends(p)
  /\ UNCHANGED <<chain, mined, wire, file, faults>>

Save(p) ==
  /\ pc[p] = "save"
  /\ file' = [file EXCEPT ![Profile[p]] = mem[p]]
  /\ Ends(p)
  /\ UNCHANGED <<chain, mined, wire, faults>>

-----------------------------------------------------------------------------
(* Faults and the network                                                  *)

(* the request times out or the process dies while it waits *)
GivesUp(p) ==
  /\ pc[p] = "send" /\ faults < MaxFaults
  /\ wire' = wire \cup {job[p].tx}
  /\ faults' = faults + 1
  /\ Ends(p)
  /\ UNCHANGED <<chain, mined, file>>

(* it dies after the answer and before the save *)
Crash(p) ==
  /\ pc[p] = "save" /\ faults < MaxFaults
  /\ faults' = faults + 1
  /\ Ends(p)
  /\ UNCHANGED <<chain, mined, wire, file>>

ArrivesLate ==
  \E t \in wire :
    /\ Acceptable(chain, t)
    /\ chain' = Append(chain, t)
    /\ wire' = wire \ {t}
    /\ UNCHANGED <<mined, file, mem, pc, job, faults>>

Mine ==
  /\ mined < Len(chain)
  /\ mined' = Len(chain)
  /\ UNCHANGED <<chain, wire, file, mem, pc, job, faults>>

-----------------------------------------------------------------------------
Pays(p) == Send(p) \/ Deposit(p) \/ WithdrawExternal(p) \/ WithdrawFromShard(p) \/ Throws(p)
Scans(p) == Scan(p) \/ Merge(p) \/ Refuses(p)
Answer(p) == NodeAccepts(p) \/ NodeEchoes(p) \/ NodeRejects(p)
Fault(p) == GivesUp(p) \/ Crash(p)

Next ==
  \/ \E p \in Proc : Start(p) \/ Pays(p) \/ Scans(p) \/ Answer(p) \/ Save(p) \/ Fault(p)
  \/ ArrivesLate \/ Mine

Spec == Init /\ [][Next]_vars

-----------------------------------------------------------------------------
(* Type invariant *)

StateOK(s) ==
  /\ s.next \in Nat
  /\ s.head \in Outpoint \cup {NoRecord}
  /\ \A r \in s.utxos : r.at \in Outpoint /\ r.owner \in Wallet \cup {Me} /\ r.spent \in BOOLEAN
  /\ s.utxos # {} => \E r \in s.utxos : r.at = s.head

TypeOK ==
  /\ mined \in 1 .. Len(chain)
  /\ \A k \in DOMAIN chain : InputsOf(chain[k]) \subseteq UNION {OutpointsOf(chain, j) : j \in 1 .. k - 1}
  /\ \A w \in Wallet : StateOK(file[w])
  /\ \A p \in Proc : StateOK(mem[p])
  /\ pc \in [Proc -> {"idle", "ready", "send", "found", "save"}]
  /\ faults \in 0 .. MaxFaults

-----------------------------------------------------------------------------
(* Safety *)

Owned(w) == {o \in Made(chain) : KeyAt(chain, o).of = w}
RecordedIn(s) == {r.at : r \in s.utxos} \cup {d.at : d \in s.deposits}

FaithfulState(w, s) ==
  \A r \in s.utxos :
    /\ r.at \in Made(chain)
    /\ KeyAt(chain, r.at) = r.key /\ r.key = ChildKey(w, r.ctx)
    /\ \A q \in s.utxos : q.at = r.at => q = r

(* Every record names a real output and holds what its owner needs to spend *)
(* it: the context stored derives the key the output pays to, and no output *)
(* is recorded twice, whichever of a command and a scan recorded it first.  *)
RecordsFaithful ==
  /\ \A w \in Wallet : FaithfulState(w, file[w])
  /\ \A p \in Proc : FaithfulState(Profile[p], mem[p])

(* A record is marked spent only when the chain has spent it, though the    *)
(* command that spends it marks its copy and others save theirs over it.    *)
SpentTrue ==
  \A w \in Wallet : \A r \in file[w].utxos : r.spent => r.at \in Spent(chain)

KeysOf(k) == {chain[k].outs[v].key : v \in DOMAIN chain[k].outs}

(* Two transactions never pay to the same one-time key: the change counter  *)
(* may be lost, reset or read twice by concurrent commands, and the anchor  *)
(* still tells their keys apart.                                            *)
OneTimeKeys ==
  \A j, k \in DOMAIN chain : \A key \in KeysOf(j) \cap KeysOf(k) : IsChild(key) => j = k

(* The transactions whose one-time keys are derived with the key that signs *)
(* the anchor: every send, and deposits and withdrawals paid by base coins  *)
SignedByDeriver(k) ==
  \A v \in DOMAIN chain[k].outs :
    IsChild(chain[k].outs[v].key) =>
      \E i \in DOMAIN chain[k].ins :
        /\ chain[k].ins[i].from = chain[k].outs[v].key.path[1].anchor
        /\ chain[k].ins[i].by = chain[k].outs[v].key.path[1].sender

BeyondScan(o) == KeyAt(chain, o).path[1].index >= MaxRole

(* No coin on a one-time key is lost, whatever dies before it records the   *)
(* coin and whatever save is overwritten: a scan of its transaction finds   *)
(* it.  The exceptions are those the code makes: an index the scan does not *)
(* reach, and a deposit or withdrawal whose derivation uses another key     *)
(* than the one that signs.                                                 *)
NothingLost ==
  \A w \in Wallet : \A o \in Owned(w) :
    IsChild(KeyAt(chain, o)) =>
      \/ Findable(chain, w, o)
      \/ BeyondScan(o)
      \/ chain[o.txid].op # "send" /\ ~SignedByDeriver(o.txid)

(* With one command per profile at a time, nothing that is recorded is      *)
(* forgotten, a spent marker stays, and the change counter never goes back. *)
NeverForgets ==
  [][\A w \in Wallet :
       /\ RecordedIn(file[w]) \subseteq RecordedIn(file'[w])
       /\ {r.at : r \in {r \in file[w].utxos : r.spent}}
            \subseteq {r.at : r \in {r \in file'[w].utxos : r.spent}}
       /\ file[w].next <= file'[w].next]_vars

-----------------------------------------------------------------------------
(* What the repository says and the code does not do                       *)

(* sharded-pool-state-machine-spec.md:261: the recipient can discover the   *)
(* stealth output of a withdrawal by scanning                               *)
WithdrawDiscoverable ==
  \A w \in Wallet : \A o \in Owned(w) :
    (chain[o.txid].op = "withdraw" /\ o.vout = 1) => Findable(chain, w, o)

-----------------------------------------------------------------------------
(* Liveness.  The owner of each profile scans again and again, commands     *)
(* that run go on, the node answers and blocks are found.                   *)

ScanOwn(p) == Scan(p) /\ job'[p].req.how = "own"

FairSpec ==
  /\ Spec
  /\ WF_vars(Mine)
  /\ \A p \in Proc : SF_vars(ScanOwn(p)) /\ WF_vars(Merge(p) \/ Refuses(p))
                     /\ WF_vars(Pays(p)) /\ WF_vars(Answer(p)) /\ WF_vars(Save(p))

(* what a profile's own prefix shows in blocks, and how much of it the      *)
(* state file has                                                           *)
Shown(w) == {m.at : m \in UNION {Matches(chain, w, k) : k \in Candidates(chain, mined, w, "own")}}
OnRecord(w) == Shown(w) \cap {r.at : r \in file[w].utxos}

-----------------------------------------------------------------------------
(* Every profile's inbox *)

Inboxes ==
  INSTANCE Inbox WITH Receiver <- Wallet,
                      arrived <- [w \in Wallet |-> Shown(w)], learned <- [w \in Wallet |-> OnRecord(w)]

(* With one command per profile at a time, what scan has recorded of the    *)
(* payments to a profile stays recorded, and it records nothing that is not *)
(* shown.                                                                   *)
InboxKept == Inboxes!Spec

(* Once a deposit's stealth change, recorded under 'me', is the first       *)
(* record, scan takes the file for another profile's and refuses to write.  *)
Foreign(w) == ~(OwnerHint(file[w]) \subseteq {w})

(* Again and again all that the index shows under a profile's own prefix is *)
(* on record, whatever payments, deposits and withdrawals of the profile    *)
(* and their deaths do to the state file between the scan of the chain and  *)
(* the save; the exception is the file that scan refuses to write.          *)
InboxRead == \A w \in Wallet : []<>(OnRecord(w) = Shown(w) \/ Foreign(w))
=============================================================================
