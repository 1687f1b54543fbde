------------------------------ MODULE PoolOps ------------------------------
(***************************************************************************)
(* The pool commands of the CLI (packages/cli/src/pool/ops), each a        *)
(* process that loads a private copy of the pool state, builds one         *)
(* transaction from it, broadcasts, patches the copy and saves the whole   *)
(* copy back.  Any number of them may run on one profile, each may lose    *)
(* its connection or die at any point, and a broadcast whose sender gave   *)
(* up may still reach the node later.                                      *)
(*                                                                         *)
(* A command's steps are: Start... (load, checks, build), one of the       *)
(* node's answers, Save.  The checks and the build read the private copy   *)
(* and facts of the chain that never change (the prevout of an outpoint),  *)
(* so they are one step with the load.                                     *)
(***************************************************************************)
EXTENDS PoolTx, Functions

CONSTANTS
  Proc,         \* commands that may run at the same time on one profile
  Req,          \* withdrawals the operator wants made
  Want,         \* what each asks: payment, shard or AutoShard, external fee
  AutoShard,    \* no --shard given
  ShardOption,  \* the --shard values passed to import
  ForcedMode,   \* BCH_STEALTH_CATEGORY_MODE, "" when unset
  KnownReply,   \* node's answers to a transaction it already has
  NoCat,        \* categoryHex of an uninitialised state
  MaxTx,        \* bound: no command starts once the chain is this long
  MaxInit,      \* bound: pools created
  MaxFaults     \* bound: commands cut short

ASSUME OpsAssumption ==
  /\ NoCat \notin Funding
  /\ AutoShard \notin Shard
  /\ ShardOption \subseteq Shard
  /\ ForcedMode \in {"", "none", "raw", "direct", "reverse"}
  /\ KnownReply \subseteq {"ok", "reject"}
  /\ Want \in [Req -> [pay : Payment, shard : Shard \cup {AutoShard}, external : BOOLEAN]]
  /\ MaxTx \in Nat /\ MaxInit \in Nat /\ MaxFaults \in Nat

VARIABLES
  chain,     \* transactions the node accepted, in order
  received,  \* notes that exist on chain
  elsewhere, \* notes spent outside the pool
  wire,      \* transactions sent by a command that gave up waiting
  file,      \* the saved pool state
  mem,       \* each process's copy
  pc,        \* "idle", "send" (awaiting the node) or "save"
  job,       \* what each process is doing
  req,       \* each request: "new", "asked" or "done" (reported to the operator)
  faults     \* commands cut short so far

vars == <<chain, received, elsewhere, wire, file, mem, pc, job, req, faults>>

-----------------------------------------------------------------------------
(* The pool state: category, shard pointers, deposit and withdrawal        *)
(* records.  importTx = 0 is a deposit without importTxid.                 *)

Unstaged == [staged |-> FALSE, importTx |-> 0, shard |-> 0]
DepositRecord == [staged : BOOLEAN, importTx : Nat, shard : Shard]
Withdrawal == [txid : Nat, shard : Shard, sats : Amount]
PoolState == [cat : Funding \cup {NoCat}, shards : [Shard -> Pointer] \cup {<<>>},
              deposits : [Note -> DepositRecord], withdrawals : SUBSET Withdrawal]
EmptyState == [cat |-> NoCat, shards |-> <<>>,
               deposits |-> [n \in Note |-> Unstaged], withdrawals |-> {}]

Initialized(s) == s.cat # NoCat

NoJob == [op |-> "none", shard |-> 0, note |-> {}, req |-> {}, txs |-> <<>>]
Job == [op : {"none", "init", "touch", "deposit", "stage", "import", "withdraw"},
        shard : Shard, note : SUBSET Note, req : SUBSET Req, txs : Seq(Tx)]

UnspentNotes == received \ (elsewhere \cup NotesSpent(chain))
UnspentFunding == Funding \ FundingSpent(chain)
Inits == {k \in DOMAIN chain : chain[k].ins = {}}

Init ==
  /\ chain = <<>> /\ received = {} /\ elsewhere = {} /\ wire = {}
  /\ file = EmptyState
  /\ mem = [p \in Proc |-> EmptyState]
  /\ pc = [p \in Proc |-> "idle"]
  /\ job = [p \in Proc |-> NoJob]
  /\ req = [r \in Req |-> "new"]
  /\ faults = 0

-----------------------------------------------------------------------------
(* Commands: load and build                                                *)

Begin(p, j, step, copy) ==
  /\ pc[p] = "idle"
  /\ pc' = [pc EXCEPT ![p] = step]
  /\ mem' = [mem EXCEPT ![p] = copy]
  /\ job' = [job EXCEPT ![p] = j]

(* init: a new pool when there is none, or with --fresh                    *)
StartInit(p) ==
  \E fresh \in BOOLEAN, f \in UnspentFunding :
    /\ fresh \/ ~Initialized(file)
    /\ Len(chain) < MaxTx /\ Cardinality(Inits) < MaxInit
    /\ Begin(p, [NoJob EXCEPT !.op = "init", !.txs = <<InitShardsTx(f)>>], "send", file)
    /\ UNCHANGED <<chain, received, elsewhere, wire, file, req, faults>>

(* init of an initialised pool without --fresh only saves                  *)
InitAgain(p) ==
  /\ Initialized(file)
  /\ Begin(p, [NoJob EXCEPT !.op = "touch"], "save", file)
  /\ UNCHANGED <<chain, received, elsewhere, wire, file, req, faults>>

(* deposit broadcasts the transaction that creates the note                *)
StartDeposit(p) ==
  \E n \in Note \ received :
    /\ Begin(p, [NoJob EXCEPT !.op = "deposit", !.note = {n}], "send", file)
    /\ UNCHANGED <<chain, received, elsewhere, wire, file, req, faults>>

(* upsertDeposit of a record without importTxid: a re-staged deposit keeps *)
(* the one it has                                                          *)
Stage(s, n) == [s EXCEPT !.deposits[n].staged = TRUE]

StageFrom(p) ==
  \E n \in received :
    /\ Begin(p, [NoJob EXCEPT !.op = "stage", !.note = {n}], "save", Stage(file, n))
    /\ UNCHANGED <<chain, received, elsewhere, wire, file, req, faults>>

PrevoutOf(s) == CellAt(chain, [txid |-> s.txid, vout |-> s.vout])

ImportTries(s, i, n) ==
  LET modes == ModeCandidates(ForcedMode)
  IN  [m \in 1 .. Len(modes) |->
         ImportTx(s.cat, s.shards[i], PrevoutOf(s.shards[i]), n, modes[m])]

(* import of any deposit outpoint, by default the latest staged one not    *)
(* yet imported, into its home shard or the one asked for.  Whether the    *)
(* outpoint is still unspent is asked and not acted upon.                  *)
StartImport(p) ==
  \E fresh \in BOOLEAN, n \in received, i \in Shard :
    /\ Initialized(file)
    /\ fresh \/ file.deposits[n].importTx = 0
    /\ i \in ShardOption \cup {HomeShard(n)}
    /\ ImportBuilds(PrevoutOf(file.shards[i]), n)
    /\ Len(chain) < MaxTx
    /\ Begin(p, [op |-> "import", shard |-> i, note |-> {n}, req |-> {},
                 txs |-> ImportTries(file, i, n)], "send", file)
    /\ UNCHANGED <<chain, received, elsewhere, wire, file, req, faults>>

FeeInputs(external) == IF external THEN {{f} : f \in UnspentFunding} ELSE {{}}

(* withdraw picks a shard and checks its funds by the local values, the    *)
(* builder checks them again by the prevout                                *)
StartWithdraw(p) ==
  \E r \in Req, i \in Shard :
    LET pay == Want[r].pay
        need == pay.sats + (IF Want[r].external THEN 0 ELSE Fee)
    IN  /\ req[r] # "done"
        /\ Initialized(file)
        /\ IF Want[r].shard = AutoShard THEN Picks(file.shards, need, i)
                                        ELSE i = Want[r].shard
        /\ file.shards[i].value >= need
        /\ Len(chain) < MaxTx
        /\ \E fund \in FeeInputs(Want[r].external) :
             /\ WithdrawBuilds(PrevoutOf(file.shards[i]), pay, fund)
             /\ Begin(p, [op |-> "withdraw", shard |-> i, note |-> {}, req |-> {r},
                          txs |-> <<WithdrawTx(file.cat, file.shards[i],
                                               PrevoutOf(file.shards[i]), pay, fund,
                                               WithdrawMode(ForcedMode))>>], "send", file)
        /\ req' = [req EXCEPT ![r] = "asked"]
        /\ UNCHANGED <<chain, received, elsewhere, wire, file, faults>>

-----------------------------------------------------------------------------
(* What a command does to its copy once it has a txid.  Only the shard's   *)
(* own pointer is patched, with the builder's value and commitment.        *)

\* faulty variant: shards numbered from 1
PointersFromOne(t, txid) ==
  [i \in 1 .. NShards |-> [txid |-> txid, vout |-> i,
                           value |-> t.outs[i].value, commit |-> t.outs[i].commit]]

InitialPointers(t, txid) ==
  [i \in Shard |-> [txid |-> txid, vout |-> i + 1,
                    value |-> t.outs[i + 1].value, commit |-> t.outs[i + 1].commit]]

\* faulty variant: the vout convention of init
NextPointerAtOne(t, txid) ==
  [txid |-> txid, vout |-> 1, value |-> t.outs[0].value, commit |-> t.outs[0].commit]

NextPointer(t, txid) ==
  [txid |-> txid, vout |-> 0, value |-> t.outs[0].value, commit |-> t.outs[0].commit]

\* faulty variant: a fresh pool starts with an empty state
RecordInitAnew(s, t, txid) ==
  [EmptyState EXCEPT !.cat = t.outs[1].cat, !.shards = InitialPointers(t, txid)]

RecordInit(s, t, txid) ==
  [s EXCEPT !.cat = t.outs[1].cat, !.shards = InitialPointers(t, txid)]

\* faulty variant: the deposit is recorded, the pointer is not patched
RecordImportOnly(s, i, t, txid) ==
  [s EXCEPT !.deposits = [n \in Note |-> IF n \in t.notes
                            THEN [staged |-> TRUE, importTx |-> txid, shard |-> i]
                            ELSE @[n]]]

RecordImport(s, i, t, txid) ==
  [s EXCEPT !.shards[i] = NextPointer(t, txid),
            !.deposits = [n \in Note |-> IF n \in t.notes
                            THEN [staged |-> TRUE, importTx |-> txid, shard |-> i]
                            ELSE @[n]]]

\* faulty variant: recorded against the shard after the one that paid
RecordWithdrawElsewhere(s, i, t, txid) ==
  [s EXCEPT !.shards[i] = NextPointer(t, txid),
            !.withdrawals = @ \cup {[txid |-> txid, shard |-> (i + 1) % NShards, sats |-> w.sats]
                                     : w \in t.pays}]

RecordWithdraw(s, i, t, txid) ==
  [s EXCEPT !.shards[i] = NextPointer(t, txid),
            !.withdrawals = @ \cup {[txid |-> txid, shard |-> i, sats |-> w.sats] : w \in t.pays}]

Record(s, j, t, txid) ==
  CASE j.op = "init" -> RecordInit(s, t, txid)
    [] j.op = "import" -> RecordImport(s, j.shard, t, txid)
    [] j.op = "withdraw" -> RecordWithdraw(s, j.shard, t, txid)
    [] OTHER -> s

-----------------------------------------------------------------------------
(* The node                                                                *)

Acceptable(t) ==
  /\ InputsLive(chain, t) /\ t.notes \subseteq UnspentNotes
  /\ Relayable(t)
  /\ CovenantAccepts(chain, t)

ScriptFails(t) ==
  /\ InputsLive(chain, t) /\ t.notes \subseteq UnspentNotes
  /\ Relayable(t)
  /\ ~CovenantAccepts(chain, t)

Sending(p) == pc[p] = "send" /\ job[p].txs # <<>>

GetsTxid(p, txid) ==
  /\ mem' = [mem EXCEPT ![p] = Record(@, job[p], Head(job[p].txs), txid)]
  /\ pc' = [pc EXCEPT ![p] = "save"]

Ends(p) ==
  /\ pc' = [pc EXCEPT ![p] = "idle"]
  /\ mem' = [mem EXCEPT ![p] = EmptyState]
  /\ job' = [job EXCEPT ![p] = NoJob]

NodeAccepts(p) ==
  /\ Sending(p)
  /\ Acceptable(Head(job[p].txs))
  /\ chain' = Append(chain, Head(job[p].txs))
  /\ GetsTxid(p, Len(chain) + 1)
  /\ UNCHANGED <<received, elsewhere, wire, file, job, req, faults>>

\* faulty variant: taken for an error
NodeEchoIsError(p) ==
  /\ Sending(p)
  /\ "ok" \in KnownReply /\ Known(chain, Head(job[p].txs))
  /\ Ends(p)
  /\ UNCHANGED <<chain, received, elsewhere, wire, file, req, faults>>

(* the very same transaction was accepted before *)
NodeEchoes(p) ==
  /\ Sending(p)
  /\ "ok" \in KnownReply /\ Known(chain, Head(job[p].txs))
  /\ GetsTxid(p, TxidOf(chain, Head(job[p].txs)))
  /\ UNCHANGED <<chain, received, elsewhere, wire, file, job, req, faults>>

(* import goes on to its next category mode after a script failure *)
NodeFailsScript(p) ==
  /\ Sending(p)
  /\ ScriptFails(Head(job[p].txs))
  /\ job[p].op = "import" /\ Len(job[p].txs) > 1
  /\ job' = [job EXCEPT ![p].txs = Tail(@)]
  /\ UNCHANGED <<chain, received, elsewhere, wire, file, mem, pc, req, faults>>

\* faulty variants: the error is swallowed; a script failure is never final
NodeRejectsUnnoticed(p) ==
  /\ Sending(p)
  /\ ~Acceptable(Head(job[p].txs))
  /\ pc' = [pc EXCEPT ![p] = "save"]
  /\ UNCHANGED <<chain, received, elsewhere, wire, file, mem, job, req, faults>>

NodeRejectsButScript(p) ==
  /\ Sending(p)
  /\ IF Known(chain, Head(job[p].txs)) THEN "reject" \in KnownReply
                                       ELSE ~Acceptable(Head(job[p].txs))
  /\ ~ScriptFails(Head(job[p].txs))
  /\ Ends(p)
  /\ UNCHANGED <<chain, received, elsewhere, wire, file, req, faults>>

(* any other error ends the command without a save *)
NodeRejects(p) ==
  /\ Sending(p)
  /\ IF Known(chain, Head(job[p].txs)) THEN "reject" \in KnownReply
                                       ELSE ~Acceptable(Head(job[p].txs))
  /\ ~(ScriptFails(Head(job[p].txs)) /\ job[p].op = "import" /\ Len(job[p].txs) > 1)
  /\ Ends(p)
  /\ UNCHANGED <<chain, received, elsewhere, wire, file, req, faults>>

(* the deposit transaction is accepted: the note exists and is staged *)
NodeCreatesNote(p) ==
  /\ pc[p] = "send" /\ job[p].op = "deposit"
  /\ \E n \in job[p].note :
       /\ received' = received \cup {n}
       /\ mem' = [mem EXCEPT ![p] = Stage(@, n)]
  /\ pc' = [pc EXCEPT ![p] = "save"]
  /\ UNCHANGED <<chain, elsewhere, wire, file, job, req, faults>>

Save(p) ==
  /\ pc[p] = "save"
  /\ file' = mem[p]
  /\ req' = [r \in Req |-> IF r \in job[p].req THEN "done" ELSE req[r]]
  /\ Ends(p)
  /\ UNCHANGED <<chain, received, elsewhere, wire, faults>>

-----------------------------------------------------------------------------
(* Faults and the environment                                              *)

(* The connection is lost, the request times out or the process dies while *)
(* it waits: what it sent may still arrive.                                *)
GivesUp(p) ==
  /\ pc[p] = "send" /\ faults < MaxFaults
  /\ wire' = wire \cup {job[p].txs[k] : k \in DOMAIN job[p].txs \cap {1}}
  /\ faults' = faults + 1
  /\ Ends(p)
  /\ UNCHANGED <<chain, received, elsewhere, file, req>>

\* faulty variant: the pointers are saved before the rest
CrashBetweenSaves(p) ==
  /\ pc[p] = "save" /\ faults < MaxFaults
  /\ faults' = faults + 1
  /\ file' = [file EXCEPT !.cat = mem[p].cat, !.shards = mem[p].shards]
  /\ Ends(p)
  /\ UNCHANGED <<chain, received, elsewhere, wire, req>>

(* it dies after the node's answer and before the save *)
Crash(p) ==
  /\ pc[p] = "save" /\ faults < MaxFaults
  /\ faults' = faults + 1
  /\ Ends(p)
  /\ UNCHANGED <<chain, received, elsewhere, wire, file, req>>

ArrivesLate ==
  \E t \in wire :
    /\ Acceptable(t)
    /\ chain' = Append(chain, t)
    /\ wire' = wire \ {t}
    /\ UNCHANGED <<received, elsewhere, file, mem, pc, job, req, faults>>

(* somebody pays the operator's paycode; a deposit whose sender gave up *)
Receive ==
  \E n \in Note \ received :
    /\ received' = received \cup {n}
    /\ UNCHANGED <<chain, elsewhere, wire, file, mem, pc, job, req, faults>>

(* the owner spends a note as an ordinary UTXO *)
SpendElsewhere ==
  \E n \in UnspentNotes :
    /\ elsewhere' = elsewhere \cup {n}
    /\ UNCHANGED <<chain, received, wire, file, mem, pc, job, req, faults>>

-----------------------------------------------------------------------------
Command(p) ==
  \/ StartInit(p) \/ InitAgain(p) \/ StartDeposit(p) \/ StageFrom(p)
  \/ StartImport(p) \/ StartWithdraw(p)

Answer(p) ==
  \/ NodeAccepts(p) \/ NodeEchoes(p) \/ NodeFailsScript(p) \/ NodeRejects(p)
  \/ NodeCreatesNote(p)

Fault(p) == GivesUp(p) \/ Crash(p)

Environment == ArrivesLate \/ Receive \/ SpendElsewhere

Next ==
  \/ \E p \in Proc : Command(p) \/ Answer(p) \/ Save(p) \/ Fault(p)
  \/ Environment

Spec == Init /\ [][Next]_vars

-----------------------------------------------------------------------------
(* Type invariant *)

TypeOK ==
  /\ chain \in Seq(Tx)
  /\ received \subseteq Note /\ elsewhere \subseteq Note
  /\ wire \subseteq Tx
  /\ file \in PoolState
  /\ mem \in [Proc -> PoolState]
  /\ pc \in [Proc -> {"idle", "send", "save"}]
  /\ job \in [Proc -> Job]
  /\ req \in [Req -> {"new", "asked", "done"}]
  /\ faults \in Nat

-----------------------------------------------------------------------------
(* Safety.  Each holds whatever the interleaving, the faults and the number *)
(* of processes, unless the comment says otherwise.                         *)

PointsAt(s, i) == [txid |-> s.shards[i].txid, vout |-> s.shards[i].vout]

(* A pool state is faithful to chain c when each pointer is an output c     *)
(* really has, of the pool's category and of that shard's own commitment    *)
(* history, and the value and commitment stored beside it are that output's *)
FaithfulPointer(c, s, i) ==
  LET cell == CellAt(c, PointsAt(s, i))
  IN  /\ PointsAt(s, i) \in Made(c)
      /\ cell.value = s.shards[i].value
      /\ cell.commit = s.shards[i].commit
      /\ cell.cat = s.cat
      /\ cell.commit.cat = s.cat /\ cell.commit.shard = i
Faithful(c, s) ==
  Initialized(s) => s.shards \in [Shard -> Pointer] /\ \A i \in Shard : FaithfulPointer(c, s, i)

(* What patchShardFromNextPoolState writes and every command reads: the     *)
(* pointers of the saved state and of each copy in memory may be old, never *)
(* false.  import folds the stored commitment and withdraw the on-chain one *)
(* and they may differ only if this fails.                                  *)
StateFaithful == Faithful(chain, file) /\ \A p \in Proc : Faithful(chain, mem[p])

ThreadOf(f, i) == {o \in Live(chain) : CellAt(chain, o).commit.cat = f
                                         /\ CellAt(chain, o).commit.shard = i}

(* Every shard of every pool ever created has exactly one unspent output,   *)
(* however many commands raced to spend it: no shard forks and none is lost *)
UniqueThread ==
  \A k \in Inits : \A f \in chain[k].fund, i \in Shard :
    \E o \in ThreadOf(f, i) : ThreadOf(f, i) = {o}

(* Satoshis are conserved: the live shards of all pools hold what init put  *)
(* in, plus the imported notes less their fee, less the payments and the    *)
(* fees the shards paid themselves                                          *)
FundedBy(k) == IF chain[k].ins = {} THEN NShards * ShardValue ELSE 0
Imported(k) == SumFunctionOnSet([n \in Note |-> NoteValue[n] - Fee], chain[k].notes)
PaidOut(k) == SumFunctionOnSet([w \in Payment |-> w.sats + FeeFromShard(chain[k].fund)], chain[k].pays)
ValueAccounting ==
  SumFunction([o \in Live(chain) |-> CellAt(chain, o).value])
    = SumFunction([k \in DOMAIN chain |-> FundedBy(k) + Imported(k) - PaidOut(k)])

(* An importTxid stored on a deposit is the transaction that spent that     *)
(* very note, into the shard named by importedIntoShard                     *)
ImportsTruthful(c, s) ==
  \A n \in Note :
    LET d == s.deposits[n]
    IN  d.importTx # 0 =>
          /\ d.importTx \in DOMAIN c
          /\ n \in c[d.importTx].notes
          /\ c[d.importTx].outs[0].commit.shard = d.shard

(* A withdrawals[] entry names a transaction that pays its amount out of    *)
(* the shard it names                                                       *)
WithdrawalsTruthful(c, s) ==
  \A w \in s.withdrawals :
    /\ w.txid \in DOMAIN c
    /\ \E pay \in c[w.txid].pays : pay.sats = w.sats
    /\ c[w.txid].outs[0].commit.shard = w.shard

(* The saved history is true of the chain, whichever copy of the state was  *)
(* saved last                                                               *)
RecordsTruthful == ImportsTruthful(chain, file) /\ WithdrawalsTruthful(chain, file)

(* A withdrawal request is paid at most once out of one pool, through any   *)
(* number of retries, lost replies and late arrivals.  Requests that leave  *)
(* the choice of shard to the command are excluded: a retry may pick        *)
(* another shard.                                                           *)
Paying(f, pay) == {k \in Withdraws(chain) : pay \in chain[k].pays /\ chain[k].outs[0].cat = f}
Asking(pay) == {r \in Req : req[r] # "new" /\ Want[r].pay = pay}
PaidOncePerRequest ==
  \A f \in Funding, r \in Req :
    (\A q \in Asking(Want[r].pay) : Want[q].shard # AutoShard)
      => Cardinality(Paying(f, Want[r].pay)) <= Cardinality(Asking(Want[r].pay))

(* With one command at a time, as many identical payments are on chain as   *)
(* were reported done: an echoed withdrawal is reported once.               *)
ReportedArePaid ==
  \A r \in Req :
    LET pay == Want[r].pay
    IN  Cardinality({q \in Req : req[q] = "done" /\ Want[q].pay = pay})
          <= Cardinality({k \in Withdraws(chain) : pay \in chain[k].pays})

Stale == IF Initialized(file) THEN {i \in Shard : PointsAt(file, i) \notin Live(chain)} ELSE {}

(* With one command at a time, each stale pointer is due to a command that  *)
(* was cut short or has yet to save, and it is one transaction behind: the  *)
(* output that replaced it is live.                                         *)
StaleByOneStep ==
  /\ Cardinality(Stale) <= faults + Cardinality({p \in Proc : pc[p] = "save"})
  /\ \A i \in Stale : \E k \in DOMAIN chain :
       PointsAt(file, i) \in chain[k].ins /\ [txid |-> k, vout |-> 0] \in Live(chain)

(* The chain is a pool ledger: with each shard read off the newest of its   *)
(* outputs, every step of any process, the node or the environment is a     *)
(* step of PoolLedger or leaves it unchanged.                               *)
Pools == UNION {chain[k].fund : k \in Inits}
Touches(k, f, i) == \E v \in DOMAIN chain[k].outs :
                      chain[k].outs[v].commit.cat = f /\ chain[k].outs[v].commit.shard = i
Newest(f, i) == CHOOSE k \in DOMAIN chain :
                  /\ Touches(k, f, i)
                  /\ \A l \in k + 1 .. Len(chain) : ~Touches(l, f, i)
CellOf(f, i) == LET t == chain[Newest(f, i)]
                IN  IF t.ins = {} THEN t.outs[i + 1] ELSE t.outs[0]
LedgerTable == [f \in Pools |-> [i \in Shard |-> [value |-> CellOf(f, i).value,
                                                  commit |-> CellOf(f, i).commit]]]
Ledger == INSTANCE PoolLedger WITH table <- LedgerTable, absorbed <- NotesSpent(chain)
ImplementsLedger == Ledger!LedgerSpec

-----------------------------------------------------------------------------
(* Action properties *)

(* With one command at a time, the saved history only grows: no withdrawal  *)
(* record, no importTxid and no staged deposit is ever dropped, and a       *)
(* pointer never goes back to an earlier commitment of its shard            *)
KeepsHistory(s, t) ==
  /\ s.withdrawals \subseteq t.withdrawals
  /\ \A n \in Note : /\ s.deposits[n].staged => t.deposits[n].staged
                     /\ s.deposits[n].importTx # 0 => t.deposits[n].importTx # 0
  /\ Initialized(s) /\ t.cat = s.cat =>
       \A i \in Shard : Len(s.shards[i].commit.folds) <= Len(t.shards[i].commit.folds)
HistoryAppendOnly == [][KeepsHistory(file, file')]_vars

(* An import whose pointer and note are good is not lost to the category    *)
(* byte order: one of the modes tried is the covenant's                     *)
ImportFindsMode ==
  [][\A p \in Proc : NodeRejects(p) /\ job[p].op = "import" /\ ForcedMode = ""
        => ~ScriptFails(Head(job[p].txs))]_vars

-----------------------------------------------------------------------------
(* Liveness.  The node answers a connected client and a command that has    *)
(* its answer runs on: WF of both.  Retried adds an operator who keeps      *)
(* re-running import and withdraw until they succeed.                       *)

Fairness == \A p \in Proc : WF_vars(Answer(p)) /\ WF_vars(Save(p))
FairSpec == Spec /\ Fairness

Retried == \A p \in Proc : SF_vars(StartImport(p)) /\ SF_vars(StartWithdraw(p))
RetriedSpec == FairSpec /\ Retried

(* No command hangs: every state it can be in has an answer *)
CommandsEnd == \A p \in Proc : pc[p] # "idle" ~> pc[p] = "idle"

(* A withdrawal asked for is in the end paid and recorded, although its     *)
(* first tries were cut short                                               *)
WithdrawalsComplete == \A r \in Req : req[r] = "asked" ~> req[r] = "done"

=============================================================================
