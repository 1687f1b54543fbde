---------------------------- MODULE PoolLedger -----------------------------
(***************************************************************************)
(* What a sharded pool promises, with no transactions, copies of the state *)
(* or failures: every pool is a table of shards, each with a value and a   *)
(* commitment, that changes one shard at a time.  A note enters the pools  *)
(* once, ever; a payment leaves at least the dust a shard needs to live.   *)
(* sharded-pool-state-machine-spec.md sections 4 and 5 describe this       *)
(* machine; PoolOps implements it, for any number of processes, crashes    *)
(* and late transactions.                                                  *)
(***************************************************************************)
EXTENDS PoolTx

VARIABLES
  table,    \* category -> shard -> [value, commit]
  absorbed  \* notes imported into any pool

ledgerVars == <<table, absorbed>>

LedgerInit ==
  /\ table = [f \in {} |-> {}]
  /\ absorbed = {}

Create(f) ==
  /\ f \notin DOMAIN table
  /\ table' = [g \in DOMAIN table \cup {f} |->
                 IF g \in DOMAIN table THEN table[g]
                 ELSE [i \in Shard |-> [value |-> ShardValue,
                                        commit |-> GenesisCommitment(f, i)]]]
  /\ UNCHANGED absorbed

Moves(f, i, value, item) ==
  /\ table'[f][i] = [value |-> value, commit |-> StateOut(table[f][i].commit, item)]
  /\ value >= ShardDust
  /\ table' = [table EXCEPT ![f][i] = table'[f][i]]

Absorb(f, i, n) ==
  /\ n \notin absorbed
  /\ absorbed' = absorbed \cup {n}
  /\ Moves(f, i, table[f][i].value + NoteValue[n] - Fee, NoteFold(n, CovenantMode))

Pay(f, i, pay, fee) ==
  /\ pay.sats >= Dust
  /\ UNCHANGED absorbed
  /\ Moves(f, i, table[f][i].value - pay.sats - fee, Nullifier(pay, CovenantMode))

LedgerNext ==
  /\ table' # table
  /\ \/ \E f \in Funding : Create(f)
     \/ \E f \in DOMAIN table, i \in Shard :
          \/ \E n \in Note : Absorb(f, i, n)
          \/ \E pay \in Payment, fee \in {0, Fee} : Pay(f, i, pay, fee)

LedgerSpec == LedgerInit /\ [][LedgerNext]_ledgerVars
=============================================================================
