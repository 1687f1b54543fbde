----------------------------- MODULE MCPoolOps ------------------------------
(***************************************************************************)
(* Small instances of PoolOps: two shards and the amounts of the code.     *)
(* Notes: one that fills a shard up, one worth less than the fee (it       *)
(* shrinks the shard).  Withdrawals: amounts such that a shard of 100,000  *)
(* can serve one and not both.                                             *)
(***************************************************************************)
EXTENDS PoolOps, TLC

CONSTANTS p1, p2, n1, n2, f1, f2, f3, alice, bob, r1, r2

Values == [n \in Note |-> IF n = n1 THEN 50000 ELSE 1500]
Bytes == [n \in Note |-> IF n = n1 THEN 6 ELSE 3]

Withdrawal60k(shard, ext) == [pay |-> [to |-> alice, sats |-> 60000], shard |-> shard, external |-> ext]

\* one explicit request and one that lets the command choose
WantMixed == [r \in Req |-> IF r = r1 THEN Withdrawal60k(0, FALSE) ELSE
               [pay |-> [to |-> bob, sats |-> 35000], shard |-> AutoShard, external |-> TRUE]]
\* the same payment asked for twice
WantTwice == [r \in Req |-> [pay |-> [to |-> alice, sats |-> 35000], shard |-> 0, external |-> FALSE]]

ActorSymmetry == Permutations(Proc) \cup Permutations(Funding)

AutoIsMinusOne == -1
NoOptions == {}
=============================================================================
