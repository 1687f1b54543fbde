-------------------------- MODULE MCStealthWallet ---------------------------
(***************************************************************************)
(* Instances of StealthWallet for TLC: two profiles, small values in which *)
(* a coin covers a payment, its fee and the dust of its change, or not.    *)
(***************************************************************************)
EXTENDS StealthWallet, TLC

CONSTANTS a, b, p1, p2

Ask(op, to, sats, how) == [op |-> op, to |-> to, sats |-> sats, how |-> how, change |-> "auto"]
Scanning(ways) == {Ask("scan", Stranger, 0, how) : how \in ways}
DepositOf(how, change) == [Ask("deposit", Stranger, 2, how) EXCEPT !.change = change]

\* the covenant output and one base coin of a, or two
CoinsOfA == <<[owner |-> Shard, value |-> 9], [owner |-> a, value |-> 9]>>
CoinsTwice == Append(CoinsOfA, [owner |-> a, value |-> 5])

OneEach == (p1 :> a) @@ (p2 :> b)
BothOfA == (p1 :> a) @@ (p2 :> a)
OnlyA == p1 :> a

Sends == {Ask("send", b, 2, ""), Ask("send", a, 2, "")}
Deposits == {DepositOf("rpa", "stealth"), DepositOf("base", "auto")}
Withdraws == {Ask("withdraw", b, 2, "shard"), Ask("withdraw", b, 2, "external")}

Mixed == {Ask("send", a, 2, ""), DepositOf("rpa", "stealth"), Ask("withdraw", b, 2, "shard"), Ask("scan", Stranger, 0, "brute")}
Everything == Sends \cup Deposits \cup Withdraws \cup Scanning({"own", "mempool", "brute", "txid"})
Payers ==
  {Ask("send", b, 2, ""), Ask("withdraw", b, 2, "external"), DepositOf("rpa", "stealth")}
    \cup Scanning({"own"})

Unmatched == {{}}
EitherBucket == {{a}, {b}}

=============================================================================
