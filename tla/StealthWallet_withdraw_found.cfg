SPECIFICATION Spec
CONSTANTS
  a = a
  b = b
  p1 = p1
  p2 = p2
  Wallet = {a, b}
  Stranger = Stranger
  Shard = Shard
  Me = Me
  Coins <- CoinsOfA
  Fee = 1
  Dust = 1
  Margin = 1
  MaxRole = 2
  Bucket <- Unmatched
  Proc = {p1}
  Profile <- OnlyA
  Request <- Everything
  Prefer = "base"
  MaxTx = 3
  MaxFaults = 0
INVARIANT WithdrawDiscoverable
