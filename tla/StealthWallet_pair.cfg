SPECIFICATION Spec
CONSTANTS
  a = a
  b = b
  p1 = p1
  p2 = p2
  Wallet = {a, b}
  Stranger = Stranger
  Shard = Shard
  Me = Me
  Coins <- CoinsTwice
  Fee = 1
  Dust = 1
  Margin = 1
  MaxRole = 2
  Bucket <- Unmatched
  Proc = {p1, p2}
  Profile <- BothOfA
  Request <- Mixed
  Prefer = "base"
  MaxTx = 2
  MaxFaults = 1
INVARIANT OneTimeKeys
