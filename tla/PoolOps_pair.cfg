SPECIFICATION Spec
CONSTANTS
  p1 = p1
  p2 = p2
  n1 = n1
  n2 = n2
  f1 = f1
  f2 = f2
  f3 = f3
  alice = alice
  bob = bob
  r1 = r1
  r2 = r2
  NoCat = NoCat
  NShards = 2
  Note = {n1}
  NoteValue <- Values
  NoteByte <- Bytes
  Funding = {f1, f2}
  Payee = {alice, bob}
  Amount = {35000, 60000}
  ShardValue = 100000
  Fee = 2000
  Dust = 546
  ShardDust = 1100
  CovenantMode = "direct"
  Proc = {p1, p2}
  Req = {r1}
  Want <- WantMixed
  AutoShard <- AutoIsMinusOne
  ShardOption <- NoOptions
  ForcedMode = ""
  KnownReply = {"ok", "reject"}
  MaxTx = 8
  MaxInit = 1
  MaxFaults = 1
SYMMETRY ActorSymmetry
INVARIANT StateFaithful
INVARIANT UniqueThread
INVARIANT RecordsTruthful
INVARIANT ValueAccounting
PROPERTY ImplementsLedger
