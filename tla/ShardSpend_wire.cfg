SPECIFICATION Spec
CONSTANTS
  NShards = 2
  CodeWidth <- WidthsAtTheBoundaries
  Typed <- SlipsOfOneAddress
  Network <- Bchtest
  OtherNetwork <- Mainnet
  Meant <- AddressMeant
  Limbs <- LimbsAtTheBoundaries
  FeeCoinValue = {999, 1200, 5000}
  ShardValue = 1000000
  DepositValue = 30000
  Payment = 20000
  Fee = 1000
  MaxTx = 3
INVARIANTS
  NodeAgrees
  StackContract
  ReadBack
  PaysTheAddress
CHECK_DEADLOCK FALSE
