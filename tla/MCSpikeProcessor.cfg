CONSTANTS
  m1 = m1
  g1 = g1
  g2 = g2
  sigA = sigA
  sigB = sigB
  none = none
  Mints = {m1}
  Goroutines = {g1, g2}
  Signatures = {sigA, sigB}
  NoSignature = none
  Wallets = {"w1", "w2"}
  NoWallet = ""
  Inputs <- Deliveries
  Hour = 6
  Window = 3
  Buckets = 1
  RatioMin = 1
  WalletMin = 2
  MinEmit = 2
  CacheMax = 1
  MaxEvents = 4
  MaxRestarts = 1
SPECIFICATION Spec
SYMMETRY Both
INVARIANTS
  TypeOK
  RecentTradesKept
  CountedOnce
  AlertsSpacedUnlessRaced
  AlertsHaveTheirOwnRow
CHECK_DEADLOCK FALSE
