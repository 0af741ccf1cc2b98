SPECIFICATION PairSpec
CONSTANTS
  Account = {1, 2}
  Id = {1, 2, 9}
  Amount = {0, 1, 2}
  Key = {k1, k2}
  Handler = {t1, t2}
  Seed <- Opening
  U64_MAX = 3
  None = None
INVARIANTS
  TypeOK
  Conserved
  ClosedIsFinal
  ReceiptsRepeat
  SameBooks
PROPERTIES
  KeepsBooks
  StoreKeepsBooks
