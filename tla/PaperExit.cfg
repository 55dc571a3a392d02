SPECIFICATION Spec
CONSTANTS
  MaxPrice = 5
  Range = 2
  Prices <- MCPrices
  Candles <- MCCandles
  Entries <- MCEntries
  BucketLen = 2
  CloseMinutes = {4}
  MaxMinute = 6
INVARIANTS
  TypeOK
  SameExit
  FillIsTraded
  ProtectionExact
  RecoveryExitExact
CHECK_DEADLOCK FALSE
