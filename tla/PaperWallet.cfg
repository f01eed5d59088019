\* The scheduler's cycle beside a process that serves requests: two months, two requests
\* that write, pages without a bound, one fault.  At first the limit of lots binds, after a
\* reset the cash.
SPECIFICATION FairSpec
CONSTANTS
  c1 = c1
  o1 = o1
  Signals <- Lots
  KeyOf <- LotKey
  Slice = 2
  Legacy = {1, 2}
  Scheduled = {c1}
  Others = {o1}
  Gains <- Earned
  Balances = {1, 6}
  Start = 6
  MaxOpen = 2
  MaxMonth = 2
  MaxWrites = 2
  MaxFaults = 1
INVARIANTS
  WalletHolds
  OneLotPerSymbol
PROPERTY LotsEnd
