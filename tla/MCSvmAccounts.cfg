CHECK_DEADLOCK FALSE
SPECIFICATION Spec
CONSTANTS
  alice = alice
  bob = bob
  sol = sol
  spl = spl
  usdc = usdc
  ThisProgram = ThisProgram
  Malformed = Malformed
  NoTable = NoTable
  NoAccount = NoAccount
  ZeroAddress = "zero"
  OUR_CHAIN = 51
  Users = {alice, bob}
  nativeMint = sol
  Pow10 <- MCPow10
  Decimals <- MCDecimals
  Custody <- MCCustody
  TmpRent = 1
  Mints = {sol, spl, usdc}
  Wrapped = {usdc}
  Inbound <- MCInbound
  Slots = {1}
  MessageFee = 1
  OtherTracker = 3
  Amounts = {1, 4}
  ExecAmounts = {1}
  Destinations <- MCDestinations
  Wallet = 6
  Purse <- MCPurse
  MaxSequence = 2
  MaxPrefund = 2
INVARIANTS
  TypeOK
  TokensAccounted
  PaidOnceInFull
  NothingBlocked
  RelayRequested
PROPERTIES
  ImplementsShim
  ChargedAsAsked
