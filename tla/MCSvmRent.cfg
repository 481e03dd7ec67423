CHECK_DEADLOCK FALSE
SPECIFICATION Spec
CONSTANTS
  alice = alice
  bob = bob
  sol = sol
  spl = spl
  usdc = usdc
  ThisProgram = ThisProgram
  Malformed = Malformed
  NoTable = NoTable
  NoAccount = NoAccount
  ZeroAddress = "zero"
  OUR_CHAIN = 51
  Users = {alice, bob}
  nativeMint = sol
  Pow10 <- MCPow10
  Decimals <- MCDecimals
  Custody <- MCCustody
  TmpRent = 2
  Mints = {sol, spl}
  Wrapped = {}
  Inbound <- MCInbound
  Slots = {1}
  MessageFee = 1
  OtherTracker = 3
  Amounts = {4}
  ExecAmounts = {0}
  Destinations <- MCDestinations
  Wallet = 9
  Purse <- MCPurse
  MaxSequence = 1
  MaxPrefund = 1
PROPERTIES
  RelayerRepaid
