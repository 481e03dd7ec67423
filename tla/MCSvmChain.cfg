SPECIFICATION ResolverSpec
CONSTANTS
  alice = alice
  bob = bob
  sol = sol
  spl = spl
  usdc = usdc
  ThisProgram = ThisProgram
  Malformed = Malformed
  NoTable = NoTable
  NoAccount = NoAccount
  ZeroAddress = "zero"
  OUR_CHAIN = 51
  Users = {alice, bob}
  nativeMint = sol
  Pow10 <- MCPow10
  Decimals <- MCDecimals
  Custody <- MCCustody
  TmpRent = 2
  Mints = {sol, spl, usdc}
  Wrapped = {usdc}
  NoPlan = NoPlan
  executor = bob
  Inbound <- MCFromSolana
  Slots = {1, 2}
  MessageFee = 1
  OtherTracker = 3
  Amounts = {}
  ExecAmounts = {}
  Destinations = {}
  Wallet = 20
  Purse <- MCNothing
  MaxSequence = 0
  MaxPrefund = 0
INVARIANTS
  SolanaTokensAreNative
