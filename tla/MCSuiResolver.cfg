SPECIFICATION ResolverSpec
CONSTANTS
  alice = alice
  bob = bob
  SUI = SUI
  usdc = usdc
  weth = weth
  Relayer = Relayer
  TokenBridge = TokenBridge
  NoState = NoState
  Malformed = Malformed
  ZeroAddress = "zero"
  CHAIN_ID = 21
  Users = {alice, bob}
  CoinTypes = {SUI, usdc, weth}
  Wrapped = {weth}
  Pow10 <- MCPow10
  Decimals <- MCDecimals
  executor = bob
  NoPlan = NoPlan
  Unknown = Unknown
  MaxUpgrades = 1
  Inbound <- MCToResolve
  MessageFee = 1
  Emitters = {TokenBridge}
  Amounts = {}
  ExecAmounts = {}
  Destinations = {}
  Purse <- MCPurse
  Custody <- MCCustody
  MaxSequence = 0
INVARIANTS
  PlansRun
PROPERTIES
  EventuallyRedeemed
