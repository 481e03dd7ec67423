CHECK_DEADLOCK FALSE
SPECIFICATION Spec
CONSTANTS
  alice = alice
  bob = bob
  SUI = SUI
  usdc = usdc
  weth = weth
  Relayer = Relayer
  TokenBridge = TokenBridge
  NoState = NoState
  Malformed = Malformed
  ZeroAddress = "zero"
  CHAIN_ID = 21
  Users = {alice, bob}
  CoinTypes = {SUI, usdc, weth}
  Wrapped = {weth}
  Pow10 <- MCPow10
  Decimals <- MCDecimals
  Inbound <- MCInbound
  MessageFee = 1
  Emitters = {TokenBridge, Relayer}
  Amounts = {1, 4}
  ExecAmounts = {0, 1}
  Destinations <- MCDestinations
  Purse <- MCPurse
  Custody <- MCCustody
  MaxSequence = 2
INVARIANTS
  TypeOK
  CoinsAccounted
  RelayRequested
  PaidOnceInFull
PROPERTIES
  ImplementsShim
