CHECK_DEADLOCK FALSE
SPECIFICATION FairSpec
CONSTANTS
  wallet = wallet
  account = account
  contract = contract
  program = program
  cap = cap
  state = state
  bridge = bridge
  eth = eth
  sol = sol
  ZeroAddress = zero
  Malformed = Malformed
  EvmChains = {2}
  SvmChains = {1}
  SuiChains = {21}
  Words = {zero, wallet, account, contract, program, cap, state, bridge}
  Narrow = {zero, wallet, contract}
  Tokens = {eth, sol}
  Pow10 <- MCPow10
  Redeemer <- MCRedeemer
  Execution <- MCExecution
  TokenBridge <- MCTokenBridge
  Home <- MCHome
  Decimals <- MCDecimals
  Destinations <- MCDestinations
  Amounts = {4}
  MaxSequence = 2
  MaxMessages = 2
INVARIANTS
  TypeOK
  RequestsFindMessages
PROPERTIES
  ImplementsDelivery
  EventuallyDelivered
