SPECIFICATION Spec
CONSTANTS
  weth = weth
  ETH = ETH
  alice = alice
  bob = bob
  tkn = tkn
  taxed = taxed
  Shim = Shim
  NotAttested = NotAttested
  Malformed = Malformed
  ZeroRecipient = "zero"
  unwrapWeth = TRUE
  Tokens = {weth, tkn}
  Hooked = {tkn}
  Users <- MCUsers
  Pow10 <- MCPow10
  Decimals <- MCDecimals
  TransferFee <- MCTransferFee
  Inbound <- MCOnePerToken
  Destinations <- MCOneDestination
  Amounts = {4}
  Values = {0, 1, 5}
  Tips = {0}
  Payments = {0}
  MessageFees = {0, 1}
  Donated = {tkn}
  MaxDepth = 3
  MaxSequence = 2
  MaxDonation = 1
INVARIANTS
  TypeOK
  NothingLeftBehind
  PaidOnceInFull
PROPERTIES
  NoReserveSpent
  ImplementsShim
