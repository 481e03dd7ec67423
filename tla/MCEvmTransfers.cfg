SPECIFICATION Spec
CONSTANTS
  weth = weth
  ETH = ETH
  alice = alice
  bob = bob
  tkn = tkn
  taxed = taxed
  Shim = Shim
  NotAttested = NotAttested
  Malformed = Malformed
  ZeroRecipient = "zero"
  unwrapWeth = TRUE
  Tokens = {weth, tkn}
  Hooked = {}
  Users <- MCUsers
  Pow10 <- MCPow10
  Decimals <- MCDecimals
  TransferFee <- MCTransferFee
  Inbound <- MCRefused
  Destinations <- MCDestinations
  Amounts = {4}
  Values = {1, 2, 5}
  Tips = {0}
  Payments = {1}
  MessageFees = {0, 1}
  Donated = {tkn}
  MaxDepth = 2
  MaxSequence = 2
  MaxDonation = 3
INVARIANTS
  RelayRequested
  SentAsAsked
  AllowanceSpent
