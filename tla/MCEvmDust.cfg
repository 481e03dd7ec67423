SPECIFICATION Spec
CONSTANTS
  weth = weth
  ETH = ETH
  alice = alice
  bob = bob
  tkn = tkn
  taxed = taxed
  Shim = Shim
  NotAttested = NotAttested
  Malformed = Malformed
  ZeroRecipient = "zero"
  unwrapWeth = FALSE
  Tokens = {weth, tkn, taxed}
  Hooked = {}
  Users <- MCUsers
  Pow10 <- MCPow10
  Decimals <- MCDecimals
  TransferFee <- MCTransferFee
  Inbound <- MCRefused
  Destinations <- MCOneDestination
  Amounts = {6}
  Values = {0, 1, 5}
  Tips = {0}
  Payments = {0, 1}
  MessageFees = {0, 1}
  Donated = {}
  MaxDepth = 2
  MaxSequence = 2
  MaxDonation = 3
INVARIANTS
  DustNeverHeld
