----------------------------- MODULE EvmRelayer -----------------------------
(***************************************************************************)
(* One TokenBridgeRelayer contract on one EVM chain.                       *)
(*                                                                         *)
(* A transaction is a stack of calls into the contract.  The contract      *)
(* hands control away in the middle of a call (the dust refund, the native *)
(* payout, a token that calls out while it moves) and whoever receives     *)
(* control may call any entry point again before the first call goes on.   *)
(* A failed require anywhere reverts the transaction to its checkpoint; an *)
(* inner call that fails and is caught leaves no trace at all, so it needs *)
(* no step of its own.                                                     *)
(*                                                                         *)
(* The Token Bridge, the Wormhole core, the Executor, WETH and the tokens  *)
(* are external: they appear as what they do to the contract's state.      *)
(***************************************************************************)
EXTENDS TokenAmounts, Sequences, Functions

CONSTANTS
  Users,         \* the accounts inbound transfers name as recipients
  Tokens,        \* the ERC-20 tokens of this chain, WETH among them
  weth,          \* the wrapped native token
  ETH,           \* the native asset
  unwrapWeth,    \* constructor flag: unwrap WETH, accept native transfers
  Decimals,      \* decimals of each token
  TransferFee,   \* what a fee-on-transfer token keeps of each transfer
  Hooked,        \* the tokens that call out in the middle of a transfer
  Inbound,       \* the signed TransferWithPayload messages for this chain
  Shim,          \* this contract, as the redeemer a message names
  NotAttested,   \* the token of a message with no wrapped asset here
  Malformed,     \* the recipient of a payload that does not decode
  ZeroRecipient, \* bytes32(0)
  Destinations   \* where an outbound transfer and its relay request may go

CONSTANTS        \* what callers and the environment choose from, and bounds
  Amounts,       \* token amounts asked for
  Values,        \* msg.value of an outbound call
  Tips,          \* msg.value of executeVAAv1
  Payments,      \* executionAmount of a call
  MessageFees,   \* Wormhole message fees
  Donated,       \* assets that reach the contract outside its functions
  MaxDepth,      \* calls of the contract on the stack at once
  MaxSequence,   \* Token Bridge messages published
  MaxDonation    \* no donation once this much came in outside a transfer

Assets == Tokens \cup {ETH}

ASSUME EvmAssumption ==
  /\ weth \in Tokens /\ ETH \notin Tokens
  /\ NotAttested \notin Tokens /\ Malformed \notin Users
  /\ unwrapWeth \in BOOLEAN
  /\ Decimals \in [Tokens -> Uint8]
  /\ TransferFee \in [Tokens -> Nat]
  /\ Hooked \subseteq Tokens
  \* WETH has 18 decimals, moves in full and never calls out.
  /\ Decimals[weth] = 18 /\ TransferFee[weth] = 0 /\ weth \notin Hooked
  /\ \A v \in Inbound : /\ v.token \in Tokens \cup {NotAttested}
                        /\ v.amount \in Nat
                        /\ v.recipient \in Users \cup {Malformed}
  /\ Amounts \subseteq Nat /\ Values \subseteq Nat /\ Tips \subseteq Nat
  /\ Payments \subseteq Nat /\ MessageFees \subseteq Nat
  /\ Donated \subseteq Assets

VARIABLES
  held,          \* what the contract owns of each asset
  allowance,     \* what the Token Bridge may still pull from the contract
  locked,        \* the ReentrancyGuard of transferTokensWithRelay
  messageFee,    \* the fee the Wormhole core asks for a message
  sequence,      \* the sequence of the Token Bridge's next message
  messages,      \* Token Bridge messages this contract asked for
  requests,      \* relay requests this contract filed with the Executor
  redeemed,      \* inbound messages the Token Bridge has completed
  payouts,       \* transfers of redeemed funds to recipients, as logged
  strays,        \* history: what came in outside a transfer, to stay
  stack,         \* the calls of the running transaction, innermost last
  saved          \* the state the running transaction reverts to

\* The contracts' storage: what a revert restores.
World == [held |-> held, allowance |-> allowance, locked |-> locked,
          messageFee |-> messageFee, sequence |-> sequence,
          messages |-> messages, requests |-> requests,
          redeemed |-> redeemed, payouts |-> payouts, strays |-> strays]

vars == <<held, allowance, locked, messageFee, sequence, messages, requests,
          redeemed, payouts, strays, stack, saved>>

Idle == stack = <<>>
Top == stack[Len(stack)]
Callers == SubSeq(stack, 1, Len(stack) - 1)

-----------------------------------------------------------------------------
(* The external contracts.                                                 *)

\* What arrives when a token moves.
Delivered(token, amount) ==
  IF amount > TransferFee[token] THEN amount - TransferFee[token] ELSE 0

\* Mutant: the balance, not the difference.
BugWholeBalance(token, credit) == held[token] + credit

\* Mutant: the amount as the message encodes it, not as it arrived.
BugEncodedAmount(token, credit) == normalizeAmount(credit, Decimals[token])

\* Balances before and after: what the innermost call has received of a token
\* since it began, once credit more arrives.
Measured(token, credit) == held[token] + credit - Top.base[token]

\* What the Token Bridge releases to the contract for an inbound message.
Released(vaa) ==
  Delivered(vaa.token, denormalizeAmount(vaa.amount, Decimals[vaa.token]))

-----------------------------------------------------------------------------
(* Calls and transactions.                                                 *)

\* The call has handed control to code the contract does not know.
CallsOut(call) ==
  \/ call.pc \in {"refund", "payout"}
  \/ call.pc = "custody" /\ call.token \in Hooked
  \/ call.pc = "complete" /\ call.vaa.token \in Hooked

\* Anyone may run: between transactions, or inside a call that calls out.
OthersRun == ~Idle => CallsOut(Top)

\* A call pushed on the stack; a call from outside opens a transaction.
Enter(call) ==
  /\ OthersRun
  /\ Len(stack) < MaxDepth
  /\ stack' = Append(stack, call)
  /\ saved' = IF Idle THEN World ELSE saved

\* The innermost call goes on as next.
Become(next) ==
  /\ stack' = [stack EXCEPT ![Len(stack)] = next]
  /\ UNCHANGED saved

\* The innermost call returns; the outermost one commits the transaction.
Return ==
  /\ stack' = Callers
  /\ saved' = IF Callers = <<>> THEN World' ELSE saved

\* A step of somebody else, a transaction of its own when none is running.
Aside ==
  /\ OthersRun
  /\ UNCHANGED stack
  /\ saved' = IF Idle THEN World' ELSE saved

\* A require fails, an external call fails, gas runs out.
Revert ==
  /\ ~Idle
  /\ held' = saved.held /\ allowance' = saved.allowance
  /\ locked' = saved.locked /\ messageFee' = saved.messageFee
  /\ sequence' = saved.sequence /\ messages' = saved.messages
  /\ requests' = saved.requests /\ redeemed' = saved.redeemed
  /\ payouts' = saved.payouts /\ strays' = saved.strays
  /\ stack' = <<>> /\ UNCHANGED saved

-----------------------------------------------------------------------------
(* Source side.                                                            *)

\* Mutant: the sequence the bridge will use next, not the one it returned.
BugNextSequence(call, messageSequence) ==
  [sequence |-> messageSequence + 1, targetChain |-> call.dst.targetChain,
   dstExecutionAddress |-> call.dst.dstExecutionAddress,
   payment |-> call.payment]

\* executor.requestExecution with makeVAAv1Request: the request names the
\* message by the bridge's emitter and its sequence.
RequestFor(call, messageSequence) ==
  [sequence |-> messageSequence, targetChain |-> call.dst.targetChain,
   dstExecutionAddress |-> call.dst.dstExecutionAddress,
   payment |-> call.payment]

\* _transferTokensWithRelay for the innermost call: amount of its token is in
\* the contract (credit of it just arrived), the bridge pulls what it can
\* carry, publishes, and the Executor is paid.
SendOut(call, credit, amount) ==
  LET token      == call.token
      normalized == normalizeAmount(amount, Decimals[token])
      pulled     == denormalizeAmount(normalized, Decimals[token])
      arrived    == Delivered(token, pulled)
  IN /\ call.dst.targetRecipient # ZeroRecipient
     /\ normalized > 0
     /\ allowance[token] = 0              \* or safeApprove reverts
     /\ call.fee = messageFee             \* or the core refuses the fee
     /\ sequence < MaxSequence
     /\ allowance' = [allowance EXCEPT ![token] = amount - pulled]
     /\ held' = [held EXCEPT ![token] = @ + credit - pulled,
                             ![ETH]   = @ - call.spend]
     /\ messages' = messages \cup
          {[sequence |-> sequence, token |-> token, asked |-> call.amount,
            amount |-> normalizeAmount(arrived, Decimals[token]),
            dst |-> call.dst]}
     /\ requests' = requests \cup {RequestFor(call, sequence)}
     /\ sequence' = sequence + 1
     /\ UNCHANGED <<messageFee, redeemed, payouts, strays>>
     /\ Return

\* Mutant: the caller is trusted to have added the message fee.
BugPaysExecutionOnly(value, payment) == value >= payment

\* The value sent along covers the message fee and the execution payment.
PaysExactly(value, payment) == value = messageFee + payment

\* The entry half of transferTokensWithRelay: the fee is read, the value is
\* checked, the dust is cut off and the caller's tokens start to move.
TransferTokensWithRelay(token, amount, value, payment, dst) ==
  /\ ~locked
  /\ PaysExactly(value, payment)
  /\ Enter([pc |-> "custody", base |-> held, token |-> token,
            amount |-> truncateAmount(amount, Decimals[token]),
            fee |-> messageFee, payment |-> payment,
            spend |-> messageFee + payment, dst |-> dst])
  /\ held' = [held EXCEPT ![ETH] = @ + value]
  /\ locked' = TRUE
  /\ UNCHANGED <<allowance, messageFee, sequence, messages, requests,
                 redeemed, payouts, strays>>

\* custodyTokens measures what arrived since the call began; the rest of
\* transferTokensWithRelay sends that on and lifts the guard.
CustodyTokens ==
  /\ ~Idle /\ Top.pc = "custody"
  /\ locked' = FALSE
  /\ LET credit == Delivered(Top.token, Top.amount)
     IN SendOut(Top, credit, Measured(Top.token, credit))

\* The entry half of wrapAndTransferEthWithRelay, up to the dust refund.  The
\* function carries no nonReentrant modifier.
WrapAndTransferEthWithRelay(value, payment, dst) ==
  LET fees   == messageFee + payment
      amount == value - fees
      kept   == truncateAmount(amount, 18)
  IN /\ unwrapWeth
     /\ value > fees
     /\ Enter([pc |-> IF amount > kept THEN "refund" ELSE "deposit",
               base |-> held, token |-> weth, amount |-> kept,
               fee |-> messageFee, payment |-> payment,
               spend |-> kept + fees, dst |-> dst])
     /\ held' = [held EXCEPT ![ETH] = @ + value - (amount - kept)]
     /\ UNCHANGED <<allowance, locked, messageFee, sequence, messages,
                    requests, redeemed, payouts, strays>>

\* After the refund: deposit into WETH, then send the WETH on.
DepositWeth ==
  /\ ~Idle /\ Top.pc \in {"refund", "deposit"}
  /\ UNCHANGED locked
  /\ SendOut(Top, Top.amount, Top.amount)

-----------------------------------------------------------------------------
(* Destination side.                                                       *)

\* executeVAAv1 up to the moment the Token Bridge, having marked the message
\* completed, moves the tokens.  A message that is not for this contract, was
\* completed before or cannot be decoded reverts.  The value stays here.
ExecuteVAAv1(vaa, value) ==
  /\ vaa \notin redeemed
  /\ vaa.redeemer = Shim
  /\ vaa.token # NotAttested
  /\ vaa.recipient # Malformed
  /\ Enter([pc |-> "complete", base |-> held, vaa |-> vaa])
  /\ held' = [held EXCEPT ![ETH] = @ + value]
  /\ strays' = [strays EXCEPT ![ETH] = @ + value]
  /\ redeemed' = redeemed \cup {vaa}
  /\ UNCHANGED <<allowance, locked, messageFee, sequence, messages, requests,
                 payouts>>

\* _completeTransfer measures what was released; all of it goes to the
\* recipient, as native asset when it is WETH and WETH is unwrapped.
PayRecipient ==
  /\ ~Idle /\ Top.pc = "complete"
  /\ LET vaa    == Top.vaa
         unwrap == vaa.token = weth /\ unwrapWeth
         amount == Measured(vaa.token, Released(vaa))
     IN /\ held' = [held EXCEPT ![vaa.token] = @ + Released(vaa) - amount]
        /\ payouts' = payouts \cup
             {[vaa |-> vaa, to |-> vaa.recipient, amount |-> amount,
               asset |-> IF unwrap THEN ETH ELSE vaa.token]}
        /\ UNCHANGED <<allowance, locked, messageFee, sequence, messages,
                       requests, redeemed, strays>>
        /\ IF unwrap THEN Become([pc |-> "payout", base |-> Top.base])
                     ELSE Return

\* The recipient took the native payout without reverting.
PayoutReturns ==
  /\ ~Idle /\ Top.pc = "payout"
  /\ UNCHANGED <<held, allowance, locked, messageFee, sequence, messages,
                 requests, redeemed, payouts, strays>>
  /\ Return

-----------------------------------------------------------------------------
(* The environment.                                                        *)

\* Assets reach the contract outside its functions: receive(), or a plain
\* token transfer.
Donate(asset) ==
  /\ strays[asset] < MaxDonation
  /\ held' = [held EXCEPT ![asset] = @ + 1]
  /\ strays' = [strays EXCEPT ![asset] = @ + 1]
  /\ UNCHANGED <<allowance, locked, messageFee, sequence, messages, requests,
                 redeemed, payouts>>
  /\ Aside

\* Other callers of the Token Bridge take sequence numbers.
OthersPublish ==
  /\ sequence < MaxSequence
  /\ sequence' = sequence + 1
  /\ UNCHANGED <<held, allowance, locked, messageFee, messages, requests,
                 redeemed, payouts, strays>>
  /\ Aside

\* Wormhole governance changes the message fee; anyone may submit the change.
SetMessageFee(fee) ==
  /\ messageFee' = fee
  /\ UNCHANGED <<held, allowance, locked, sequence, messages, requests,
                 redeemed, payouts, strays>>
  /\ Aside

-----------------------------------------------------------------------------
Init ==
  /\ held = [a \in Assets |-> 0]
  /\ allowance = [t \in Tokens |-> 0]
  /\ locked = FALSE
  /\ messageFee \in MessageFees
  /\ sequence = 0
  /\ messages = {} /\ requests = {} /\ redeemed = {} /\ payouts = {}
  /\ strays = [a \in Assets |-> 0]
  /\ stack = <<>>
  /\ saved = World

Next ==
  \/ \E token \in Tokens, amount \in Amounts, value \in Values,
       payment \in Payments, dst \in Destinations :
       TransferTokensWithRelay(token, amount, value, payment, dst)
  \/ CustodyTokens
  \/ \E value \in Values, payment \in Payments, dst \in Destinations :
       WrapAndTransferEthWithRelay(value, payment, dst)
  \/ DepositWeth
  \/ \E vaa \in Inbound, value \in Tips : ExecuteVAAv1(vaa, value)
  \/ PayRecipient
  \/ PayoutReturns
  \/ Revert
  \/ \E asset \in Donated : Donate(asset)
  \/ OthersPublish
  \/ \E fee \in MessageFees : SetMessageFee(fee)

Spec == Init /\ [][Next]_vars

-----------------------------------------------------------------------------
(* Properties.                                                             *)

Amount == [Assets -> Nat]

Message == [sequence : Nat, token : Tokens, asked : Nat, amount : Nat,
            dst : Destinations]

Request == [sequence : Nat, payment : Nat,
            targetChain : {d.targetChain : d \in Destinations},
            dstExecutionAddress :
              {d.dstExecutionAddress : d \in Destinations}]

Payout == [vaa : Inbound, to : Users, asset : Assets, amount : Nat]

OutboundCall ==
  [pc : {"custody", "refund", "deposit"}, base : Amount, token : Tokens,
   amount : Nat, fee : Nat, payment : Nat, spend : Nat, dst : Destinations]

InboundCall == [pc : {"complete"}, base : Amount, vaa : Inbound]

PayoutCall == [pc : {"payout"}, base : Amount]

WorldType ==
  [held : Amount, allowance : [Tokens -> Nat], locked : BOOLEAN,
   messageFee : Nat, sequence : Nat, messages : SUBSET Message,
   requests : SUBSET Request, redeemed : SUBSET Inbound,
   payouts : SUBSET Payout, strays : Amount]

\* Every variable has its type; in particular no balance and no allowance
\* is ever taken below zero by transferTokensWithRelay,
\* wrapAndTransferEthWithRelay or executeVAAv1.
TypeOK ==
  /\ World \in WorldType
  /\ saved \in WorldType
  /\ stack \in Seq(OutboundCall \cup InboundCall \cup PayoutCall)

\* Tokens that arrive in full and never call out of a transfer.
PlainTokens == {t \in Tokens \ Hooked : TransferFee[t] = 0}

\* A transaction never spends what the contract held when it began: the fee,
\* the execution payment, the refund, the bridged tokens and the payout all
\* come out of what its own calls brought in, however the calls of
\* transferTokensWithRelay, wrapAndTransferEthWithRelay and executeVAAv1
\* nest in one another's callbacks.
NoReserveSpent ==
  [][stack # <<>> /\ stack' = <<>>
       => \A a \in Assets : held'[a] >= saved.held[a]]_vars

\* Native asset the running calls have been given and have not yet passed on.
Owed(call, asset) ==
  IF asset = ETH /\ call.pc \in {"custody", "refund", "deposit"}
    THEN call.spend ELSE 0

\* The same for all of them.
InTransit(calls, asset) ==
  SumFunctionOnSet([i \in DOMAIN calls |-> Owed(calls[i], asset)], DOMAIN calls)

\* Nothing of a transfer stays behind: at every moment the contract holds, of
\* the native asset and of plain tokens, exactly what came in outside the
\* transfers plus what the calls still running are about to pass on.
NothingLeftBehind ==
  \A a \in PlainTokens \cup {ETH} :
    held[a] = strays[a] + InTransit(stack, a)

\* The relay request of a transfer names the Token Bridge message of that
\* same transfer, for the chain the tokens go to; sequence numbers are never
\* mixed up between nested transfers or with other users of the bridge.
RequestMatches(ms, rs, next) ==
  /\ \A m \in ms : m.sequence < next
  /\ \A m1, m2 \in ms : m1.sequence = m2.sequence => m1 = m2
  /\ \A r1, r2 \in rs : r1.sequence = r2.sequence => r1 = r2
  /\ \A r \in rs : \E m \in ms :
       /\ r.sequence = m.sequence
       /\ r.targetChain = m.dst.targetChain
       /\ r.dstExecutionAddress = m.dst.dstExecutionAddress
  /\ \A m \in ms : \E r \in rs : r.sequence = m.sequence

\* RequestMatches for the messages and requests of the contract: each call of
\* _transferTokensWithRelay leaves one message and one request for it.
RelayRequested == RequestMatches(messages, requests, sequence)

\* The message carries exactly what the caller asked to send, short of dust,
\* even when the contract already holds some of the token (custodyTokens).
SentAsAsked ==
  \A m \in messages :
    m.token \in PlainTokens =>
      denormalizeAmount(m.amount, Decimals[m.token]) = m.asked

\* The Token Bridge's allowance is used up when a transfer of a plain token
\* ends, so the next safeApprove of that token cannot revert.
AllowanceSpent == \A t \in PlainTokens : allowance[t] = 0

\* An inbound message is paid out once, to the recipient in its payload, in
\* full; once the transaction of executeVAAv1 is over a message the Token
\* Bridge marked completed has been paid.
PaidOnceInFull ==
  /\ \A p1, p2 \in payouts : p1.vaa = p2.vaa => p1 = p2
  /\ \A p \in payouts :
       /\ p.vaa \in redeemed
       /\ p.to = p.vaa.recipient
       /\ p.asset = IF p.vaa.token = weth /\ unwrapWeth
                      THEN ETH ELSE p.vaa.token
       /\ p.amount >= Released(p.vaa)
       /\ p.vaa.token \notin Hooked => p.amount = Released(p.vaa)
  /\ Idle => \A v \in redeemed : \E p \in payouts : p.vaa = v

\* "This ensures that the dust is never transferred to this contract": what
\* transferTokensWithRelay takes from its caller leaves no rest here.
DustNeverHeld == Idle => \A t \in Tokens \ Hooked : held[t] = strays[t]

\* A message, a request and a payout in the terms of Shim.
Announced(m) ==
  [sequence |-> m.sequence, targetChain |-> m.dst.targetChain,
   dstExecutionAddress |-> m.dst.dstExecutionAddress]

Asked(r) ==
  [sequence |-> r.sequence, targetChain |-> r.targetChain,
   dstExecutionAddress |-> r.dstExecutionAddress]

PaidTo(p) == [vaa |-> p.vaa, to |-> p.to]

\* Between transactions the contract keeps the promises of every relayer: a
\* transaction of transferTokensWithRelay, wrapAndTransferEthWithRelay and
\* executeVAAv1 calls leaves each transfer with its request and each completed
\* message with its payout, or nothing at all when it reverts.
Promise ==
  INSTANCE Shim WITH
    published <- {Announced(m) : m \in saved.messages},
    requested <- {Asked(r) : r \in saved.requests},
    completed <- saved.redeemed,
    paid <- {PaidTo(p) : p \in saved.payouts}

ImplementsShim == Promise!Spec

=============================================================================
