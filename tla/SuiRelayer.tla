----------------------------- MODULE SuiRelayer -----------------------------
(***************************************************************************)
(* The token_bridge_relayer package on Sui.                                *)
(*                                                                         *)
(* A programmable transaction takes effect whole or not at all.  The       *)
(* receipt the Token Bridge hands out for a message can be neither stored  *)
(* nor dropped, so a message is verified, marked as consumed, authorized   *)
(* and paid out in one transaction: Redeem is one action.  The relayer's   *)
(* EmitterCap is all that redeeming takes, and state::emitter_cap lends it *)
(* to every package, so RedeemElsewhere is another.                        *)
(*                                                                         *)
(* The Token Bridge, the Wormhole core and the Executor are external.      *)
(***************************************************************************)
EXTENDS TokenAmounts, FiniteSetsExt

CONSTANTS
  Users,         \* addresses: they pay, send, relay and receive
  CoinTypes,     \* coin types, SUI among them
  SUI,
  Wrapped,       \* the coin types of foreign tokens
  Decimals,      \* decimals of each coin type
  CHAIN_ID,      \* this chain
  Relayer,       \* the id of the EmitterCap in the relayer's State
  TokenBridge,   \* the id of the EmitterCap in the Token Bridge's State
  NoState,       \* the State object is not there yet
  Malformed,     \* a recipient that is not 32 bytes long
  ZeroAddress,   \* 32 zero bytes
  Inbound,       \* the signed messages of the Token Bridges
  MessageFee     \* what the Wormhole core takes for a message

CONSTANTS        \* what callers choose from, and bounds
  Emitters,      \* what the deployer may name as the Token Bridge's emitter
  Amounts,       \* the value of a coin handed in
  ExecAmounts,   \* the value of the Executor's coin
  Destinations,  \* where an outbound transfer and its relay request may go
  Purse,         \* coins of each user at the start
  Custody,       \* what the Token Bridge holds of each coin type at the start
  MaxSequence    \* Token Bridge messages published

ASSUME SuiAssumption ==
  /\ Wrapped \subseteq CoinTypes /\ SUI \in CoinTypes \ Wrapped
  /\ Decimals \in [CoinTypes -> Uint8]
  /\ \A c \in Wrapped : Decimals[c] <= 8
  /\ \A v \in Inbound : /\ v.coin \in CoinTypes /\ v.amount \in Nat
                        /\ v.recipient \in Users \cup {Malformed}
  /\ Malformed \notin Users
  /\ Amounts \subseteq Nat /\ ExecAmounts \subseteq Nat /\ MessageFee \in Nat
  /\ Purse \in [CoinTypes -> Nat] /\ Custody \in [CoinTypes -> Nat]
  /\ MaxSequence \in Nat
  /\ NoState \notin [token_bridge_emitter_address : Emitters]

VARIABLES
  relayer_state, \* the shared State object, NoState before create_state
  coins,         \* coins[user][type]
  custody,       \* what the Token Bridge holds of each coin type
  registry,      \* the coin types registered with the Token Bridge
  sequence,      \* the Token Bridge's next sequence
  messages,      \* Token Bridge messages published for the relayer
  requests,      \* relay requests the relayer filed with the Executor
  consumed,      \* the messages the Token Bridge has seen once
  payouts,       \* what execute_vaa_v1 paid for each message, to whom
  elsewhere      \* what other packages did with those they redeemed

vars == <<relayer_state, coins, custody, registry, sequence, messages,
          requests, consumed, payouts, elsewhere>>

Published == relayer_state # NoState

Give(purses, user, c, n) == [purses EXCEPT ![user][c] = @ + n]
Take(purses, user, c, n) == [purses EXCEPT ![user][c] = @ - n]

-----------------------------------------------------------------------------
(* Set-up: create_state consumes the InitCap there is one of.              *)

CreateState(emitter) ==
  /\ ~Published
  /\ relayer_state' = [token_bridge_emitter_address |-> emitter]
  /\ UNCHANGED <<coins, custody, registry, sequence, messages, requests,
                 consumed, payouts, elsewhere>>

-----------------------------------------------------------------------------
(* Source side.                                                            *)

\* Mutant: the request names the emitter that asked for the transfer.
BugOwnEmitter(published, dst, refund_addr, exec) ==
  [emitter |-> Relayer, sequence |-> published,
   targetChain |-> dst.targetChain,
   dstExecutionAddress |-> dst.dstExecutionAddress,
   refund |-> refund_addr, payment |-> exec]

\* Mutant: the request is for this chain.
BugForgetsChain(published, dst, refund_addr, exec) ==
  [emitter |-> relayer_state.token_bridge_emitter_address,
   sequence |-> published, targetChain |-> CHAIN_ID,
   dstExecutionAddress |-> dst.dstExecutionAddress,
   refund |-> refund_addr, payment |-> exec]

\* The message is the Token Bridge's: make_vaa_v1_request names its emitter.
RequestFor(published, dst, refund_addr, exec) ==
  [emitter |-> relayer_state.token_bridge_emitter_address,
   sequence |-> published, targetChain |-> dst.targetChain,
   dstExecutionAddress |-> dst.dstExecutionAddress,
   refund |-> refund_addr, payment |-> exec]

\* Mutant: the dust goes where refunds go.
BugDustToRefund(sender, refund_addr) == refund_addr

\* coin_utils::return_nonzero gives the dust to the sender.
DustTo(sender, refund_addr) == sender

TransferTokensWithRelay(sender, c, amount, dst, refund_addr, exec) ==
  LET bridged == truncateAmount(amount, Decimals[c])
      paid    == Take(Take(coins, sender, c, amount),
                      sender, SUI, MessageFee + exec)
  IN /\ Published
     /\ dst.recipient # Malformed
     /\ c \in registry
     /\ dst.dstExecutionAddress # ZeroAddress
     /\ coins[sender][c] >= amount /\ paid[sender][SUI] >= 0
     /\ sequence < MaxSequence
     /\ coins' = Give(paid, DustTo(sender, refund_addr), c, amount - bridged)
     /\ custody' = IF c \in Wrapped THEN custody
                     ELSE [custody EXCEPT ![c] = @ + bridged]
     /\ sequence' = sequence + 1
     /\ messages' = messages \cup
          {[sequence |-> sequence, coin |-> c, sender |-> sender, dst |-> dst,
            amount |-> normalizeAmount(bridged, Decimals[c])]}
     /\ requests' = requests \cup
          {RequestFor(sequence, dst, refund_addr, exec)}
     /\ UNCHANGED <<relayer_state, registry, consumed, payouts, elsewhere>>

-----------------------------------------------------------------------------
(* Destination side.                                                       *)

\* What the Token Bridge releases for a message.
Released(vaa) == denormalizeAmount(vaa.amount, Decimals[vaa.coin])

\* The Token Bridge lets the relayer's EmitterCap redeem the message; only a
\* TransferWithPayload (type 3) carries a payload to act on.
Authorized(vaa, c) ==
  /\ vaa.payload_type = 3
  /\ vaa.redeemer = Relayer
  /\ vaa.toChain = CHAIN_ID
  /\ vaa \notin consumed
  /\ c = vaa.coin /\ c \in registry
  /\ c \notin Wrapped => custody[c] >= Released(vaa)

\* Nothing but the caller's choices stops the message from being redeemed.
CanRedeem(vaa) ==
  /\ Published
  /\ vaa.recipient # Malformed
  /\ Authorized(vaa, vaa.coin)

\* complete_transfer_with_payload::redeem_coin: the message is consumed, and
\* its coins are handed to whoever the calling package decides.
RedeemCoin(vaa, c, to) ==
  /\ Published
  /\ Authorized(vaa, c)
  /\ consumed' = consumed \cup {vaa}
  /\ coins' = Give(coins, to, c, Released(vaa))
  /\ custody' = IF c \in Wrapped THEN custody
                  ELSE [custody EXCEPT ![c] = @ - Released(vaa)]
  /\ UNCHANGED <<relayer_state, registry, sequence, messages, requests>>

PaidOut(vaa, c, to) ==
  [vaa |-> vaa, to |-> to, coin |-> c, amount |-> Released(vaa)]

\* Mutant: the coins go to whoever submits the transaction.
BugPaysSender(vaa, sender) == sender

\* The recipient is the one in the payload, whoever submits.
Recipient(vaa, sender) == vaa.recipient

\* parse_and_verify, verify_only_once, authorize_transfer<C> and
\* execute_vaa_v1<C> in one transaction of sender.
Redeem(sender, vaa, c) ==
  /\ vaa.recipient # Malformed
  /\ RedeemCoin(vaa, c, Recipient(vaa, sender))
  /\ payouts' = payouts \cup {PaidOut(vaa, c, Recipient(vaa, sender))}
  /\ UNCHANGED elsewhere

\* Another package redeems in place of execute_vaa_v1, with the EmitterCap that
\* state::emitter_cap lends it.  What the payload says is its own affair.
RedeemElsewhere(vaa, c, to) ==
  /\ RedeemCoin(vaa, c, to)
  /\ elsewhere' = elsewhere \cup {PaidOut(vaa, c, to)}
  /\ UNCHANGED payouts

-----------------------------------------------------------------------------
(* The environment.                                                        *)

\* A coin type is attested, or a foreign token registered.
Register(c) ==
  /\ c \notin registry
  /\ registry' = registry \cup {c}
  /\ UNCHANGED <<relayer_state, coins, custody, sequence, messages, requests,
                 consumed, payouts, elsewhere>>

\* Other users of the Token Bridge, and other packages in the relayer's name,
\* take sequence numbers.
OthersPublish ==
  /\ sequence < MaxSequence
  /\ sequence' = sequence + 1
  /\ UNCHANGED <<relayer_state, coins, custody, registry, messages, requests,
                 consumed, payouts, elsewhere>>

-----------------------------------------------------------------------------
Init ==
  /\ relayer_state = NoState
  /\ coins = [u \in Users |-> Purse]
  /\ custody = Custody
  \* What the Token Bridge or anyone holds coins of is registered.
  /\ registry = {c \in CoinTypes : Custody[c] > 0 \/ Purse[c] > 0}
  /\ sequence = 0
  /\ messages = {} /\ requests = {}
  /\ consumed = {} /\ payouts = {} /\ elsewhere = {}

Next ==
  \/ \E emitter \in Emitters : CreateState(emitter)
  \/ \E sender, refund_addr \in Users, c \in CoinTypes, amount \in Amounts,
       dst \in Destinations, exec \in ExecAmounts :
       TransferTokensWithRelay(sender, c, amount, dst, refund_addr, exec)
  \/ \E sender \in Users, vaa \in Inbound, c \in CoinTypes :
       Redeem(sender, vaa, c)
  \/ \E to \in Users, vaa \in Inbound, c \in CoinTypes :
       RedeemElsewhere(vaa, c, to)
  \/ \E c \in CoinTypes : Register(c)
  \/ OthersPublish

Spec == Init /\ [][Next]_vars

-----------------------------------------------------------------------------
(* Properties.                                                             *)

Message == [sequence : 0..(MaxSequence - 1), coin : CoinTypes,
            sender : Users, dst : Destinations, amount : Nat]
Request == [emitter : Emitters, sequence : 0..(MaxSequence - 1),
            targetChain : {d.targetChain : d \in Destinations},
            dstExecutionAddress :
              {d.dstExecutionAddress : d \in Destinations},
            refund : Users, payment : ExecAmounts]
Payout == [vaa : Inbound, to : Users, coin : CoinTypes, amount : Nat]

\* Nobody's coins and no balance of the Token Bridge is overdrawn, and a
\* message stays within the sequences the Token Bridge has given out.
TypeOK ==
  /\ relayer_state \in
       [token_bridge_emitter_address : Emitters] \cup {NoState}
  /\ coins \in [Users -> [CoinTypes -> Nat]]
  /\ custody \in [CoinTypes -> Nat]
  /\ registry \subseteq CoinTypes
  /\ sequence \in 0..MaxSequence
  /\ messages \subseteq Message
  /\ requests \subseteq Request
  /\ consumed \subseteq Inbound
  /\ payouts \subseteq Payout
  /\ elsewhere \subseteq Payout

Carried(m) == denormalizeAmount(m.amount, Decimals[m.coin])
Total(set, Value(_)) == SumFunctionOnSet([x \in set |-> Value(x)], set)

\* What a sender paid on top of the coins its message carries.
Fees(m, c) ==
  IF c = SUI
    THEN MessageFee
           + Total({r \in requests : r.sequence = m.sequence},
                   LAMBDA r : r.payment)
    ELSE 0

\* No coin is lost: a user is short of exactly what its messages carry, and of
\* the fees it was asked for, and up by exactly what was paid to it, by
\* execute_vaa_v1 or by another package; the dust of an amount is not part of
\* it, whoever is named for refunds.  The Token Bridge holds the rest.
CoinsAccounted ==
  \A c \in CoinTypes :
    /\ \A u \in Users :
         coins[u][c]
             + Total({m \in messages : m.sender = u /\ m.coin = c}, Carried)
             + Total({m \in messages : m.sender = u}, LAMBDA m : Fees(m, c))
           = Purse[c] + Total({p \in payouts : p.to = u /\ p.coin = c},
                              LAMBDA p : p.amount)
                      + Total({p \in elsewhere : p.to = u /\ p.coin = c},
                              LAMBDA p : p.amount)
    /\ c \notin Wrapped =>
         custody[c] + Total({v \in consumed : v.coin = c}, Released)
           = Custody[c] + Total({m \in messages : m.coin = c}, Carried)

\* The sequence a transfer published is the one it asks the Executor to
\* relay, and, where the deployer named the Token Bridge's emitter, the request
\* finds the message: one request for each, to its destination.
RelayRequested ==
  /\ Published /\ relayer_state.token_bridge_emitter_address = TokenBridge =>
       \A m \in messages : \E r \in requests :
         /\ <<r.emitter, r.sequence>> = <<TokenBridge, m.sequence>>
         /\ r.targetChain = m.dst.targetChain
         /\ r.dstExecutionAddress = m.dst.dstExecutionAddress
  /\ \A r \in requests : \E m \in messages : m.sequence = r.sequence
  /\ \A r1, r2 \in requests : r1.sequence = r2.sequence => r1 = r2
  /\ \A m1, m2 \in messages : m1.sequence = m2.sequence => m1 = m2

\* The messages other packages redeemed.
Elsewhere == {p.vaa : p \in elsewhere}

\* execute_vaa_v1 pays each message once, all of it, to the recipient in its
\* payload.  A message the Token Bridge has consumed has been paid so, or a
\* package that borrowed the EmitterCap was faster, never both: a message
\* consumed without its payout is one the relayer was not called for.
PaidOnceInFull ==
  /\ \A p \in payouts : /\ p.vaa \in consumed
                        /\ p.to = p.vaa.recipient
                        /\ p.coin = p.vaa.coin
                        /\ p.amount = Released(p.vaa)
  /\ \A p1, p2 \in payouts : p1.vaa = p2.vaa => p1 = p2
  /\ Elsewhere \subseteq consumed
  /\ \A v \in consumed : v \in Elsewhere <=> ~ \E p \in payouts : p.vaa = v

\* A message, a request and a payout in the terms of Shim.
Announced(m) ==
  [sequence |-> m.sequence, targetChain |-> m.dst.targetChain,
   dstExecutionAddress |-> m.dst.dstExecutionAddress]

Asked(r) ==
  [sequence |-> r.sequence, targetChain |-> r.targetChain,
   dstExecutionAddress |-> r.dstExecutionAddress]

PaidTo(p) == [vaa |-> p.vaa, to |-> p.to]

\* The promises of every relayer are kept by transfer_tokens_with_relay
\* and execute_vaa_v1: a transfer leaves with its request, a message completed
\* through the relayer is paid.  A message another package redeemed never is,
\* and is no completion of the relayer.
Promise ==
  INSTANCE Shim WITH
    published <- {Announced(m) : m \in messages},
    requested <- {Asked(r) : r \in requests},
    completed <- consumed \ Elsewhere,
    paid <- {PaidTo(p) : p \in payouts}

ImplementsShim == Promise!Spec
=============================================================================
