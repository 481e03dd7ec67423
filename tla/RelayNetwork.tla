---------------------------- MODULE RelayNetwork ----------------------------
(***************************************************************************)
(* The relayers of several chains, put together: EVM contracts, SVM        *)
(* programs and Sui packages, with the guardians and the Executor between  *)
(* them.                                                                   *)
(*                                                                         *)
(* The chain models say what one relayer does to its own chain.  Here a    *)
(* transfer is the message and the relay request it leaves behind, and     *)
(* what is asked is whether the other chain can use them: whether the      *)
(* request finds the message, the message the relayer, the payload the     *)
(* recipient, and the amount its value, when the three kinds of chain      *)
(* check different things of a destination and count in different          *)
(* decimals.                                                               *)
(*                                                                         *)
(* The Token Bridges, the guardians and the Executor are external.  The    *)
(* Executor may overlook, repeat and reorder requests and forget what it   *)
(* had queued; anybody else may deliver before it, and on Sui another      *)
(* package may complete a message in the relayer's place.                  *)
(***************************************************************************)
EXTENDS TokenAmounts, FiniteSets

CONSTANTS
  EvmChains, SvmChains, SuiChains,   \* Wormhole chain ids, by kind
  Words,         \* 32-byte words: recipients and the addresses of contracts
  ZeroAddress,   \* the word of zeros
  Narrow,        \* the words that fit an EVM address
  Malformed,     \* the recipient of a payload that is not one word
  Redeemer,      \* Redeemer[c]: who may complete messages for the relayer of c
  Execution,     \* Execution[c]: what the Executor has to call there
  TokenBridge,   \* TokenBridge[c]: the emitter of the messages of c
  Tokens,
  Home,          \* Home[t]: the chain t is native to
  Decimals       \* Decimals[c][t]: decimals of t, or its wrapper, on c

CONSTANTS        \* what callers choose from, and bounds
  Amounts,       \* token amounts
  Destinations,  \* where a transfer and its relay request may go
  MaxSequence,   \* messages of each Token Bridge
  MaxMessages    \* messages of all Token Bridges

Chains == EvmChains \cup SvmChains \cup SuiChains

ASSUME NetworkAssumption ==
  /\ EvmChains \cap SvmChains = {} /\ EvmChains \cap SuiChains = {}
  /\ SvmChains \cap SuiChains = {}
  /\ Chains \subseteq Nat \ {0}
  /\ ZeroAddress \in Words /\ Narrow \subseteq Words /\ Malformed \notin Words
  /\ Redeemer \in [Chains -> Words] /\ Execution \in [Chains -> Words]
  /\ TokenBridge \in [Chains -> Words]
  /\ Home \in [Tokens -> Chains]
  /\ Decimals \in [Chains -> [Tokens -> Uint8]]
  \* Wrapped tokens keep their decimals on EVM chains and no more than eight
  \* elsewhere.
  /\ \A t \in Tokens, c \in SvmChains \cup SuiChains :
       c # Home[t] => Decimals[c][t] <= 8
  /\ Amounts \subseteq Nat
  /\ \A d \in Destinations :
       /\ d.targetChain \in Nat /\ d.targetRecipient \in Words \cup {Malformed}
       /\ d.dstTransferRecipient \in Words /\ d.dstExecutionAddress \in Words

VARIABLES
  sequence,      \* sequence[c]: the next message of the Token Bridge of c
  messages,      \* Token Bridge messages published
  relayed,       \* those a relayer published
  signed,        \* those the guardians have signed
  requests,      \* relay requests filed with the Executors of all chains
  claims,        \* claims[c]: messages completed on c
  elsewhere,     \* those that were completed past the relayer of a Sui chain
  received,      \* received[c][w][t]: what the relayer of c paid w of t
  queue          \* requests the Executor has in mind

vars == <<sequence, messages, relayed, signed, requests, claims, elsewhere,
          received, queue>>

-----------------------------------------------------------------------------
(* Source side.                                                            *)

\* A TransferWithPayload of amount, as the Token Bridge of c publishes it.
Message(c, t, amount, dst, redeemer) ==
  [chain |-> c, sequence |-> sequence[c], token |-> t,
   units |-> normalizeAmount(amount, Decimals[c][t]),
   toChain |-> dst.targetChain, to |-> redeemer,
   recipient |-> dst.targetRecipient]

\* Mutant: the sequence account of the bridge, as it was before it published.
BugPreviousSequence(c, published, dst) ==
  [emitterChain |-> c, emitter |-> TokenBridge[c], sequence |-> published - 1,
   targetChain |-> dst.targetChain,
   dstExecutionAddress |-> dst.dstExecutionAddress]

\* Mutant: the sequence account of the bridge, as it is after it published.
BugNextSequence(c, published, dst) ==
  [emitterChain |-> c, emitter |-> TokenBridge[c], sequence |-> published + 1,
   targetChain |-> dst.targetChain,
   dstExecutionAddress |-> dst.dstExecutionAddress]

\* Mutant: the relayer takes itself for the emitter.
BugOwnEmitter(c, published, dst) ==
  [emitterChain |-> c, emitter |-> Redeemer[c], sequence |-> published,
   targetChain |-> dst.targetChain,
   dstExecutionAddress |-> dst.dstExecutionAddress]

\* make_vaa_v1_request(chain, emitter, sequence), and where to take it.
RequestFor(c, published, dst) ==
  [emitterChain |-> c, emitter |-> TokenBridge[c], sequence |-> published,
   targetChain |-> dst.targetChain,
   dstExecutionAddress |-> dst.dstExecutionAddress]

\* The bridge of c takes the amount and publishes.
Publish(c, t, amount, dst, redeemer) ==
  /\ sequence[c] < MaxSequence /\ Cardinality(messages) < MaxMessages
  /\ sequence' = [sequence EXCEPT ![c] = @ + 1]
  /\ messages' = messages \cup {Message(c, t, amount, dst, redeemer)}
  /\ UNCHANGED <<signed, claims, elsewhere, received, queue>>

\* A relayer publishes and files the request for it.
Relay(c, t, amount, dst, redeemer) ==
  /\ Publish(c, t, amount, dst, redeemer)
  /\ relayed' = relayed \cup {Message(c, t, amount, dst, redeemer)}
  /\ requests' = requests \cup {RequestFor(c, sequence[c], dst)}

\* transferTokensWithRelay and wrapAndTransferEthWithRelay ask nothing of the
\* target chain.
EvmTransfer(c, t, asked, dst) ==
  /\ c \in EvmChains
  /\ dst.targetRecipient \in Words \ {ZeroAddress}
  /\ normalizeAmount(asked, Decimals[c][t]) > 0
  /\ Relay(c, t, truncateAmount(asked, Decimals[c][t]), dst,
           dst.dstTransferRecipient)

\* transfer_native_tokens_with_relay and transfer_wrapped_tokens_with_relay:
\* only native amounts are truncated and looked at.
SvmTransfer(c, t, asked, dst) ==
  LET amount == IF c = Home[t] THEN truncateAmount(asked, Decimals[c][t])
                  ELSE asked
  IN /\ c \in SvmChains
     /\ dst.targetChain \notin {0, c}
     /\ dst.targetRecipient \in Words \ {ZeroAddress}
     /\ c = Home[t] => amount > 0
     /\ Relay(c, t, amount, dst, dst.dstTransferRecipient)

\* transfer_tokens_with_relay: the execution address is the redeemer too, and
\* any word is a recipient.
SuiTransfer(c, t, asked, dst) ==
  /\ c \in SuiChains
  /\ dst.targetRecipient \in Words
  /\ dst.dstExecutionAddress # ZeroAddress
  /\ Relay(c, t, truncateAmount(asked, Decimals[c][t]), dst,
           dst.dstExecutionAddress)

\* Somebody uses a Token Bridge directly, with a payload of its own.
SendDirectly(c, t, amount, dst) ==
  /\ Publish(c, t, amount, dst, dst.dstTransferRecipient)
  /\ UNCHANGED <<relayed, requests>>

-----------------------------------------------------------------------------
(* Between the chains.                                                     *)

\* The guardians sign what was published, in any order.
Sign(m) ==
  /\ m \in messages \ signed
  /\ signed' = signed \cup {m}
  /\ UNCHANGED <<sequence, messages, relayed, requests, claims, elsewhere,
                 received, queue>>

\* The Executor sees a request, or sees it again.
Observe(r) ==
  /\ r \in requests \ queue
  /\ queue' = queue \cup {r}
  /\ UNCHANGED <<sequence, messages, relayed, signed, requests, claims,
                 elsewhere, received>>

\* The Executor loses what it had in mind; the requests are still on chain.
Restart ==
  /\ queue # {} /\ queue' = {}
  /\ UNCHANGED <<sequence, messages, relayed, signed, requests, claims,
                 elsewhere, received>>

\* The message a request is about.
Names(r, m) ==
  <<r.emitterChain, r.emitter, r.sequence>> =
    <<m.chain, TokenBridge[m.chain], m.sequence>>

-----------------------------------------------------------------------------
(* Destination side.                                                       *)

\* The Token Bridge of c lets its relayer complete m, once.
Completes(c, m) ==
  /\ m \in signed
  /\ m.toChain = c
  /\ m.chain # c               \* a bridge is not registered with itself
  /\ m.to = Redeemer[c]
  /\ m \notin claims[c]

\* What the Token Bridge of c releases for m.
Released(c, m) == denormalizeAmount(m.units, Decimals[c][m.token])

\* The word w is paid, the message is used up.
Pay(c, m, amount) ==
  /\ claims' = [claims EXCEPT ![c] = @ \cup {m}]
  /\ received' = [received EXCEPT ![c][m.recipient][m.token] = @ + amount]
  /\ UNCHANGED <<sequence, messages, relayed, signed, requests, elsewhere>>

\* executeVAAv1: the recipient must be an EVM address.
EvmRedeem(c, m) ==
  /\ c \in EvmChains
  /\ Completes(c, m)
  /\ m.recipient \in Narrow
  /\ Pay(c, m, Released(c, m))

\* Mutant: a native amount is taken as the message encodes it.
BugEncodedAmount(c, m) == m.units

\* What the SVM program passes on: it works the amount out itself.
SvmAmount(c, m) ==
  IF c = Home[m.token] THEN Released(c, m) ELSE m.units

\* complete_native_transfer_with_relay, complete_wrapped_transfer_with_relay.
SvmRedeem(c, m) ==
  /\ c \in SvmChains
  /\ Completes(c, m)
  /\ m.recipient \in Words
  /\ Pay(c, m, SvmAmount(c, m))

\* execute_vaa_v1, in the transaction the resolver builds.
SuiRedeem(c, m) ==
  /\ c \in SuiChains
  /\ Completes(c, m)
  /\ m.recipient \in Words
  /\ Pay(c, m, Released(c, m))

\* Another package completes m with the EmitterCap state::emitter_cap lends it.
\* It need not read the payload, nor pay who is named there.
SuiRedeemElsewhere(c, m) ==
  /\ c \in SuiChains
  /\ Completes(c, m)
  /\ claims' = [claims EXCEPT ![c] = @ \cup {m}]
  /\ elsewhere' = elsewhere \cup {m}
  /\ UNCHANGED <<sequence, messages, relayed, signed, requests, received,
                 queue>>

Redeem(c, m) == EvmRedeem(c, m) \/ SvmRedeem(c, m) \/ SuiRedeem(c, m)

\* Whether the relayer of c can pay the recipient of m.
Payable(c, m) == m.recipient \in (IF c \in EvmChains THEN Narrow ELSE Words)

\* Anyone may hand a signed message to the relayer it is for.
RedeemAlone(c, m) == Redeem(c, m) /\ UNCHANGED queue

\* What the Executor can do with a request, once there is a signed message.
Deliverable(r, m) ==
  /\ Names(r, m)
  /\ r.targetChain \in Chains
  /\ r.dstExecutionAddress = Execution[r.targetChain]
  /\ Completes(r.targetChain, m)
  /\ Payable(r.targetChain, m)

\* The Executor calls the address it was given.
Deliver(r) ==
  /\ r \in queue
  /\ \E m \in signed : Deliverable(r, m) /\ Redeem(r.targetChain, m)
  /\ queue' = queue \ {r}

\* The call fails, or somebody was faster.
GiveUp(r) ==
  /\ r \in queue
  /\ \E m \in signed : Names(r, m) /\ ~Deliverable(r, m)
  /\ queue' = queue \ {r}
  /\ UNCHANGED <<sequence, messages, relayed, signed, requests, claims,
                 elsewhere, received>>

-----------------------------------------------------------------------------
Init ==
  /\ sequence = [c \in Chains |-> 0]
  /\ messages = {} /\ relayed = {} /\ signed = {}
  /\ requests = {} /\ queue = {} /\ elsewhere = {}
  /\ claims = [c \in Chains |-> {}]
  /\ received = [c \in Chains |-> [w \in Words |-> [t \in Tokens |-> 0]]]

Next ==
  \/ \E c \in Chains, t \in Tokens, asked \in Amounts, dst \in Destinations :
       \/ EvmTransfer(c, t, asked, dst)
       \/ SvmTransfer(c, t, asked, dst)
       \/ SuiTransfer(c, t, asked, dst)
       \/ SendDirectly(c, t, asked, dst)
  \/ \E m \in messages :
       \/ Sign(m)
       \/ \E c \in Chains : RedeemAlone(c, m) \/ SuiRedeemElsewhere(c, m)
  \/ \E r \in requests : Observe(r) \/ Deliver(r) \/ GiveUp(r)
  \/ Restart

Spec == Init /\ [][Next]_vars

\* The steps that concern the message s of the bridge of c.
SignOf(c, s) ==
  \E m \in messages : m.chain = c /\ m.sequence = s /\ Sign(m)
ObserveOf(c, s) ==
  \E r \in requests : r.emitterChain = c /\ r.sequence = s /\ Observe(r)
DeliverOf(c, s) ==
  \E r \in requests : r.emitterChain = c /\ r.sequence = s /\ Deliver(r)

\* The guardians sign; the Executor does not overlook a request for ever, and
\* its restarts do not for ever come between a request and its delivery.
Fairness ==
  \A c \in Chains, s \in 0..(MaxSequence - 1) :
    /\ WF_vars(SignOf(c, s))
    /\ WF_vars(ObserveOf(c, s))
    /\ SF_vars(DeliverOf(c, s))

FairSpec == Spec /\ Fairness

-----------------------------------------------------------------------------
(* Properties.                                                             *)

MessageType ==
  [chain : Chains, sequence : Nat, token : Tokens, units : Nat, toChain : Nat,
   to : Words, recipient : Words \cup {Malformed}]

RequestType ==
  [emitterChain : Chains, emitter : Words, sequence : Nat, targetChain : Nat,
   dstExecutionAddress : Words]

\* Every variable has its type; no sequence is read before there is one, and
\* only on Sui a message is completed past the relayer.
TypeOK ==
  /\ sequence \in [Chains -> Nat]
  /\ messages \subseteq MessageType
  /\ relayed \subseteq messages /\ signed \subseteq messages
  /\ requests \subseteq RequestType
  /\ claims \in [Chains -> SUBSET signed]
  /\ elsewhere \subseteq UNION {claims[c] : c \in SuiChains}
  /\ received \in [Chains -> [Words -> [Tokens -> Nat]]]
  /\ queue \subseteq requests

\* Requests and the messages of relayers pair up, whichever chain they were
\* filed on and whatever else was published there: every message of a relayer
\* has a request that finds it and no other and is sent to its chain, and no
\* request is about anything else.
RequestsFindMessages ==
  /\ \A m \in relayed : \E r \in requests :
       Names(r, m) /\ r.targetChain = m.toChain
  /\ \A r \in requests :
       /\ \E m \in relayed : Names(r, m) /\ r.targetChain = m.toChain
       /\ \A m1, m2 \in messages : Names(r, m1) /\ Names(r, m2) => m1 = m2

\* A message in the terms of Delivery.
Sent(m) ==
  [id |-> <<m.chain, m.sequence>>, token |-> m.token, units |-> m.units,
   targetChain |-> m.toChain, recipient |-> m.recipient]

\* What a recipient was paid, in units.
Credit ==
  [c \in Chains |-> [w \in Words |-> [t \in Tokens |->
     normalizeAmount(received[c][w][t], Decimals[c][t])]]]

\* What a relayer completed.
Completed == (UNION {claims[c] : c \in Chains}) \ elsewhere

\* What leaves one chain arrives at most once, on the one chain and at the one
\* recipient it names, and is worth there what it was worth where it left.  A
\* message completed past the relayer of a Sui chain never arrives.
Promised ==
  INSTANCE Delivery WITH
    Recipients <- Words,
    sent <- {Sent(m) : m \in messages},
    arrived <- {Sent(m) : m \in Completed},
    credit <- Credit

ImplementsDelivery == Promised!Spec

\* A destination a transfer can arrive at: "the front-end / integrator will
\* need to specify a valid destination shim contract", and a recipient that
\* exists there.
WellAddressed(m) ==
  /\ m.toChain \in Chains \ {m.chain}
  /\ m.to = Redeemer[m.toChain]
  /\ Payable(m.toChain, m)

\* A well-addressed transfer whose request names the relayer of its target
\* chain is paid at last, though the Executor restarts, repeats itself and is
\* overtaken by others; on Sui another package may have completed it instead.
EventuallyDelivered ==
  \A c \in Chains, s \in 0..(MaxSequence - 1) :
    (\E m \in messages :
       /\ m.chain = c /\ m.sequence = s
       /\ WellAddressed(m)
       /\ \E r \in requests :
            /\ r.emitterChain = c /\ r.sequence = s
            /\ r.dstExecutionAddress = Execution[m.toChain])
    ~> \E m \in messages :
         /\ m.chain = c /\ m.sequence = s
         /\ m \in Completed \/ (m.toChain \in SuiChains /\ m \in elsewhere)
=============================================================================
