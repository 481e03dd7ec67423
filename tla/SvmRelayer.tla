----------------------------- MODULE SvmRelayer -----------------------------
(***************************************************************************)
(* The token_bridge_relayer program of one SVM chain.                      *)
(*                                                                         *)
(* An instruction runs alone and takes effect whole or not at all, so each *)
(* is one action; what goes on inside it is the life of the temporary      *)
(* token account it opens, fills, empties and closes.  The instructions    *)
(* share that account's address, one per mint, with each other and with    *)
(* whoever sends lamports to it beforehand.                                *)
(*                                                                         *)
(* The Token Bridge, the Wormhole core, the Executor and the System, Token *)
(* and Address Lookup Table programs are external.                         *)
(***************************************************************************)
EXTENDS TokenAmounts, SvmCalls, FiniteSetsExt

CONSTANTS
  Users,         \* wallets: they pay, send, relay and receive
  Mints,         \* SPL mints, the native one among them
  nativeMint,    \* wrapped SOL
  Wrapped,       \* the mints the Token Bridge creates for foreign tokens
  Decimals,      \* decimals of each mint
  OUR_CHAIN,     \* the chain this program was built for
  ThisProgram,   \* crate::ID
  Malformed,     \* the recipient of a payload that does not decode
  Inbound,       \* the posted TransferWithPayload messages
  Slots,         \* recent slots a lookup table may be created at
  NoTable,       \* no lookup table at that slot
  NoAccount,     \* no token account for that user and mint
  ZeroAddress,   \* [0; 32]
  TmpRent,       \* rent of a token account
  MessageFee,    \* what the Wormhole core takes for a message
  OtherTracker   \* what the sequence account of another emitter holds

CONSTANTS        \* what callers choose from, and bounds
  Amounts,       \* token amounts
  ExecAmounts,   \* lamports paid to the execution payee
  Destinations,  \* where an outbound transfer and its relay request may go
  Wallet,        \* lamports of each user at the start
  Purse,         \* what each user holds of the mints at the start
  Custody,       \* what the Token Bridge holds of each mint at the start
  MaxSequence,   \* Token Bridge messages published
  MaxPrefund     \* lamports sent to the address of a temporary account

ASSUME SvmAssumption ==
  /\ Wrapped \subseteq Mints /\ nativeMint \in Mints \ Wrapped
  /\ Decimals \in [Mints -> Uint8]
  \* The Token Bridge gives no mint of its own more than eight decimals.
  /\ \A t \in Wrapped : Decimals[t] <= 8
  /\ Malformed \notin Users
  /\ \A v \in Inbound : /\ v.token \in Mints /\ v.amount \in Nat
                        /\ v.recipient \in Users \cup {Malformed}
  /\ NoAccount \notin Nat
  /\ TmpRent \in Nat /\ MessageFee \in Nat /\ OtherTracker \in Nat \ {0}
  /\ Amounts \subseteq Nat /\ ExecAmounts \subseteq Nat
  /\ Wallet \in Nat /\ MaxPrefund \in Nat
  /\ Purse \in [Mints -> Nat \cup {NoAccount}]
  /\ Custody \in [Mints -> Nat]

VARIABLES
  lut,           \* the slot of the table the LUT account points to, if any
  tables,        \* the lookup tables created under the LUT authority
  lamports,      \* SOL of each user
  tokens,        \* associated token accounts: tokens[user][mint]
  prefunded,     \* lamports at the address of a mint's temporary account
  custody,       \* what the Token Bridge holds of each mint
  attested,      \* the wrapped mints that exist
  sequence,      \* the Token Bridge's sequence tracker
  messages,      \* Token Bridge messages published for this program
  requests,      \* relay requests this program filed with the Executor
  claims,        \* inbound messages the Token Bridge has completed
  payouts        \* what each completed message paid, as logged

vars == <<lut, tables, lamports, tokens, prefunded, custody, attested,
          sequence, messages, requests, claims, payouts>>

Initialized == lut # NoTable
Exists(mint) == mint \in Wrapped => mint \in attested
Held(user, mint) ==
  IF tokens[user][mint] = NoAccount THEN 0 ELSE tokens[user][mint]

-----------------------------------------------------------------------------
(* Set-up.                                                                 *)

\* The accounts the program puts in its lookup table.
Entries ==
  { "program", "sender", "redeemer", "TokenBridge", "config",
    "authority_signer", "custody_signer", "mint_signer", "emitter",
    "Sequence", "Wormhole", "Bridge", "fee_collector", "Token", "Token2022",
    "AssociatedToken", "System", "clock", "rent", "Executor" }

ASSUME TableAssumption == NoTable # Entries

\* Mutant: a table somebody else created is taken as it is.
BugTakesTable(slot) == IF tables[slot] = NoTable THEN Entries ELSE tables[slot]

\* create_lookup_table does nothing for a table that exists;
\* extend_lookup_table adds to what is there.
Extended(slot) ==
  Entries \cup (IF tables[slot] = NoTable THEN {} ELSE tables[slot])

\* initialize: the config accounts and the LUT account are created, so it
\* succeeds once.
Initialize(slot) ==
  /\ ~Initialized
  /\ lut' = slot
  /\ tables' = [tables EXCEPT ![slot] = Extended(slot)]
  /\ UNCHANGED <<lamports, tokens, prefunded, custody, attested, sequence,
                 messages, requests, claims, payouts>>

\* Anyone creates a table for the LUT authority; only it may fill one.
CreateTable(slot) ==
  /\ tables[slot] = NoTable
  /\ tables' = [tables EXCEPT ![slot] = {}]
  /\ UNCHANGED <<lut, lamports, tokens, prefunded, custody, attested,
                 sequence, messages, requests, claims, payouts>>

-----------------------------------------------------------------------------
(* The temporary token account.                                            *)

\* `init`: lamports already at the address count towards the rent; wrapped
\* SOL counts what exceeds the rent as tokens.
Opened(mint) ==
  LET balance == IF prefunded[mint] > TmpRent THEN prefunded[mint] ELSE TmpRent
  IN [lamports |-> balance,
      amount   |-> IF mint = nativeMint THEN balance - TmpRent ELSE 0]

RentDue(mint) == Opened(mint).lamports - prefunded[mint]

\* Tokens in (n > 0) or out (n < 0); wrapped SOL is lamports too.
Moved(account, mint, n) ==
  [lamports |-> account.lamports + (IF mint = nativeMint THEN n ELSE 0),
   amount   |-> account.amount + n]

\* An account with tokens left in it cannot be closed, unless they are SOL.
Closable(account, mint) == mint = nativeMint \/ account.amount = 0

\* `init_if_needed` of an associated token account.
AtaRent(user, mint) == IF tokens[user][mint] = NoAccount THEN TmpRent ELSE 0

\* A user's token account after n tokens came in, created if need be.
Received(user, mint, n) ==
  [tokens EXCEPT ![user][mint] = Held(user, mint) + n]

-----------------------------------------------------------------------------
(* Outbound.                                                               *)

\* Mutant: the dust comes along into the temporary account.
BugKeepsResidue(mint, amount) == amount

\* token_bridge::truncate_amount, what can be bridged of the amount asked.
BridgedAmount(mint, amount) == truncateAmount(amount, Decimals[mint])

valid_foreign_address(chain, address) ==
  chain # 0 /\ chain # OUR_CHAIN /\ address # ZeroAddress

\* Mutant: the sequence account is read before the bridge publishes.
BugReadsTrackerBefore(tracker, payer, dst, exec) ==
  [sequence |-> tracker - 2, refund |-> payer, targetChain |-> dst.targetChain,
   dstExecutionAddress |-> dst.dstExecutionAddress, payment |-> exec]

\* request_for_execution, from the sequence tracker as it is read after the
\* bridge has published.
RequestFor(tracker, payer, dst, exec) ==
  [sequence |-> tracker - 1, refund |-> payer, targetChain |-> dst.targetChain,
   dstExecutionAddress |-> dst.dstExecutionAddress, payment |-> exec]

\* The caller passes the account the tracker is read from.
Tracker(account) == IF account = "Sequence" THEN sequence + 1 ELSE OtherTracker

\* Mutant: the bridge is given the account it wants, whatever was passed.
BugDerivesSequence(account) == "Sequence"

\* The account the bridge is given; only the core behind it checks which it is.
wormhole_sequence(account) == account

\* The temporary account after the tokens came in and the bridge took what it
\* can carry of them.
Emptied(mint, amount) ==
  Moved(Moved(Opened(mint), mint, amount), mint,
        -truncateAmount(amount, Decimals[mint]))

\* Mutant: the account is closed to somebody else.
BugReturnsNothing(account) == 0

\* What closing the temporary account gives back to the payer.
ReturnedToPayer(account) == account.lamports

\* What the payer gives out of its wallet before the account is closed.
Outlay(payer, mint, amount, wrap) ==
  RentDue(mint) + AtaRent(payer, mint) + (IF wrap THEN amount ELSE 0)
    + MessageFee

\* The calls either outbound instruction makes are open to it.
TransferMayCall(mint, wrap) ==
  IF mint \in Wrapped THEN MayTransferWrapped ELSE MayTransferNative[wrap]

\* The rest of both outbound instructions: amount (asked of the caller)
\* arrives in the temporary account, from the wallet or the token account; the
\* bridge takes it and publishes; the account is closed to the payer; the
\* Executor is paid.
SendThroughTmp(payer, mint, asked, amount, wrap, dst, exec, account) ==
  LET outlay  == Outlay(payer, mint, amount, wrap)
      emptied == Emptied(mint, amount)
      bridged == truncateAmount(amount, Decimals[mint])
  IN /\ Initialized
     /\ wormhole_sequence(account) = "Sequence"
     /\ sequence < MaxSequence
     /\ TransferMayCall(mint, wrap)
     /\ valid_foreign_address(dst.targetChain, dst.targetRecipient)
     /\ ~wrap => Held(payer, mint) >= amount
     /\ Closable(emptied, mint)
     /\ lamports[payer] >= outlay
     /\ lamports[payer] - outlay + ReturnedToPayer(emptied) >= exec
     /\ lamports' = [lamports EXCEPT ![payer] =
                       @ - outlay + ReturnedToPayer(emptied) - exec]
     /\ tokens' = Received(payer, mint, IF wrap THEN 0 ELSE -amount)
     /\ prefunded' = [prefunded EXCEPT ![mint] = 0]
     /\ custody' = IF mint \in Wrapped THEN custody
                     ELSE [custody EXCEPT ![mint] = @ + bridged]
     /\ sequence' = sequence + 1
     /\ messages' = messages \cup
          {[sequence |-> sequence, token |-> mint, dst |-> dst,
            amount |-> normalizeAmount(bridged, Decimals[mint]),
            payer |-> payer, asked |-> asked, wrap |-> wrap]}
     /\ requests' =
          requests \cup {RequestFor(Tracker(account), payer, dst, exec)}
     /\ UNCHANGED <<lut, tables, attested, claims, payouts>>

\* transfer_native_tokens_with_relay; the bridge refuses its own mints.
TransferNative(payer, mint, asked, wrap, dst, exec, account) ==
  /\ mint \notin Wrapped
  /\ BridgedAmount(mint, asked) > 0
  /\ wrap => mint = nativeMint
  /\ SendThroughTmp(payer, mint, asked, BridgedAmount(mint, asked), wrap,
                    dst, exec, account)

\* transfer_wrapped_tokens_with_relay: the token account must exist, and the
\* amount is not looked at.
TransferWrapped(payer, mint, asked, dst, exec, account) ==
  /\ mint \in Wrapped /\ Exists(mint)
  /\ tokens[payer][mint] # NoAccount
  /\ SendThroughTmp(payer, mint, asked, asked, FALSE, dst, exec, account)

-----------------------------------------------------------------------------
(* Inbound.                                                                *)

\* Mutant: the amount as the message encodes it.
BugEncodedAmount(vaa) == vaa.amount

\* What the program takes a message to have released: a native amount is
\* denormalized, a wrapped one stands as it is.
RedeemAmount(vaa) ==
  IF vaa.token \in Wrapped THEN vaa.amount
    ELSE denormalizeAmount(vaa.amount, Decimals[vaa.token])

\* What the Token Bridge releases when it completes a message.
Released(vaa) == denormalizeAmount(vaa.amount, Decimals[vaa.token])

\* The temporary account then.
Filled(vaa) == Moved(Opened(vaa.token), vaa.token, Released(vaa))

\* redeem_token leaves this in the temporary account; wrapped SOL is not moved
\* out but closed to the recipient as a whole.
LeftOver(vaa) ==
  IF vaa.token = nativeMint THEN Filled(vaa)
    ELSE Moved(Filled(vaa), vaa.token, -RedeemAmount(vaa))

\* Mutant: whoever submits the instruction names the recipient.
BugAnyRecipient(vaa, recipient) == TRUE

\* "The intended recipient must agree with the recipient account."
RecipientAgrees(vaa, recipient) == recipient = vaa.recipient

\* The constraints on the posted message, which has to deserialize.
Addressed(vaa) ==
  /\ vaa.to = ThisProgram
  /\ vaa.toChain = OUR_CHAIN
  /\ vaa.recipient # Malformed

\* The calls either inbound instruction makes are open to it.
CompletionMayCall(vaa) ==
  IF vaa.tokenChain = OUR_CHAIN THEN MayCompleteNative[vaa.token = nativeMint]
    ELSE MayCompleteWrapped

\* Nothing but the payer's accounts stops the message from being redeemed.
CanRedeem(vaa) ==
  /\ Initialized
  /\ CompletionMayCall(vaa)
  /\ Addressed(vaa)
  /\ vaa \notin claims
  /\ Exists(vaa.token)
  /\ vaa.token \notin Wrapped => custody[vaa.token] >= Released(vaa)
  /\ Closable(LeftOver(vaa), vaa.token)

\* The rest of both inbound instructions.  payer relays; mint and recipient
\* are the accounts it passes; the bridge compares mint with the message.
RedeemThroughTmp(payer, vaa, mint, recipient) ==
  LET outlay == RentDue(mint) + AtaRent(recipient, mint)
      close  == mint = nativeMint
  IN /\ CanRedeem(vaa)
     /\ RecipientAgrees(vaa, recipient)
     /\ mint = vaa.token
     /\ lamports[payer] >= outlay
     /\ lamports' =
          LET paid == [lamports EXCEPT ![payer] = @ - outlay]
          IN [paid EXCEPT ![IF close THEN recipient ELSE payer] =
                @ + LeftOver(vaa).lamports]
     /\ tokens' = Received(recipient, mint, IF close THEN 0 ELSE RedeemAmount(vaa))
     /\ prefunded' = [prefunded EXCEPT ![mint] = 0]
     /\ custody' =
          IF mint \in Wrapped THEN custody
            ELSE [custody EXCEPT ![mint] = @ - Released(vaa)]
     /\ claims' = claims \cup {vaa}
     /\ payouts' = payouts \cup
          {[vaa |-> vaa, to |-> recipient, sol |-> close, mint |-> mint,
            amount |-> IF close THEN LeftOver(vaa).lamports
                              ELSE RedeemAmount(vaa)]}
     /\ UNCHANGED <<lut, tables, attested, sequence, messages, requests>>

\* complete_native_transfer_with_relay
CompleteNative(payer, vaa, mint, recipient) ==
  /\ vaa.tokenChain = OUR_CHAIN
  /\ RedeemThroughTmp(payer, vaa, mint, recipient)

\* complete_wrapped_transfer_with_relay
CompleteWrapped(payer, vaa, mint, recipient) ==
  /\ vaa.tokenChain # OUR_CHAIN
  /\ RedeemThroughTmp(payer, vaa, mint, recipient)

-----------------------------------------------------------------------------
(* The environment.                                                        *)

\* Anyone sends lamports to the address of a temporary account.
Prefund(user, mint, n) ==
  /\ lamports[user] >= n /\ n > 0
  /\ prefunded[mint] + n <= MaxPrefund
  /\ lamports' = [lamports EXCEPT ![user] = @ - n]
  /\ prefunded' = [prefunded EXCEPT ![mint] = @ + n]
  /\ UNCHANGED <<lut, tables, tokens, custody, attested, sequence, messages,
                 requests, claims, payouts>>

\* The Token Bridge creates the mint of an attested foreign token.
Attest(mint) ==
  /\ mint \in Wrapped \ attested
  /\ attested' = attested \cup {mint}
  /\ UNCHANGED <<lut, tables, lamports, tokens, prefunded, custody, sequence,
                 messages, requests, claims, payouts>>

\* Other users of the Token Bridge take sequence numbers.
OthersPublish ==
  /\ sequence < MaxSequence
  /\ sequence' = sequence + 1
  /\ UNCHANGED <<lut, tables, lamports, tokens, prefunded, custody, attested,
                 messages, requests, claims, payouts>>

-----------------------------------------------------------------------------
Init ==
  /\ lut = NoTable
  /\ tables = [s \in Slots |-> NoTable]
  /\ lamports = [u \in Users |-> Wallet]
  /\ tokens = [u \in Users |-> Purse]
  /\ prefunded = [t \in Mints |-> 0]
  /\ custody = Custody
  \* A wrapped mint somebody holds exists.
  /\ attested = {t \in Wrapped : Purse[t] # NoAccount}
  /\ sequence = 0
  /\ messages = {} /\ requests = {} /\ claims = {} /\ payouts = {}

Next ==
  \/ \E slot \in Slots : Initialize(slot) \/ CreateTable(slot)
  \/ \E payer \in Users, mint \in Mints, asked \in Amounts,
       dst \in Destinations, exec \in ExecAmounts,
       account \in {"Sequence", "another"} :
       \/ \E wrap \in BOOLEAN :
            TransferNative(payer, mint, asked, wrap, dst, exec, account)
       \/ TransferWrapped(payer, mint, asked, dst, exec, account)
  \/ \E payer, recipient \in Users, vaa \in Inbound, mint \in Mints :
       \/ CompleteNative(payer, vaa, mint, recipient)
       \/ CompleteWrapped(payer, vaa, mint, recipient)
  \/ \E user \in Users, mint \in Mints, n \in 1..MaxPrefund :
       Prefund(user, mint, n)
  \/ \E mint \in Wrapped : Attest(mint)
  \/ OthersPublish

Spec == Init /\ [][Next]_vars

-----------------------------------------------------------------------------
(* Properties.                                                             *)

Message == [sequence : Nat, token : Mints, dst : Destinations, amount : Nat,
            payer : Users, asked : Nat, wrap : BOOLEAN]

Request == [sequence : Nat, refund : Users, payment : Nat,
            targetChain : {d.targetChain : d \in Destinations},
            dstExecutionAddress :
              {d.dstExecutionAddress : d \in Destinations}]

Payout == [vaa : Inbound, to : Users, sol : BOOLEAN, mint : Mints,
           amount : Nat]

\* Every variable has its type: no instruction overdraws a wallet, a token
\* account or the bridge's custody, and no sequence is read below zero.
TypeOK ==
  /\ lut \in Slots \cup {NoTable}
  /\ tables \in [Slots -> (SUBSET Entries) \cup {NoTable}]
  /\ lamports \in [Users -> Nat]
  /\ tokens \in [Users -> [Mints -> Nat \cup {NoAccount}]]
  /\ prefunded \in [Mints -> Nat]
  /\ custody \in [Mints -> Nat]
  /\ attested \subseteq Wrapped
  /\ sequence \in Nat
  /\ messages \subseteq Message
  /\ requests \subseteq Request
  /\ claims \subseteq Inbound
  /\ payouts \subseteq Payout

\* Once initialize has run, the table the LUT account points to holds what the
\* resolver promises of it, whichever slot was named and whoever had created
\* a table there.
LutServes == Initialized => tables[lut] = Entries

\* Every relay request names one published message and every message has one
\* request, for its destination, refunding the account that paid for it: the
\* sequence read back after the bridge published is that transfer's.
RelayRequested ==
  /\ \A m \in messages : \E r \in requests :
       /\ r.sequence = m.sequence
       /\ r.refund = m.payer
       /\ r.targetChain = m.dst.targetChain
       /\ r.dstExecutionAddress = m.dst.dstExecutionAddress
  /\ \A r \in requests : \E m \in messages : m.sequence = r.sequence
  /\ \A r1, r2 \in requests : r1.sequence = r2.sequence => r1 = r2
  /\ \A m1, m2 \in messages : m1.sequence = m2.sequence => m1 = m2

\* Tokens a message carries away, and tokens a payout put somewhere.
Carried(m) == denormalizeAmount(m.amount, Decimals[m.token])
Sum(set, Value(_)) == SumFunctionOnSet([x \in set |-> Value(x)], set)

\* The Token Bridge holds what the messages for this program release: it
\* vouches for a token sent home only after it has locked it.
ASSUME BackingAssumption ==
  /\ IsFiniteSet(Inbound)
  /\ \A t \in Mints \ Wrapped :
       Custody[t] >=
         Sum({v \in Inbound : Addressed(v) /\ v.token = t}, Released)

\* No token is lost, created or left in a temporary account: a user holds what
\* it started with, plus what it was paid, minus what messages carry for it,
\* and the bridge holds the rest.
TokensAccounted ==
  \A t \in Mints :
    /\ \A u \in Users :
         Held(u, t) =
           (IF Purse[t] = NoAccount THEN 0 ELSE Purse[t])
           + Sum({p \in payouts : p.to = u /\ p.mint = t /\ ~p.sol},
                 LAMBDA p : p.amount)
           - Sum({m \in messages : m.payer = u /\ m.token = t /\ ~m.wrap},
                 Carried)
    /\ t \notin Wrapped =>
         custody[t] =
           Custody[t] + Sum({m \in messages : m.token = t}, Carried)
           - Sum({v \in claims : v.token = t}, Released)

\* A completed message was paid out once, to the recipient it names, in full;
\* what lay in the temporary account of wrapped SOL comes on top.
PaidOnceInFull ==
  /\ \A p \in payouts :
       /\ p.vaa \in claims
       /\ p.to = p.vaa.recipient
       /\ p.mint = p.vaa.token
       /\ p.amount >= Released(p.vaa)
  /\ \A p1, p2 \in payouts : p1.vaa = p2.vaa => p1 = p2
  /\ \A v \in claims : \E p \in payouts : p.vaa = v

\* Nobody can be stopped by what others did: whatever lamports lie at the
\* address of a temporary account, it is empty at the end of every transfer and
\* of every redemption to come, and a message for this program stays redeemable
\* until it is redeemed; no instruction lacks the rights for a call it makes.
NothingBlocked ==
  /\ \A t \in Mints, a \in Amounts, wrap \in BOOLEAN :
       LET amount == IF t \in Wrapped THEN a ELSE BridgedAmount(t, a)
       IN TransferMayCall(t, wrap) /\ Closable(Emptied(t, amount), t)
  /\ \A v \in Inbound \ claims :
       /\ Initialized /\ Exists(v.token)
       /\ Addressed(v)
       => CanRedeem(v)

\* A transfer costs its payer what it asked for and no more: the rent of the
\* temporary account, and any lamports found at its address, come back.
ChargedAsAsked ==
  [][\A m \in messages' \ messages, r \in requests' \ requests :
       lamports'[m.payer] =
         lamports[m.payer] + prefunded[m.token]
         - (IF m.wrap THEN Carried(m) ELSE 0)
         - MessageFee - r.payment - AtaRent(m.payer, m.token)]_vars

\* "unwrap and transfer the SOL to the recipient and relayer": redeeming a
\* message costs its relayer no more than the recipient's token account.
RelayerRepaid ==
  [][\A v \in claims' \ claims, u \in Users :
       lamports'[u] >= lamports[u] - AtaRent(v.recipient, v.token)]_vars

\* A message, a request and a payout in the terms of Shim.
Announced(m) ==
  [sequence |-> m.sequence, targetChain |-> m.dst.targetChain,
   dstExecutionAddress |-> m.dst.dstExecutionAddress]

Asked(r) ==
  [sequence |-> r.sequence, targetChain |-> r.targetChain,
   dstExecutionAddress |-> r.dstExecutionAddress]

PaidTo(p) == [vaa |-> p.vaa, to |-> p.to]

\* The promises of every relayer are kept by the transfer and completion
\* instructions: a transfer leaves with its request, a completed
\* message is paid.
Promise ==
  INSTANCE Shim WITH
    published <- {Announced(m) : m \in messages},
    requested <- {Asked(r) : r \in requests},
    completed <- claims,
    paid <- {PaidTo(p) : p \in payouts}

ImplementsShim == Promise!Spec
=============================================================================
