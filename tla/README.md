# Verification of the permissionless Token Bridge relayer

TLA+ models of the relayer contracts in this repository, the TLC runs that check
them on small instances, and TLAPS proofs about the relayers of all three kinds of
chain, the network they form, the Sui VAA parser and the TypeScript codecs. Paths below are
relative to the repository (`evm/`, `svm/`, `sui/`, `ts/`).

A relayer contract sits on every chain between a user and two services that are
not in this repository: the Wormhole Token Bridge, which carries tokens, and the
Executor, which is paid to deliver. It keeps no ledger of its own. On the source
chain it hands the user's tokens to the bridge *with a payload* naming the
recipient, and in the same transaction asks the Executor to deliver the message
the bridge has just published. On the destination chain anybody may hand it the
signed message; it has the bridge release the tokens to it and passes all of them
on to the recipient in the payload.

What can go wrong lies in between: in what the contract holds for a moment, in the
code that runs while it holds it, in sequence numbers and amounts that have to be
read at the right moment, in accounts shared by everyone, and in the off-chain
rounds that turn a signed message into a transaction.

## 1. Inventory

| Component | Source | State it keeps | Operations | What is hard |
|---|---|---|---|---|
| EVM contract | `evm/src/token-bridge-relayer/*` | balances and allowances between calls, the reentrancy guard | `transferTokensWithRelay`, `wrapAndTransferEthWithRelay`, `executeVAAv1`, `receive` | calls out in the middle of an operation; balances measured by difference; dust; the message fee read before a callback; reverts |
| SVM program | `svm/programs/token-bridge-relayer/src` | config accounts, the lookup-table pointer, one temporary token account address per mint | `initialize`, two transfer and two completion instructions | everybody shares the temporary account's address; it must be empty to be closed; rent; wrapped SOL is both lamports and tokens |
| SVM calls | the `Accounts` structs and `ext/instructions.rs` | none | the calls an instruction makes into other programs | each call needs rights on accounts that are declared elsewhere |
| Relay network | what the three relayers publish and file, `ext/mod.rs` | messages, requests and claims of several chains, the Executor's queue | transfer, sign, observe, deliver, give up, restart | chains that check different things and count in different decimals; an Executor that forgets and is overtaken |
| SVM resolver | `.../instructions/resolve_execute_vaa_v1.rs` | none (the executor keeps what it was told) | one instruction, asked again and again | rounds; answers from a state that changes before they are used; account lists kept in step by hand |
| Sui relayer | `sui/token_bridge_relayer/sources` | `State` (emitter cap, the bridge's emitter address) | `create_state`, `transfer_tokens_with_relay`, `execute_vaa_v1`, `emitter_cap` | the emitter address is typed in; every package may borrow the emitter cap; coins and receipts are linear; dust goes back as a coin |
| Sui PTB resolver | `sui/token_bridge_ptb_resolver/sources/resolver.move` | none | `resolve_vaa` | look-ups in dependency order; package upgrades between look-ups; the transaction must be well typed |
| Sui VAA parser | `.../vaa_parser.move` | none | `parse_transfer_info` | offsets computed from a signature count; VAAs cut short |
| Resolver set-up | `resolver_state.move`, `setup.move`, ... | addresses, written once | `create_state` | nothing that changes |
| TypeScript clients | `ts/evm`, `ts/svm`, `ts/sui` | none | build and send one transaction | values kept in step with the contracts |
| TypeScript codecs | `ts/executor` | none | encode and decode requests and relay instructions | fields cut short, lengths that disagree, a buffer that grows |
| Libraries, tests, ABIs, scripts | the rest | none | - | - |

Interaction: user -> relayer -> {Token Bridge -> Wormhole core, Executor}; guardians
sign what the core published; executor -> resolver (SVM and Sui) -> relayer ->
Token Bridge -> recipient. All on-chain interaction is by calls inside one
transaction, which takes effect whole or not at all; between chains and between
the resolver's rounds everything may happen in any order, twice, or never.

What makes each component correct:

- *EVM*: a transaction never spends what the contract held before it; nothing of a
  transfer stays behind; the relay request names the message of the same transfer;
  what is sent is what was asked; every completed message is paid once, in full, to
  its recipient - for every nesting of calls inside one another's callbacks.
- *SVM*: no token is lost or left in a temporary account; nobody can make transfers
  or redemptions of others fail; a transfer costs what it asked for; the lookup
  table holds what the resolver says it does; requests match messages; payouts
  happen once and in full.
- *SVM calls*: no instruction lacks a right for a call it makes.
- *Network*: every message of a relayer has its request, and the request finds it; what
  relayers pay arrives at most once, at the recipient named, at its value; a well-addressed
  transfer is paid at last, unless another package on Sui completes it.
- *Resolvers*: what is returned can run; asking comes to an end.
- *Sui*: no coin is lost; requests match messages; what `execute_vaa_v1` redeems is paid
  once and in full, and only another package that borrowed the cap consumes a message
  without that.
- *All three relayers* keep one promise, stated once as `Shim`.
- *Parser*: finds the token exactly where the layout puts it, never reads past the
  end.
- *Codecs*: decoding undoes encoding, and accepts nothing else.

## 2. Modules

| Module | Models | Extends |
|---|---|---|
| `TokenAmounts` | `normalizeAmount`, `denormalizeAmount` and their composition, shared by all chains | - |
| `EvmRelayer` | the EVM contract as a stack of calls | `TokenAmounts` |
| `SvmCalls` | the rights the SVM instructions have and the calls they make | - |
| `SvmRelayer` | the SVM program, one action per instruction | `TokenAmounts`, `SvmCalls` |
| `SvmResolver` | the SVM resolver and the executor's loop, composed with `SvmRelayer` | `SvmRelayer` |
| `SuiRelayer` | the Sui package, one action per transaction | `TokenAmounts` |
| `SuiResolver` | the PTB resolver and the executor's loop, composed with `SuiRelayer` | `SuiRelayer` |
| `VaaParser` | the VAA parser | - |
| `ExecutorCodec` | the TypeScript codecs | - |
| `Shim` | the abstract promise of every relayer, on its own chain | - |
| `RelayNetwork` | relayers of several chains, the guardians and the Executor between them | `TokenAmounts` |
| `Delivery` | the abstract promise of the network, as a user of two chains sees it | - |
| `Sums` | lemmas about sums over finite sets, and the induction they rest on | - |
| `TokenAmountsProofs`, `EvmRelayerProofs`, `RelayNetworkProofs`, `VaaParserProofs`, `ExecutorCodecProofs` | theorems about the modules they name | those, `Sums` where induction is needed |
| `SvmProofs`, `SuiProofs` | theorems about a relayer and about its resolver, which share their lemmas | `SvmResolver`, `SuiResolver`, `Sums` |
| `MC*` | small instances for TLC | the modules they name |

Definitions named `Bug...` are used by no specification. Each is a plausible mistake
in the definition below it; putting it in that definition's place must make TLC
reject a property, which shows that the property depends on that code.

### TokenAmounts

Token Bridge messages carry at most eight decimals. `Pow10` is a constant of which
only positivity is assumed: nothing stated here depends on the radix, the proofs
hold for every choice, and TLC's 32-bit integers could not hold 10^10 in products.
The small instances use 3 for every power, so that the amounts 4, 5 and 6 cover no
dust and dust of one and of two.

### EvmRelayer

A transaction is `stack`, a sequence of calls into the contract, and `saved`, the
storage it falls back to. A function is one action up to the point where it hands
control to code it does not know and one action after it:

| Code | Action | Then |
|---|---|---|
| `transferTokensWithRelay` up to `safeTransferFrom` | `TransferTokensWithRelay` | `custody`: a hooked token may run anything |
| the rest, with `_transferTokensWithRelay` | `CustodyTokens` | returns |
| `wrapAndTransferEthWithRelay` up to the dust refund | `WrapAndTransferEthWithRelay` | `refund` (dust) or `deposit` (none) |
| the rest | `DepositWeth` | returns |
| `executeVAAv1` up to the token movement in the bridge | `ExecuteVAAv1` | `complete` |
| the rest up to the recipient | `PayRecipient` | `payout` (native) or returns |
| after the recipient took the native asset | `PayoutReturns` | returns |
| `receive`, or a plain token transfer to the contract | `Donate` | |

While the innermost call is at a point where foreign code runs (`CallsOut`) every
entry point is enabled, which is re-entrancy; `locked` is the `nonReentrant` guard
that only `transferTokensWithRelay` carries. `Revert` is always possible and puts
every storage variable back. An inner call that fails and is caught leaves no trace
and needs no step. `held` counts balances and never checks them: that no call
overdraws is a consequence (`TypeOK`), because a call that would overdraw in
the code reverts, and the point is that none of these ever has to.

The model's bridge pulls, marks as completed and releases; its fee-on-transfer
tokens keep a constant per transfer; `weth` is an honest WETH. `nonce`, the quote
bytes and the relay instructions pass through the contract unread and are left out.

### SvmRelayer

Solana runs an instruction alone and atomically, so each is one action. What is
inside is a computation on the temporary token account: `Opened` (rent, and what
lamports were found at its address), `Moved`, `Emptied` or `LeftOver`, `Closable`.
The constraints of the `Accounts` structs are guards: recipient agreement, `Addressed`,
claim not yet used. The caller passes the account the sequence is read from; the program
does not check it and the Wormhole core behind the bridge does, so a transfer with
another one fails as a whole (`wormhole_sequence`). `Prefund` is anyone sending lamports to the temporary account's
address, `CreateTable` anyone creating the lookup table first, `Attest` the bridge
creating a mint, `OthersPublish` other users of the bridge.

### SvmCalls

On Solana a program may write only what its own instruction declares mutable and sign only
for its own signers and seeds. `SvmCalls` holds the four `Accounts` structs as sets of
signers, writable and read-only accounts, and every call of the four instructions as what
the callee is asked to read, write and sign. `Permitted` compares them; the transfers and
completions of `SvmRelayer` have it as a guard, so that an account declared with too few
rights shows up as an instruction that can never run (`NothingBlocked`). Accounts are named by
their part in the instruction.

### SvmResolver

`known` is what the executor passes, `plan` what it was told to submit. An account is
named by what its address is derived from; `NativeAccounts` and `WrappedAccounts` are
the lists the resolver writes out, `NativeLayout` and `WrappedLayout` the
ones Anchor checks them against, each translated from
its own source file. The resolver reads the owner of the mint account to choose the
token program; for a mint that does not exist yet that is the System program, and
the instruction it returns fails. Missing accounts are asked for before the payload is
looked at, so a malformed message costs the executor rounds too; then taking the recipient from a
payload shorter than an address panics. (From a longer one, not modelled here, the resolver returns an instruction that the
program refuses.) `ResolverNext` runs it beside every action
of `SvmRelayer`.

### SuiRelayer and SuiResolver

A programmable transaction is atomic, and the bridge's receipt can be neither stored
nor dropped, so `Redeem` is the whole transaction: verify, mark as consumed, authorize,
`execute_vaa_v1`. `CreateState` lets the deployer name any emitter: what follows for
requests is stated under the condition that the right one was named. In `SuiResolver`
the transaction is data: commands with packages, inputs and results of earlier
commands. `WellTyped` and `UsedOnce` are Sui's own checks; `Current` is the version check
of the upgradable packages, which an `Upgrade` between look-ups makes fail.

The shared `State` lends its `EmitterCap` to every package (`state::emitter_cap`,
`state.move:59`), and the cap is all that redeeming a message of the relayer takes. Such a
package calls `redeem_coin` in the place of `execute_vaa_v1` and decides itself where the coins go:
`RedeemElsewhere`, which shares `RedeemCoin` with `Redeem` and is remembered in
`elsewhere`. So consumed does not mean paid. `PaidOnceInFull` says that what
`execute_vaa_v1` redeemed was paid once, in full, to the recipient named, and that a message
consumed without that was redeemed elsewhere; `CoinsAccounted` counts both; `Shim`'s
`completed` is what the relayer completed (`consumed \ Elsewhere`); and `EventuallyRedeemed`
of `SuiResolver` ends with the recipient paid or the message redeemed elsewhere. That every
consumed message is paid to its recipient is *not* true of this package and is claimed
nowhere. Publishing in the relayer's name with the cap is among `OthersPublish`.

### RelayNetwork and Delivery

Here a transfer is only what it leaves behind, a message and a request, and a redemption
only what it consumes and pays; what happens inside is the business of the chain models.
What is asked is whether the other side can use it. Each kind of chain has its own action for
either end, because they differ: EVM accepts any target chain, SVM neither 0 nor its own;
Sui accepts the zero recipient and uses the execution address as redeemer; SVM looks at
native amounts only; an EVM chain pays only words that fit an address; the SVM program works out again what
its bridge released. Between them `Sign` is the guardians, `Observe`, `Deliver`, `GiveUp` and
`Restart` the Executor, whose `queue` can be refilled from the chain, forgotten and reordered.
`RedeemAlone` is anybody else with a signed message, `SendDirectly` somebody who uses the bridge
without a relayer and takes sequence numbers; `relayed` are the messages of relayers among all of them. On a Sui
chain `SuiRedeemElsewhere` is another package that completes a message with the cap of the relayer, and
`elsewhere` what was completed so. A bridge is not registered with itself.

`Delivery` is what a user sees: `Send` and `Arrive`, each message arriving at most once and
crediting its recipient with its units. In the refinement mapping `credit` is what was
received *divided* by the decimals of the destination, so that it counts whole units. What
`arrived` is what a relayer completed (`Completed`): a message completed past the relayer never arrives.

### VaaParser

A VAA is a signature count, a payload type and a length; each byte is known by the
field it belongs to and its place in it, so that reading two bytes in the wrong order
or one too early gives a different value. `Layout` is the wire format, stated
independently of the parser's offsets.

### ExecutorCodec

A value is encoded, or a text comes in, and any of the four decoders reads it. Texts are hex
digits, numbers go through big-endian bytes, `Ensured` is the growth of the writer's buffer. A
read beyond the end gives less, as `subarray` does, and only the check after the loop
(`RanPast`) notices. The loop of `decodeRelayInstructions` is `Round`, made once for every byte of
the text: each round that finds the reader short of the end reads at least the type byte, and a
round at the end or beyond changes nothing. Loops and powers of 256 are recursive functions
(`Pow256`), so that they can be proved about. The widths of the fields and the initial buffer are
constants, 16, 8, 4, 32 and 1024 in the code.

### Shim

Between transactions: `published` transfers, `requested` relays, `completed` messages and
what was `paid`. One action, `Commit`: transfers with fresh sequences go out *each with
its request*, messages are completed *each with its payout*. `ImplementsShim` in each
relayer is this specification under a refinement mapping. For the EVM contract the
mapping reads `saved`: inside a transaction, and when it reverts, nothing has happened
yet; when the outermost call returns, everything its nested calls did happens at
once.

## 3. Runs

| Run | Question | Properties |
|---|---|---|
| `evm_reentrancy` | May calls nest in one another's callbacks? | `TypeOK`, `NothingLeftBehind`, `PaidOnceInFull`, `NoReserveSpent`, `ImplementsShim` |
| `evm_transfers` | Do message, request and amount belong together? | `RelayRequested`, `SentAsAsked`, `AllowanceSpent` |
| `evm_dust` (violation) | Is dust never transferred to the contract? | `DustNeverHeld` |
| `svm_accounts` | Are tokens safe in the shared temporary accounts, can anyone block them, do requests match and what does a transfer cost? | `TypeOK`, `TokensAccounted`, `PaidOnceInFull`, `NothingBlocked`, `RelayRequested`, `ImplementsShim`, `ChargedAsAsked` |
| `svm_resolver` | Does resolving end in a redeemed message, whoever set up the table? | `PlansFit`, `PlansUseTable`, `LutServes`, `EventuallyRedeemed` |
| `svm_rent` (violation) | Does the relayer get its rent back? | `RelayerRepaid` |
| `svm_chain` (violation) | Does a token of chain 1 resolve to the native instruction? | `SolanaTokensAreNative` |
| `sui_relayer` | Are coins and requests right? | `TypeOK`, `CoinsAccounted`, `RelayRequested`, `PaidOnceInFull`, `ImplementsShim` |
| `sui_resolver` | Does resolving end, through upgrades? | `PlansRun`, `EventuallyRedeemed` |
| `vaa_parser` | Is the token found, at every length? | `ParsesToken`, `NeverReadsPast` |
| `executor_codec` | Do encoders and decoders agree on every text? | `ReadsBack`, `WritesBack` |
| `relay_network` | Can the other chain use what a transfer leaves behind, and does it arrive? | `TypeOK`, `RequestsFindMessages`, `ImplementsDelivery`, `EventuallyDelivered` |

Bounds, and why the interesting cases happen within them:

- **`evm_reentrancy`**: `MaxDepth` 3, so that a call can be suspended around a call that
  is itself suspended around a third; WETH with unwrapping and a hooked token; two
  published messages (`MaxSequence` 2), one inbound message per token plus three the
  contract must refuse; ether values 0, 1 and 5 (nothing, the fee, the fee and an amount
  with dust), one token amount with dust, one donated token unit. The message fee changes between 0
  and 1 at any moment, also while a call waits for its dust refund to return. The proofs remove
  these bounds.
- **`evm_transfers`**: two destination chains and a zero recipient, a fee that changes
  between 0 and 1, up to three donated units so that a balance and a difference of
  balances differ, `MaxDepth` 2 so that transfers happen inside a dust refund. No inbound
  message is accepted in this run.
- **`evm_dust`**: the smallest instance with a fee-on-transfer token.
- **`svm_accounts`**: three mints, one of each kind (wrapped SOL, native, wrapped); rent 1
  and up to two prefunded lamports, so that an address can hold less than, exactly and
  more than the rent; amounts 1 (all dust) and 4 (dust of one); two sequences, so that a
  second transfer or somebody else's message comes before or after; destinations on this
  chain, with a zero recipient, and valid; the right sequence account and another one whose
  tracker stands at 3; all inbound messages; two users who both relay and receive, with
  wallets of six lamports, enough for the dearest transfer and for most pairs. Deadlock is
  not an error: wallets are emptied and sequences used up.
- **`svm_rent`**: wrapped SOL and one native mint, rent 2, at most one prefunded lamport.
- **`svm_resolver`**: one native and one wrapped message, one with a malformed payload and
  one for another redeemer; two slots for the lookup table, either of them taken by
  somebody else before `initialize`; nobody transfers out, the
  executor's wallet covers every redemption.
- **`svm_chain`**: the same with one native message and the message of the resolver's test.
- **`sui_relayer`**: three coin types with nine, ten and eight decimals, coins of value 1
  and 4, all kinds of bad destinations, both emitters a deployer may name, two
  sequences; every message that can be redeemed may be so by `execute_vaa_v1` or elsewhere, to either user. Purses run out, so deadlock is not an error.
- **`sui_resolver`**: one upgrade of each package, which is enough to fall between any two
  look-ups and after the last; the wrapped coin is registered only later; a
  message may be redeemed elsewhere at any moment between look-up and submission.
- **`vaa_parser`**: 0, 1, 2, 13, 19, 20 and 255 signatures, lengths at, one below and one
  above every field boundary, payload types 1 and 3. One step per VAA, after which it
  stops.
- **`executor_codec`**: fields of one to three bytes and a writer that starts with four, so that
  it grows once and twice; numbers at both ends of their fields and one beyond; recipients
  and payloads that are empty, short, odd, exact and long, one payload too long for a doubled buffer; up to three instructions; each
  sound text cut off after every digit, prolonged by up to twelve, and with every
  digit changed. One encoding and one decoding, after which it stops.
- **`relay_network`**: one chain of each kind, a token of the EVM chain and one of the SVM
  chain, so that native and wrapped amounts meet on each side; two messages in all, from
  one bridge or from two, which is what it takes for a request to find the wrong one;
  destinations that are good on each chain, that the source refuses (zero, malformed), that
  only the destination refuses (too wide for an EVM address), and one with the wrong redeemer.
  Deadlock is not an error: everything may have been delivered. The proofs remove
  the bounds for everything but `EventuallyDelivered`.

Symmetry is not used: users, mints and tokens play different parts.

### Fairness

The resolver runs and `relay_network` state liveness. In the resolver runs weak fairness is
given to the off-chain executor alone: it goes on asking, looking up, submitting and, after a failure, starting over.
This is how the Executor works and is what its fee pays for; the repository promises
no more ("*Guaranteed* delivery" is a non-goal, `README.md`), so nothing is assumed of
users, governance or other relayers, and `EventuallyRedeemed` says that *an executor that
does not give up* succeeds (on Sui, unless another package redeems the message first). In `svm_resolver` a mint may appear, a table be created or
another relayer redeem at any moment; in `sui_resolver` each package is upgraded at most
`MaxUpgrades` times, without which an upgrade could fall between look-up and submission
for ever and no fairness on the executor would help.

`EventuallyDelivered` is about one message and one Executor. Guardians sign what was published
and the Executor does not overlook a request for ever: weak fairness, since once enabled
these stay enabled until they happen. Delivery has strong fairness, because a restart empties the queue and
disables it; strong fairness says that the Executor is not restarted for ever just between taking up the
request and acting on it. None of this is a promise of the contracts. What they
contribute, and what the property can only have from them, is that the request
names the bridge, the number and the chain of the message: with any of these wrong fairness does not help.
The property speaks of well-addressed transfers only, because a valid destination is the
integrator's duty (`README.md`): the tokens of a transfer to a recipient the destination
refuses stay in the bridge.

### Findings

- `evm_dust`: `transferTokensWithRelay` truncates the amount asked for, then replaces it by
  what arrived (`TokenBridgeRelayer.sol:121`). For a token that keeps a fee the amount that
  arrived has dust again; it stays in the contract, and the allowance the bridge did not
  use makes the next `safeApprove` of that token revert. The comment above says dust is
  never transferred to the contract.
- `svm_rent`: completing wrapped SOL closes the temporary account to the recipient, with the
  rent the relayer has paid; the comment speaks of recipient and relayer.
- `svm_chain`: the program is built for chain 51 and treats tokens of chain 1 as wrapped; the
  test of the resolver expects the native instruction for them.

Seen while reading, without a run: the comments of two error variants are swapped
(`error.rs:93-98`); `error.rs:106` speaks of a redeemer PDA where `native.rs:88` compares with
the program; the resolver's `README.md:27` promises to validate a relayer message where only
the payload type is looked at; the comment in `ts/sui/index.ts:20` passes an argument
`create_state` does not have; `vaa_parser.move:109` counts 57 bytes where the fields up to the
payload have 51, harmless because it is too many; `BinaryReader.ts:26` calls the reader the inverse of the writer,
yet what is written without any bytes (`0x`) is not hex to the reader, so that an empty list of
instructions cannot be decoded and an accepted request with an empty payload cannot be serialized
again, and of an odd number of digits the last is lost (line 14 drops its result).

## 4. What is proved

All obligations are discharged by tlapm with SMT (Z3), Zenon and LS4. The constants are
arbitrary but for the named assumptions of each module (`EvmAssumption`, `SvmAssumption`,
`TableAssumption`, `BackingAssumption`, `SuiAssumption`, the `ResolverAssumption` of both resolvers, `NetworkAssumption`,
`Pow10Assumption`, `ParserAssumption`, `CodecAssumption`, `ValueAssumption`), which TLC
evaluates on every run of that module: finite or infinite sets of users, tokens, messages and chains, any
amounts, any decimals, any rents and fees, any set of hooked tokens, any depth of nested calls,
any widths of fields and any values and texts. Only on SVM the inbound messages are finitely many
(`BackingAssumption` adds up what they release).

| Module | Theorem | States |
|---|---|---|
| `TokenAmountsProofs` | `Truncation` | cutting dust off never adds and is idempotent |
| `EvmRelayerProofs` | `TypeCorrect` | `TypeOK`: no balance and no allowance is overdrawn |
| | `ReservesSafe` | `NoReserveSpent`: a transaction leaves at least what it found |
| | `RequestsMatch` | `RelayRequested` |
| | `SendsExactly` | `SentAsAsked` |
| | `AllowanceUsedUp` | `AllowanceSpent` |
| | `PaysOnce` | `PaidOnceInFull` |
| | `ShimImplemented` | `ImplementsShim`: the contract refines `Shim` |
| | `BooksBalance` | `NothingLeftBehind`: the contract holds what strangers sent it and what running calls owe |
| `SvmProofs` | `TypeCorrect` | `TypeOK`: no wallet, token account or custody is overdrawn |
| | `TableServes` | `LutServes` |
| | `RequestsMatch` | `RelayRequested` |
| | `PaysOnce` | `PaidOnceInFull` |
| | `TransferCharged` | `ChargedAsAsked` |
| | `TokensAddUp` | `TokensAccounted` |
| | `NobodyBlocks` | `NothingBlocked` |
| | `ShimImplemented` | `ImplementsShim` |
| `SuiProofs` | `TypeCorrect` | `TypeOK` |
| | `RequestsMatch` | `RelayRequested` |
| | `PaysOnce` | `PaidOnceInFull`: of what `execute_vaa_v1` redeems |
| | `CoinsAddUp` | `CoinsAccounted` |
| | `ShimImplemented` | `ImplementsShim`: the two entry points, beside packages that borrow the cap |
| `SvmProofs` (resolver) | `PlansMatch` | `PlansFit` |
| | `TableServesPlans` | `PlansUseTable` |
| | `ProgramKept` | `Spec` of `SvmRelayer`: the executor does nothing on chain the program does not allow |
| `SuiProofs` (resolver) | `TransactionsRun` | `PlansRun` |
| | `ProgramKept` | `Spec` of `SuiRelayer`, likewise |
| `RelayNetworkProofs` | `TypeCorrect` | `TypeOK`: types only, the module keeps no custody |
| | `RequestsAnswered` | `RequestsFindMessages`: messages of relayers and requests pair up |
| | `DeliveryImplemented` | `ImplementsDelivery`: the relayers of the network refine `Delivery` |
| `VaaParserProofs` | `ReadsInRange` | `NeverReadsPast`, for all lengths and signature counts |
| | `FindsToken` | `ParsesToken`, likewise |
| `ExecutorCodecProofs` | `EverythingReadsBack` | `ReadsBack`, for every value and every width |
| | `EverythingWritesBack` | `WritesBack`, for every text |

The argument for the EVM contract is the inductive invariant `IInv`
(`EvmRelayerProofs`). None of the properties is inductive alone, because each speaks of the
storage while the reason it holds lies in the calls on the stack:

- `StackInv`. A call remembers in `base` the balances it found. Every suspended call
  is one that called out, and the call above it found at least what the suspended one
  needs (`Covered`: its own base plus what it still owes); the innermost call's needs are
  covered by the balances now; the outermost found the checkpoint. So when a call returns
  having left its base untouched, its caller is covered again: nesting composes.
- `UntouchedInv`. While the innermost call moves a token that does not call out, nobody has
  run since it began, so what `custodyTokens` and `_completeTransfer` measure by difference is
  exactly what arrived.
- `SourceInv` and `PaidExactly`, of the storage *and* of the checkpoint: a revert must
  land in a state that satisfies them.
- `ClaimInv`. A completed message is paid or is being paid by exactly one call on the stack;
  with an empty stack that leaves only "paid".

`ShimImplemented` adds `Grown`: during a transaction the ledgers contain those of the
checkpoint, and messages it added have sequences the bridge had not reached at the
checkpoint. A step that keeps the checkpoint is a stutter of `Shim`; one that sets it is
a `Commit`, fresh by `Grown` and with its requests and payouts by `SourceInv` and
`PaidExactly`.

The SVM program's steps are reduced to a transfer (`Outbound`), a redemption (`Inward`) or one
that leaves the ledgers alone (`Aside`). Each of the properties is inductive with
`Numbered` (the bridge has not come to the next number yet), which makes a new message new. The
work is in the temporary account: `BridgedWhole` says that what arrives in it is an
amount the bridge takes as a whole, by idempotence of truncation for native mints and
because the bridge's own mints have at most eight decimals for the others; with
`EmptiedType` and `LeftOverType` the account is then back at what was found in it, hence
closable (`NobodyBlocks`), and its closing returns exactly rent and prefunding
(`TransferCharged`). That the bridge can pay out at all is `StaysSolvent` below. For Sui, `Named` (every
request carries the emitter of the one `State`) takes the place of the account arguments.
Both refine `Shim` because in every state the ledgers pair up (`Paired`) and a
step adds to them only under the bridge's next number.

The books of the three relayers are sums over sets that grow: messages, claims, payouts, the
calls on a stack. The library states induction over finite sets for a property given as an
operator; `Sums` states it for a property given as the *set* of the sets that have it
(`FiniteInduction`, from the well-foundedness of strict inclusion), and derives from it that the
`CHOOSE` behind `SumFunctionOnSet` unfolds as the recursion it stands for (`SumUnfolds`), hence the facts the
proofs use: a sum of naturals is one, an element can be taken out (`SumTakesOut`, `SumAdds`), more summands sum up to more
(`SumGrows`).

- EVM (`BooksBalance`). `InTransit` adds up what each call on the stack still owes. Beside `IInv`
  the invariant says that the checkpoint's balances are exactly its strays (`SavedEven`), which
  is where a revert lands. A step that enters a function puts a call that owes nothing yet, or what it has just
  taken in, on the stack; one that returns takes off a call that owes nothing; one in between changes what its
  call owes by as much as it changes `held` (`EnterEven`, `ReturnEven`, `BecomeEven`). `UntouchedInv` is what makes the
  last of these true where the code measures by difference.
- SVM (`TokensAddUp`). `Purses` and `Vault` are the two halves of `TokensAccounted`; they are inductive
  with `Finite` (only finitely much has happened) and, since a new message is new and a claim is
  not yet made, each step adds one summand or none.
- SVM (`NobodyBlocks`). Custody is what it was, plus what messages carried in, minus what claims
  released; by `BackingAssumption` it started with at least all that inbound messages release, and the
  claims are some of these without the open one (`SumGrows`), so the open one is still covered (`StaysSolvent`). The
  assumption is the Token Bridge's own promise: guardians sign a message that sends a token home only after the token was
  locked there.
- Sui (`CoinsAddUp`). As for SVM, with the fees in the coin a transfer pays them in and what was redeemed elsewhere as
  two more sums.

A plan outlives the state it was made in, so what is inductive about the resolvers speaks of the
plan and of what cannot change under it. For SVM (`PlansInv`) a plan's accounts are those the
resolver lists for its message, whatever has been redeemed since, and the table it names
holds `Entries`: no instruction removes an entry, and a table once complete is never replaced. `PlansFit`
then follows from comparing two sequences, the resolver's list and the accounts the
instruction declares (`FitsConcat`). For Sui a plan is `RedemptionPtb` of look-ups that were all made,
each answered under its own key, though not all at the same time: an upgrade between two of them
leaves a stale package in the plan but never an undiscovered or a misplaced one. `ProgramKept`
makes what is proved of the programs available beside their executors.

In the network `Numbered` (below the next number, each number once on each chain), `RequestsMade` (every
message of a relayer has its request, and a request is about such a message, to the chain it is sent to) and `ClaimsAtHome` (what a chain
completed names it and a payable recipient) are inductive. The three kinds of redemption are reduced to
paying what the bridge released (`SvmAmountReleased`: the SVM program's own arithmetic comes
to the same), and `CreditAdds` says that adding whole units to any balance, dust or
not, adds exactly these units after division: so a redemption by a relayer is an `Arrive`, and everything
else, a redemption past the relayer included, a `Send` or a stutter.

For the parser the invariant is that a result is always that of `parse_transfer_info`. The
lemma under `ReadsInRange` is that the two length checks together reach every index read. Under
`FindsToken` the fields of `Layout` are added up one by one (`StartNext`, `Starts`); since they follow one another without
a gap, a byte between the start of a field and its end is of that field and of no other
(`ByteOf`), which settles the `CHOOSE` in `Byte`, and the fixed offsets of the parser fall on the right starts.

For the codecs the invariant, `CodecInv`, only says that a text to be read is the encoding of the input
or came in, and a result what its decoder makes of the text; the properties then follow from lemmas about the
codecs themselves:

- `LoopRuns` finds, for a step that stays in a set, the function a loop computes round by
  round, by induction over 1..n (`CountUp`, from the induction over finite sets of `Sums`). It gives the
  functions behind `Pow256`, `Big` and the two loops, which as recursive definitions are a `CHOOSE` until one is known to exist.
- `BigOfBytes` and `BytesOfBig`: a number that fits a field is read back from its bytes, and bytes are
  written back from the number they are read as. One more factor of 256 in the divisor takes one byte off the quotient
  (`DivideTwice`). `HexOfBuffer` says the same of hex, up to an odd last digit.
- `Written`: a writer grown by `_ensure` has room for what made it grow, so writing appends and never throws, from any
  initial size. What was written is read where it was written: a field (`Piece`), an instruction (`InstructionReadsBack`), a
  request (`RequestTravels`).
- `ListTravels`: after k rounds the decoder stands at the end of the k-th instruction with the first k read; after the last
  it rests there. The other decoders refuse a list because its first byte is a type, never the first letter of
  a prefix (`OthersRefuse`), and its decoder refuses requests for the same reason (`NoList`). Together that is `DecodesBack`, and `ReadsBack`.
- `EncodesBack`, for `WritesBack`, is the other direction. After each round that stays within the text, encoding the
  list so far gives exactly the bytes so far (`Covers`, `RoundCovers`); the check after the loop excludes the round that does not.

Only model-checked: the liveness properties. Liveness under fairness and `ENABLED` are out of the provers' reach.

## 5. What is not modelled

- The Token Bridge, the Wormhole core, the Executor, WETH, the token programs and the Sui
  framework: they are what the relayer's code relies on, and appear as what they do to its state.
  Signature verification is the set of `Inbound` messages.
- Byte layouts of the payload the relayers exchange (it decodes or does not) and of the requests the
  contracts build, gas, compute units,
  transaction size, logs and events.
- The clients in `ts/`, which keep no state, and `fetch.ts`.
- Of the SVM program's wrappers, `transfer_wrapped`, which nothing calls, and how instruction
  data is serialized; the error codes of `error.rs`, which only name the guards that fail.
- In `RelayNetwork`, what the bridges hold: a bridge is taken to be able to pay what another
  one took. That a chain's custody adds up is checked in the chain models.
- Deployment, set-up objects of the PTB resolver, generated ABIs and IDLs, `BytesLib`.
- After an upgrade of the Token Bridge, whether the name of its registry's key type (which
  `resolve_vaa` builds from the current package) is the one the entry is stored under is
  decided by off-chain code; the look-up is taken to find the entry.

## 6. Plan

In order of importance; all but the last are done.

1. `EvmRelayer` with its runs and proofs: the only component where foreign code runs inside
   an operation.
2. `SvmRelayer`, `SuiRelayer` and the resolvers composed with them; `VaaParser` and
   `ExecutorCodec`.
3. `Shim`, implemented by all three (run and proof).
4. `SvmCalls`, the rights behind every instruction of `SvmRelayer`.
5. `RelayNetwork` and `Delivery`: relayers of three kinds with an Executor that forgets,
   repeats and reorders while anybody else may deliver.
6. Proofs for `SvmRelayer`, `SuiRelayer` and `RelayNetwork`.
7. Proofs for the resolvers: `PlansRun` of `SuiResolver`; `PlansFit` and `PlansUseTable` of
   `SvmResolver`, on top of the invariants of the relayers they are composed with.
8. Proofs of what adds up: `NothingLeftBehind`, `TokensAccounted`, `CoinsAccounted`, `ParsesToken`, and with them
   `NothingBlocked` without a hypothesis about the bridge.
9. Proofs for `ExecutorCodec`, for every width.
10. Open: `AllowanceSpent` without the restriction to tokens that arrive in full has no proof
   because it is false for the others (`evm_dust`).
