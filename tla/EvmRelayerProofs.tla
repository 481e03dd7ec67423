-------------------------- MODULE EvmRelayerProofs --------------------------
(***************************************************************************)
(* Proofs about EvmRelayer, for every set of users, tokens and messages,   *)
(* every token fee and every depth of re-entrant calls.                    *)
(***************************************************************************)
EXTENDS EvmRelayer, TokenAmountsProofs, Sums, FiniteSetTheorems,
        SequenceTheorems, TLAPS

Call == OutboundCall \cup InboundCall \cup PayoutCall

-----------------------------------------------------------------------------
(* The inductive invariant.                                                *)

\* What a call needs of the contract: what it found, and what it owes.
Covered(balances, call) ==
  \A a \in Assets : balances[a] >= call.base[a] + Owed(call, a)

\* A call's amount is one the bridge carries whole; a native transfer is WETH.
WellFormed(call) ==
  call.pc \in {"custody", "refund", "deposit"} =>
    /\ truncateAmount(call.amount, Decimals[call.token]) = call.amount
    /\ call.pc # "custody" => call.token = weth

\* Suspended calls are the ones that called out, and each call found at
\* least what the call below it needs.
StackInv ==
  /\ \A i \in 1..Len(stack) : WellFormed(stack[i])
  /\ \A i \in 1..(Len(stack) - 1) : CallsOut(stack[i])
  /\ \A i \in 1..(Len(stack) - 1) : Covered(stack[i + 1].base, stack[i])
  /\ ~Idle => Covered(held, Top)
  /\ ~Idle => stack[1].base = saved.held

\* Nobody ran since a call that does not call out began.
UntouchedInv ==
  /\ ~Idle /\ Top.pc = "custody" /\ Top.token \notin Hooked
       => held[Top.token] = Top.base[Top.token]
  /\ ~Idle /\ Top.pc = "complete" /\ Top.vaa.token \notin Hooked
       => held[Top.vaa.token] = Top.base[Top.vaa.token]

\* What the properties of the source side say of one state of the storage.
SentExactly(ms) ==
  \A m \in ms :
    m.token \in PlainTokens =>
      denormalizeAmount(m.amount, Decimals[m.token]) = m.asked

SourceInv(w) ==
  /\ RequestMatches(w.messages, w.requests, w.sequence)
  /\ SentExactly(w.messages)
  /\ \A t \in PlainTokens : w.allowance[t] = 0

\* What the properties of the destination side say of it.
PaidExactly(ps, done) ==
  /\ \A p1, p2 \in ps : p1.vaa = p2.vaa => p1 = p2
  /\ \A p \in ps :
       /\ p.vaa \in done
       /\ p.to = p.vaa.recipient
       /\ p.asset = IF p.vaa.token = weth /\ unwrapWeth
                      THEN ETH ELSE p.vaa.token
       /\ p.amount >= Released(p.vaa)
       /\ p.vaa.token \notin Hooked => p.amount = Released(p.vaa)

AllPaid(ps, done) == \A v \in done : \E p \in ps : p.vaa = v

\* A call that is completing a message is the only one for it, and the
\* message is not paid yet; every other completed message is.
ClaimInv ==
  /\ \A i \in 1..Len(stack) : stack[i].pc = "complete" =>
       /\ stack[i].vaa \in redeemed
       /\ stack[i].vaa.token \in Tokens
       /\ stack[i].vaa.recipient \in Users
       /\ \A p \in payouts : p.vaa # stack[i].vaa
  /\ \A i, j \in 1..Len(stack) :
       stack[i].pc = "complete" /\ stack[j].pc = "complete"
         /\ stack[i].vaa = stack[j].vaa => i = j
  /\ \A v \in redeemed :
       \/ \E p \in payouts : p.vaa = v
       \/ \E i \in 1..Len(stack) : stack[i].pc = "complete" /\ stack[i].vaa = v

IInv ==
  /\ TypeOK
  /\ StackInv
  /\ UntouchedInv
  /\ SourceInv(World) /\ SourceInv(saved)
  /\ PaidExactly(payouts, redeemed)
  /\ PaidExactly(saved.payouts, saved.redeemed)
  /\ ClaimInv
  /\ AllPaid(saved.payouts, saved.redeemed)

-----------------------------------------------------------------------------
LEMMA ReleasedType ==
  ASSUME NEW v \in Inbound, v.token \in Tokens
  PROVE  Released(v) \in Nat
<1>1. v.amount \in Nat /\ Decimals[v.token] \in Uint8 /\ TransferFee[v.token] \in Nat
  BY EvmAssumption
<1>2. QED
  BY <1>1, Units DEF Released, Delivered

LEMMA DeliveredType ==
  ASSUME NEW t \in Tokens, NEW a \in Nat
  PROVE  /\ Delivered(t, a) \in Nat
         /\ t \in PlainTokens => Delivered(t, a) = a
BY EvmAssumption DEF Delivered, PlainTokens

-----------------------------------------------------------------------------
(* The stack and the checkpoint.                                           *)

LEMMA StackFacts ==
  ASSUME stack \in Seq(Call), ~Idle
  PROVE  /\ Len(stack) \in Nat \ {0}
         /\ Top \in Call
         /\ Callers \in Seq(Call)
         /\ Len(Callers) = Len(stack) - 1
         /\ \A i \in 1..(Len(stack) - 1) : Callers[i] = stack[i]
         /\ Callers = <<>> <=> Len(stack) = 1
<1>1. Len(stack) \in Nat \ {0}
  BY EmptySeq, LenProperties DEF Idle
<1>2. Top \in Call
  BY <1>1, ElementOfSeq DEF Top
<1>3. /\ Callers \in Seq(Call)
      /\ Len(Callers) = Len(stack) - 1
      /\ \A i \in 1..(Len(stack) - 1) : Callers[i] = stack[i]
  <2>1. \A i \in 1..(Len(stack) - 1) : stack[i] \in Call
    BY <1>1, ElementOfSeq
  <2> DEFINE n == Len(stack) - 1
  <2>2. n \in Int /\ n >= 0
    BY <1>1
  <2>3. \A i \in 1..n : stack[i] \in Call
    BY <2>1
  <2> HIDE DEF n
  <2>4. /\ SubSeq(stack, 1, n) \in Seq(Call)
        /\ Len(SubSeq(stack, 1, n)) = IF 1 <= n THEN n - 1 + 1 ELSE 0
        /\ \A i \in 1..(n - 1 + 1) : SubSeq(stack, 1, n)[i] = stack[1 + i - 1]
    BY <2>2, <2>3, SubSeqProperties
  <2>5. n - 1 + 1 = n /\ \A i \in 1..n : 1 + i - 1 = i
    BY <2>2
  <2>6. /\ SubSeq(stack, 1, n) \in Seq(Call)
        /\ Len(SubSeq(stack, 1, n)) = n
        /\ \A i \in 1..n : SubSeq(stack, 1, n)[i] = stack[i]
    BY <2>2, <2>4, <2>5
  <2>7. QED
    BY <2>6 DEF n, Callers
<1>4. QED
  BY <1>1, <1>2, <1>3, EmptySeq

\* The three ways a step treats the checkpoint keep it a state the contract
\* may fall back to.
LEMMA SavedKept ==
  ASSUME TypeOK, SourceInv(World), SourceInv(saved),
         PaidExactly(payouts, redeemed), ClaimInv,
         PaidExactly(saved.payouts, saved.redeemed),
         AllPaid(saved.payouts, saved.redeemed),
         World' \in WorldType, SourceInv(World'),
         PaidExactly(payouts', redeemed'), ClaimInv',
         \/ saved' = saved
         \/ Idle /\ saved' = World
         \/ stack' = <<>> /\ saved' = World'
  PROVE  /\ saved' \in WorldType
         /\ SourceInv(saved')
         /\ PaidExactly(saved'.payouts, saved'.redeemed)
         /\ AllPaid(saved'.payouts, saved'.redeemed)
<1>1. CASE saved' = saved
  BY <1>1 DEF TypeOK
<1>2. CASE Idle /\ saved' = World
  <2>1. World.payouts = payouts /\ World.redeemed = redeemed
    BY DEF World
  <2>2. Len(stack) = 0
    BY <1>2 DEF Idle
  <2>3. AllPaid(payouts, redeemed)
    BY <2>2 DEF ClaimInv, AllPaid
  <2>4. QED
    BY <1>2, <2>1, <2>3 DEF TypeOK
<1>3. CASE stack' = <<>> /\ saved' = World'
  <2>1. World'.payouts = payouts' /\ World'.redeemed = redeemed'
    BY DEF World
  <2>2. Len(stack') = 0
    BY <1>3
  <2>3. AllPaid(payouts', redeemed')
    BY <2>2 DEF ClaimInv, AllPaid
  <2>4. QED
    BY <1>3, <2>1, <2>3
<1>4. QED
  BY <1>1, <1>2, <1>3

\* A call that returns having kept what it found leaves its caller covered.
LEMMA ReturnKept ==
  ASSUME TypeOK, StackInv, ~Idle, Return, held' \in Amount,
         \A a \in Assets : held'[a] >= Top.base[a]
  PROVE  /\ stack' \in Seq(Call)
         /\ StackInv' /\ UntouchedInv'
         /\ stack' = <<>> => \A a \in Assets : held'[a] >= saved.held[a]
         /\ saved' = saved \/ (stack' = <<>> /\ saved' = World')
<1> DEFINE n == Len(stack)
<1>1. stack \in Seq(Call)
  BY DEF TypeOK, Call
<1>2. /\ n \in Nat \ {0} /\ Top \in Call
      /\ stack' \in Seq(Call) /\ Len(stack') = n - 1
      /\ \A i \in 1..(n - 1) : stack'[i] = stack[i]
      /\ stack' = <<>> <=> n = 1
  BY <1>1, StackFacts DEF Return
<1>3. CASE n = 1
  <2>1. stack' = <<>> /\ Len(stack') = 0
    BY <1>2, <1>3
  <2>2. StackInv' /\ UntouchedInv'
    BY <2>1 DEF StackInv, UntouchedInv, Idle
  <2>3. Top = stack[1] /\ Top.base = saved.held
    BY <1>3 DEF Top, StackInv
  <2>4. QED
    BY <1>2, <2>1, <2>2, <2>3 DEF Return
<1>4. CASE n > 1
  <2>1. stack' # <<>> /\ saved' = saved
    BY <1>2, <1>4 DEF Return
  <2>2. Top' = stack[n - 1]
    BY <1>2, <1>4 DEF Top
  <2>3. stack[n - 1] \in Call
    BY <1>1, <1>2, <1>4
  <2>4. Covered(Top.base, stack[n - 1]) /\ CallsOut(stack[n - 1])
    BY <1>2, <1>4 DEF StackInv, Top
  <2>5. Covered(held', stack[n - 1])
    <3> SUFFICES ASSUME NEW a \in Assets
                 PROVE  held'[a] >= stack[n - 1].base[a] + Owed(stack[n - 1], a)
      BY DEF Covered
    <3>1. Top.base \in Amount /\ stack[n - 1].base \in Amount
      BY <1>2, <2>3 DEF Call, OutboundCall, InboundCall, PayoutCall
    <3>2. Owed(stack[n - 1], a) \in Nat
      BY <2>3 DEF Owed, Call, OutboundCall, InboundCall, PayoutCall
    <3>3. Top.base[a] >= stack[n - 1].base[a] + Owed(stack[n - 1], a)
      BY <2>4 DEF Covered
    <3>4. held'[a] >= Top.base[a]
      OBVIOUS
    <3>5. QED
      BY <3>1, <3>2, <3>3, <3>4 DEF Amount
  <2>6. UntouchedInv'
    BY <2>2, <2>4 DEF UntouchedInv, CallsOut
  <2>7. StackInv'
    BY <1>2, <1>4, <2>1, <2>2, <2>5 DEF StackInv, Idle, Covered, WellFormed, Owed, CallsOut
  <2>8. QED
    BY <1>2, <2>1, <2>6, <2>7
<1>5. QED
  BY <1>2, <1>3, <1>4

\* A call that enters takes note of what it finds and needs no more than that.
LEMMA EnterKept ==
  ASSUME TypeOK, StackInv, NEW call \in Call, Enter(call),
         call.base = held, Covered(held', call), WellFormed(call),
         call.pc = "custody" /\ call.token \notin Hooked
           => held'[call.token] = held[call.token],
         call.pc = "complete" /\ call.vaa.token \notin Hooked
           => held'[call.vaa.token] = held[call.vaa.token]
  PROVE  /\ stack' \in Seq(Call)
         /\ Len(stack') = Len(stack) + 1
         /\ stack'[Len(stack) + 1] = call
         /\ \A i \in 1..Len(stack) : stack'[i] = stack[i]
         /\ StackInv' /\ UntouchedInv'
         /\ saved' = saved \/ (Idle /\ saved' = World)
<1> DEFINE n == Len(stack)
<1>1. stack \in Seq(Call) /\ n \in Nat
  BY LenProperties DEF TypeOK, Call
<1>2. /\ stack' \in Seq(Call) /\ Len(stack') = n + 1
      /\ stack'[n + 1] = call
      /\ \A i \in 1..n : stack'[i] = stack[i]
  BY <1>1 DEF Enter
<1>3. stack' # <<>> /\ Top' = call
  BY <1>1, <1>2 DEF Top
<1>4. UntouchedInv'
  BY <1>3 DEF UntouchedInv
<1>5. StackInv'
  <2>1. CASE Idle
    <3>1. n = 0 /\ saved' = World /\ saved'.held = held
      BY <2>1 DEF Idle, Enter, World
    <3>2. QED
      BY <1>1, <1>2, <1>3, <3>1
      DEF StackInv, Idle, Covered, WellFormed, Owed, CallsOut
  <2>2. CASE ~Idle
    <3>1. n \in Nat \ {0} /\ saved' = saved /\ CallsOut(stack[n])
      BY <1>1, <2>2, StackFacts DEF Enter, OthersRun, Top
    <3>2. Covered(held, stack[n])
      BY <2>2 DEF StackInv, Top
    <3>3. \A i \in 1..n : WellFormed(stack'[i])
      BY <1>2 DEF StackInv, WellFormed
    <3>4. \A i \in 1..n : CallsOut(stack'[i])
      BY <1>1, <1>2, <3>1 DEF StackInv, CallsOut
    <3>5. \A i \in 1..n : Covered(stack'[i + 1].base, stack'[i])
      BY <1>1, <1>2, <3>1, <3>2 DEF StackInv, Covered, Owed
    <3>6. Covered(held', call) /\ stack'[1].base = saved'.held
      BY <1>2, <2>2, <3>1 DEF StackInv
    <3>7. QED
      BY <1>1, <1>2, <1>3, <3>3, <3>4, <3>5, <3>6
      DEF StackInv, Idle, Covered, WellFormed, Owed, CallsOut
  <2>3. QED
    BY <2>1, <2>2
<1>6. QED
  BY <1>2, <1>4, <1>5 DEF Enter

\* Somebody else's step, from which the contract loses nothing.
LEMMA AsideKept ==
  ASSUME TypeOK, StackInv, Aside, held' \in Amount,
         \A a \in Assets : held'[a] >= held[a]
  PROVE  /\ StackInv' /\ UntouchedInv'
         /\ saved' = saved \/ (stack' = <<>> /\ saved' = World')
<1>1. CASE Idle
  BY <1>1 DEF StackInv, UntouchedInv, Idle, Aside
<1>2. CASE ~Idle
  <2>1. stack' = stack /\ saved' = saved /\ CallsOut(Top)
    BY <1>2 DEF Aside, OthersRun
  <2>2. stack \in Seq(Call) /\ Top \in Call
    BY <1>2, StackFacts DEF TypeOK, Call
  <2>3. Covered(held', Top)
    <3> SUFFICES ASSUME NEW a \in Assets
                 PROVE  held'[a] >= Top.base[a] + Owed(Top, a)
      BY DEF Covered
    <3>1. Top.base \in Amount /\ Owed(Top, a) \in Nat
      BY <2>2 DEF Owed, Call, OutboundCall, InboundCall, PayoutCall
    <3>2. held[a] >= Top.base[a] + Owed(Top, a)
      BY <1>2 DEF StackInv, Covered
    <3>3. held[a] \in Nat /\ held'[a] \in Nat /\ held'[a] >= held[a]
      BY DEF TypeOK, World, WorldType, Amount
    <3>4. QED
      BY <3>1, <3>2, <3>3 DEF Amount
  <2>4. StackInv'
    BY <1>2, <2>1, <2>3
    DEF StackInv, Idle, Covered, WellFormed, Owed, CallsOut, Top
  <2>5. UntouchedInv'
    BY <2>1 DEF UntouchedInv, CallsOut, Top
  <2>6. QED
    BY <2>1, <2>4, <2>5
<1>3. QED
  BY <1>1, <1>2

LEMMA Assemble ==
  ASSUME IInv, World' \in WorldType, stack' \in Seq(Call),
         StackInv', UntouchedInv', SourceInv(World'),
         PaidExactly(payouts', redeemed'), ClaimInv',
         \/ saved' = saved
         \/ Idle /\ saved' = World
         \/ stack' = <<>> /\ saved' = World'
  PROVE  IInv'
<1>1. /\ saved' \in WorldType
      /\ SourceInv(saved')
      /\ PaidExactly(saved'.payouts, saved'.redeemed)
      /\ AllPaid(saved'.payouts, saved'.redeemed)
  BY SavedKept DEF IInv
<1>2. TypeOK'
  BY <1>1 DEF TypeOK, Call
<1>3. QED
  BY <1>1, <1>2 DEF IInv

\* The fields of the storage, with their types.
LEMMA WorldFields ==
  World \in WorldType <=>
    /\ held \in Amount /\ allowance \in [Tokens -> Nat]
    /\ locked \in BOOLEAN /\ messageFee \in Nat /\ sequence \in Nat
    /\ messages \in SUBSET Message /\ requests \in SUBSET Request
    /\ redeemed \in SUBSET Inbound /\ payouts \in SUBSET Payout
    /\ strays \in Amount
BY DEF World, WorldType

LEMMA SourceFields ==
  SourceInv(World) <=>
    /\ RequestMatches(messages, requests, sequence)
    /\ SentExactly(messages)
    /\ \A t \in PlainTokens : allowance[t] = 0
BY DEF World, SourceInv

\* A call that enters changes neither the ledgers nor the calls below it.
LEMMA ClaimEnter ==
  ASSUME ClaimInv, Len(stack) \in Nat, UNCHANGED <<redeemed, payouts>>,
         Len(stack') = Len(stack) + 1,
         stack'[Len(stack) + 1].pc # "complete",
         \A i \in 1..Len(stack) : stack'[i] = stack[i]
  PROVE  ClaimInv'
<1> DEFINE n == Len(stack)
<1>1. \A i \in 1..Len(stack') : stack'[i].pc = "complete"
        => i \in 1..n /\ stack'[i] = stack[i]
  OBVIOUS
<1>2. \A i \in 1..n : i \in 1..Len(stack')
  OBVIOUS
<1> HIDE DEF n
<1>3. QED
  BY <1>1, <1>2 DEF ClaimInv, n

-----------------------------------------------------------------------------
(* The initial state and the steps.                                        *)

LEMMA InitInv == Init => IInv
<1> SUFFICES ASSUME Init PROVE IInv
  OBVIOUS
<1>1. Len(stack) = 0 /\ Idle /\ stack \in Seq(Call)
  BY DEF Init, Idle
<1>2. World \in WorldType
  BY WorldFields, EvmAssumption DEF Init, Amount
<1>3. SourceInv(World)
  BY SourceFields DEF Init, RequestMatches, SentExactly, PlainTokens
<1>4. PaidExactly(payouts, redeemed) /\ ClaimInv /\ AllPaid(payouts, redeemed)
  BY <1>1 DEF Init, PaidExactly, ClaimInv, AllPaid
<1>5. World.payouts = payouts /\ World.redeemed = redeemed /\ saved = World
  BY DEF World, Init
<1>6. StackInv /\ UntouchedInv
  BY <1>1 DEF StackInv, UntouchedInv
<1>7. TypeOK
  BY <1>1, <1>2, <1>5 DEF TypeOK, Call
<1>8. QED
  BY <1>3, <1>4, <1>5, <1>6, <1>7 DEF IInv

LEMMA TransferTokensStep ==
  ASSUME IInv, NEW token \in Tokens, NEW amount \in Amounts,
         NEW value \in Values, NEW payment \in Payments,
         NEW dst \in Destinations,
         TransferTokensWithRelay(token, amount, value, payment, dst)
  PROVE  IInv'
<1> DEFINE kept == truncateAmount(amount, Decimals[token])
           call == [pc |-> "custody", base |-> held, token |-> token,
                    amount |-> kept, fee |-> messageFee,
                    payment |-> payment, spend |-> messageFee + payment,
                    dst |-> dst]
<1>1. /\ amount \in Nat /\ value \in Nat /\ payment \in Nat
      /\ Decimals[token] \in Uint8 /\ ETH \notin Tokens
  BY EvmAssumption
<1>2. kept \in Nat /\ truncateAmount(kept, Decimals[token]) = kept
  BY <1>1, Truncation
<1>3. World \in WorldType /\ stack \in Seq(Call) /\ Len(stack) \in Nat
  BY LenProperties DEF IInv, TypeOK, Call
<1>4. call \in Call /\ call.base = held /\ WellFormed(call)
  BY <1>1, <1>2, <1>3, WorldFields DEF Call, OutboundCall, WellFormed
<1>5. /\ held' = [held EXCEPT ![ETH] = @ + value]
      /\ Enter(call)
      /\ locked' = TRUE /\ value = messageFee + payment
      /\ UNCHANGED <<allowance, messageFee, sequence, messages, requests,
                     redeemed, payouts, strays>>
  BY DEF TransferTokensWithRelay, PaysExactly
<1>6. held' \in Amount /\ held'[token] = held[token]
  BY <1>1, <1>3, <1>5, WorldFields DEF Amount, Assets
<1>7. Covered(held', call)
  BY <1>1, <1>3, <1>5, WorldFields DEF Covered, Owed, Amount, Assets
<1>8. World' \in WorldType
  BY <1>3, <1>5, <1>6, WorldFields DEF World, WorldType
<1>9. SourceInv(World')
  BY <1>5 DEF IInv, SourceInv, World
<1> HIDE DEF call
<1>10. call.pc = "custody" /\ call.token = token
  BY DEF call
<1>11. /\ stack' \in Seq(Call)
       /\ Len(stack') = Len(stack) + 1
       /\ stack'[Len(stack) + 1] = call
       /\ \A i \in 1..Len(stack) : stack'[i] = stack[i]
       /\ StackInv' /\ UntouchedInv'
       /\ saved' = saved \/ (Idle /\ saved' = World)
  BY <1>4, <1>5, <1>6, <1>7, <1>10, EnterKept DEF IInv
<1>12. ClaimInv'
  BY <1>3, <1>5, <1>10, <1>11, ClaimEnter DEF IInv
<1>13. PaidExactly(payouts', redeemed')
  BY <1>5 DEF IInv
<1>14. QED
  BY <1>8, <1>9, <1>11, <1>12, <1>13, Assemble

LEMMA WrapStep ==
  ASSUME IInv, NEW value \in Values, NEW payment \in Payments,
         NEW dst \in Destinations,
         WrapAndTransferEthWithRelay(value, payment, dst)
  PROVE  IInv'
<1> DEFINE fees == messageFee + payment
           amount == value - fees
           kept == truncateAmount(amount, 18)
           call == [pc |-> IF amount > kept THEN "refund" ELSE "deposit",
                    base |-> held, token |-> weth, amount |-> kept,
                    fee |-> messageFee, payment |-> payment,
                    spend |-> kept + fees, dst |-> dst]
<1>1. /\ value \in Nat /\ payment \in Nat /\ weth \in Tokens
      /\ ETH \notin Tokens /\ Decimals[weth] = 18 /\ 18 \in Uint8
  BY EvmAssumption DEF Uint8
<1>2. World \in WorldType /\ stack \in Seq(Call) /\ Len(stack) \in Nat
  BY LenProperties DEF IInv, TypeOK, Call
<1>3. /\ value > fees
      /\ Enter(call)
      /\ held' = [held EXCEPT ![ETH] = @ + value - (amount - kept)]
      /\ UNCHANGED <<allowance, locked, messageFee, sequence, messages,
                     requests, redeemed, payouts, strays>>
  BY DEF WrapAndTransferEthWithRelay
<1>4. fees \in Nat /\ amount \in Nat
  BY <1>1, <1>2, <1>3, WorldFields
<1>5. /\ kept \in Nat /\ kept <= amount
      /\ truncateAmount(kept, Decimals[weth]) = kept
  BY <1>1, <1>4, Truncation
<1> HIDE DEF kept
<1>6. call \in Call /\ call.base = held /\ WellFormed(call)
  BY <1>1, <1>2, <1>4, <1>5, WorldFields DEF Call, OutboundCall, WellFormed
<1>7. /\ held' = [held EXCEPT ![ETH] = @ + kept + fees]
      /\ held' \in Amount
  <2> HIDE DEF fees
  <2>0. held[ETH] \in Nat
    BY <1>2, WorldFields DEF Amount, Assets
  <2>1. held[ETH] + value - (amount - kept) = held[ETH] + kept + fees
    BY <1>1, <1>4, <1>5, <2>0
  <2>2. held' = [held EXCEPT ![ETH] = held[ETH] + kept + fees]
    BY <1>3, <2>1
  <2>3. QED
    BY <1>2, <1>4, <1>5, <2>2, WorldFields DEF Amount, Assets
<1>8. Covered(held', call)
  <2> HIDE DEF fees
  <2> SUFFICES ASSUME NEW a \in Assets
               PROVE  held'[a] >= held[a] + Owed(call, a)
    BY DEF Covered
  <2>1. /\ held[a] \in Nat
        /\ held'[a] = IF a = ETH THEN held[ETH] + kept + fees ELSE held[a]
    BY <1>2, <1>7, WorldFields DEF Amount
  <2>2. Owed(call, a) = IF a = ETH THEN kept + fees ELSE 0
    BY DEF Owed
  <2>3. QED
    BY <1>4, <1>5, <2>1, <2>2
<1>9. World' \in WorldType
  BY <1>2, <1>3, <1>7, WorldFields DEF World, WorldType
<1>10. SourceInv(World')
  BY <1>3 DEF IInv, SourceInv, World
<1>11. call.pc \in {"refund", "deposit"}
  OBVIOUS
<1> HIDE DEF call
<1>12. /\ stack' \in Seq(Call)
       /\ Len(stack') = Len(stack) + 1
       /\ stack'[Len(stack) + 1] = call
       /\ \A i \in 1..Len(stack) : stack'[i] = stack[i]
       /\ StackInv' /\ UntouchedInv'
       /\ saved' = saved \/ (Idle /\ saved' = World)
  BY <1>3, <1>6, <1>8, <1>11, EnterKept DEF IInv
<1>13. ClaimInv'
  BY <1>2, <1>3, <1>11, <1>12, ClaimEnter DEF IInv
<1>14. PaidExactly(payouts', redeemed')
  BY <1>3 DEF IInv
<1>15. QED
  BY <1>9, <1>10, <1>12, <1>13, <1>14, Assemble

LEMMA ExecuteStep ==
  ASSUME IInv, NEW vaa \in Inbound, NEW value \in Tips,
         ExecuteVAAv1(vaa, value)
  PROVE  IInv'
<1> DEFINE call == [pc |-> "complete", base |-> held, vaa |-> vaa]
           n == Len(stack)
<1>1. World \in WorldType /\ stack \in Seq(Call) /\ n \in Nat
  BY LenProperties DEF IInv, TypeOK, Call
<1>2. /\ vaa \notin redeemed /\ vaa.token # NotAttested
      /\ vaa.recipient # Malformed
      /\ Enter(call)
      /\ held' = [held EXCEPT ![ETH] = @ + value]
      /\ strays' = [strays EXCEPT ![ETH] = @ + value]
      /\ redeemed' = redeemed \cup {vaa}
      /\ UNCHANGED <<allowance, locked, messageFee, sequence, messages,
                     requests, payouts>>
  BY DEF ExecuteVAAv1
<1>3. /\ value \in Nat /\ vaa.token \in Tokens /\ vaa.recipient \in Users
      /\ ETH \notin Tokens
  BY <1>2, EvmAssumption
<1>4. call \in Call /\ call.base = held /\ WellFormed(call)
  BY <1>1, WorldFields DEF Call, InboundCall, WellFormed
<1>5. /\ held' \in Amount /\ strays' \in Amount
      /\ held'[vaa.token] = held[vaa.token]
  BY <1>1, <1>2, <1>3, WorldFields DEF Amount, Assets
<1>6. Covered(held', call)
  BY <1>1, <1>2, <1>3, WorldFields DEF Covered, Owed, Amount, Assets
<1>7. World' \in WorldType
  BY <1>1, <1>2, <1>5, WorldFields DEF World, WorldType
<1>8. SourceInv(World')
  BY <1>2 DEF IInv, SourceInv, World
<1>9. call.pc = "complete" /\ call.vaa = vaa
  OBVIOUS
<1> HIDE DEF call
<1>10. /\ stack' \in Seq(Call)
       /\ Len(stack') = n + 1
       /\ stack'[n + 1] = call
       /\ \A i \in 1..n : stack'[i] = stack[i]
       /\ StackInv' /\ UntouchedInv'
       /\ saved' = saved \/ (Idle /\ saved' = World)
  BY <1>2, <1>4, <1>5, <1>6, <1>9, EnterKept DEF IInv
<1>11. \A p \in payouts : p.vaa \in redeemed
  BY DEF IInv, PaidExactly
<1>12. PaidExactly(payouts', redeemed')
  BY <1>2 DEF IInv, PaidExactly
<1>13. ClaimInv'
  <2>1. \A i \in 1..(n + 1) : i = n + 1 \/ (i \in 1..n /\ stack'[i] = stack[i])
    BY <1>1, <1>10
  <2>2. \A i \in 1..n : i \in 1..(n + 1)
    BY <1>1
  <2>3. \A i \in 1..n : stack[i].pc = "complete" => stack[i].vaa # vaa
    BY <1>2 DEF IInv, ClaimInv
  <2>4. n + 1 \in 1..(n + 1)
    BY <1>1
  <2> HIDE DEF n
  <2>5. \A i \in 1..Len(stack') : stack'[i].pc = "complete" =>
          /\ stack'[i].vaa \in redeemed'
          /\ stack'[i].vaa.token \in Tokens
          /\ stack'[i].vaa.recipient \in Users
          /\ \A p \in payouts' : p.vaa # stack'[i].vaa
    BY <1>2, <1>3, <1>9, <1>10, <1>11, <2>1 DEF IInv, ClaimInv, n
  <2>6. \A i, j \in 1..Len(stack') :
          stack'[i].pc = "complete" /\ stack'[j].pc = "complete"
            /\ stack'[i].vaa = stack'[j].vaa => i = j
    BY <1>9, <1>10, <2>1, <2>3 DEF IInv, ClaimInv, n
  <2>7. ASSUME NEW v \in redeemed'
        PROVE  \/ \E p \in payouts' : p.vaa = v
               \/ \E i \in 1..Len(stack') :
                    stack'[i].pc = "complete" /\ stack'[i].vaa = v
    <3>1. CASE v = vaa
      BY <3>1, <1>9, <1>10, <2>4
    <3>2. CASE v \in redeemed
      <4>1. \/ \E p \in payouts : p.vaa = v
            \/ \E i \in 1..n : stack[i].pc = "complete" /\ stack[i].vaa = v
        BY <3>2 DEF IInv, ClaimInv, n
      <4>2. \A i \in 1..n : i \in 1..Len(stack') /\ stack'[i] = stack[i]
        BY <1>10, <2>2
      <4>3. QED
        BY <1>2, <4>1, <4>2
    <3>3. QED
      BY <1>2, <3>1, <3>2
  <2>8. QED
    BY <2>5, <2>6, <2>7, Zenon DEF ClaimInv
<1>14. QED
  BY <1>7, <1>8, <1>10, <1>12, <1>13, Assemble

-----------------------------------------------------------------------------
\* When the innermost call is not completing a message its return leaves the
\* claims of the others as they are.
LEMMA ClaimReturn ==
  ASSUME TypeOK, ClaimInv, ~Idle, Top.pc # "complete", stack' = Callers,
         UNCHANGED <<redeemed, payouts>>
  PROVE  ClaimInv'
<1> DEFINE n == Len(stack)
<1>1. /\ n \in Nat \ {0} /\ Len(stack') = n - 1
      /\ \A i \in 1..(n - 1) : stack'[i] = stack[i]
  BY StackFacts DEF TypeOK, Call
<1>2. \A i \in 1..(n - 1) : i \in 1..n
  BY <1>1
<1>3. \A i \in 1..n : stack[i].pc = "complete" => i \in 1..(n - 1)
  BY <1>1 DEF Top
<1> HIDE DEF n
<1>4. \A i \in 1..Len(stack') : i \in 1..n /\ stack'[i] = stack[i]
  BY <1>1, <1>2
<1>5. \A i \in 1..n : stack[i].pc = "complete"
        => i \in 1..Len(stack') /\ stack'[i] = stack[i]
  BY <1>1, <1>3
<1>6. \A i \in 1..Len(stack') : stack'[i].pc = "complete" =>
        /\ stack'[i].vaa \in redeemed'
        /\ stack'[i].vaa.token \in Tokens
        /\ stack'[i].vaa.recipient \in Users
        /\ \A p \in payouts' : p.vaa # stack'[i].vaa
  BY <1>4 DEF ClaimInv, n
<1>7. \A i, j \in 1..Len(stack') :
        stack'[i].pc = "complete" /\ stack'[j].pc = "complete"
          /\ stack'[i].vaa = stack'[j].vaa => i = j
  BY <1>4 DEF ClaimInv, n
<1>8. ASSUME NEW v \in redeemed'
      PROVE  \/ \E p \in payouts' : p.vaa = v
             \/ \E i \in 1..Len(stack') :
                  stack'[i].pc = "complete" /\ stack'[i].vaa = v
  <2>1. \/ \E p \in payouts : p.vaa = v
        \/ \E i \in 1..n : stack[i].pc = "complete" /\ stack[i].vaa = v
    BY <1>8 DEF ClaimInv, n
  <2>2. QED
    BY <1>5, <2>1
<1>9. QED
  BY <1>6, <1>7, <1>8, Zenon DEF ClaimInv

\* The second half of both outbound functions.
LEMMA SendOutKept ==
  ASSUME IInv, ~Idle, Top.pc \in {"custody", "refund", "deposit"},
         NEW credit \in Nat, NEW amount \in Nat,
         SendOut(Top, credit, amount), locked' \in BOOLEAN,
         amount <= held[Top.token] + credit - Top.base[Top.token],
         Top.token \in PlainTokens => amount = Top.amount
  PROVE  /\ IInv'
         /\ stack' = <<>> => \A a \in Assets : held'[a] >= saved.held[a]
<1> DEFINE token == Top.token
           d == Decimals[token]
           normalized == normalizeAmount(amount, d)
           pulled == denormalizeAmount(normalized, d)
           arrived == Delivered(token, pulled)
           m == [sequence |-> sequence, token |-> token, asked |-> Top.amount,
                 amount |-> normalizeAmount(arrived, d), dst |-> Top.dst]
           r == [sequence |-> sequence, targetChain |-> Top.dst.targetChain,
                 dstExecutionAddress |-> Top.dst.dstExecutionAddress,
                 payment |-> Top.payment]
<1>1. /\ allowance' = [allowance EXCEPT ![token] = amount - pulled]
      /\ held' = [held EXCEPT ![token] = @ + credit - pulled,
                              ![ETH]   = @ - Top.spend]
      /\ messages' = messages \cup {m}
      /\ requests' = requests \cup {r}
      /\ sequence' = sequence + 1
      /\ UNCHANGED <<messageFee, redeemed, payouts, strays>>
      /\ Return
  BY DEF SendOut, RequestFor
<1>2. World \in WorldType /\ TypeOK /\ StackInv
  BY DEF IInv, TypeOK
<1>3. Top \in OutboundCall
  <2>1. Top \in Call
    BY <1>2, StackFacts DEF TypeOK, Call
  <2>2. QED
    BY <2>1 DEF Call, OutboundCall, InboundCall, PayoutCall
<1>4. /\ token \in Tokens /\ d \in Uint8 /\ ETH \notin Tokens
      /\ token \in Assets /\ ETH \in Assets /\ Top.base \in Amount
      /\ Top.spend \in Nat /\ Top.amount \in Nat
  BY <1>3, EvmAssumption DEF OutboundCall, Assets
<1>5. /\ normalized \in Nat /\ pulled \in Nat /\ pulled <= amount
  BY <1>4, Truncation DEF truncateAmount
<1>6. truncateAmount(Top.amount, d) = Top.amount
  <2>1. Top = stack[Len(stack)] /\ Len(stack) \in Nat \ {0}
    BY <1>2, StackFacts DEF Top, TypeOK, Call
  <2>2. QED
    BY <1>2, <2>1 DEF StackInv, WellFormed
<1>7. token \in PlainTokens => pulled = amount /\ arrived = amount
  BY <1>4, <1>5, <1>6, DeliveredType DEF truncateAmount
<1>8. arrived \in Nat /\ normalizeAmount(arrived, d) \in Nat
  BY <1>4, <1>5, DeliveredType, Truncation
<1> HIDE DEF token, d, normalized, pulled, arrived
<1>9. /\ held' \in Amount
      /\ \A a \in Assets : held'[a] >= Top.base[a]
  <2> SUFFICES ASSUME NEW a \in Assets
               PROVE  held'[a] \in Nat /\ held'[a] >= Top.base[a]
    BY <1>1, <1>2, WorldFields DEF Amount
  <2>1. held \in Amount /\ held[a] \in Nat /\ Top.base[a] \in Nat
    BY <1>2, <1>4, WorldFields DEF Amount
  <2>2. held[a] >= Top.base[a] + Owed(Top, a)
    BY <1>2 DEF StackInv, Covered
  <2>3. held'[a] = IF a = ETH THEN held[a] - Top.spend
                   ELSE IF a = token THEN held[a] + credit - pulled
                   ELSE held[a]
    BY <1>1, <1>4, <2>1 DEF Amount
  <2>4. CASE a = ETH
    BY <1>4, <2>1, <2>2, <2>3, <2>4 DEF Owed
  <2>5. CASE a # ETH /\ a = token
    BY <1>5, <2>1, <2>3, <2>5 DEF token
  <2>6. CASE a # ETH /\ a # token
    BY <2>1, <2>2, <2>3, <2>6 DEF Owed
  <2>7. QED
    BY <2>4, <2>5, <2>6
<1>10. m \in Message /\ r \in Request
  BY <1>2, <1>3, <1>4, <1>8, WorldFields DEF Message, Request, OutboundCall
<1>11. World' \in WorldType
  <2>1. allowance' \in [Tokens -> Nat]
    <3>1. amount - pulled \in Nat /\ allowance \in [Tokens -> Nat]
      BY <1>2, <1>5, WorldFields
    <3>2. QED
      BY <1>1, <1>4, <3>1
  <2>2. sequence' \in Nat
    BY <1>1, <1>2, WorldFields
  <2>3. QED
    BY <1>1, <1>2, <1>9, <1>10, <2>1, <2>2, WorldFields DEF World, WorldType
<1>12. SourceInv(World')
  <2>1. RequestMatches(messages, requests, sequence) /\ SentExactly(messages)
        /\ \A t \in PlainTokens : allowance[t] = 0
    BY SourceFields DEF IInv
  <2>2. RequestMatches(messages', requests', sequence')
    <3>1. /\ m.sequence = sequence /\ r.sequence = sequence
          /\ r.targetChain = m.dst.targetChain
          /\ r.dstExecutionAddress = m.dst.dstExecutionAddress
      OBVIOUS
    <3>2. sequence \in Nat /\ \A x \in messages : x.sequence \in Nat
      BY <1>2, WorldFields DEF Message
    <3> HIDE DEF m, r
    <3>3. \A x \in requests : \E y \in messages : x.sequence = y.sequence
      BY <2>1 DEF RequestMatches
    <3>4. \A x \in messages : x.sequence < sequence
      BY <2>1 DEF RequestMatches
    <3>5. /\ \A x \in messages : x.sequence # sequence
          /\ \A x \in requests : x.sequence # sequence
          /\ \A x \in messages \cup {m} : x.sequence < sequence + 1
      BY <3>1, <3>2, <3>3, <3>4
    <3>6. QED
      BY <1>1, <2>1, <3>1, <3>5 DEF RequestMatches
  <2>3. SentExactly(messages')
    <3>1. m.token \in PlainTokens
            => denormalizeAmount(m.amount, Decimals[m.token]) = m.asked
      BY <1>6, <1>7 DEF truncateAmount, token, d
    <3>2. QED
      BY <1>1, <2>1, <3>1 DEF SentExactly
  <2>4. \A t \in PlainTokens : allowance'[t] = 0
    <3>1. allowance \in [Tokens -> Nat] /\ PlainTokens \subseteq Tokens
      BY <1>2, WorldFields DEF PlainTokens
    <3>2. QED
      BY <1>1, <1>4, <1>7, <2>1, <3>1 DEF token
  <2>5. QED
    BY <2>2, <2>3, <2>4 DEF SourceInv, World
<1>13. /\ stack' \in Seq(Call)
       /\ StackInv' /\ UntouchedInv'
       /\ stack' = <<>> => \A a \in Assets : held'[a] >= saved.held[a]
       /\ saved' = saved \/ (stack' = <<>> /\ saved' = World')
  BY <1>1, <1>2, <1>9, ReturnKept
<1>14. ClaimInv' /\ PaidExactly(payouts', redeemed')
  BY <1>1, ClaimReturn DEF IInv, Return
<1>15. QED
  BY <1>11, <1>12, <1>13, <1>14, Assemble

LEMMA CustodyStep ==
  ASSUME IInv, CustodyTokens
  PROVE  /\ IInv'
         /\ stack' = <<>> => \A a \in Assets : held'[a] >= saved.held[a]
<1> DEFINE credit == Delivered(Top.token, Top.amount)
           amount == Measured(Top.token, credit)
<1>1. ~Idle /\ Top.pc = "custody" /\ SendOut(Top, credit, amount)
      /\ locked' = FALSE
  BY DEF CustodyTokens
<1>2. TypeOK /\ World \in WorldType /\ StackInv
  BY DEF IInv, TypeOK
<1>3. Top \in OutboundCall
  <2>1. Top \in Call
    BY <1>1, <1>2, StackFacts DEF TypeOK, Call
  <2>2. QED
    BY <1>1, <2>1 DEF Call, OutboundCall, InboundCall, PayoutCall
<1>4. /\ Top.token \in Tokens /\ Top.token \in Assets /\ Top.amount \in Nat
      /\ Top.base[Top.token] \in Nat /\ held[Top.token] \in Nat
  BY <1>2, <1>3, WorldFields DEF OutboundCall, Amount, Assets
<1>5. held[Top.token] >= Top.base[Top.token]
  <2>1. Owed(Top, Top.token) = 0
    BY <1>4, EvmAssumption DEF Owed
  <2>2. QED
    BY <1>1, <1>2, <1>4, <2>1 DEF StackInv, Covered
<1>6. credit \in Nat /\ (Top.token \in PlainTokens => credit = Top.amount)
  BY <1>4, DeliveredType
<1>7. amount \in Nat /\ amount <= held[Top.token] + credit - Top.base[Top.token]
  BY <1>4, <1>5, <1>6 DEF Measured
<1>8. Top.token \in PlainTokens => amount = Top.amount
  BY <1>1, <1>4, <1>6 DEF IInv, UntouchedInv, PlainTokens, Measured
<1> HIDE DEF credit, amount
<1>9. QED
  BY <1>1, <1>6, <1>7, <1>8, SendOutKept

LEMMA DepositStep ==
  ASSUME IInv, DepositWeth
  PROVE  /\ IInv'
         /\ stack' = <<>> => \A a \in Assets : held'[a] >= saved.held[a]
<1>1. /\ ~Idle /\ Top.pc \in {"refund", "deposit"} /\ locked' = locked
      /\ SendOut(Top, Top.amount, Top.amount)
  BY DEF DepositWeth
<1>2. TypeOK /\ World \in WorldType /\ StackInv
  BY DEF IInv, TypeOK
<1>3. Top \in OutboundCall
  <2>1. Top \in Call
    BY <1>1, <1>2, StackFacts DEF TypeOK, Call
  <2>2. QED
    BY <1>1, <2>1 DEF Call, OutboundCall, InboundCall, PayoutCall
<1>4. /\ Top.token \in Tokens /\ Top.token \in Assets /\ Top.amount \in Nat
      /\ Top.base[Top.token] \in Nat /\ held[Top.token] \in Nat
  BY <1>2, <1>3, WorldFields DEF OutboundCall, Amount, Assets
<1>5. held[Top.token] >= Top.base[Top.token]
  <2>1. Owed(Top, Top.token) = 0
    BY <1>4, EvmAssumption DEF Owed
  <2>2. QED
    BY <1>1, <1>2, <1>4, <2>1 DEF StackInv, Covered
<1>6. locked' \in BOOLEAN
  BY <1>1, <1>2, WorldFields
<1>7. QED
  BY <1>1, <1>4, <1>5, <1>6, SendOutKept

\* A completed message is paid: its call is over, or goes on to the payout.
LEMMA PayStep ==
  ASSUME IInv, PayRecipient
  PROVE  /\ IInv'
         /\ stack' = <<>> => \A a \in Assets : held'[a] >= saved.held[a]
<1> DEFINE vaa == Top.vaa
           token == Top.vaa.token
           unwrap == token = weth /\ unwrapWeth
           released == Released(Top.vaa)
           amount == Measured(token, released)
           pay == [vaa |-> vaa, to |-> vaa.recipient, amount |-> amount,
                   asset |-> IF unwrap THEN ETH ELSE token]
           next == [pc |-> "payout", base |-> Top.base]
           n == Len(stack)
<1>1. /\ ~Idle /\ Top.pc = "complete"
      /\ held' = [held EXCEPT ![token] = @ + released - amount]
      /\ payouts' = payouts \cup {pay}
      /\ UNCHANGED <<allowance, locked, messageFee, sequence, messages,
                     requests, redeemed, strays>>
      /\ IF unwrap THEN Become(next) ELSE Return
  BY DEF PayRecipient
<1>2. TypeOK /\ World \in WorldType /\ StackInv /\ stack \in Seq(Call)
  BY DEF IInv, TypeOK, Call
<1>3. /\ n \in Nat \ {0} /\ Top \in Call /\ Top = stack[n]
      /\ Callers \in Seq(Call) /\ Len(Callers) = n - 1
      /\ \A i \in 1..(n - 1) : Callers[i] = stack[i]
  BY <1>1, <1>2, StackFacts DEF Top
<1>4. Top \in InboundCall /\ vaa \in Inbound /\ Top.base \in Amount
  BY <1>1, <1>3 DEF Call, OutboundCall, InboundCall, PayoutCall
<1>5. /\ token \in Tokens /\ vaa.recipient \in Users /\ vaa \in redeemed
      /\ \A p \in payouts : p.vaa # vaa
      /\ \A i \in 1..(n - 1) : stack[i].pc = "complete" => stack[i].vaa # vaa
  <2>1. n \in 1..n /\ \A i \in 1..(n - 1) : i \in 1..n /\ i # n
    BY <1>3
  <2> HIDE DEF n
  <2>2. QED
    BY <1>1, <1>3, <2>1 DEF IInv, ClaimInv, n
<1>6. /\ released \in Nat /\ held[token] \in Nat /\ Top.base[token] \in Nat
      /\ token \in Assets /\ token # ETH
  BY <1>2, <1>4, <1>5, ReleasedType, WorldFields, EvmAssumption
  DEF Amount, Assets
<1>7. \A a \in Assets : held[a] >= Top.base[a]
  <2> SUFFICES ASSUME NEW a \in Assets PROVE held[a] >= Top.base[a]
    OBVIOUS
  <2>1. held[a] >= Top.base[a] + Owed(Top, a) /\ Owed(Top, a) = 0
    BY <1>1, <1>2 DEF StackInv, Covered, Owed
  <2>2. Top.base[a] \in Nat
    BY <1>4 DEF Amount
  <2>3. QED
    BY <2>1, <2>2
<1>8. /\ amount \in Nat /\ amount >= released
      /\ held[token] + released - amount = Top.base[token]
      /\ token \notin Hooked => amount = released
  <2>1. token \notin Hooked => held[token] = Top.base[token]
    BY <1>1 DEF IInv, UntouchedInv
  <2> HIDE DEF token, released
  <2>2. held[token] >= Top.base[token]
    BY <1>6, <1>7
  <2>3. amount = held[token] + released - Top.base[token]
    BY DEF Measured
  <2> HIDE DEF amount
  <2>4. QED
    BY <1>6, <2>1, <2>2, <2>3
<1>9. /\ held' = [held EXCEPT ![token] = Top.base[token]]
      /\ held' \in Amount
      /\ \A a \in Assets : held'[a] >= Top.base[a]
  <2>1. held' = [held EXCEPT ![token] = Top.base[token]]
    BY <1>1, <1>8
  <2>2. held \in Amount
    BY <1>2, WorldFields
  <2> HIDE DEF token
  <2>3. held' \in Amount
    BY <1>6, <2>1, <2>2 DEF Amount
  <2>4. \A a \in Assets : held'[a] = IF a = token THEN Top.base[a] ELSE held[a]
    BY <1>6, <2>1, <2>2 DEF Amount
  <2>5. \A a \in Assets : Top.base[a] \in Nat
    BY <1>4 DEF Amount
  <2>6. QED
    BY <1>7, <2>1, <2>3, <2>4, <2>5
<1>10. pay \in Payout
  BY <1>4, <1>5, <1>6, <1>8 DEF Payout, Assets
<1>11. World' \in WorldType
  BY <1>1, <1>2, <1>9, <1>10, WorldFields DEF World, WorldType
<1>12. SourceInv(World')
  BY <1>1 DEF IInv, SourceInv, World
<1>13. PaidExactly(payouts', redeemed')
  <2>1. /\ pay.vaa = vaa /\ pay.vaa \in redeemed /\ pay.to = pay.vaa.recipient
        /\ pay.asset = IF pay.vaa.token = weth /\ unwrapWeth
                         THEN ETH ELSE pay.vaa.token
        /\ pay.amount >= Released(pay.vaa)
        /\ pay.vaa.token \notin Hooked => pay.amount = Released(pay.vaa)
    BY <1>5, <1>8
  <2> HIDE DEF pay, vaa
  <2>2. PaidExactly(payouts, redeemed)
    BY DEF IInv
  <2>3. QED
    BY <1>1, <1>5, <2>1, <2>2 DEF PaidExactly
<1>14. /\ stack' \in Seq(Call) /\ StackInv' /\ UntouchedInv'
       /\ stack' = <<>> => \A a \in Assets : held'[a] >= saved.held[a]
       /\ saved' = saved \/ (stack' = <<>> /\ saved' = World')
       /\ Len(stack') \in {n - 1, n}
       /\ \A i \in 1..(n - 1) : stack'[i] = stack[i]
       /\ Len(stack') = n => stack'[n].pc # "complete"
  <2>1. CASE unwrap
    <3>1. /\ stack' = [stack EXCEPT ![n] = next] /\ saved' = saved
      BY <1>1, <2>1 DEF Become
    <3>2. next \in Call
      BY <1>4 DEF Call, PayoutCall
    <3> HIDE DEF n
    <3>3. n \in 1..n
      BY <1>3
    <3>4. /\ stack' \in Seq(Call) /\ Len(stack') = n
          /\ \A j \in 1..n : stack'[j] = IF j = n THEN next ELSE stack[j]
      BY <1>2, <3>1, <3>2, <3>3, ExceptSeq DEF n
    <3>5. /\ stack' # <<>> /\ Top' = next /\ stack'[n] = next
          /\ \A i \in 1..(n - 1) : i \in 1..n /\ stack'[i] = stack[i]
      BY <1>3, <3>3, <3>4 DEF Top
    <3>6. Covered(held', next)
      <4>1. \A a \in Assets : Top.base[a] \in Nat
        BY <1>4 DEF Amount
      <4>2. QED
        BY <1>9, <4>1 DEF Covered, Owed
    <3>7. UntouchedInv'
      BY <3>5 DEF UntouchedInv
    <3>8. StackInv'
      <4>1. \A i \in 1..n : WellFormed(stack'[i])
        BY <1>2, <3>4 DEF StackInv, WellFormed, n
      <4>2. \A i \in 1..(n - 1) : CallsOut(stack'[i])
        BY <1>2, <3>5 DEF StackInv, CallsOut, n
      <4>3. \A i \in 1..(n - 1) : Covered(stack'[i + 1].base, stack'[i])
        <5> SUFFICES ASSUME NEW i \in 1..(n - 1)
                     PROVE  Covered(stack'[i + 1].base, stack'[i])
          OBVIOUS
        <5>1. Covered(stack[i + 1].base, stack[i])
          BY <1>2 DEF StackInv, n
        <5>2. i + 1 \in 1..n
          BY <1>3
        <5>3. stack'[i + 1].base = stack[i + 1].base /\ stack'[i] = stack[i]
          BY <1>3, <3>4, <3>5, <5>2
        <5>4. QED
          BY <5>1, <5>3 DEF Covered
      <4>4. stack'[1].base = saved'.held
        <5>1. stack[1].base = saved.held
          BY <1>1, <1>2 DEF StackInv
        <5>2. 1 \in 1..n
          BY <1>3
        <5>3. stack'[1].base = stack[1].base
          BY <1>3, <3>4, <5>2
        <5>4. QED
          BY <3>1, <5>1, <5>3
      <4>5. QED
        BY <3>4, <3>5, <3>6, <4>1, <4>2, <4>3, <4>4
        DEF StackInv, Idle, Covered, WellFormed, Owed, CallsOut
    <3>9. QED
      BY <3>1, <3>4, <3>5, <3>7, <3>8
  <2>2. CASE ~unwrap
    <3>1. Return /\ stack' = Callers
      BY <1>1, <2>2 DEF Return
    <3>2. /\ stack' \in Seq(Call) /\ StackInv' /\ UntouchedInv'
          /\ stack' = <<>> => \A a \in Assets : held'[a] >= saved.held[a]
          /\ saved' = saved \/ (stack' = <<>> /\ saved' = World')
      BY <1>1, <1>2, <1>9, <3>1, ReturnKept
    <3>3. /\ Len(stack') = n - 1 /\ n - 1 # n
          /\ \A i \in 1..(n - 1) : stack'[i] = stack[i]
      BY <1>3, <3>1
    <3>4. Len(stack') = n => stack'[n].pc # "complete"
      BY <3>3
    <3>5. QED
      BY <3>2, <3>3, <3>4
  <2>3. QED
    BY <2>1, <2>2
<1>15. ClaimInv'
  <2> HIDE DEF n, pay, vaa
  <2>1. \A i \in 1..Len(stack') : stack'[i].pc = "complete"
          => i \in 1..(n - 1) /\ i \in 1..n /\ stack'[i] = stack[i]
    BY <1>3, <1>14
  <2>2. \A i \in 1..n : stack[i].pc = "complete" /\ stack[i].vaa # vaa
          => i \in 1..Len(stack') /\ stack'[i] = stack[i]
    BY <1>3, <1>14 DEF vaa
  <2>3. \A i \in 1..Len(stack') : stack'[i].pc = "complete" =>
          /\ stack'[i].vaa \in redeemed'
          /\ stack'[i].vaa.token \in Tokens
          /\ stack'[i].vaa.recipient \in Users
          /\ \A p \in payouts' : p.vaa # stack'[i].vaa
    <3>1. pay.vaa = vaa
      BY DEF pay
    <3>2. QED
      BY <1>1, <1>5, <2>1, <3>1 DEF IInv, ClaimInv, n
  <2>4. \A i, j \in 1..Len(stack') :
          stack'[i].pc = "complete" /\ stack'[j].pc = "complete"
            /\ stack'[i].vaa = stack'[j].vaa => i = j
    BY <2>1 DEF IInv, ClaimInv, n
  <2>5. ASSUME NEW v \in redeemed'
        PROVE  \/ \E p \in payouts' : p.vaa = v
               \/ \E i \in 1..Len(stack') :
                    stack'[i].pc = "complete" /\ stack'[i].vaa = v
    <3>0. pay \in payouts'
      BY <1>1
    <3>1. CASE v = vaa
      <4>1. pay.vaa = vaa
        BY DEF pay
      <4>2. QED
        BY <3>0, <3>1, <4>1
    <3>2. CASE v # vaa
      <4>1. \/ \E p \in payouts : p.vaa = v
            \/ \E i \in 1..n : stack[i].pc = "complete" /\ stack[i].vaa = v
        BY <1>1, <2>5 DEF IInv, ClaimInv, n
      <4>2. QED
        BY <1>1, <2>2, <3>2, <4>1
    <3>3. QED
      BY <3>1, <3>2
  <2>6. QED
    BY <2>3, <2>4, <2>5, Zenon DEF ClaimInv
<1>16. QED
  BY <1>11, <1>12, <1>13, <1>14, <1>15, Assemble

LEMMA PayoutStep ==
  ASSUME IInv, PayoutReturns
  PROVE  /\ IInv'
         /\ stack' = <<>> => \A a \in Assets : held'[a] >= saved.held[a]
<1>1. /\ ~Idle /\ Top.pc = "payout" /\ Return
      /\ UNCHANGED <<held, allowance, locked, messageFee, sequence, messages,
                     requests, redeemed, payouts, strays>>
  BY DEF PayoutReturns
<1>2. TypeOK /\ World \in WorldType /\ StackInv
  BY DEF IInv, TypeOK
<1>3. Top \in PayoutCall
  <2>1. Top \in Call
    BY <1>1, <1>2, StackFacts DEF TypeOK, Call
  <2>2. QED
    BY <1>1, <2>1 DEF Call, OutboundCall, InboundCall, PayoutCall
<1>4. held' \in Amount /\ \A a \in Assets : held'[a] >= Top.base[a]
  <2>1. held \in Amount /\ held' = held
    BY <1>1, <1>2, WorldFields
  <2>2. \A a \in Assets : held[a] >= Top.base[a] + Owed(Top, a)
    BY <1>1, <1>2 DEF StackInv, Covered
  <2>3. \A a \in Assets : Owed(Top, a) = 0 /\ Top.base[a] \in Nat
    BY <1>1, <1>3 DEF Owed, PayoutCall, Amount
  <2>4. QED
    BY <2>1, <2>2, <2>3
<1>5. World' \in WorldType /\ SourceInv(World')
  BY <1>1, <1>2 DEF World, IInv, SourceInv
<1>6. /\ stack' \in Seq(Call) /\ StackInv' /\ UntouchedInv'
      /\ stack' = <<>> => \A a \in Assets : held'[a] >= saved.held[a]
      /\ saved' = saved \/ (stack' = <<>> /\ saved' = World')
  BY <1>1, <1>2, <1>4, ReturnKept
<1>7. ClaimInv' /\ PaidExactly(payouts', redeemed')
  BY <1>1, ClaimReturn DEF IInv, Return
<1>8. QED
  BY <1>5, <1>6, <1>7, Assemble

LEMMA RevertStep ==
  ASSUME IInv, Revert
  PROVE  /\ IInv'
         /\ stack' = <<>> => \A a \in Assets : held'[a] >= saved.held[a]
<1>1. /\ World' = saved /\ saved' = saved /\ stack' = <<>>
      /\ held' = saved.held /\ saved \in WorldType
      /\ payouts' = saved.payouts /\ redeemed' = saved.redeemed
  BY DEF Revert, World, IInv, TypeOK, WorldType
<1>2. Len(stack') = 0 /\ stack' \in Seq(Call)
  BY <1>1
<1>3. StackInv' /\ UntouchedInv'
  BY <1>1, <1>2 DEF StackInv, UntouchedInv, Idle
<1>4. ClaimInv'
  BY <1>1, <1>2 DEF ClaimInv, IInv, AllPaid
<1>5. \A a \in Assets : held'[a] >= saved.held[a]
  BY <1>1 DEF WorldType, Amount
<1>6. World' \in WorldType /\ SourceInv(World')
      /\ PaidExactly(payouts', redeemed')
  BY <1>1 DEF IInv
<1>7. QED
  BY <1>1, <1>2, <1>3, <1>4, <1>5, <1>6, Assemble

LEMMA DonateStep ==
  ASSUME IInv, NEW asset \in Donated, Donate(asset)
  PROVE  IInv'
<1>1. /\ held' = [held EXCEPT ![asset] = @ + 1]
      /\ strays' = [strays EXCEPT ![asset] = @ + 1]
      /\ UNCHANGED <<allowance, locked, messageFee, sequence, messages,
                     requests, redeemed, payouts>>
      /\ Aside
  BY DEF Donate
<1>2. asset \in Assets /\ World \in WorldType
  BY EvmAssumption DEF IInv, TypeOK
<1>3. /\ held' \in Amount /\ strays' \in Amount
      /\ \A a \in Assets : held'[a] >= held[a]
  BY <1>1, <1>2, WorldFields DEF Amount
<1>4. World' \in WorldType /\ SourceInv(World')
  BY <1>1, <1>2, <1>3, WorldFields DEF World, WorldType, IInv, SourceInv
<1>5. /\ StackInv' /\ UntouchedInv' /\ stack' = stack
      /\ saved' = saved \/ (stack' = <<>> /\ saved' = World')
  BY <1>1, <1>3, AsideKept DEF IInv, Aside
<1>6. ClaimInv' /\ PaidExactly(payouts', redeemed') /\ stack' \in Seq(Call)
  BY <1>1, <1>5 DEF IInv, ClaimInv, TypeOK, Call
<1>7. QED
  BY <1>4, <1>5, <1>6, Assemble

LEMMA PublishStep ==
  ASSUME IInv, OthersPublish
  PROVE  IInv'
<1>1. /\ sequence' = sequence + 1 /\ Aside
      /\ UNCHANGED <<held, allowance, locked, messageFee, messages, requests,
                     redeemed, payouts, strays>>
  BY DEF OthersPublish
<1>2. World \in WorldType
  BY DEF IInv, TypeOK
<1>3. World' \in WorldType /\ held' \in Amount
  BY <1>1, <1>2, WorldFields DEF World, WorldType
<1>4. SourceInv(World')
  <2>1. /\ RequestMatches(messages, requests, sequence)
        /\ sequence \in Nat /\ \A m \in messages : m.sequence \in Nat
    BY <1>2, WorldFields, SourceFields DEF IInv, Message
  <2>2. RequestMatches(messages, requests, sequence + 1)
    <3>1. \A m \in messages : m.sequence < sequence
      BY <2>1 DEF RequestMatches
    <3>2. \A m \in messages : m.sequence < sequence + 1
      BY <2>1, <3>1
    <3>3. QED
      BY <2>1, <3>2 DEF RequestMatches
  <2>3. QED
    BY <1>1, <2>2 DEF World, IInv, SourceInv
<1>5. /\ StackInv' /\ UntouchedInv' /\ stack' = stack
      /\ saved' = saved \/ (stack' = <<>> /\ saved' = World')
  <2>1. \A a \in Assets : held'[a] >= held[a]
    BY <1>1, <1>2, WorldFields DEF Amount
  <2>2. QED
    BY <1>1, <1>3, <2>1, AsideKept DEF IInv, Aside
<1>6. ClaimInv' /\ PaidExactly(payouts', redeemed') /\ stack' \in Seq(Call)
  BY <1>1, <1>5 DEF IInv, ClaimInv, TypeOK, Call
<1>7. QED
  BY <1>3, <1>4, <1>5, <1>6, Assemble

LEMMA FeeStep ==
  ASSUME IInv, NEW fee \in MessageFees, SetMessageFee(fee)
  PROVE  IInv'
<1>1. /\ messageFee' = fee /\ fee \in Nat /\ Aside
      /\ UNCHANGED <<held, allowance, locked, sequence, messages, requests,
                     redeemed, payouts, strays>>
  BY EvmAssumption DEF SetMessageFee
<1>2. World \in WorldType
  BY DEF IInv, TypeOK
<1>3. World' \in WorldType /\ held' \in Amount
  BY <1>1, <1>2, WorldFields DEF World, WorldType
<1>4. SourceInv(World')
  BY <1>1 DEF World, IInv, SourceInv
<1>5. /\ StackInv' /\ UntouchedInv' /\ stack' = stack
      /\ saved' = saved \/ (stack' = <<>> /\ saved' = World')
  <2>1. \A a \in Assets : held'[a] >= held[a]
    BY <1>1, <1>2, WorldFields DEF Amount
  <2>2. QED
    BY <1>1, <1>3, <2>1, AsideKept DEF IInv, Aside
<1>6. ClaimInv' /\ PaidExactly(payouts', redeemed') /\ stack' \in Seq(Call)
  BY <1>1, <1>5 DEF IInv, ClaimInv, TypeOK, Call
<1>7. QED
  BY <1>3, <1>4, <1>5, <1>6, Assemble

LEMMA StutterStep == IInv /\ UNCHANGED vars => IInv'
<1> SUFFICES ASSUME IInv, UNCHANGED vars PROVE IInv'
  OBVIOUS
<1>1. /\ World' = World /\ saved' = saved /\ stack' = stack /\ held' = held
      /\ redeemed' = redeemed /\ payouts' = payouts
  BY DEF vars, World
<1>2. TypeOK' /\ SourceInv(World') /\ SourceInv(saved')
  BY <1>1 DEF IInv, TypeOK
<1>3. StackInv' /\ UntouchedInv'
  BY <1>1 DEF IInv, StackInv, UntouchedInv, Idle, Top, Covered, WellFormed,
              CallsOut, Owed
<1>4. QED
  BY <1>1, <1>2, <1>3 DEF IInv, ClaimInv

LEMMA NextInv == IInv /\ [Next]_vars => IInv'
<1> SUFFICES ASSUME IInv, [Next]_vars PROVE IInv'
  OBVIOUS
<1>1. CASE \E token \in Tokens, amount \in Amounts, value \in Values,
            payment \in Payments, dst \in Destinations :
            TransferTokensWithRelay(token, amount, value, payment, dst)
  BY <1>1, TransferTokensStep
<1>2. CASE CustodyTokens
  BY <1>2, CustodyStep
<1>3. CASE \E value \in Values, payment \in Payments, dst \in Destinations :
            WrapAndTransferEthWithRelay(value, payment, dst)
  BY <1>3, WrapStep
<1>4. CASE DepositWeth
  BY <1>4, DepositStep
<1>5. CASE \E vaa \in Inbound, value \in Tips : ExecuteVAAv1(vaa, value)
  BY <1>5, ExecuteStep
<1>6. CASE PayRecipient
  BY <1>6, PayStep
<1>7. CASE PayoutReturns
  BY <1>7, PayoutStep
<1>8. CASE Revert
  BY <1>8, RevertStep
<1>9. CASE \E asset \in Donated : Donate(asset)
  BY <1>9, DonateStep
<1>10. CASE OthersPublish
  BY <1>10, PublishStep
<1>11. CASE \E fee \in MessageFees : SetMessageFee(fee)
  BY <1>11, FeeStep
<1>12. CASE UNCHANGED vars
  BY <1>12, StutterStep
<1>13. QED
  BY <1>1, <1>2, <1>3, <1>4, <1>5, <1>6, <1>7, <1>8, <1>9, <1>10, <1>11,
     <1>12 DEF Next

LEMMA Invariant == Spec => []IInv
<1>1. Init => IInv
  BY InitInv
<1>2. IInv /\ [Next]_vars => IInv'
  BY NextInv
<1>3. QED
  BY <1>1, <1>2, PTL DEF Spec

-----------------------------------------------------------------------------
(* The theorems.                                                           *)

\* Types, and with them: no call ever overdraws the contract's balances or
\* the allowance it gives the Token Bridge.
THEOREM TypeCorrect == Spec => []TypeOK
<1>1. IInv => TypeOK
  BY DEF IInv
<1>2. QED
  BY <1>1, Invariant, PTL

\* A transaction never spends what the contract held when it began, whatever
\* calls are nested in the callbacks of whatever others.
THEOREM ReservesSafe == Spec => NoReserveSpent
<1>1. IInv /\ [Next]_vars
        => [stack # <<>> /\ stack' = <<>>
              => \A a \in Assets : held'[a] >= saved.held[a]]_vars
  <2> SUFFICES ASSUME IInv, Next, stack # <<>>, stack' = <<>>
               PROVE  \A a \in Assets : held'[a] >= saved.held[a]
    BY DEF vars
  <2>1. CASE CustodyTokens
    BY <2>1, CustodyStep
  <2>2. CASE DepositWeth
    BY <2>2, DepositStep
  <2>3. CASE PayRecipient
    BY <2>3, PayStep
  <2>4. CASE PayoutReturns
    BY <2>4, PayoutStep
  <2>5. CASE Revert
    BY <2>5, RevertStep
  <2>6. ASSUME NEW call, Enter(call) PROVE FALSE
    <3>1. stack \in Seq(Call) /\ Call \subseteq Call \cup {call}
      BY DEF IInv, TypeOK, Call
    <3>2. stack \in Seq(Call \cup {call})
      BY <3>1, SeqMonotonic
    <3>3. Append(stack, call) # <<>>
      BY <3>2
    <3>4. QED
      BY <2>6, <3>3 DEF Enter
  <2>7. ASSUME NEW token, NEW amount, NEW value, NEW payment, NEW dst,
               TransferTokensWithRelay(token, amount, value, payment, dst)
        PROVE  FALSE
    BY <2>6, <2>7 DEF TransferTokensWithRelay
  <2>8. ASSUME NEW value, NEW payment, NEW dst,
               WrapAndTransferEthWithRelay(value, payment, dst)
        PROVE  FALSE
    BY <2>6, <2>8 DEF WrapAndTransferEthWithRelay
  <2>9. ASSUME NEW vaa, NEW value, ExecuteVAAv1(vaa, value) PROVE FALSE
    BY <2>6, <2>9 DEF ExecuteVAAv1
  <2>10. ~Aside
    BY DEF Aside
  <2>11. QED
    BY <2>1, <2>2, <2>3, <2>4, <2>5, <2>7, <2>8, <2>9, <2>10
    DEF Next, Donate, OthersPublish, SetMessageFee
<1>2. QED
  BY <1>1, Invariant, PTL DEF Spec, NoReserveSpent

\* Each transfer has one message and one request, and they match.
THEOREM RequestsMatch == Spec => []RelayRequested
<1>1. IInv => RelayRequested
  BY SourceFields DEF IInv, RelayRequested
<1>2. QED
  BY <1>1, Invariant, PTL

\* Plain tokens are sent in the amount asked, less the dust.
THEOREM SendsExactly == Spec => []SentAsAsked
<1>1. IInv => SentAsAsked
  BY SourceFields DEF IInv, SentAsAsked, SentExactly
<1>2. QED
  BY <1>1, Invariant, PTL

\* A transfer of a plain token uses its allowance up, so that the safeApprove
\* of the next one cannot revert.
THEOREM AllowanceUsedUp == Spec => []AllowanceSpent
<1>1. IInv => AllowanceSpent
  BY SourceFields DEF IInv, AllowanceSpent
<1>2. QED
  BY <1>1, Invariant, PTL

\* Each inbound message is paid once, in full, to the recipient it names.
THEOREM PaysOnce == Spec => []PaidOnceInFull
<1>1. IInv => PaidOnceInFull
  <2> SUFFICES ASSUME IInv PROVE PaidOnceInFull
    OBVIOUS
  <2>1. PaidExactly(payouts, redeemed)
    BY DEF IInv
  <2>2. Idle => \A v \in redeemed : \E p \in payouts : p.vaa = v
    <3> SUFFICES ASSUME Idle PROVE \A v \in redeemed : \E p \in payouts : p.vaa = v
      OBVIOUS
    <3>1. Len(stack) = 0
      BY DEF Idle
    <3>2. QED
      BY <3>1 DEF IInv, ClaimInv
  <2>3. QED
    BY <2>1, <2>2 DEF PaidExactly, PaidOnceInFull
<1>2. QED
  BY <1>1, Invariant, PTL

-----------------------------------------------------------------------------
(* The books: NothingLeftBehind.                                           *)

Counted == PlainTokens \cup {ETH}

\* The state a revert returns to has nothing in transit.
SavedEven == \A a \in Counted : saved.held[a] = saved.strays[a]

LEMMA CountedAssets == Counted \subseteq Assets
BY DEF Counted, PlainTokens, Assets

LEMMA OwedType ==
  ASSUME NEW call \in Call, NEW a PROVE Owed(call, a) \in Nat
BY DEF Owed, Call, OutboundCall, InboundCall, PayoutCall

LEMMA TransitType ==
  ASSUME NEW s \in Seq(Call), NEW a
  PROVE  InTransit(s, a) \in Int
<1> DEFINE S == DOMAIN s
           f == [i \in S |-> Owed(s[i], a)]
<1>1. S = 1..Len(s) /\ Len(s) \in Nat
  BY LenProperties
<1>2. IsFiniteSet(S)
  BY <1>1, FS_Interval
<1>3. ASSUME NEW i \in S PROVE f[i] \in Int
  <2>1. s[i] \in Call
    BY <1>1, <1>3, ElementOfSeq
  <2>2. Owed(s[i], a) \in Nat
    BY <2>1, OwedType
  <2>3. QED
    BY <2>2
<1>4. InTransit(s, a) = SumFunctionOnSet(f, S)
  BY DEF InTransit
<1> HIDE DEF S, f
<1>5. QED
  BY <1>2, <1>3, <1>4, SumInt

LEMMA TransitEmpty ==
  ASSUME NEW s \in Seq(Call), Len(s) = 0, NEW a
  PROVE  InTransit(s, a) = 0
<1>1. DOMAIN s = {}
  BY LenProperties
<1>2. QED
  BY <1>1, SumEmpty DEF InTransit

LEMMA TransitAdds ==
  ASSUME NEW s \in Seq(Call), NEW t \in Seq(Call), NEW n,
         DOMAIN t = DOMAIN s \cup {n}, n \notin DOMAIN s,
         \A i \in DOMAIN s : t[i] = s[i], NEW a
  PROVE  InTransit(t, a) = InTransit(s, a) + Owed(t[n], a)
<1> DEFINE S == DOMAIN s
           T == DOMAIN t
           f == [i \in S |-> Owed(s[i], a)]
           g == [i \in T |-> Owed(t[i], a)]
<1>1. IsFiniteSet(S)
  BY LenProperties, FS_Interval
<1>2. ASSUME NEW i \in T PROVE g[i] \in Int
  <2>1. t[i] \in Call
    BY <1>2, ElementOfSeq, LenProperties
  <2>2. Owed(t[i], a) \in Nat
    BY <2>1, OwedType
  <2>3. QED
    BY <2>2
<1>3. \A i \in S : f[i] = g[i]
  OBVIOUS
<1>4. InTransit(s, a) = SumFunctionOnSet(f, S)
  BY DEF InTransit
<1>5. InTransit(t, a) = SumFunctionOnSet(g, T)
  BY DEF InTransit
<1>6. g[n] = Owed(t[n], a) /\ T = S \cup {n} /\ n \notin S
  OBVIOUS
<1>7. \A i \in T : g[i] \in Int
  BY <1>2
<1> HIDE DEF S, T, f, g
<1>8. /\ SumFunctionOnSet(f, S) \in Int
      /\ SumFunctionOnSet(g, T) = SumFunctionOnSet(f, S) + g[n]
  BY <1>1, <1>3, <1>6, <1>7, SumAdds
<1>9. QED
  BY <1>4, <1>5, <1>6, <1>8

\* One call more on the stack.
LEMMA TransitMore ==
  ASSUME NEW s \in Seq(Call), NEW t \in Seq(Call), Len(t) = Len(s) + 1,
         \A i \in 1..Len(s) : t[i] = s[i], NEW a
  PROVE  InTransit(t, a) = InTransit(s, a) + Owed(t[Len(t)], a)
<1>1. /\ DOMAIN s = 1..Len(s) /\ DOMAIN t = 1..Len(t)
      /\ Len(s) \in Nat
  BY LenProperties
<1>2. /\ DOMAIN t = DOMAIN s \cup {Len(t)} /\ Len(t) \notin DOMAIN s
      /\ \A i \in DOMAIN s : t[i] = s[i]
  BY <1>1
<1>3. \E n : /\ n = Len(t) /\ DOMAIN t = DOMAIN s \cup {n}
             /\ n \notin DOMAIN s
  BY <1>2
<1>4. QED
  BY <1>2, <1>3, TransitAdds

\* What one state of the books says of an asset.
Even(a) == held[a] = strays[a] + InTransit(stack, a)

LEMMA BooksAre == NothingLeftBehind <=> \A a \in Counted : Even(a)
BY DEF NothingLeftBehind, Counted, Even

\* What the steps on the stack do to the books.
LEMMA EnterEven ==
  ASSUME TypeOK, TypeOK', NothingLeftBehind, SavedEven,
         NEW call \in Call, Enter(call),
         \A a \in Counted :
           held'[a] - strays'[a] = held[a] - strays[a] + Owed(call, a)
  PROVE  NothingLeftBehind' /\ SavedEven'
<1> DEFINE n == Len(stack) + 1
<1>1. stack \in Seq(Call) /\ Len(stack) \in Nat
  BY LenProperties DEF TypeOK, Call
<1>2. stack' = Append(stack, call) /\ saved' = IF Idle THEN World ELSE saved
  BY DEF Enter
<1>3. /\ stack' \in Seq(Call) /\ Len(stack') = n /\ stack'[n] = call
      /\ \A i \in 1..Len(stack) : stack'[i] = stack[i]
  BY <1>1, <1>2
<1>4. ASSUME NEW a \in Counted PROVE Even(a)'
  <2>1. InTransit(stack', a) = InTransit(stack, a) + Owed(stack'[Len(stack')], a)
    BY <1>1, <1>3, TransitMore
  <2>2. /\ held[a] \in Nat /\ strays[a] \in Nat
        /\ held'[a] \in Nat /\ strays'[a] \in Nat
    BY CountedAssets DEF TypeOK, World, WorldType, Amount
  <2>3. InTransit(stack, a) \in Int /\ Owed(call, a) \in Nat
    BY <1>1, TransitType, OwedType
  <2>4. held[a] = strays[a] + InTransit(stack, a)
    BY BooksAre DEF Even
  <2>5. InTransit(stack', a) = InTransit(stack, a) + Owed(call, a)
    BY <1>3, <2>1
  <2>6. held'[a] = strays'[a] + InTransit(stack', a)
    BY <2>2, <2>3, <2>4, <2>5
  <2>7. QED
    BY <2>6 DEF Even
<1>5. SavedEven'
  <2>1. CASE Idle
    <3>1. \A a \in Counted : InTransit(stack, a) = 0
      BY <1>1, <2>1, TransitEmpty, EmptySeq DEF Idle
    <3>2. \A a \in Counted : held[a] \in Nat /\ strays[a] \in Nat
      BY CountedAssets DEF TypeOK, World, WorldType, Amount
    <3>3. \A a \in Counted : held[a] = strays[a]
      BY <3>1, <3>2, BooksAre DEF Even
    <3>4. QED
      BY <1>2, <2>1, <3>3 DEF SavedEven, World
  <2>2. CASE ~Idle
    BY <1>2, <2>2 DEF SavedEven
  <2>3. QED
    BY <2>1, <2>2
<1>6. NothingLeftBehind'
  BY <1>4, BooksAre DEF Even, NothingLeftBehind, Counted
<1>7. QED
  BY <1>5, <1>6

LEMMA ReturnEven ==
  ASSUME TypeOK, TypeOK', NothingLeftBehind, SavedEven, ~Idle, Return,
         \A a \in Counted :
           held'[a] - strays'[a] = held[a] - strays[a] - Owed(Top, a)
  PROVE  NothingLeftBehind' /\ SavedEven'
<1> DEFINE n == Len(stack)
<1>1. /\ stack \in Seq(Call) /\ n \in Nat \ {0} /\ Top \in Call
      /\ stack' \in Seq(Call) /\ Len(stack') = n - 1
      /\ \A i \in 1..(n - 1) : stack'[i] = stack[i]
      /\ Callers = <<>> <=> n = 1
      /\ stack[n] = Top /\ stack' = Callers
  BY StackFacts DEF TypeOK, Call, Return, Top
<1>2. ASSUME NEW a \in Counted PROVE Even(a)'
  <2>1. InTransit(stack, a) =
          InTransit(stack', a) + Owed(stack[Len(stack)], a)
    <3>1. /\ Len(stack) = Len(stack') + 1
          /\ \A i \in 1..Len(stack') : stack[i] = stack'[i]
      BY <1>1
    <3>2. stack \in Seq(Call) /\ stack' \in Seq(Call)
      BY <1>1
    <3>3. QED
      BY <3>1, <3>2, TransitMore
  <2>2. /\ held[a] \in Nat /\ strays[a] \in Nat
        /\ held'[a] \in Nat /\ strays'[a] \in Nat
    BY CountedAssets DEF TypeOK, World, WorldType, Amount
  <2>3. InTransit(stack', a) \in Int /\ Owed(Top, a) \in Nat
    BY <1>1, TransitType, OwedType
  <2>4. held[a] = strays[a] + InTransit(stack, a)
    BY BooksAre DEF Even
  <2>5. InTransit(stack, a) = InTransit(stack', a) + Owed(Top, a)
    BY <1>1, <2>1
  <2>6. held'[a] = strays'[a] + InTransit(stack', a)
    BY <2>2, <2>3, <2>4, <2>5
  <2>7. QED
    BY <2>6 DEF Even
<1>3. SavedEven'
  <2>1. CASE n = 1
    <3>1. saved' = World' /\ Len(stack') = 0
      BY <1>1, <2>1 DEF Return
    <3>2. \A a \in Counted : InTransit(stack', a) = 0
      BY <1>1, <3>1, TransitEmpty
    <3>3. \A a \in Counted : held'[a] \in Nat /\ strays'[a] \in Nat
      BY CountedAssets DEF TypeOK, World, WorldType, Amount
    <3>4. \A a \in Counted : held'[a] = strays'[a]
      BY <1>2, <3>2, <3>3 DEF Even
    <3>5. QED
      BY <3>1, <3>4 DEF SavedEven, World, Counted, PlainTokens
  <2>2. CASE n # 1
    BY <1>1, <2>2 DEF SavedEven, Return, Counted, PlainTokens
  <2>3. QED
    BY <2>1, <2>2
<1>4. NothingLeftBehind'
  BY <1>2 DEF Even, NothingLeftBehind, Counted
<1>5. QED
  BY <1>3, <1>4

\* A call that passes control on owes nothing more and nothing less.
LEMMA BecomeEven ==
  ASSUME TypeOK, TypeOK', NothingLeftBehind, SavedEven, ~Idle,
         NEW next \in Call, Become(next),
         \A a \in Counted : /\ held'[a] - strays'[a] = held[a] - strays[a]
                            /\ Owed(next, a) = Owed(Top, a)
  PROVE  NothingLeftBehind' /\ SavedEven'
<1> DEFINE n == Len(stack)
<1>1. /\ stack \in Seq(Call) /\ n \in Nat \ {0} /\ Top \in Call
      /\ Callers \in Seq(Call) /\ Len(Callers) = n - 1
      /\ \A i \in 1..(n - 1) : Callers[i] = stack[i]
      /\ stack[n] = Top
  BY StackFacts DEF TypeOK, Call, Top
<1>2. stack' = [stack EXCEPT ![n] = next] /\ saved' = saved
  BY DEF Become
<1> HIDE DEF n
<1>3. n \in 1..n
  BY <1>1
<1>4. /\ stack' \in Seq(Call) /\ Len(stack') = n
      /\ \A j \in 1..n : stack'[j] = IF j = n THEN next ELSE stack[j]
  BY <1>1, <1>2, <1>3, ExceptSeq DEF n
<1>5. ASSUME NEW a \in Counted PROVE Even(a)'
  <2>1. /\ Len(stack) = Len(Callers) + 1 /\ Len(stack') = Len(Callers) + 1
        /\ \A i \in 1..Len(Callers) : stack[i] = Callers[i]
        /\ \A i \in 1..Len(Callers) : stack'[i] = Callers[i]
    BY <1>1, <1>3, <1>4 DEF n
  <2>2. stack[Len(stack)] = Top /\ stack'[Len(stack')] = next
    BY <1>1, <1>3, <1>4 DEF n
  <2>3. /\ InTransit(stack, a) = InTransit(Callers, a) + Owed(Top, a)
        /\ InTransit(stack', a) = InTransit(Callers, a) + Owed(next, a)
    <3>1. /\ stack \in Seq(Call) /\ stack' \in Seq(Call)
          /\ Callers \in Seq(Call)
      BY <1>1, <1>4
    <3>2. InTransit(stack, a) =
            InTransit(Callers, a) + Owed(stack[Len(stack)], a)
      BY <2>1, <3>1, TransitMore
    <3>3. InTransit(stack', a) =
            InTransit(Callers, a) + Owed(stack'[Len(stack')], a)
      BY <2>1, <3>1, TransitMore
    <3>4. QED
      BY <2>2, <3>2, <3>3
  <2>4. InTransit(stack', a) = InTransit(stack, a)
    BY <2>3
  <2>5. /\ held[a] \in Nat /\ strays[a] \in Nat
        /\ held'[a] \in Nat /\ strays'[a] \in Nat
        /\ InTransit(stack, a) \in Int
    BY <1>1, CountedAssets, TransitType DEF TypeOK, World, WorldType, Amount
  <2>6. held[a] = strays[a] + InTransit(stack, a)
    BY BooksAre DEF Even
  <2>7. held'[a] = strays'[a] + InTransit(stack', a)
    BY <2>4, <2>5, <2>6
  <2>8. QED
    BY <2>7 DEF Even
<1>6. QED
  BY <1>2, <1>5 DEF SavedEven, Even, NothingLeftBehind, Counted, PlainTokens

\* A step of somebody else.
LEMMA AsideEven ==
  ASSUME TypeOK, TypeOK', NothingLeftBehind, SavedEven, Aside,
         \A a \in Counted : held'[a] - strays'[a] = held[a] - strays[a]
  PROVE  NothingLeftBehind' /\ SavedEven'
<1>1. stack \in Seq(Call) /\ stack' = stack
  BY DEF TypeOK, Call, Aside
<1>2. ASSUME NEW a \in Counted PROVE Even(a)'
  <2>1. /\ held[a] \in Nat /\ strays[a] \in Nat
        /\ held'[a] \in Nat /\ strays'[a] \in Nat
        /\ InTransit(stack, a) \in Int
    BY <1>1, CountedAssets, TransitType DEF TypeOK, World, WorldType, Amount
  <2>2. held[a] = strays[a] + InTransit(stack, a)
    BY BooksAre DEF Even
  <2>3. held'[a] = strays'[a] + InTransit(stack, a)
    BY <2>1, <2>2
  <2>4. QED
    BY <1>1, <2>3 DEF Even
<1>3. SavedEven'
  <2>1. CASE Idle
    <3>1. saved' = World' /\ Len(stack) = 0
      BY <2>1, EmptySeq DEF Aside, Idle
    <3>2. \A a \in Counted : InTransit(stack', a) = 0
      BY <1>1, <3>1, TransitEmpty
    <3>3. \A a \in Counted : held'[a] \in Nat /\ strays'[a] \in Nat
      BY CountedAssets DEF TypeOK, World, WorldType, Amount
    <3>4. \A a \in Counted : held'[a] = strays'[a]
      BY <1>2, <3>2, <3>3 DEF Even
    <3>5. QED
      BY <3>1, <3>4 DEF SavedEven, World, Counted, PlainTokens
  <2>2. CASE ~Idle
    BY <2>2 DEF SavedEven, Aside, Counted, PlainTokens
  <2>3. QED
    BY <2>1, <2>2
<1>4. QED
  BY <1>2, <1>3 DEF Even, NothingLeftBehind, Counted, PlainTokens

\* The end of a transfer: the call passes on what it was given, and of a plain
\* token all that arrived for it.
LEMMA SendOutEven ==
  ASSUME TypeOK, TypeOK', NothingLeftBehind, SavedEven, ~Idle,
         Top \in OutboundCall, NEW credit \in Nat, NEW amount \in Nat,
         SendOut(Top, credit, amount),
         Top.token \in PlainTokens =>
           truncateAmount(amount, Decimals[Top.token]) = credit
  PROVE  NothingLeftBehind' /\ SavedEven'
<1> DEFINE pulled == truncateAmount(amount, Decimals[Top.token])
           token  == Top.token
<1>1. /\ held' = [held EXCEPT ![token] = @ + credit - pulled,
                              ![ETH]   = @ - Top.spend]
      /\ strays' = strays /\ Return
  BY DEF SendOut, truncateAmount
<1>2. /\ token \in Tokens /\ Top.spend \in Nat
      /\ Top.pc \in {"custody", "refund", "deposit"}
      /\ ETH \notin Tokens /\ held \in Amount /\ strays \in Amount
  BY EvmAssumption DEF OutboundCall, TypeOK, World, WorldType
<1>3. token \in PlainTokens => pulled = credit
  OBVIOUS
<1> HIDE DEF pulled, token
<1>4. ASSUME NEW a \in Counted
      PROVE  held'[a] - strays'[a] = held[a] - strays[a] - Owed(Top, a)
  <2>1. a \in Assets /\ held[a] \in Nat /\ strays[a] \in Nat
    BY <1>2, CountedAssets DEF Amount
  <2>2. CASE a = ETH
    <3>1. held'[a] = held[a] - Top.spend
      BY <1>1, <1>2, <2>1, <2>2 DEF Amount
    <3>2. Owed(Top, a) = Top.spend
      BY <1>2, <2>2 DEF Owed
    <3>3. QED
      BY <1>1, <1>2, <2>1, <3>1, <3>2
  <2>3. CASE a # ETH
    <3>1. Owed(Top, a) = 0
      BY <2>3 DEF Owed
    <3>2. CASE a = token
      <4>1. pulled = credit
        BY <1>3, <2>3, <3>2 DEF Counted
      <4>2. held'[a] = held[a] + credit - credit
        BY <1>1, <1>2, <2>1, <2>3, <3>2, <4>1 DEF Amount
      <4>3. QED
        BY <1>1, <2>1, <3>1, <4>2
    <3>3. CASE a # token
      <4>1. held'[a] = held[a]
        BY <1>1, <1>2, <2>1, <2>3, <3>3 DEF Amount
      <4>2. QED
        BY <1>1, <2>1, <3>1, <4>1
    <3>4. QED
      BY <3>2, <3>3
  <2>4. QED
    BY <2>2, <2>3
<1>5. QED
  BY <1>1, <1>4, ReturnEven

LEMMA CustodyEven ==
  ASSUME IInv, TypeOK', NothingLeftBehind, SavedEven, CustodyTokens
  PROVE  NothingLeftBehind' /\ SavedEven'
<1> DEFINE credit == Delivered(Top.token, Top.amount)
           amount == Measured(Top.token, credit)
<1>1. /\ ~Idle /\ Top.pc = "custody" /\ SendOut(Top, credit, amount)
      /\ TypeOK /\ StackInv /\ World \in WorldType
  BY DEF CustodyTokens, IInv, TypeOK
<1>2. Top \in OutboundCall
  <2>1. Top \in Call
    BY <1>1, StackFacts DEF TypeOK, Call
  <2>2. QED
    BY <1>1, <2>1 DEF Call, OutboundCall, InboundCall, PayoutCall
<1>3. /\ Top.token \in Tokens /\ Top.token \in Assets /\ Top.amount \in Nat
      /\ Top.base[Top.token] \in Nat /\ held[Top.token] \in Nat
  BY <1>1, <1>2, WorldFields DEF OutboundCall, Amount, Assets
<1>4. held[Top.token] >= Top.base[Top.token]
  <2>1. Owed(Top, Top.token) = 0
    BY <1>3, EvmAssumption DEF Owed
  <2>2. QED
    BY <1>1, <1>3, <2>1 DEF StackInv, Covered
<1>5. credit \in Nat /\ (Top.token \in PlainTokens => credit = Top.amount)
  BY <1>3, DeliveredType
<1>6. amount \in Nat
  BY <1>3, <1>4, <1>5 DEF Measured
<1>7. Top.token \in PlainTokens => amount = Top.amount
  BY <1>1, <1>3, <1>5 DEF IInv, UntouchedInv, PlainTokens, Measured
<1>8. truncateAmount(Top.amount, Decimals[Top.token]) = Top.amount
  <2>1. /\ Len(stack) \in 1..Len(stack) /\ Top = stack[Len(stack)]
    BY <1>1, StackFacts DEF TypeOK, Call, Top
  <2>2. WellFormed(Top)
    BY <1>1, <2>1 DEF StackInv, WellFormed
  <2>3. QED
    BY <1>1, <2>2 DEF WellFormed
<1> HIDE DEF credit, amount
<1>9. Top.token \in PlainTokens =>
        truncateAmount(amount, Decimals[Top.token]) = credit
  BY <1>5, <1>7, <1>8
<1>10. QED
  BY <1>1, <1>2, <1>5, <1>6, <1>9, SendOutEven

LEMMA DepositEven ==
  ASSUME IInv, TypeOK', NothingLeftBehind, SavedEven, DepositWeth
  PROVE  NothingLeftBehind' /\ SavedEven'
<1>1. /\ ~Idle /\ Top.pc \in {"refund", "deposit"}
      /\ SendOut(Top, Top.amount, Top.amount)
      /\ TypeOK /\ StackInv
  BY DEF DepositWeth, IInv
<1>2. Top \in OutboundCall
  <2>1. Top \in Call
    BY <1>1, StackFacts DEF TypeOK, Call
  <2>2. QED
    BY <1>1, <2>1 DEF Call, OutboundCall, InboundCall, PayoutCall
<1>3. truncateAmount(Top.amount, Decimals[Top.token]) = Top.amount
  <2>1. /\ Len(stack) \in 1..Len(stack) /\ Top = stack[Len(stack)]
    BY <1>1, StackFacts DEF TypeOK, Call, Top
  <2>2. WellFormed(Top)
    BY <1>1, <2>1 DEF StackInv, WellFormed
  <2>3. QED
    BY <1>1, <2>2 DEF WellFormed
<1>4. Top.amount \in Nat
  BY <1>2 DEF OutboundCall
<1>5. QED
  BY <1>1, <1>2, <1>3, <1>4, SendOutEven

\* What a transfer asks its caller for is what it will pass on.
LEMMA TransferEven ==
  ASSUME IInv, TypeOK', NothingLeftBehind, SavedEven,
         NEW token \in Tokens, NEW amount \in Amounts,
         NEW value \in Values, NEW payment \in Payments,
         NEW dst \in Destinations,
         TransferTokensWithRelay(token, amount, value, payment, dst)
  PROVE  NothingLeftBehind' /\ SavedEven'
<1> DEFINE kept == truncateAmount(amount, Decimals[token])
           call == [pc |-> "custody", base |-> held, token |-> token,
                    amount |-> kept, fee |-> messageFee,
                    payment |-> payment, spend |-> messageFee + payment,
                    dst |-> dst]
<1>1. /\ amount \in Nat /\ value \in Nat /\ payment \in Nat
      /\ Decimals[token] \in Uint8 /\ ETH \notin Tokens
  BY EvmAssumption
<1>2. TypeOK /\ World \in WorldType
  BY DEF IInv, TypeOK
<1>3. /\ held \in Amount /\ strays \in Amount /\ messageFee \in Nat
      /\ kept \in Nat
  BY <1>1, <1>2, WorldFields, Truncation DEF World, WorldType
<1>4. call \in Call /\ call.pc = "custody" /\ call.spend = messageFee + payment
  BY <1>1, <1>3 DEF Call, OutboundCall
<1>5. /\ held' = [held EXCEPT ![ETH] = @ + value]
      /\ Enter(call) /\ value = messageFee + payment /\ strays' = strays
  BY DEF TransferTokensWithRelay, PaysExactly
<1> HIDE DEF call
<1>6. ASSUME NEW a \in Counted
      PROVE  held'[a] - strays'[a] = held[a] - strays[a] + Owed(call, a)
  <2>1. a \in Assets /\ held[a] \in Nat /\ strays[a] \in Nat
    BY <1>3, CountedAssets DEF Amount
  <2>2. CASE a = ETH
    BY <1>1, <1>3, <1>4, <1>5, <2>1, <2>2 DEF Owed, Amount
  <2>3. CASE a # ETH
    BY <1>3, <1>5, <2>1, <2>3 DEF Owed, Amount
  <2>4. QED
    BY <2>2, <2>3
<1>7. QED
  BY <1>2, <1>4, <1>5, <1>6, EnterEven

LEMMA WrapEven ==
  ASSUME IInv, TypeOK', NothingLeftBehind, SavedEven,
         NEW value \in Values, NEW payment \in Payments,
         NEW dst \in Destinations,
         WrapAndTransferEthWithRelay(value, payment, dst)
  PROVE  NothingLeftBehind' /\ SavedEven'
<1> DEFINE fees == messageFee + payment
           amount == value - fees
           kept == truncateAmount(amount, 18)
           call == [pc |-> IF amount > kept THEN "refund" ELSE "deposit",
                    base |-> held, token |-> weth, amount |-> kept,
                    fee |-> messageFee, payment |-> payment,
                    spend |-> kept + fees, dst |-> dst]
<1>1. /\ value \in Nat /\ payment \in Nat /\ weth \in Tokens
      /\ ETH \notin Tokens /\ 18 \in Uint8
  BY EvmAssumption DEF Uint8
<1>2. TypeOK /\ World \in WorldType
  BY DEF IInv, TypeOK
<1>3. /\ held \in Amount /\ strays \in Amount /\ messageFee \in Nat
  BY <1>2, WorldFields DEF World, WorldType
<1>4. /\ value > fees
      /\ Enter(call)
      /\ held' = [held EXCEPT ![ETH] = @ + value - (amount - kept)]
      /\ strays' = strays
  BY DEF WrapAndTransferEthWithRelay
<1>5. amount \in Nat /\ fees \in Nat /\ value = amount + fees
  BY <1>1, <1>3, <1>4
<1>6. kept \in Nat
  <2> HIDE DEF amount
  <2> QED BY <1>1, <1>5, Truncation
<1>7. /\ call \in Call /\ call.pc \in {"refund", "deposit"}
      /\ call.spend = kept + fees
  BY <1>1, <1>3, <1>5, <1>6 DEF Call, OutboundCall
<1> HIDE DEF call, kept, amount, fees
<1>8. ASSUME NEW a \in Counted
      PROVE  held'[a] - strays'[a] = held[a] - strays[a] + Owed(call, a)
  <2>1. a \in Assets /\ held[a] \in Nat /\ strays[a] \in Nat
    BY <1>3, CountedAssets DEF Amount
  <2>2. CASE a = ETH
    <3>1. held'[a] = held[a] + value - (amount - kept)
      BY <1>3, <1>4, <2>1, <2>2 DEF Amount
    <3>2. Owed(call, a) = kept + fees
      BY <1>7, <2>2 DEF Owed
    <3>3. QED
      BY <1>4, <1>5, <1>6, <2>1, <3>1, <3>2
  <2>3. CASE a # ETH
    BY <1>3, <1>4, <2>1, <2>3 DEF Owed, Amount
  <2>4. QED
    BY <2>2, <2>3
<1>9. QED
  BY <1>2, <1>4, <1>7, <1>8, EnterEven

LEMMA ExecuteEven ==
  ASSUME IInv, TypeOK', NothingLeftBehind, SavedEven,
         NEW vaa \in Inbound, NEW value \in Tips, ExecuteVAAv1(vaa, value)
  PROVE  NothingLeftBehind' /\ SavedEven'
<1> DEFINE call == [pc |-> "complete", base |-> held, vaa |-> vaa]
<1>1. TypeOK /\ held \in Amount /\ strays \in Amount /\ value \in Nat
  BY EvmAssumption DEF IInv, TypeOK, World, WorldType
<1>2. /\ Enter(call)
      /\ held' = [held EXCEPT ![ETH] = @ + value]
      /\ strays' = [strays EXCEPT ![ETH] = @ + value]
  BY DEF ExecuteVAAv1
<1>3. call \in Call /\ call.pc = "complete"
  BY <1>1 DEF Call, InboundCall
<1> HIDE DEF call
<1>4. ASSUME NEW a \in Counted
      PROVE  held'[a] - strays'[a] = held[a] - strays[a] + Owed(call, a)
  <2>1. a \in Assets /\ held[a] \in Nat /\ strays[a] \in Nat
    BY <1>1, CountedAssets DEF Amount
  <2>2. Owed(call, a) = 0
    BY <1>3 DEF Owed
  <2>3. CASE a = ETH
    <3>1. held'[a] = held[a] + value /\ strays'[a] = strays[a] + value
      BY <1>1, <1>2, <2>1, <2>3 DEF Amount
    <3>2. QED
      BY <1>1, <2>1, <2>2, <3>1
  <2>4. CASE a # ETH
    <3>1. held'[a] = held[a] /\ strays'[a] = strays[a]
      BY <1>1, <1>2, <2>1, <2>4 DEF Amount
    <3>2. QED
      BY <2>1, <2>2, <3>1
  <2>5. QED
    BY <2>3, <2>4
<1>5. QED
  BY <1>1, <1>2, <1>3, <1>4, EnterEven

\* What a redemption receives of a plain token it pays out.
LEMMA PayEven ==
  ASSUME IInv, TypeOK', NothingLeftBehind, SavedEven, PayRecipient
  PROVE  NothingLeftBehind' /\ SavedEven'
<1> DEFINE token == Top.vaa.token
           unwrap == token = weth /\ unwrapWeth
           released == Released(Top.vaa)
           amount == Measured(token, released)
           next == [pc |-> "payout", base |-> Top.base]
<1>1. /\ ~Idle /\ Top.pc = "complete"
      /\ held' = [held EXCEPT ![token] = @ + released - amount]
      /\ strays' = strays
      /\ IF unwrap THEN Become(next) ELSE Return
      /\ TypeOK
  BY DEF PayRecipient, IInv
<1>2. /\ Top \in Call /\ Len(stack) \in 1..Len(stack)
      /\ Top = stack[Len(stack)]
  BY <1>1, StackFacts DEF TypeOK, Call, Top
<1>3. Top.vaa \in Inbound /\ Top.base \in Amount /\ token \in Tokens
  BY <1>1, <1>2 DEF IInv, ClaimInv, Call, OutboundCall, InboundCall, PayoutCall
<1>4. /\ released \in Nat /\ held \in Amount /\ strays \in Amount
      /\ ETH \notin Tokens
  BY <1>1, <1>3, ReleasedType, EvmAssumption DEF TypeOK, World, WorldType
<1>5. token \in PlainTokens => amount = released
  <2>1. token \in PlainTokens => held[token] = Top.base[token]
    BY <1>1 DEF IInv, UntouchedInv, PlainTokens
  <2>2. token \in Assets
    BY <1>3 DEF Assets
  <2> HIDE DEF token, released
  <2>3. Top.base[token] \in Nat
    BY <1>3, <2>2 DEF Amount
  <2>4. QED
    BY <1>4, <2>1, <2>3 DEF Measured
<1>6. next \in Call /\ next.pc = "payout"
  BY <1>3 DEF Call, PayoutCall
<1> HIDE DEF token, released, amount, unwrap, next
<1>7. ASSUME NEW a \in Counted
      PROVE  /\ held'[a] - strays'[a] = held[a] - strays[a]
             /\ Owed(Top, a) = 0 /\ Owed(next, a) = 0
             /\ held[a] \in Nat /\ strays[a] \in Nat
  <2>1. a \in Assets /\ held[a] \in Nat /\ strays[a] \in Nat
    BY <1>4, CountedAssets DEF Amount
  <2>2. Owed(Top, a) = 0 /\ Owed(next, a) = 0
    BY <1>1, <1>6 DEF Owed
  <2>3. CASE a = token
    <3>1. amount = released
      BY <1>3, <1>4, <1>5, <2>3 DEF Counted
    <3>2. held'[a] = held[a] + released - released
      BY <1>1, <1>4, <2>1, <2>3, <3>1 DEF Amount
    <3>3. QED
      BY <1>1, <1>4, <2>1, <2>2, <3>2
  <2>4. CASE a # token
    <3>1. held'[a] = held[a]
      BY <1>1, <1>4, <2>1, <2>4 DEF Amount
    <3>2. QED
      BY <1>1, <2>1, <2>2, <3>1
  <2>5. QED
    BY <2>3, <2>4
<1>8. CASE unwrap
  <2>1. \A a \in Counted : /\ held'[a] - strays'[a] = held[a] - strays[a]
                           /\ Owed(next, a) = Owed(Top, a)
    BY <1>7
  <2>2. QED
    BY <1>1, <1>6, <1>8, <2>1, BecomeEven
<1>9. CASE ~unwrap
  <2>1. \A a \in Counted :
          held'[a] - strays'[a] = held[a] - strays[a] - Owed(Top, a)
    BY <1>7
  <2>2. QED
    BY <1>1, <1>9, <2>1, ReturnEven
<1>10. QED
  BY <1>8, <1>9

LEMMA PayoutEven ==
  ASSUME IInv, TypeOK', NothingLeftBehind, SavedEven, PayoutReturns
  PROVE  NothingLeftBehind' /\ SavedEven'
<1>1. /\ ~Idle /\ Top.pc = "payout" /\ Return /\ TypeOK
      /\ held' = held /\ strays' = strays
  BY DEF PayoutReturns, IInv
<1>2. ASSUME NEW a \in Counted
      PROVE  held'[a] - strays'[a] = held[a] - strays[a] - Owed(Top, a)
  <2>1. held[a] \in Nat /\ strays[a] \in Nat
    BY <1>1, CountedAssets DEF TypeOK, World, WorldType, Amount
  <2>2. Owed(Top, a) = 0
    BY <1>1 DEF Owed
  <2>3. QED
    BY <1>1, <2>1, <2>2
<1>3. QED
  BY <1>1, <1>2, ReturnEven

LEMMA RevertEven ==
  ASSUME TypeOK, SavedEven, Revert
  PROVE  NothingLeftBehind' /\ SavedEven'
<1>1. /\ held' = saved.held /\ strays' = saved.strays
      /\ stack' = <<>> /\ saved' = saved
  BY DEF Revert
<1>2. stack' \in Seq(Call) /\ Len(stack') = 0
  BY <1>1
<1>3. \A a \in Counted : saved.strays[a] \in Nat
  BY CountedAssets DEF TypeOK, WorldType, Amount
<1>4. \A a \in Counted : InTransit(stack', a) = 0
  BY <1>2, TransitEmpty
<1>5. \A a \in Counted : held'[a] = strays'[a] + InTransit(stack', a)
  BY <1>1, <1>3, <1>4 DEF SavedEven
<1>6. QED
  BY <1>1, <1>5 DEF NothingLeftBehind, SavedEven, Counted, PlainTokens

\* A donation is a stray; nothing else others do reaches the balances.
LEMMA OthersEven ==
  ASSUME TypeOK, TypeOK', NothingLeftBehind, SavedEven,
         \/ \E asset \in Donated : Donate(asset)
         \/ OthersPublish
         \/ \E fee \in MessageFees : SetMessageFee(fee)
  PROVE  NothingLeftBehind' /\ SavedEven'
<1>1. held \in Amount /\ strays \in Amount /\ Aside
  BY DEF TypeOK, World, WorldType, Donate, OthersPublish, SetMessageFee
<1>2. ASSUME NEW asset \in Donated, Donate(asset), NEW a \in Counted
      PROVE  held'[a] - strays'[a] = held[a] - strays[a]
  <2>1. /\ a \in Assets /\ asset \in Assets
        /\ held[a] \in Nat /\ strays[a] \in Nat
    BY <1>1, CountedAssets, EvmAssumption DEF Amount
  <2>2. /\ held'[a] = IF a = asset THEN held[a] + 1 ELSE held[a]
        /\ strays'[a] = IF a = asset THEN strays[a] + 1 ELSE strays[a]
    BY <1>1, <1>2, <2>1 DEF Donate, Amount
  <2>3. QED
    BY <2>1, <2>2
<1>3. \A a \in Counted : held'[a] - strays'[a] = held[a] - strays[a]
  BY <1>2 DEF OthersPublish, SetMessageFee
<1>4. QED
  BY <1>1, <1>3, AsideEven

LEMMA BooksInvariant == Spec => [](NothingLeftBehind /\ SavedEven)
<1>1. Init => NothingLeftBehind /\ SavedEven
  <2> SUFFICES ASSUME Init PROVE NothingLeftBehind /\ SavedEven
    OBVIOUS
  <2>1. /\ held = [a \in Assets |-> 0] /\ strays = [a \in Assets |-> 0]
        /\ saved.held = held /\ saved.strays = strays
        /\ stack \in Seq(Call) /\ Len(stack) = 0
    BY DEF Init, World
  <2>2. \A a \in Counted :
          held[a] = 0 /\ strays[a] = 0 /\ InTransit(stack, a) = 0
    BY <2>1, CountedAssets, TransitEmpty
  <2>3. QED
    BY <2>1, <2>2 DEF NothingLeftBehind, SavedEven, Counted
<1>2. IInv /\ NothingLeftBehind /\ SavedEven /\ [Next]_vars
        => (NothingLeftBehind /\ SavedEven)'
  <2> SUFFICES ASSUME IInv, NothingLeftBehind, SavedEven, [Next]_vars
               PROVE  (NothingLeftBehind /\ SavedEven)'
    OBVIOUS
  <2>1. TypeOK /\ TypeOK'
    BY NextInv DEF IInv
  <2>2. CASE \E token \in Tokens, amount \in Amounts, value \in Values,
              payment \in Payments, dst \in Destinations :
              TransferTokensWithRelay(token, amount, value, payment, dst)
    BY <2>1, <2>2, TransferEven
  <2>3. CASE \E value \in Values, payment \in Payments, dst \in Destinations :
              WrapAndTransferEthWithRelay(value, payment, dst)
    BY <2>1, <2>3, WrapEven
  <2>4. CASE \E vaa \in Inbound, value \in Tips : ExecuteVAAv1(vaa, value)
    BY <2>1, <2>4, ExecuteEven
  <2>5. CASE CustodyTokens
    BY <2>1, <2>5, CustodyEven
  <2>6. CASE DepositWeth
    BY <2>1, <2>6, DepositEven
  <2>7. CASE PayRecipient
    BY <2>1, <2>7, PayEven
  <2>8. CASE PayoutReturns
    BY <2>1, <2>8, PayoutEven
  <2>9. CASE Revert
    BY <2>1, <2>9, RevertEven
  <2>10. CASE \/ \E asset \in Donated : Donate(asset)
              \/ OthersPublish
              \/ \E fee \in MessageFees : SetMessageFee(fee)
    BY <2>1, <2>10, OthersEven
  <2>11. CASE UNCHANGED vars
    BY <2>11 DEF vars, NothingLeftBehind, SavedEven, InTransit, Owed
  <2>12. QED
    BY <2>2, <2>3, <2>4, <2>5, <2>6, <2>7, <2>8, <2>9, <2>10, <2>11 DEF Next
<1>3. QED
  BY <1>1, <1>2, Invariant, PTL DEF Spec

\* Nothing of a transfer or of a redemption stays behind, at any depth of
\* nested calls and after any revert.
THEOREM BooksBalance == Spec => []NothingLeftBehind
BY BooksInvariant, PTL

-----------------------------------------------------------------------------
(* The contract implements Shim: what a transaction commits is a step of   *)
(* Shim, everything else a stutter.                                        *)

\* The running transaction has only added to the ledgers it will fall back to;
\* when none is running there is nothing to fall back from.
Grown ==
  /\ saved.messages \subseteq messages
  /\ saved.redeemed \subseteq redeemed
  /\ saved.sequence <= sequence
  /\ \A m \in messages \ saved.messages : m.sequence >= saved.sequence
  /\ Idle => saved = World

\* A step that only adds to the ledgers.
Grows ==
  /\ messages \subseteq messages'
  /\ redeemed \subseteq redeemed'
  /\ sequence <= sequence'
  /\ \A m \in messages' \ messages : m.sequence >= sequence

-----------------------------------------------------------------------------
(* What a step does to the checkpoint and to the ledgers.                  *)

\* The checkpoint is kept while a transaction runs and set when it ends.
Checkpoint ==
  \/ saved' = saved /\ stack' # <<>>
  \/ Idle /\ saved' = World /\ stack' # <<>>
  \/ stack' = <<>> /\ saved' = World'

LEMMA EnterCheckpoint ==
  ASSUME stack \in Seq(Call), NEW call, Enter(call)
  PROVE  Checkpoint
<1>1. stack \in Seq(Call \cup {call})
  <2>1. Call \subseteq Call \cup {call}
    OBVIOUS
  <2>2. QED
    BY <2>1, SeqMonotonic
<1>2. Append(stack, call) # <<>>
  BY <1>1
<1>3. QED
  BY <1>2 DEF Enter, Checkpoint

LEMMA ReturnCheckpoint == Return => Checkpoint
BY DEF Return, Checkpoint

LEMMA AsideCheckpoint == Aside => Checkpoint
BY DEF Aside, Checkpoint, Idle

LEMMA BecomeCheckpoint ==
  ASSUME stack \in Seq(Call), ~Idle, NEW next, Become(next)
  PROVE  Checkpoint
<1>1. Len(stack) \in Nat \ {0}
  BY EmptySeq, LenProperties DEF Idle
<1>2. DOMAIN stack' = DOMAIN stack /\ DOMAIN stack = 1..Len(stack)
  BY DEF Become
<1>3. 1 \in DOMAIN stack'
  BY <1>1, <1>2
<1>4. stack' # <<>>
  BY <1>3
<1>5. QED
  BY <1>4 DEF Become, Checkpoint

LEMMA SendOutGrows ==
  ASSUME sequence \in Nat, NEW call, NEW credit, NEW amount,
         SendOut(call, credit, amount)
  PROVE  Grows /\ Return
<1>1. \E m : m.sequence = sequence /\ messages' = messages \cup {m}
  BY DEF SendOut
<1>2. redeemed' = redeemed /\ sequence' = sequence + 1 /\ Return
  BY DEF SendOut
<1>3. QED
  BY <1>1, <1>2 DEF Grows

\* Every step but a revert keeps or sets the checkpoint, and only adds.
LEMMA StepForward ==
  ASSUME IInv, Next, ~Revert
  PROVE  Checkpoint /\ Grows
<1>1. stack \in Seq(Call) /\ sequence \in Nat
  BY WorldFields DEF IInv, TypeOK, Call
<1>2. UNCHANGED <<sequence, messages, redeemed>> => Grows
  BY <1>1 DEF Grows
<1>3. ASSUME NEW token, NEW amount, NEW value, NEW payment, NEW dst,
             TransferTokensWithRelay(token, amount, value, payment, dst)
      PROVE  Checkpoint /\ Grows
  BY <1>1, <1>2, <1>3, EnterCheckpoint DEF TransferTokensWithRelay
<1>4. CASE CustodyTokens
  BY <1>1, <1>4, SendOutGrows, ReturnCheckpoint DEF CustodyTokens
<1>5. ASSUME NEW value, NEW payment, NEW dst,
             WrapAndTransferEthWithRelay(value, payment, dst)
      PROVE  Checkpoint /\ Grows
  BY <1>1, <1>2, <1>5, EnterCheckpoint DEF WrapAndTransferEthWithRelay
<1>6. CASE DepositWeth
  BY <1>1, <1>6, SendOutGrows, ReturnCheckpoint DEF DepositWeth
<1>7. ASSUME NEW vaa, NEW value, ExecuteVAAv1(vaa, value)
      PROVE  Checkpoint /\ Grows
  <2>1. \E call : Enter(call)
    BY <1>7 DEF ExecuteVAAv1
  <2>2. redeemed' = redeemed \cup {vaa} /\ UNCHANGED <<sequence, messages>>
    BY <1>7 DEF ExecuteVAAv1
  <2>3. QED
    BY <1>1, <2>1, <2>2, EnterCheckpoint DEF Grows
<1>8. CASE PayRecipient
  <2>1. ~Idle /\ UNCHANGED <<sequence, messages, redeemed>>
    BY <1>8 DEF PayRecipient
  <2>2. Return \/ \E next : Become(next)
    BY <1>8 DEF PayRecipient
  <2>3. QED
    BY <1>1, <1>2, <2>1, <2>2, ReturnCheckpoint, BecomeCheckpoint
<1>9. CASE PayoutReturns
  BY <1>2, <1>9, ReturnCheckpoint DEF PayoutReturns
<1>10. ASSUME NEW asset, Donate(asset) PROVE Checkpoint /\ Grows
  BY <1>2, <1>10, AsideCheckpoint DEF Donate
<1>11. CASE OthersPublish
  BY <1>1, <1>11, AsideCheckpoint DEF OthersPublish, Grows
<1>12. ASSUME NEW fee, SetMessageFee(fee) PROVE Checkpoint /\ Grows
  BY <1>2, <1>12, AsideCheckpoint DEF SetMessageFee
<1>13. QED
  BY <1>3, <1>4, <1>5, <1>6, <1>7, <1>8, <1>9, <1>10, <1>11, <1>12 DEF Next

-----------------------------------------------------------------------------
(* The ledgers a transaction may fall back to only grow.                   *)

LEMMA WorldLedgers ==
  /\ World.messages = messages /\ World.redeemed = redeemed
  /\ World.sequence = sequence /\ World.requests = requests
  /\ World.payouts = payouts
BY DEF World

LEMMA WorldLedgersNext ==
  /\ World'.messages = messages' /\ World'.redeemed = redeemed'
  /\ World'.sequence = sequence'
BY DEF World

LEMMA GrownForward ==
  ASSUME IInv, IInv', Grown, Checkpoint, Grows
  PROVE  Grown'
<1>1. sequence \in Nat /\ sequence' \in Nat /\ saved.sequence \in Nat
  BY WorldFields DEF IInv, TypeOK, WorldType, World
<1>2. \A m \in messages' : m.sequence \in Nat
  BY WorldFields DEF IInv, TypeOK, WorldType, World, Message
<1>3. CASE saved' = saved /\ stack' # <<>>
  BY <1>1, <1>2, <1>3 DEF Grown, Grows, Idle
<1>4. CASE Idle /\ saved' = World /\ stack' # <<>>
  BY <1>1, <1>4, WorldLedgers DEF Grows, Grown, Idle
<1>5. CASE stack' = <<>> /\ saved' = World'
  <2>1. \A m \in messages' \ messages' : m.sequence >= sequence'
    OBVIOUS
  <2>2. QED
    BY <1>1, <1>5, <2>1, WorldLedgersNext DEF Grown
<1>6. QED
  BY <1>3, <1>4, <1>5 DEF Checkpoint

LEMMA RevertLedgers ==
  ASSUME saved \in WorldType, Revert
  PROVE  World' = saved /\ saved' = saved
BY DEF Revert, World, WorldType

LEMMA GrownKept ==
  ASSUME IInv, IInv', Grown, [Next]_vars
  PROVE  Grown'
<1>1. CASE Revert
  <2>1. World' = saved /\ saved' = saved /\ saved.sequence \in Nat
    BY <1>1, RevertLedgers DEF IInv, TypeOK, WorldType
  <2>2. saved'.sequence <= sequence'
    BY <2>1, WorldLedgersNext
  <2>3. QED
    BY <2>1, <2>2, WorldLedgersNext DEF Grown
<1>2. CASE Next /\ ~Revert
  BY <1>2, StepForward, GrownForward
<1>3. CASE UNCHANGED vars
  <2>1. World' = World
    BY <1>3 DEF vars, World
  <2>2. QED
    BY <1>3, <2>1 DEF vars, Grown, Idle
<1>4. QED
  BY <1>1, <1>2, <1>3

-----------------------------------------------------------------------------
(* The ledgers in the terms of Shim.                                       *)

\* Storage between transactions holds each transfer with its request and each
\* completed message with its payout.
LEMMA Paired ==
  ASSUME NEW w, SourceInv(w), PaidExactly(w.payouts, w.redeemed),
         AllPaid(w.payouts, w.redeemed)
  PROVE  /\ {Asked(r) : r \in w.requests}
              = {Announced(m) : m \in w.messages}
         /\ {PaidTo(p) : p \in w.payouts}
              = {Promise!PayoutOf(v) : v \in w.redeemed}
<1>1. RequestMatches(w.messages, w.requests, w.sequence)
  BY DEF SourceInv
<1>2. ASSUME NEW r \in w.requests
      PROVE  \E m \in w.messages : Asked(r) = Announced(m)
  BY <1>1 DEF RequestMatches, Asked, Announced
<1>3. ASSUME NEW m \in w.messages
      PROVE  \E r \in w.requests : Asked(r) = Announced(m)
  <2>1. PICK r \in w.requests : r.sequence = m.sequence
    BY <1>1 DEF RequestMatches
  <2>2. PICK n \in w.messages : n.sequence = r.sequence /\ Asked(r) = Announced(n)
    BY <1>1 DEF RequestMatches, Asked, Announced
  <2>3. n = m
    BY <1>1, <2>1, <2>2 DEF RequestMatches
  <2>4. QED
    BY <2>2, <2>3
<1>4. ASSUME NEW p \in w.payouts
      PROVE  \E v \in w.redeemed : PaidTo(p) = Promise!PayoutOf(v)
  BY DEF PaidExactly, PaidTo, Promise!PayoutOf
<1>5. ASSUME NEW v \in w.redeemed
      PROVE  \E p \in w.payouts : PaidTo(p) = Promise!PayoutOf(v)
  BY DEF PaidExactly, AllPaid, PaidTo, Promise!PayoutOf
<1>6. {Asked(r) : r \in w.requests}
        = {Announced(m) : m \in w.messages}
  BY <1>2, <1>3
<1>7. {PaidTo(p) : p \in w.payouts}
        = {Promise!PayoutOf(v) : v \in w.redeemed}
  BY <1>4, <1>5
<1>8. QED
  BY <1>6, <1>7

-----------------------------------------------------------------------------
(* The steps.                                                              *)

\* Ending a transaction is a transaction of Shim: what it publishes is new,
\* since the Token Bridge's sequence had not come that far.
LEMMA CommitStep ==
  ASSUME IInv, IInv',
         saved.messages \subseteq saved'.messages,
         saved.redeemed \subseteq saved'.redeemed,
         saved.sequence <= saved'.sequence,
         \A m \in saved'.messages \ saved.messages :
           m.sequence >= saved.sequence
  PROVE  Promise!Next
<1> DEFINE Pub(ms) == {Announced(m) : m \in ms}
           Paid(vs) == {Promise!PayoutOf(v) : v \in vs}
           new == Pub(saved'.messages) \ Pub(saved.messages)
           done == saved'.redeemed \ saved.redeemed
<1>1. RequestMatches(saved.messages, saved.requests, saved.sequence)
  BY DEF IInv, SourceInv
<1>2. RequestMatches(saved'.messages, saved'.requests, saved'.sequence)
  BY DEF IInv, SourceInv
<1>3. /\ saved.sequence \in Nat /\ \A m \in saved.messages : m.sequence \in Nat
      /\ \A m \in saved'.messages : m.sequence \in Nat
  BY DEF IInv, TypeOK, WorldType, Message
<1>4. \A m \in new, old \in Pub(saved.messages) : old.sequence < m.sequence
  <2> SUFFICES ASSUME NEW n \in saved'.messages, NEW o \in saved.messages,
                      n \notin saved.messages
               PROVE  Announced(o).sequence < Announced(n).sequence
    OBVIOUS
  <2>1. o.sequence < saved.sequence /\ saved.sequence <= n.sequence
    BY <1>1, <1>3 DEF RequestMatches
  <2>2. QED
    BY <1>3, <2>1 DEF Announced
<1>5. \A m1, m2 \in new : m1.sequence = m2.sequence => m1 = m2
  <2> SUFFICES ASSUME NEW n1 \in saved'.messages, NEW n2 \in saved'.messages,
                      Announced(n1).sequence = Announced(n2).sequence
               PROVE  Announced(n1) = Announced(n2)
    OBVIOUS
  <2>1. n1.sequence = n2.sequence
    BY DEF Announced
  <2>2. QED
    BY <1>2, <2>1 DEF RequestMatches
<1>6. Pub(saved.messages) \subseteq Pub(saved'.messages)
  OBVIOUS
<1>7. Pub(saved'.messages) = Pub(saved.messages) \cup new
  BY <1>6
<1>8. saved'.redeemed = saved.redeemed \cup done
  OBVIOUS
<1>9. Paid(saved'.redeemed) = Paid(saved.redeemed) \cup Paid(done)
  BY <1>8
<1>10. /\ {Asked(r) : r \in saved.requests} = Pub(saved.messages)
       /\ {PaidTo(p) : p \in saved.payouts} = Paid(saved.redeemed)
  BY Paired DEF IInv
<1>11. /\ {Asked(r) : r \in saved'.requests} = Pub(saved'.messages)
       /\ {PaidTo(p) : p \in saved'.payouts} = Paid(saved'.redeemed)
  BY Paired DEF IInv
<1>12. QED
  BY <1>4, <1>5, <1>7, <1>8, <1>9, <1>10, <1>11
  DEF Promise!Next, Promise!Commit

LEMMA ShimStep ==
  ASSUME IInv, IInv', Grown, [Next]_vars
  PROVE  [Promise!Next]_(Promise!shimVars)
<1>1. CASE saved' = saved
  BY <1>1 DEF Promise!shimVars
<1>2. CASE Idle /\ saved' = World
  BY <1>1, <1>2 DEF Grown
<1>3. CASE stack' = <<>> /\ saved' = World' /\ Grows
  <2>1. sequence \in Nat /\ sequence' \in Nat /\ saved.sequence \in Nat
    BY WorldFields DEF IInv, TypeOK, WorldType, World
  <2>2. \A m \in messages' : m.sequence \in Nat
    BY WorldFields DEF IInv, TypeOK, WorldType, World, Message
  <2>3. /\ saved'.messages = messages' /\ saved'.redeemed = redeemed'
        /\ saved'.sequence = sequence'
    BY <1>3, WorldLedgersNext
  <2>4. /\ saved.messages \subseteq saved'.messages
        /\ saved.redeemed \subseteq saved'.redeemed
        /\ saved.sequence <= saved'.sequence
        /\ \A m \in saved'.messages \ saved.messages :
             m.sequence >= saved.sequence
    BY <1>3, <2>1, <2>2, <2>3 DEF Grown, Grows
  <2>5. QED
    BY <2>4, CommitStep
<1>4. CASE Revert
  BY <1>1, <1>4 DEF Revert
<1>5. CASE Next /\ ~Revert
  BY <1>1, <1>2, <1>3, <1>5, StepForward DEF Checkpoint
<1>6. CASE UNCHANGED vars
  BY <1>1, <1>6 DEF vars
<1>7. QED
  BY <1>4, <1>5, <1>6

LEMMA ShimInit == Init => Grown /\ Promise!Init
<1> SUFFICES ASSUME Init PROVE Grown /\ Promise!Init
  OBVIOUS
<1>1. /\ saved = World /\ stack = <<>> /\ sequence = 0
      /\ messages = {} /\ requests = {} /\ redeemed = {} /\ payouts = {}
  BY DEF Init
<1>2. Grown
  BY <1>1, WorldLedgers DEF Grown
<1>3. Promise!Init
  BY <1>1, WorldLedgers DEF Promise!Init
<1>4. QED
  BY <1>2, <1>3

-----------------------------------------------------------------------------
(* The theorem.                                                            *)

\* The contract implements Shim: a transaction publishes fresh transfers with
\* exactly one request each and completes messages with exactly one payout
\* each to the recipient they name, all of it or nothing, whatever calls are
\* nested in whatever callbacks.
THEOREM ShimImplemented == Spec => ImplementsShim
<1>1. Init => Grown /\ Promise!Init
  BY ShimInit
<1>2. IInv /\ IInv' /\ Grown /\ [Next]_vars => Grown'
  BY GrownKept
<1>3. IInv /\ IInv' /\ Grown /\ [Next]_vars
        => [Promise!Next]_(Promise!shimVars)
  BY ShimStep
<1>4. QED
  BY <1>1, <1>2, <1>3, Invariant, PTL DEF Spec, ImplementsShim, Promise!Spec
=============================================================================
