------------------------------ MODULE SuiProofs ------------------------------
(***************************************************************************)
(* Proofs about SuiRelayer and SuiResolver, for any users, coin types,     *)
(* decimals, emitters, amounts, messages and destinations.                 *)
(***************************************************************************)
EXTENDS SuiResolver, TokenAmountsProofs, Sums, FiniteSetTheorems,
        SequenceTheorems, TLAPS

-----------------------------------------------------------------------------
(* The inductive invariant.                                                *)

\* The bridge has not come to the next number yet.
Numbered == \A m \in messages : m.sequence < sequence

\* Every request names the emitter of the one State object there ever is.
Named ==
  \A r \in requests :
    Published /\ r.emitter = relayer_state.token_bridge_emitter_address

\* Whichever emitter that is, messages and requests match one to one.
Matched ==
  /\ \A m \in messages : \E r \in requests :
       r.sequence = m.sequence /\ Asked(r) = Announced(m)
  /\ \A r \in requests : \E m \in messages : m.sequence = r.sequence
  /\ \A r1, r2 \in requests : r1.sequence = r2.sequence => r1 = r2
  /\ \A m1, m2 \in messages : m1.sequence = m2.sequence => m1 = m2

IInv == TypeOK /\ Numbered /\ Named /\ Matched /\ PaidOnceInFull

-----------------------------------------------------------------------------
(* Coins.                                                                  *)

LEMMA ReleasedType ==
  ASSUME NEW v \in Inbound
  PROVE  v.coin \in CoinTypes /\ Released(v) \in Nat
BY SuiAssumption, Units DEF Released

LEMMA GiveType ==
  ASSUME NEW u \in Users, NEW c \in CoinTypes, NEW n \in Nat,
         NEW purses \in [Users -> [CoinTypes -> Nat]]
  PROVE  Give(purses, u, c, n) \in [Users -> [CoinTypes -> Nat]]
BY DEF Give

LEMMA TakeType ==
  ASSUME NEW u \in Users, NEW c \in CoinTypes, NEW n \in Nat,
         NEW purses \in [Users -> [CoinTypes -> Nat]],
         purses[u][c] >= n
  PROVE  /\ Take(purses, u, c, n) \in [Users -> [CoinTypes -> Nat]]
         /\ Take(purses, u, c, n)[u][c] = purses[u][c] - n
<1>1. purses[u][c] - n \in Nat
  OBVIOUS
<1>2. QED
  BY <1>1 DEF Take

-----------------------------------------------------------------------------
(* A transfer.                                                             *)

LEMMA TransferType ==
  ASSUME TypeOK, NEW sender \in Users, NEW refund_addr \in Users,
         NEW c \in CoinTypes, NEW amount \in Amounts, NEW dst \in Destinations,
         NEW exec \in ExecAmounts,
         TransferTokensWithRelay(sender, c, amount, dst, refund_addr, exec)
  PROVE  TypeOK'
<1> DEFINE bridged == truncateAmount(amount, Decimals[c])
           units   == normalizeAmount(bridged, Decimals[c])
           fees    == MessageFee + exec
           left    == Take(coins, sender, c, amount)
           paid    == Take(left, sender, SUI, fees)
           new     == [sequence |-> sequence, coin |-> c, sender |-> sender,
                       dst |-> dst, amount |-> units]
           req     == RequestFor(sequence, dst, refund_addr, exec)
<1>1. /\ Published
      /\ coins[sender][c] >= amount /\ paid[sender][SUI] >= 0
      /\ sequence < MaxSequence
      /\ coins' = Give(paid, DustTo(sender, refund_addr), c, amount - bridged)
      /\ custody' = IF c \in Wrapped THEN custody
                      ELSE [custody EXCEPT ![c] = @ + bridged]
      /\ sequence' = sequence + 1
      /\ messages' = messages \cup {new}
      /\ requests' = requests \cup {req}
      /\ UNCHANGED <<relayer_state, registry, consumed, payouts, elsewhere>>
  BY DEF TransferTokensWithRelay
<1>2. /\ amount \in Nat /\ fees \in Nat /\ exec \in Nat
      /\ SUI \in CoinTypes /\ Decimals[c] \in Uint8 /\ MaxSequence \in Nat
  BY SuiAssumption
<1>3. bridged \in Nat /\ bridged <= amount /\ units \in Nat
  BY <1>2, Truncation, Units
<1>4. new \in Message
  BY <1>1, <1>2, <1>3 DEF Message, TypeOK
<1>5. req \in Request
  <2>1. relayer_state.token_bridge_emitter_address \in Emitters
    BY <1>1 DEF Published, TypeOK
  <2>2. sequence \in 0..(MaxSequence - 1)
    BY <1>1, <1>2 DEF TypeOK
  <2>3. QED
    BY <2>1, <2>2 DEF Request, RequestFor
<1> HIDE DEF bridged, units, fees, paid, new, req
<1>6. coins' \in [Users -> [CoinTypes -> Nat]]
  <2>1. left \in [Users -> [CoinTypes -> Nat]]
    BY <1>1, <1>2, TakeType DEF TypeOK
  <2> HIDE DEF left
  <2>2. paid[sender][SUI] = left[sender][SUI] - fees
    BY <1>2, <2>1 DEF paid, Take
  <2>3. left[sender][SUI] >= fees
    BY <1>1, <1>2, <2>1, <2>2
  <2>4. paid \in [Users -> [CoinTypes -> Nat]]
    BY <1>2, <2>1, <2>3, TakeType DEF paid
  <2>5. amount - bridged \in Nat
    BY <1>2, <1>3
  <2>6. QED
    BY <1>1, <2>4, <2>5, GiveType DEF DustTo
<1>7. custody' \in [CoinTypes -> Nat] /\ sequence' \in 0..MaxSequence
  BY <1>1, <1>2, <1>3 DEF TypeOK
<1>8. QED
  BY <1>1, <1>4, <1>5, <1>6, <1>7 DEF TypeOK

\* It adds one message and the request for it, both under the number the
\* bridge had come to.
LEMMA TransferLedgers ==
  ASSUME TypeOK, NEW sender \in Users, NEW refund_addr \in Users,
         NEW c \in CoinTypes, NEW amount \in Amounts, NEW dst \in Destinations,
         NEW exec \in ExecAmounts,
         TransferTokensWithRelay(sender, c, amount, dst, refund_addr, exec)
  PROVE  \E new, req :
           /\ new.sequence = sequence /\ req.sequence = sequence
           /\ Asked(req) = Announced(new)
           /\ Published
           /\ req.emitter = relayer_state.token_bridge_emitter_address
           /\ sequence' = sequence + 1
           /\ messages' = messages \cup {new}
           /\ requests' = requests \cup {req}
           /\ UNCHANGED <<relayer_state, consumed, payouts, elsewhere>>
<1> DEFINE new == [sequence |-> sequence, coin |-> c, sender |-> sender,
                   dst |-> dst,
                   amount |-> normalizeAmount(
                                truncateAmount(amount, Decimals[c]),
                                Decimals[c])]
           req == RequestFor(sequence, dst, refund_addr, exec)
<1>1. /\ Published /\ sequence' = sequence + 1
      /\ messages' = messages \cup {new}
      /\ requests' = requests \cup {req}
      /\ UNCHANGED <<relayer_state, consumed, payouts, elsewhere>>
  BY DEF TransferTokensWithRelay
<1>2. /\ new.sequence = sequence /\ req.sequence = sequence
      /\ Asked(req) = Announced(new)
      /\ req.emitter = relayer_state.token_bridge_emitter_address
  BY DEF RequestFor, Asked, Announced
<1> HIDE DEF new, req
<1>3. QED
  BY <1>1, <1>2

LEMMA TransferKeeps ==
  ASSUME IInv, NEW sender \in Users, NEW refund_addr \in Users,
         NEW c \in CoinTypes, NEW amount \in Amounts, NEW dst \in Destinations,
         NEW exec \in ExecAmounts,
         TransferTokensWithRelay(sender, c, amount, dst, refund_addr, exec)
  PROVE  IInv'
<1>1. TypeOK'
  BY TransferType DEF IInv
<1>2. PICK new, req :
           /\ new.sequence = sequence /\ req.sequence = sequence
           /\ Asked(req) = Announced(new)
           /\ Published
           /\ req.emitter = relayer_state.token_bridge_emitter_address
           /\ sequence' = sequence + 1
           /\ messages' = messages \cup {new}
           /\ requests' = requests \cup {req}
           /\ UNCHANGED <<relayer_state, consumed, payouts, elsewhere>>
  BY TransferLedgers DEF IInv
<1>3. sequence \in Nat /\ \A m \in messages : m.sequence \in Nat
  BY SuiAssumption DEF IInv, TypeOK, Message
<1>4. Numbered'
  BY <1>2, <1>3 DEF IInv, Numbered
<1>5. Named'
  BY <1>2 DEF IInv, Named, Published
<1>6. /\ \A m \in messages : m.sequence # sequence
      /\ \A r \in requests : r.sequence # sequence
  BY <1>3 DEF IInv, Numbered, Matched
<1>7. Matched'
  BY <1>2, <1>6 DEF IInv, Matched
<1>8. PaidOnceInFull'
  BY <1>2 DEF IInv, PaidOnceInFull, Elsewhere, Released
<1>9. QED
  BY <1>1, <1>4, <1>5, <1>7, <1>8 DEF IInv

-----------------------------------------------------------------------------
(* A redemption.                                                           *)

LEMMA PaidOutIs ==
  ASSUME NEW vaa, NEW c, NEW to
  PROVE  /\ PaidOut(vaa, c, to).vaa = vaa /\ PaidOut(vaa, c, to).to = to
         /\ PaidOut(vaa, c, to).coin = c
         /\ PaidOut(vaa, c, to).amount = Released(vaa)
BY DEF PaidOut

LEMMA RedeemCoinType ==
  ASSUME TypeOK, NEW vaa \in Inbound, NEW c \in CoinTypes, NEW to \in Users,
         RedeemCoin(vaa, c, to)
  PROVE  /\ coins' \in [Users -> [CoinTypes -> Nat]]
         /\ custody' \in [CoinTypes -> Nat]
         /\ consumed' = consumed \cup {vaa} /\ vaa \notin consumed
         /\ PaidOut(vaa, c, to) \in Payout
         /\ UNCHANGED <<relayer_state, registry, sequence, messages, requests>>
<1>1. /\ c \notin Wrapped => custody[c] >= Released(vaa)
      /\ vaa \notin consumed /\ consumed' = consumed \cup {vaa}
      /\ coins' = Give(coins, to, c, Released(vaa))
      /\ custody' = IF c \in Wrapped THEN custody
                      ELSE [custody EXCEPT ![c] = @ - Released(vaa)]
      /\ UNCHANGED <<relayer_state, registry, sequence, messages, requests>>
  BY DEF RedeemCoin, Authorized
<1>2. Released(vaa) \in Nat
  BY ReleasedType
<1>3. PaidOut(vaa, c, to) \in Payout
  BY <1>2 DEF Payout, PaidOut
<1>4. coins' \in [Users -> [CoinTypes -> Nat]]
  BY <1>1, <1>2, GiveType DEF TypeOK
<1>5. custody' \in [CoinTypes -> Nat]
  BY <1>1, <1>2 DEF TypeOK
<1>6. QED
  BY <1>1, <1>3, <1>4, <1>5

\* Whoever redeems, one message is consumed and one record says what for.
LEMMA RedeemLedgers ==
  ASSUME TypeOK, NEW sender \in Users, NEW vaa \in Inbound,
         NEW c \in CoinTypes, Redeem(sender, vaa, c)
  PROVE  /\ vaa.recipient \in Users /\ c = vaa.coin
         /\ RedeemCoin(vaa, c, vaa.recipient)
         /\ payouts' = payouts \cup {PaidOut(vaa, c, vaa.recipient)}
         /\ elsewhere' = elsewhere
<1>1. vaa.recipient # Malformed /\ RedeemCoin(vaa, c, vaa.recipient)
  BY DEF Redeem, Recipient
<1>2. vaa.recipient \in Users /\ c = vaa.coin
  BY <1>1, SuiAssumption DEF RedeemCoin, Authorized
<1>3. QED
  BY <1>1, <1>2 DEF Redeem, Recipient

LEMMA RedeemType ==
  ASSUME TypeOK, NEW sender \in Users, NEW vaa \in Inbound,
         NEW c \in CoinTypes, Redeem(sender, vaa, c)
  PROVE  TypeOK'
BY RedeemLedgers, RedeemCoinType DEF TypeOK

LEMMA ElsewhereType ==
  ASSUME TypeOK, NEW to \in Users, NEW vaa \in Inbound,
         NEW c \in CoinTypes, RedeemElsewhere(vaa, c, to)
  PROVE  TypeOK'
BY RedeemCoinType DEF TypeOK, RedeemElsewhere

LEMMA RedeemKeeps ==
  ASSUME IInv, NEW sender \in Users, NEW vaa \in Inbound,
         NEW c \in CoinTypes, Redeem(sender, vaa, c)
  PROVE  IInv'
<1> DEFINE payout == PaidOut(vaa, c, vaa.recipient)
<1>1. TypeOK /\ TypeOK'
  BY RedeemType DEF IInv
<1>2. /\ c = vaa.coin
      /\ vaa \notin consumed /\ consumed' = consumed \cup {vaa}
      /\ payouts' = payouts \cup {payout} /\ elsewhere' = elsewhere
      /\ UNCHANGED <<relayer_state, registry, sequence, messages, requests>>
  BY <1>1, RedeemLedgers, RedeemCoinType
<1>3. /\ payout.vaa = vaa /\ payout.to = vaa.recipient
      /\ payout.coin = vaa.coin /\ payout.amount = Released(vaa)
  BY <1>2, PaidOutIs
<1> HIDE DEF payout
<1>4. \A p \in payouts : p.vaa # vaa
  BY <1>2 DEF IInv, PaidOnceInFull
<1>5. Elsewhere' = Elsewhere /\ vaa \notin Elsewhere
  BY <1>2 DEF IInv, PaidOnceInFull, Elsewhere
<1>6. PaidOnceInFull'
  BY <1>2, <1>3, <1>4, <1>5 DEF IInv, PaidOnceInFull, Released
<1>7. Numbered' /\ Named' /\ Matched'
  BY <1>2 DEF IInv, Numbered, Named, Published, Matched
<1>8. QED
  BY <1>1, <1>6, <1>7 DEF IInv

LEMMA ElsewhereKeeps ==
  ASSUME IInv, NEW to \in Users, NEW vaa \in Inbound,
         NEW c \in CoinTypes, RedeemElsewhere(vaa, c, to)
  PROVE  IInv'
<1> DEFINE record == PaidOut(vaa, c, to)
<1>1. TypeOK /\ TypeOK'
  BY ElsewhereType DEF IInv
<1>2. /\ vaa \notin consumed /\ consumed' = consumed \cup {vaa}
      /\ elsewhere' = elsewhere \cup {record} /\ payouts' = payouts
      /\ UNCHANGED <<relayer_state, registry, sequence, messages, requests>>
  BY <1>1, RedeemCoinType DEF RedeemElsewhere
<1>3. record.vaa = vaa
  BY PaidOutIs
<1> HIDE DEF record
<1>4. \A p \in payouts : p.vaa # vaa
  BY <1>2 DEF IInv, PaidOnceInFull
<1>5. Elsewhere' = Elsewhere \cup {vaa}
  BY <1>2, <1>3 DEF Elsewhere
<1>6. PaidOnceInFull'
  BY <1>2, <1>4, <1>5 DEF IInv, PaidOnceInFull, Released
<1>7. Numbered' /\ Named' /\ Matched'
  BY <1>2 DEF IInv, Numbered, Named, Published, Matched
<1>8. QED
  BY <1>1, <1>6, <1>7 DEF IInv

-----------------------------------------------------------------------------
(* The other steps, and the invariant.                                     *)

Aside ==
  /\ UNCHANGED <<messages, requests, consumed, payouts, elsewhere>>
  /\ sequence' \in {sequence, sequence + 1}
  /\ Published => relayer_state' = relayer_state

OtherStep ==
  \/ \E emitter \in Emitters : CreateState(emitter)
  \/ \E c \in CoinTypes : Register(c)
  \/ OthersPublish
  \/ UNCHANGED vars

LEMMA OtherType ==
  ASSUME TypeOK, OtherStep PROVE TypeOK' /\ Aside
<1>1. ASSUME NEW emitter \in Emitters, CreateState(emitter)
      PROVE  TypeOK' /\ Aside
  BY <1>1 DEF CreateState, TypeOK, Aside
<1>2. ASSUME NEW c \in CoinTypes, Register(c) PROVE TypeOK' /\ Aside
  BY <1>2 DEF Register, TypeOK, Aside
<1>3. CASE OthersPublish
  BY <1>3, SuiAssumption DEF OthersPublish, TypeOK, Aside
<1>4. CASE UNCHANGED vars
  BY <1>4 DEF vars, TypeOK, Aside
<1>5. QED
  BY <1>1, <1>2, <1>3, <1>4 DEF OtherStep

LEMMA OtherKeeps ==
  ASSUME IInv, OtherStep PROVE IInv'
<1>1. TypeOK' /\ Aside
  BY OtherType DEF IInv
<1>2. sequence \in Nat /\ \A m \in messages : m.sequence \in Nat
  BY SuiAssumption DEF IInv, TypeOK, Message
<1>3. Numbered'
  BY <1>1, <1>2 DEF IInv, Numbered, Aside
<1>4. Named'
  BY <1>1 DEF IInv, Named, Aside, Published
<1>5. Matched' /\ PaidOnceInFull'
  BY <1>1 DEF IInv, Aside, Matched, PaidOnceInFull, Elsewhere, Released
<1>6. QED
  BY <1>1, <1>3, <1>4, <1>5 DEF IInv

LEMMA StepKeeps == IInv /\ [Next]_vars => IInv'
<1> SUFFICES ASSUME IInv, [Next]_vars PROVE IInv'
  OBVIOUS
<1>1. ASSUME NEW sender \in Users, NEW refund_addr \in Users,
             NEW c \in CoinTypes, NEW amount \in Amounts,
             NEW dst \in Destinations, NEW exec \in ExecAmounts,
             TransferTokensWithRelay(sender, c, amount, dst, refund_addr, exec)
      PROVE  IInv'
  BY <1>1, TransferKeeps
<1>2. ASSUME NEW sender \in Users, NEW vaa \in Inbound, NEW c \in CoinTypes,
             Redeem(sender, vaa, c)
      PROVE  IInv'
  BY <1>2, RedeemKeeps
<1>3. ASSUME NEW to \in Users, NEW vaa \in Inbound, NEW c \in CoinTypes,
             RedeemElsewhere(vaa, c, to)
      PROVE  IInv'
  BY <1>3, ElsewhereKeeps
<1>4. CASE OtherStep
  BY <1>4, OtherKeeps
<1>5. QED
  BY <1>1, <1>2, <1>3, <1>4 DEF Next, OtherStep

LEMMA InitInvariant == Init => IInv
<1> SUFFICES ASSUME Init PROVE IInv
  OBVIOUS
<1>1. TypeOK
  BY SuiAssumption DEF Init, TypeOK
<1>2. Numbered /\ Named /\ Matched /\ PaidOnceInFull
  BY DEF Init, Numbered, Named, Matched, PaidOnceInFull, Elsewhere
<1>3. QED
  BY <1>1, <1>2 DEF IInv

LEMMA Invariant == Spec => []IInv
BY StepKeeps, InitInvariant, PTL DEF Spec

-----------------------------------------------------------------------------
(* The theorems.                                                           *)

\* Every variable has its type: no purse and no balance of the Token Bridge is
\* overdrawn.
THEOREM TypeCorrect == Spec => []TypeOK
<1>1. IInv => TypeOK
  BY DEF IInv
<1>2. QED
  BY <1>1, Invariant, PTL

\* Every request names one message and every message has one request, and the
\* request finds it wherever the deployer named the Token Bridge's emitter.
THEOREM RequestsMatch == Spec => []RelayRequested
<1>1. IInv => RelayRequested
  <2> SUFFICES ASSUME IInv PROVE RelayRequested
    OBVIOUS
  <2>1. ASSUME relayer_state.token_bridge_emitter_address = TokenBridge,
               NEW m \in messages
        PROVE  \E r \in requests :
                 /\ <<r.emitter, r.sequence>> = <<TokenBridge, m.sequence>>
                 /\ r.targetChain = m.dst.targetChain
                 /\ r.dstExecutionAddress = m.dst.dstExecutionAddress
    BY <2>1 DEF IInv, Named, Matched, Asked, Announced
  <2>2. QED
    BY <2>1 DEF IInv, Matched, RelayRequested
<1>2. QED
  BY <1>1, Invariant, PTL

\* What execute_vaa_v1 redeemed was paid once, all of it, to the recipient the
\* message names, whoever submitted it; a message that was consumed and not
\* paid was redeemed by a package that borrowed the EmitterCap.
THEOREM PaysOnce == Spec => []PaidOnceInFull
<1>1. IInv => PaidOnceInFull
  BY DEF IInv
<1>2. QED
  BY <1>1, Invariant, PTL

-----------------------------------------------------------------------------
(* The package keeps the promises of Shim.                                 *)

\* In every state the ledgers of Shim pair up.
Paired ==
  /\ {Asked(r) : r \in requests} = {Announced(m) : m \in messages}
  /\ {PaidTo(p) : p \in payouts}
       = {Promise!PayoutOf(v) : v \in consumed \ Elsewhere}

LEMMA LedgersPair ==
  ASSUME Matched, PaidOnceInFull
  PROVE  Paired
<1>1. ASSUME NEW m \in messages
      PROVE  \E r \in requests : Asked(r) = Announced(m)
  BY DEF Matched
<1>2. ASSUME NEW r \in requests
      PROVE  \E m \in messages : Asked(r) = Announced(m)
  <2>1. PICK m \in messages : m.sequence = r.sequence
    BY DEF Matched
  <2>2. PICK q \in requests : q.sequence = m.sequence /\ Asked(q) = Announced(m)
    BY DEF Matched
  <2>3. q = r
    BY <2>1, <2>2 DEF Matched
  <2>4. QED
    BY <2>2, <2>3
<1>3. ASSUME NEW p \in payouts
      PROVE  \E v \in consumed \ Elsewhere : PaidTo(p) = Promise!PayoutOf(v)
  BY DEF PaidOnceInFull, PaidTo, Promise!PayoutOf
<1>4. ASSUME NEW v \in consumed \ Elsewhere
      PROVE  \E p \in payouts : PaidTo(p) = Promise!PayoutOf(v)
  BY DEF PaidOnceInFull, PaidTo, Promise!PayoutOf
<1>5. {Asked(r) : r \in requests} = {Announced(m) : m \in messages}
  BY <1>1, <1>2
<1>6. {PaidTo(p) : p \in payouts}
        = {Promise!PayoutOf(v) : v \in consumed \ Elsewhere}
  BY <1>3, <1>4
<1>7. QED
  BY <1>5, <1>6 DEF Paired

\* What the relayer completed itself.
Completed == consumed \ Elsewhere

\* Every step adds to the ledgers, messages under the bridge's number.
LEMMA StepAdds ==
  ASSUME IInv, [Next]_vars
  PROVE  /\ messages \subseteq messages' /\ Completed \subseteq Completed'
         /\ \A m \in messages' \ messages : m.sequence = sequence
<1>1. ASSUME NEW sender \in Users, NEW refund_addr \in Users,
             NEW c \in CoinTypes, NEW amount \in Amounts,
             NEW dst \in Destinations, NEW exec \in ExecAmounts,
             TransferTokensWithRelay(sender, c, amount, dst, refund_addr, exec)
      PROVE  /\ messages \subseteq messages' /\ Completed' = Completed
             /\ \A m \in messages' \ messages : m.sequence = sequence
  BY <1>1 DEF TransferTokensWithRelay, Completed, Elsewhere
<1>2. ASSUME NEW sender \in Users, NEW vaa \in Inbound, NEW c \in CoinTypes,
             Redeem(sender, vaa, c)
      PROVE  messages' = messages /\ Completed \subseteq Completed'
  BY <1>2 DEF Redeem, RedeemCoin, Completed, Elsewhere
<1>3. ASSUME NEW to \in Users, NEW vaa \in Inbound, NEW c \in CoinTypes,
             RedeemElsewhere(vaa, c, to)
      PROVE  messages' = messages /\ Completed' = Completed
  <2>1. PaidOut(vaa, c, to).vaa = vaa
    BY PaidOutIs
  <2>2. Elsewhere' = Elsewhere \cup {vaa}
    BY <1>3, <2>1 DEF RedeemElsewhere, Elsewhere
  <2>3. consumed' = consumed \cup {vaa} /\ vaa \notin consumed
    BY <1>3 DEF RedeemElsewhere, RedeemCoin, Authorized
  <2>4. QED
    BY <1>3, <2>2, <2>3 DEF RedeemElsewhere, RedeemCoin, Completed
<1>4. CASE OtherStep
  BY <1>4, OtherType DEF IInv, Aside, Completed, Elsewhere
<1>5. QED
  BY <1>1, <1>2, <1>3, <1>4 DEF Next, OtherStep

LEMMA ShimStep ==
  ASSUME IInv, IInv', Paired, Paired', [Next]_vars
  PROVE  Promise!Next
<1> DEFINE Pub(ms) == {Announced(m) : m \in ms}
           Paid(vs) == {Promise!PayoutOf(v) : v \in vs}
           new  == Pub(messages') \ Pub(messages)
           done == Completed' \ Completed
<1>1. /\ messages \subseteq messages' /\ Completed \subseteq Completed'
      /\ \A m \in messages' \ messages : m.sequence = sequence
  BY StepAdds
<1>2. \A m \in new, old \in Pub(messages) : old.sequence < m.sequence
  <2> SUFFICES ASSUME NEW n \in messages', NEW o \in messages,
                      n \notin messages
               PROVE  Announced(o).sequence < Announced(n).sequence
    OBVIOUS
  <2>1. o.sequence < sequence /\ n.sequence = sequence
    BY <1>1 DEF IInv, Numbered
  <2>2. QED
    BY <2>1 DEF Announced
<1>3. \A m1, m2 \in new : m1.sequence = m2.sequence => m1 = m2
  <2> SUFFICES ASSUME NEW n1 \in messages', NEW n2 \in messages',
                      Announced(n1).sequence = Announced(n2).sequence
               PROVE  Announced(n1) = Announced(n2)
    OBVIOUS
  <2>1. n1.sequence = n2.sequence
    BY DEF Announced
  <2>2. QED
    BY <2>1 DEF IInv, Matched
<1>4. Pub(messages') = Pub(messages) \cup new
  BY <1>1
<1>5. Completed' = Completed \cup done
  BY <1>1
<1>6. Paid(Completed') = Paid(Completed) \cup Paid(done)
  BY <1>5
<1>7. QED
  BY <1>2, <1>3, <1>4, <1>5, <1>6
  DEF Paired, Completed, Promise!Next, Promise!Commit

\* transfer_tokens_with_relay and execute_vaa_v1 implement Shim: a transaction
\* publishes a fresh transfer with its one request, or completes a message with
\* its one payout to the recipient it names, or does neither, as when another
\* package redeems.
THEOREM ShimImplemented == Spec => ImplementsShim
<1>1. Init => Promise!Init
  BY DEF Init, Promise!Init, Elsewhere
<1>2. IInv => Paired
  BY LedgersPair DEF IInv
<1>3. IInv /\ IInv' /\ Paired /\ Paired' /\ [Next]_vars
        => [Promise!Next]_(Promise!shimVars)
  BY ShimStep
<1>4. QED
  BY <1>1, <1>2, <1>3, Invariant, PTL DEF Spec, ImplementsShim, Promise!Spec

-----------------------------------------------------------------------------
(* The books: CoinsAccounted.                                              *)

Finite ==
  /\ IsFiniteSet(messages) /\ IsFiniteSet(requests)
  /\ IsFiniteSet(consumed)
  /\ IsFiniteSet(payouts) /\ IsFiniteSet(elsewhere)

\* The totals of CoinsAccounted, by what they add up.
CarriedBy(ms)  == Total(ms, Carried)
ReleasedFor(vs) == Total(vs, Released)
PaymentsOf(rs) == Total(rs, LAMBDA r : r.payment)
AmountsOf(ps)  == Total(ps, LAMBDA p : p.amount)
FeesOf(ms, c)  == Total(ms, LAMBDA m : Fees(m, c))

SentBy(u)    == {m \in messages : m.sender = u}
Sent(u, c)   == {m \in messages : m.sender = u /\ m.coin = c}
Outward(c)   == {m \in messages : m.coin = c}
For(n)       == {r \in requests : r.sequence = n}
Of(ps, u, c) == {p \in ps : p.to = u /\ p.coin = c}
Inward(c)    == {v \in consumed : v.coin = c}

\* What u was paid of c, by the relayer and by others.
Got(u, c) == AmountsOf(Of(payouts, u, c)) + AmountsOf(Of(elsewhere, u, c))

Purses ==
  \A c \in CoinTypes, u \in Users :
    coins[u][c] + CarriedBy(Sent(u, c)) + FeesOf(SentBy(u), c)
      = Purse[c] + Got(u, c)

Vault ==
  \A c \in CoinTypes \ Wrapped :
    custody[c] + ReleasedFor(Inward(c)) = Custody[c] + CarriedBy(Outward(c))

LEMMA FeesAre ==
  ASSUME NEW m, NEW c
  PROVE  Fees(m, c) = IF c = SUI THEN MessageFee + PaymentsOf(For(m.sequence))
                                 ELSE 0
BY DEF Fees, PaymentsOf, For, Total

LEMMA CarriedType == \A m \in Message : Carried(m) \in Nat
BY SuiAssumption, Units DEF Carried, Message

\* What one more adds to each total.
LEMMA CarriedAdds ==
  ASSUME NEW ms \in SUBSET Message, IsFiniteSet(ms),
         NEW m \in Message, m \notin ms
  PROVE  /\ CarriedBy(ms) \in Int
         /\ CarriedBy(ms \cup {m}) = CarriedBy(ms) + Carried(m)
<1> DEFINE f == [x \in ms |-> Carried(x)]
           g == [x \in ms \cup {m} |-> Carried(x)]
<1> DEFINE T == ms \cup {m}
<1>1. /\ \A x \in T : g[x] \in Int
      /\ \A x \in ms : f[x] = g[x]
      /\ g[m] = Carried(m)
  BY CarriedType
<1>2. CarriedBy(ms) = SumFunctionOnSet(f, ms)
  BY DEF CarriedBy, Total
<1>3. CarriedBy(ms \cup {m}) = SumFunctionOnSet(g, T)
  BY DEF CarriedBy, Total
<1>4. T = ms \cup {m}
  OBVIOUS
<1> HIDE DEF f, g, T
<1>5. /\ SumFunctionOnSet(f, ms) \in Int
      /\ SumFunctionOnSet(g, T) = SumFunctionOnSet(f, ms) + g[m]
  BY <1>1, <1>4, SumAdds
<1>6. QED
  BY <1>1, <1>2, <1>3, <1>4, <1>5

LEMMA ReleasedAdds ==
  ASSUME NEW vs \in SUBSET Inbound, IsFiniteSet(vs),
         NEW v \in Inbound, v \notin vs
  PROVE  /\ ReleasedFor(vs) \in Int
         /\ ReleasedFor(vs \cup {v}) = ReleasedFor(vs) + Released(v)
<1> DEFINE f == [x \in vs |-> Released(x)]
           g == [x \in vs \cup {v} |-> Released(x)]
<1> DEFINE T == vs \cup {v}
<1>1. /\ \A x \in T : g[x] \in Int
      /\ \A x \in vs : f[x] = g[x]
      /\ g[v] = Released(v)
  BY ReleasedType
<1>2. ReleasedFor(vs) = SumFunctionOnSet(f, vs)
  BY DEF ReleasedFor, Total
<1>3. ReleasedFor(vs \cup {v}) = SumFunctionOnSet(g, T)
  BY DEF ReleasedFor, Total
<1>4. T = vs \cup {v}
  OBVIOUS
<1> HIDE DEF f, g, T
<1>5. /\ SumFunctionOnSet(f, vs) \in Int
      /\ SumFunctionOnSet(g, T) = SumFunctionOnSet(f, vs) + g[v]
  BY <1>1, <1>4, SumAdds
<1>6. QED
  BY <1>1, <1>2, <1>3, <1>4, <1>5

LEMMA CarriedInt ==
  ASSUME NEW ms \in SUBSET Message, IsFiniteSet(ms)
  PROVE  CarriedBy(ms) \in Int
<1> DEFINE f == [x \in ms |-> Carried(x)]
<1>1. \A x \in ms : f[x] \in Int
  BY CarriedType
<1>2. CarriedBy(ms) = SumFunctionOnSet(f, ms)
  BY DEF CarriedBy, Total
<1> HIDE DEF f
<1>3. QED
  BY <1>1, <1>2, SumInt

LEMMA ReleasedInt ==
  ASSUME NEW vs \in SUBSET Inbound, IsFiniteSet(vs)
  PROVE  ReleasedFor(vs) \in Int
<1> DEFINE f == [x \in vs |-> Released(x)]
<1>1. \A x \in vs : f[x] \in Int
  BY ReleasedType
<1>2. ReleasedFor(vs) = SumFunctionOnSet(f, vs)
  BY DEF ReleasedFor, Total
<1> HIDE DEF f
<1>3. QED
  BY <1>1, <1>2, SumInt

LEMMA AmountsAdd ==
  ASSUME NEW ps \in SUBSET Payout, IsFiniteSet(ps),
         NEW p \in Payout, p \notin ps
  PROVE  /\ AmountsOf(ps) \in Int
         /\ AmountsOf(ps \cup {p}) = AmountsOf(ps) + p.amount
<1> DEFINE f == [x \in ps |-> x.amount]
           g == [x \in ps \cup {p} |-> x.amount]
<1> DEFINE T == ps \cup {p}
<1>1. /\ \A x \in T : g[x] \in Int
      /\ \A x \in ps : f[x] = g[x]
      /\ g[p] = p.amount
  BY DEF Payout
<1>2. AmountsOf(ps) = SumFunctionOnSet(f, ps)
  BY DEF AmountsOf, Total
<1>3. AmountsOf(ps \cup {p}) = SumFunctionOnSet(g, T)
  BY DEF AmountsOf, Total
<1>4. T = ps \cup {p}
  OBVIOUS
<1> HIDE DEF f, g, T
<1>5. /\ SumFunctionOnSet(f, ps) \in Int
      /\ SumFunctionOnSet(g, T) = SumFunctionOnSet(f, ps) + g[p]
  BY <1>1, <1>4, SumAdds
<1>6. QED
  BY <1>1, <1>2, <1>3, <1>4, <1>5

LEMMA AmountsInt ==
  ASSUME NEW ps \in SUBSET Payout, IsFiniteSet(ps)
  PROVE  AmountsOf(ps) \in Int
<1> DEFINE f == [x \in ps |-> x.amount]
<1>1. \A x \in ps : f[x] \in Int
  BY DEF Payout
<1>2. AmountsOf(ps) = SumFunctionOnSet(f, ps)
  BY DEF AmountsOf, Total
<1> HIDE DEF f
<1>3. QED
  BY <1>1, <1>2, SumInt

LEMMA OfInt ==
  ASSUME NEW ps \in SUBSET Payout, IsFiniteSet(ps), NEW u, NEW c
  PROVE  AmountsOf(Of(ps, u, c)) \in Int
<1>1. Of(ps, u, c) \in SUBSET Payout /\ IsFiniteSet(Of(ps, u, c))
  BY FS_Subset DEF Of
<1>2. QED
  BY <1>1, AmountsInt

\* One more payment is one more for the user it went to.
LEMMA OfAdds ==
  ASSUME NEW ps \in SUBSET Payout, IsFiniteSet(ps),
         NEW p \in Payout, p \notin ps, NEW u, NEW c
  PROVE  AmountsOf(Of(ps \cup {p}, u, c)) = AmountsOf(Of(ps, u, c))
           + IF u = p.to /\ c = p.coin THEN p.amount ELSE 0
<1>1. /\ Of(ps, u, c) \in SUBSET Payout /\ IsFiniteSet(Of(ps, u, c))
      /\ p \notin Of(ps, u, c)
  BY FS_Subset DEF Of
<1>2. /\ AmountsOf(Of(ps, u, c)) \in Int
      /\ AmountsOf(Of(ps, u, c) \cup {p}) = AmountsOf(Of(ps, u, c)) + p.amount
  BY <1>1, AmountsAdd
<1>3. CASE u = p.to /\ c = p.coin
  <2>1. Of(ps \cup {p}, u, c) = Of(ps, u, c) \cup {p}
    BY <1>3 DEF Of
  <2>2. QED
    BY <1>2, <1>3, <2>1
<1>4. CASE ~(u = p.to /\ c = p.coin)
  <2>1. Of(ps \cup {p}, u, c) = Of(ps, u, c)
    BY <1>4 DEF Of
  <2>2. QED
    BY <1>2, <1>4, <2>1
<1>5. QED
  BY <1>3, <1>4

LEMMA GotInt ==
  ASSUME TypeOK, Finite, NEW u, NEW c
  PROVE  /\ Got(u, c) \in Int
         /\ AmountsOf(Of(payouts, u, c)) \in Int
         /\ AmountsOf(Of(elsewhere, u, c)) \in Int
BY OfInt DEF TypeOK, Finite, Got

LEMMA BooksKept ==
  ASSUME TypeOK, Finite
  PROVE  CoinsAccounted <=> Purses /\ Vault
<1>1. ASSUME NEW u \in Users, NEW c \in CoinTypes
      PROVE  Purse[c] + Got(u, c)
               = Purse[c] + Total({p \in payouts : p.to = u /\ p.coin = c},
                                  LAMBDA p : p.amount)
                          + Total({p \in elsewhere : p.to = u /\ p.coin = c},
                                  LAMBDA p : p.amount)
  <2>1. Purse[c] \in Int
    BY SuiAssumption
  <2>2. Purse[c] + Got(u, c) = Purse[c] + AmountsOf(Of(payouts, u, c))
                                 + AmountsOf(Of(elsewhere, u, c))
    BY <2>1, GotInt DEF Got
  <2>3. QED
    BY <2>2 DEF AmountsOf, Of
<1>2. QED
  BY <1>1 DEF CoinsAccounted, Purses, Vault, CarriedBy, ReleasedFor, FeesOf,
              SentBy, Sent, Outward, Inward

\* The one request of a message is what its sender paid the Executor.
LEMMA PaymentIs ==
  ASSUME NEW r \in Request
  PROVE  PaymentsOf({r}) = r.payment
<1> DEFINE S == {r}
           f == [x \in S |-> x.payment]
<1>1. f[r] = r.payment /\ S = {r}
  OBVIOUS
<1>2. r.payment \in Nat
  BY SuiAssumption DEF Request
<1>3. PaymentsOf({r}) = SumFunctionOnSet(f, S)
  BY DEF PaymentsOf, Total
<1>4. f[r] \in Int
  BY <1>1, <1>2
<1> HIDE DEF f, S
<1>5. QED
  BY <1>1, <1>3, <1>4, SumOne

LEMMA PaymentsType ==
  ASSUME NEW rs \in SUBSET Request, IsFiniteSet(rs)
  PROVE  PaymentsOf(rs) \in Nat
<1> DEFINE f == [x \in rs |-> x.payment]
<1>1. \A x \in rs : f[x] \in Nat
  BY SuiAssumption DEF Request
<1>2. PaymentsOf(rs) = SumFunctionOnSet(f, rs)
  BY DEF PaymentsOf, Total
<1> HIDE DEF f
<1>3. QED
  BY <1>1, <1>2, SumNat

LEMMA FeesInt ==
  ASSUME TypeOK, Finite, NEW ms \in SUBSET messages, NEW c
  PROVE  /\ \A m \in messages : Fees(m, c) \in Int
         /\ FeesOf(ms, c) \in Int
<1> DEFINE f == [m \in ms |-> Fees(m, c)]
<1>1. ASSUME NEW m PROVE Fees(m, c) \in Int
  <2>1. /\ For(m.sequence) \in SUBSET Request /\ IsFiniteSet(For(m.sequence))
    BY FS_Subset DEF For, TypeOK, Finite
  <2>2. PaymentsOf(For(m.sequence)) \in Nat /\ MessageFee \in Nat
    BY <2>1, PaymentsType, SuiAssumption
  <2>3. QED
    BY <2>2, FeesAre
<1>2. IsFiniteSet(ms)
  BY FS_Subset DEF Finite
<1>3. \A m \in ms : f[m] \in Int
  BY <1>1
<1>4. FeesOf(ms, c) = SumFunctionOnSet(f, ms)
  BY DEF FeesOf, Total
<1> HIDE DEF f
<1>5. QED
  BY <1>1, <1>2, <1>3, <1>4, SumInt

\* How purses change.
LEMMA GiveAt ==
  ASSUME NEW purses \in [Users -> [CoinTypes -> Int]], NEW user \in Users,
         NEW k \in CoinTypes, NEW n \in Int, NEW u \in Users, NEW c \in CoinTypes
  PROVE  /\ Give(purses, user, k, n) \in [Users -> [CoinTypes -> Int]]
         /\ Give(purses, user, k, n)[u][c] =
              IF u = user /\ c = k THEN purses[u][c] + n ELSE purses[u][c]
BY DEF Give

\* What a transfer takes and does not give back is what its message carries
\* and the fees.
LEMMA TransferTakes ==
  ASSUME NEW purses \in [Users -> [CoinTypes -> Int]], NEW user \in Users,
         NEW k \in CoinTypes, NEW sui \in CoinTypes,
         NEW amount \in Int, NEW bridged \in Int, NEW fees \in Int,
         NEW u \in Users, NEW c \in CoinTypes
  PROVE  Give(Take(Take(purses, user, k, amount), user, sui, fees),
              user, k, amount - bridged)[u][c]
         = purses[u][c] - (IF u = user /\ c = k THEN bridged ELSE 0)
                        - (IF u = user /\ c = sui THEN fees ELSE 0)
<1> DEFINE left == Take(purses, user, k, amount)
           paid == Take(left, user, sui, fees)
           back == amount - bridged
<1>1. /\ left \in [Users -> [CoinTypes -> Int]]
      /\ left[u][c] = IF u = user /\ c = k
                        THEN purses[u][c] - amount ELSE purses[u][c]
  BY DEF Take
<1> HIDE DEF left
<1>2. /\ paid \in [Users -> [CoinTypes -> Int]]
      /\ paid[u][c] = IF u = user /\ c = sui
                        THEN left[u][c] - fees ELSE left[u][c]
  BY <1>1 DEF Take
<1>3. back \in Int
  OBVIOUS
<1> HIDE DEF paid, back
<1>4. Give(paid, user, k, back)[u][c] =
        IF u = user /\ c = k THEN paid[u][c] + back ELSE paid[u][c]
  BY <1>2, <1>3 DEF Give
<1>5. purses[u][c] \in Int
  OBVIOUS
<1>6. Give(paid, user, k, back)[u][c] =
        purses[u][c] - (IF u = user /\ c = k THEN bridged ELSE 0)
                     - (IF u = user /\ c = sui THEN fees ELSE 0)
  BY <1>1, <1>2, <1>3, <1>4, <1>5 DEF back
<1>7. QED
  BY <1>6 DEF left, paid, back

\* What a transfer does, by the number n it is published under.
LEMMA TransferEffect ==
  ASSUME TypeOK, TypeOK',
         NEW sender \in Users, NEW refund_addr \in Users,
         NEW k \in CoinTypes, NEW amount \in Amounts, NEW dst \in Destinations,
         NEW exec \in ExecAmounts,
         TransferTokensWithRelay(sender, k, amount, dst, refund_addr, exec)
  PROVE  \E n \in Nat, bridged \in Nat, new \in Message, req \in Request :
           /\ n = sequence
           /\ new.sequence = n /\ new.coin = k /\ new.sender = sender
           /\ Carried(new) = bridged
           /\ req.sequence = n /\ req.payment = exec
           /\ messages' = messages \cup {new}
           /\ requests' = requests \cup {req}
           /\ coins' = Give(Take(Take(coins, sender, k, amount),
                                 sender, SUI, MessageFee + exec),
                            sender, k, amount - bridged)
           /\ custody' = IF k \in Wrapped THEN custody
                           ELSE [custody EXCEPT ![k] = @ + bridged]
           /\ UNCHANGED <<consumed, payouts, elsewhere>>
<1> DEFINE bridged == truncateAmount(amount, Decimals[k])
           units   == normalizeAmount(bridged, Decimals[k])
           new     == [sequence |-> sequence, coin |-> k, sender |-> sender,
                       dst |-> dst, amount |-> units]
           req     == RequestFor(sequence, dst, refund_addr, exec)
<1>1. /\ coins' = Give(Take(Take(coins, sender, k, amount),
                            sender, SUI, MessageFee + exec),
                       sender, k, amount - bridged)
      /\ custody' = IF k \in Wrapped THEN custody
                      ELSE [custody EXCEPT ![k] = @ + bridged]
      /\ messages' = messages \cup {new}
      /\ requests' = requests \cup {req}
      /\ UNCHANGED <<consumed, payouts, elsewhere>>
  BY DEF TransferTokensWithRelay, DustTo
<1>2. amount \in Nat /\ Decimals[k] \in Uint8
  BY SuiAssumption
<1>3. bridged \in Nat /\ sequence \in Nat
  BY <1>2, Truncation, SuiAssumption DEF TypeOK
<1>4. /\ new.sequence = sequence /\ new.coin = k /\ new.sender = sender
      /\ req.sequence = sequence /\ req.payment = exec
  BY DEF RequestFor
<1>5. Carried(new) = bridged
  <2>1. Carried(new) = truncateAmount(bridged, Decimals[k])
    BY DEF Carried, truncateAmount
  <2>2. QED
    BY <1>2, <2>1, Truncation
<1>6. new \in Message /\ req \in Request
  BY <1>1 DEF TypeOK
<1> HIDE DEF bridged, new, req
<1>7. QED
  BY <1>1, <1>3, <1>4, <1>5, <1>6

LEMMA TransferBooks ==
  ASSUME IInv, Finite, Purses, Vault,
         NEW sender \in Users, NEW refund_addr \in Users,
         NEW k \in CoinTypes, NEW amount \in Amounts, NEW dst \in Destinations,
         NEW exec \in ExecAmounts,
         TransferTokensWithRelay(sender, k, amount, dst, refund_addr, exec)
  PROVE  Finite' /\ Purses' /\ Vault'
<1>1. TypeOK /\ TypeOK'
  BY TransferType DEF IInv
<1>2. PICK n \in Nat, bridged \in Nat, new \in Message, req \in Request :
        /\ n = sequence
        /\ new.sequence = n /\ new.coin = k /\ new.sender = sender
        /\ Carried(new) = bridged
        /\ req.sequence = n /\ req.payment = exec
        /\ messages' = messages \cup {new}
        /\ requests' = requests \cup {req}
        /\ coins' = Give(Take(Take(coins, sender, k, amount),
                              sender, SUI, MessageFee + exec),
                         sender, k, amount - bridged)
        /\ custody' = IF k \in Wrapped THEN custody
                        ELSE [custody EXCEPT ![k] = @ + bridged]
        /\ UNCHANGED <<consumed, payouts, elsewhere>>
  BY <1>1, TransferEffect
<1>3. PICK fees \in Nat : fees = MessageFee + exec
  BY SuiAssumption
<1>4. /\ amount \in Nat /\ exec \in Nat /\ MessageFee \in Nat
      /\ SUI \in CoinTypes
  BY SuiAssumption
<1>5. new.sequence = n /\ Carried(new) = bridged
  BY <1>2
<1>6. new \in Message /\ req \in Request
  BY <1>1, <1>2 DEF TypeOK
<1>7. /\ \A m \in messages : m.sequence # n
      /\ \A r \in requests : r.sequence # n
  <2>1. \A m \in messages : m.sequence \in Nat
    BY SuiAssumption DEF IInv, TypeOK, Message
  <2>2. QED
    BY <1>2, <2>1 DEF IInv, Numbered, Matched
<1>8. new \notin messages
  BY <1>5, <1>7
<1>9. Finite'
  BY <1>2, FS_AddElement DEF Finite
<1>10. /\ messages \subseteq Message /\ requests \subseteq Request
       /\ IsFiniteSet(messages) /\ IsFiniteSet(requests)
  BY <1>1 DEF TypeOK, Finite
<1>11. ASSUME NEW u \in Users, NEW c \in CoinTypes
       PROVE  /\ CarriedBy(Sent(u, c)) \in Int
              /\ CarriedBy(Sent(u, c)') = CarriedBy(Sent(u, c))
                   + IF u = sender /\ c = k THEN bridged ELSE 0
  <2>1. /\ Sent(u, c) \in SUBSET Message /\ IsFiniteSet(Sent(u, c))
        /\ new \notin Sent(u, c)
    BY <1>8, <1>10, FS_Subset DEF Sent
  <2>2. /\ CarriedBy(Sent(u, c)) \in Int
        /\ CarriedBy(Sent(u, c) \cup {new}) = CarriedBy(Sent(u, c)) + bridged
    BY <1>5, <1>6, <2>1, CarriedAdds
  <2>3. CASE u = sender /\ c = k
    <3>1. Sent(u, c)' = Sent(u, c) \cup {new}
      BY <1>2, <2>3 DEF Sent
    <3>2. QED
      BY <2>2, <2>3, <3>1
  <2>4. CASE ~(u = sender /\ c = k)
    <3>1. Sent(u, c)' = Sent(u, c)
      BY <1>2, <2>4 DEF Sent
    <3>2. QED
      BY <2>2, <2>4, <3>1
  <2>5. QED
    BY <2>3, <2>4
<1>12. ASSUME NEW c \in CoinTypes
       PROVE  /\ CarriedBy(Outward(c)) \in Int
              /\ CarriedBy(Outward(c)') = CarriedBy(Outward(c))
                   + IF c = k THEN bridged ELSE 0
  <2>1. /\ Outward(c) \in SUBSET Message /\ IsFiniteSet(Outward(c))
        /\ new \notin Outward(c)
    BY <1>8, <1>10, FS_Subset DEF Outward
  <2>2. /\ CarriedBy(Outward(c)) \in Int
        /\ CarriedBy(Outward(c) \cup {new}) = CarriedBy(Outward(c)) + bridged
    BY <1>5, <1>6, <2>1, CarriedAdds
  <2>3. CASE c = k
    <3>1. Outward(c)' = Outward(c) \cup {new}
      BY <1>2, <2>3 DEF Outward
    <3>2. QED
      BY <2>2, <2>3, <3>1
  <2>4. CASE c # k
    <3>1. Outward(c)' = Outward(c)
      BY <1>2, <2>4 DEF Outward
    <3>2. QED
      BY <2>2, <2>4, <3>1
  <2>5. QED
    BY <2>3, <2>4
<1>13. ASSUME NEW u \in Users, NEW c \in CoinTypes
       PROVE  /\ FeesOf(SentBy(u), c) \in Int
              /\ FeesOf(SentBy(u), c)' = FeesOf(SentBy(u), c)
                   + IF u = sender /\ c = SUI THEN fees ELSE 0
  <2> DEFINE A == SentBy(u)
             B == SentBy(u)'
             f == [m \in A |-> Fees(m, c)]
             g == [m \in B |-> Fees(m, c)']
  <2>1. ASSUME NEW m \in messages
        PROVE  Fees(m, c)' = Fees(m, c) /\ Fees(m, c) \in Int
    <3>1. For(m.sequence)' = For(m.sequence)
      BY <1>2, <1>7 DEF For
    <3>2. PaymentsOf(For(m.sequence)) \in Nat
      <4>1. /\ For(m.sequence) \in SUBSET Request
            /\ IsFiniteSet(For(m.sequence))
        BY <1>10, FS_Subset DEF For
      <4>2. QED
        BY <4>1, PaymentsType
    <3>3. /\ Fees(m, c) = IF c = SUI THEN MessageFee
                                             + PaymentsOf(For(m.sequence)) ELSE 0
          /\ Fees(m, c)' = IF c = SUI THEN MessageFee
                                   + PaymentsOf(For(m.sequence)') ELSE 0
      BY DEF Fees, PaymentsOf, For, Total
    <3> HIDE DEF A, B, f, g
    <3>4. QED
      BY <1>4, <3>1, <3>2, <3>3
  <2>2. Fees(new, c)' = IF c = SUI THEN fees ELSE 0
    <3>1. For(n)' = {req}
      BY <1>2, <1>7 DEF For
    <3>2. PaymentsOf({req}) = exec
      BY <1>2, <1>6, PaymentIs
    <3>3. Fees(new, c)' = IF c = SUI THEN MessageFee + PaymentsOf({req}) ELSE 0
      <4>1. Fees(new, c)' = IF c = SUI
                              THEN MessageFee + PaymentsOf(For(new.sequence)')
                              ELSE 0
        BY DEF Fees, PaymentsOf, For, Total
      <4>2. For(new.sequence)' = For(n)'
        BY <1>5
      <4>3. QED
        BY <3>1, <4>1, <4>2
    <3>4. QED
      BY <1>3, <3>2, <3>3
  <2>3. FeesOf(A, c) = SumFunctionOnSet(f, A)
    BY DEF FeesOf, Total
  <2>4. FeesOf(SentBy(u), c)' = SumFunctionOnSet(g, B)
    BY DEF FeesOf, Total
  <2>5. A \subseteq messages /\ IsFiniteSet(A) /\ new \notin A
    BY <1>8, <1>10, FS_Subset DEF SentBy
  <2>6. \A m \in A : f[m] \in Int
    BY <2>1, <2>5
  <2>7. CASE u = sender
    <3>1. B = A \cup {new}
      BY <1>2, <2>7 DEF SentBy
    <3>2. /\ \A m \in A : f[m] = g[m]
          /\ g[new] = Fees(new, c)'
      BY <2>1, <2>5, <3>1
    <3>3. \A m \in B : g[m] \in Int
      BY <1>3, <2>2, <2>6, <3>1, <3>2
    <3> HIDE DEF A, B, f, g
    <3>4. /\ SumFunctionOnSet(f, A) \in Int
          /\ SumFunctionOnSet(g, B) = SumFunctionOnSet(f, A) + g[new]
      BY <2>5, <3>1, <3>2, <3>3, SumAdds
    <3>5. QED
      BY <2>2, <2>3, <2>4, <2>7, <3>2, <3>4 DEF A
  <2>8. CASE u # sender
    <3>1. B = A
      BY <1>2, <2>8 DEF SentBy
    <3>2. \A m \in A : f[m] = g[m]
      BY <2>1, <2>5, <3>1
    <3> HIDE DEF A, B, f, g
    <3>3. /\ SumFunctionOnSet(f, A) \in Int
          /\ SumFunctionOnSet(f, A) = SumFunctionOnSet(g, A)
      BY <2>5, <2>6, <3>2, SumInt, SumSame
    <3>4. QED
      BY <2>3, <2>4, <2>8, <3>1, <3>3 DEF A
  <2>9. QED
    BY <2>7, <2>8
<1>14. Purses'
  <2> SUFFICES ASSUME NEW c \in CoinTypes, NEW u \in Users
               PROVE  coins'[u][c] + CarriedBy(Sent(u, c)')
                        + FeesOf(SentBy(u), c)'
                      = Purse[c] + Got(u, c)
    BY <1>2 DEF Purses, Got, AmountsOf, Of, Total
  <2>1. coins \in [Users -> [CoinTypes -> Int]]
    BY <1>1 DEF TypeOK
  <2>2. coins'[u][c] =
          coins[u][c] - (IF u = sender /\ c = k THEN bridged ELSE 0)
                      - (IF u = sender /\ c = SUI THEN fees ELSE 0)
    <3>1. coins' = Give(Take(Take(coins, sender, k, amount), sender, SUI, fees),
                        sender, k, amount - bridged)
      BY <1>2, <1>3
    <3>2. amount \in Int /\ bridged \in Int /\ fees \in Int
      BY <1>4
    <3>3. Give(Take(Take(coins, sender, k, amount), sender, SUI, fees),
               sender, k, amount - bridged)[u][c] =
            coins[u][c] - (IF u = sender /\ c = k THEN bridged ELSE 0)
                        - (IF u = sender /\ c = SUI THEN fees ELSE 0)
      BY <1>4, <2>1, <3>2, TransferTakes
    <3>4. QED
      BY <3>1, <3>3
  <2>3. coins[u][c] + CarriedBy(Sent(u, c)) + FeesOf(SentBy(u), c)
          = Purse[c] + Got(u, c)
    BY DEF Purses
  <2>4. /\ coins[u][c] \in Int /\ Purse[c] \in Int
        /\ Got(u, c) \in Int
    BY <1>1, <2>1, GotInt, SuiAssumption
  <2>5. QED
    BY <1>11, <1>13, <2>2, <2>3, <2>4
<1>15. Vault'
  <2> SUFFICES ASSUME NEW c \in CoinTypes \ Wrapped
               PROVE  custody'[c] + ReleasedFor(Inward(c))
                        = Custody[c] + CarriedBy(Outward(c)')
    BY <1>2 DEF Vault, Inward
  <2>1. custody'[c] = custody[c] + IF c = k THEN bridged ELSE 0
    BY <1>1, <1>2 DEF TypeOK
  <2>2. custody[c] + ReleasedFor(Inward(c)) = Custody[c] + CarriedBy(Outward(c))
    BY DEF Vault
  <2>3. custody[c] \in Int /\ Custody[c] \in Int
    BY <1>1, SuiAssumption DEF TypeOK
  <2>4. ReleasedFor(Inward(c)) \in Int
    <3>1. Inward(c) \in SUBSET Inbound /\ IsFiniteSet(Inward(c))
      BY <1>1, FS_Subset DEF Inward, TypeOK, Finite
    <3>2. QED
      BY <3>1, ReleasedInt
  <2>5. QED
    BY <1>12, <2>1, <2>2, <2>3, <2>4
<1>16. QED
  BY <1>9, <1>14, <1>15

\* Whoever is paid, the books are kept if the payment is written down.
LEMMA RedeemCoinBooks ==
  ASSUME TypeOK, Finite, Purses, Vault,
         NEW vaa \in Inbound, NEW k \in CoinTypes, NEW to \in Users,
         RedeemCoin(vaa, k, to),
         \A u \in Users, c \in CoinTypes :
           Got(u, c)' = Got(u, c)
                          + IF u = to /\ c = k THEN Released(vaa) ELSE 0
  PROVE  Purses' /\ Vault'
<1>1. /\ vaa \notin consumed /\ k = vaa.coin
      /\ consumed' = consumed \cup {vaa}
      /\ coins' = Give(coins, to, k, Released(vaa))
      /\ custody' = IF k \in Wrapped THEN custody
                      ELSE [custody EXCEPT ![k] = @ - Released(vaa)]
      /\ UNCHANGED <<messages, requests>>
  BY DEF RedeemCoin, Authorized
<1>2. Released(vaa) \in Nat
  BY ReleasedType
<1>3. ASSUME NEW c \in CoinTypes
      PROVE  /\ ReleasedFor(Inward(c)) \in Int
             /\ ReleasedFor(Inward(c)') = ReleasedFor(Inward(c))
                  + IF c = k THEN Released(vaa) ELSE 0
  <2>1. /\ Inward(c) \in SUBSET Inbound /\ IsFiniteSet(Inward(c))
        /\ vaa \notin Inward(c)
    BY <1>1, FS_Subset DEF Inward, TypeOK, Finite
  <2>2. /\ ReleasedFor(Inward(c)) \in Int
        /\ ReleasedFor(Inward(c) \cup {vaa})
             = ReleasedFor(Inward(c)) + Released(vaa)
    BY <2>1, ReleasedAdds
  <2>3. CASE c = k
    <3>1. Inward(c)' = Inward(c) \cup {vaa}
      BY <1>1, <2>3 DEF Inward
    <3>2. QED
      BY <2>2, <2>3, <3>1
  <2>4. CASE c # k
    <3>1. Inward(c)' = Inward(c)
      BY <1>1, <2>4 DEF Inward
    <3>2. QED
      BY <2>2, <2>4, <3>1
  <2>5. QED
    BY <2>3, <2>4
<1>4. Purses'
  <2>1. ASSUME NEW c \in CoinTypes, NEW u \in Users
        PROVE  coins'[u][c] + CarriedBy(Sent(u, c)) + FeesOf(SentBy(u), c)
                 = Purse[c] + Got(u, c)'
    <3>1. coins \in [Users -> [CoinTypes -> Int]] /\ coins[u][c] \in Int
      BY DEF TypeOK
    <3>2. coins'[u][c] = IF u = to /\ c = k
                           THEN coins[u][c] + Released(vaa) ELSE coins[u][c]
      BY <1>1, <1>2, <3>1, GiveAt
    <3>3. coins[u][c] + CarriedBy(Sent(u, c)) + FeesOf(SentBy(u), c)
            = Purse[c] + Got(u, c)
      BY DEF Purses
    <3>4. /\ Purse[c] \in Int /\ CarriedBy(Sent(u, c)) \in Int
          /\ FeesOf(SentBy(u), c) \in Int /\ Got(u, c) \in Int
      <4>1. /\ Sent(u, c) \in SUBSET Message /\ IsFiniteSet(Sent(u, c))
            /\ SentBy(u) \in SUBSET messages
        BY FS_Subset DEF Sent, SentBy, TypeOK, Finite
      <4>2. CarriedBy(Sent(u, c)) \in Int /\ FeesOf(SentBy(u), c) \in Int
        BY <4>1, CarriedInt, FeesInt
      <4>3. Purse[c] \in Int
        BY SuiAssumption
      <4>4. QED
        BY <4>2, <4>3, GotInt
    <3>5. Got(u, c)' = Got(u, c)
                         + IF u = to /\ c = k THEN Released(vaa) ELSE 0
      OBVIOUS
    <3>6. QED
      BY <1>2, <3>1, <3>2, <3>3, <3>4, <3>5
  <2>2. \A c \in CoinTypes, u \in Users :
          /\ CarriedBy(Sent(u, c))' = CarriedBy(Sent(u, c))
          /\ FeesOf(SentBy(u), c)' = FeesOf(SentBy(u), c)
    BY <1>1 DEF CarriedBy, Sent, FeesOf, SentBy, Total, Fees
  <2>3. QED
    BY <2>1, <2>2 DEF Purses
<1>5. Vault'
  <2> SUFFICES ASSUME NEW c \in CoinTypes \ Wrapped
               PROVE  custody'[c] + ReleasedFor(Inward(c)')
                        = Custody[c] + CarriedBy(Outward(c))
    BY <1>1 DEF Vault, Outward
  <2>1. custody'[c] = IF c = k THEN custody[c] - Released(vaa) ELSE custody[c]
    BY <1>1 DEF TypeOK
  <2>2. custody[c] + ReleasedFor(Inward(c)) = Custody[c] + CarriedBy(Outward(c))
    BY DEF Vault
  <2>3. custody[c] \in Int
    BY DEF TypeOK
  <2>4. QED
    BY <1>2, <1>3, <2>1, <2>2, <2>3
<1>6. QED
  BY <1>4, <1>5

LEMMA RedeemBooks ==
  ASSUME IInv, Finite, Purses, Vault,
         NEW sender \in Users, NEW vaa \in Inbound, NEW k \in CoinTypes,
         Redeem(sender, vaa, k)
  PROVE  Finite' /\ Purses' /\ Vault'
<1> DEFINE payout == PaidOut(vaa, k, vaa.recipient)
<1>1. TypeOK
  BY DEF IInv
<1>2. /\ vaa.recipient \in Users
      /\ RedeemCoin(vaa, k, vaa.recipient)
      /\ payouts' = payouts \cup {payout} /\ elsewhere' = elsewhere
  BY <1>1, RedeemLedgers
<1>3. /\ vaa \notin consumed /\ consumed' = consumed \cup {vaa}
      /\ payout \in Payout /\ UNCHANGED <<messages, requests>>
  BY <1>1, <1>2, RedeemCoinType
<1>4. /\ payout.vaa = vaa /\ payout.to = vaa.recipient
      /\ payout.coin = k /\ payout.amount = Released(vaa)
  BY PaidOutIs
<1> HIDE DEF payout
<1>5. payout \notin payouts
  BY <1>3, <1>4 DEF IInv, PaidOnceInFull
<1>6. Finite'
  BY <1>2, <1>3, FS_AddElement DEF Finite
<1>7. ASSUME NEW u \in Users, NEW c \in CoinTypes
      PROVE  Got(u, c)' = Got(u, c)
               + IF u = vaa.recipient /\ c = k THEN Released(vaa) ELSE 0
  <2>1. payouts \in SUBSET Payout /\ IsFiniteSet(payouts)
    BY <1>1 DEF TypeOK, Finite
  <2>2. AmountsOf(Of(payouts \cup {payout}, u, c)) = AmountsOf(Of(payouts, u, c))
          + IF u = vaa.recipient /\ c = k THEN Released(vaa) ELSE 0
    BY <1>3, <1>4, <1>5, <2>1, OfAdds
  <2>3. Got(u, c)' = AmountsOf(Of(payouts \cup {payout}, u, c))
                       + AmountsOf(Of(elsewhere, u, c))
    BY <1>2 DEF Got, AmountsOf, Of, Total
  <2>4. QED
    BY <1>1, <2>2, <2>3, GotInt, ReleasedType DEF Got
<1>8. QED
  BY <1>1, <1>2, <1>6, <1>7, RedeemCoinBooks

LEMMA ElsewhereBooks ==
  ASSUME IInv, Finite, Purses, Vault,
         NEW to \in Users, NEW vaa \in Inbound, NEW k \in CoinTypes,
         RedeemElsewhere(vaa, k, to)
  PROVE  Finite' /\ Purses' /\ Vault'
<1> DEFINE record == PaidOut(vaa, k, to)
<1>1. TypeOK
  BY DEF IInv
<1>2. /\ RedeemCoin(vaa, k, to)
      /\ elsewhere' = elsewhere \cup {record} /\ payouts' = payouts
  BY DEF RedeemElsewhere
<1>3. /\ vaa \notin consumed /\ consumed' = consumed \cup {vaa}
      /\ record \in Payout /\ UNCHANGED <<messages, requests>>
  BY <1>1, <1>2, RedeemCoinType
<1>4. /\ record.vaa = vaa /\ record.to = to
      /\ record.coin = k /\ record.amount = Released(vaa)
  BY PaidOutIs
<1> HIDE DEF record
<1>5. record \notin elsewhere
  BY <1>3, <1>4 DEF IInv, PaidOnceInFull, Elsewhere
<1>6. Finite'
  BY <1>2, <1>3, FS_AddElement DEF Finite
<1>7. ASSUME NEW u \in Users, NEW c \in CoinTypes
      PROVE  Got(u, c)' = Got(u, c)
               + IF u = to /\ c = k THEN Released(vaa) ELSE 0
  <2>1. elsewhere \in SUBSET Payout /\ IsFiniteSet(elsewhere)
    BY <1>1 DEF TypeOK, Finite
  <2>2. AmountsOf(Of(elsewhere \cup {record}, u, c))
          = AmountsOf(Of(elsewhere, u, c))
              + IF u = to /\ c = k THEN Released(vaa) ELSE 0
    BY <1>3, <1>4, <1>5, <2>1, OfAdds
  <2>3. Got(u, c)' = AmountsOf(Of(payouts, u, c))
                       + AmountsOf(Of(elsewhere \cup {record}, u, c))
    BY <1>2 DEF Got, AmountsOf, Of, Total
  <2>4. QED
    BY <1>1, <2>2, <2>3, GotInt, ReleasedType DEF Got
<1>8. QED
  BY <1>1, <1>2, <1>6, <1>7, RedeemCoinBooks

\* The books are kept, the ledgers stay finite.
LEMMA BooksInvariant == Spec => [](Finite /\ Purses /\ Vault)
<1>1. Init => Finite /\ Purses /\ Vault
  <2> SUFFICES ASSUME Init PROVE Finite /\ Purses /\ Vault
    OBVIOUS
  <2>1. Finite
    BY FS_EmptySet DEF Init, Finite
  <2>2. \A u, c : /\ Sent(u, c) = {} /\ SentBy(u) = {}
                  /\ Of(payouts, u, c) = {} /\ Of(elsewhere, u, c) = {}
                  /\ Inward(c) = {} /\ Outward(c) = {}
    BY DEF Init, Sent, SentBy, Of, Inward, Outward
  <2>3. /\ CarriedBy({}) = 0 /\ ReleasedFor({}) = 0 /\ AmountsOf({}) = 0
        /\ \A c : FeesOf({}, c) = 0
    BY SumEmpty DEF CarriedBy, ReleasedFor, AmountsOf, FeesOf, Total
  <2>4. \A u \in Users, c \in CoinTypes : coins[u][c] = Purse[c]
    BY DEF Init
  <2>5. custody = Custody
    BY DEF Init
  <2>6. \A c \in CoinTypes : Purse[c] \in Nat /\ Custody[c] \in Nat
    BY SuiAssumption
  <2>7. Purses
    BY <2>2, <2>3, <2>4, <2>6 DEF Purses, Got
  <2>8. Vault
    BY <2>2, <2>3, <2>5, <2>6 DEF Vault
  <2>9. QED
    BY <2>1, <2>7, <2>8
<1>2. IInv /\ Finite /\ Purses /\ Vault /\ [Next]_vars
        => (Finite /\ Purses /\ Vault)'
  <2> SUFFICES ASSUME IInv, Finite, Purses, Vault, [Next]_vars
               PROVE  (Finite /\ Purses /\ Vault)'
    OBVIOUS
  <2>1. ASSUME NEW sender \in Users, NEW refund_addr \in Users,
               NEW c \in CoinTypes, NEW amount \in Amounts,
               NEW dst \in Destinations, NEW exec \in ExecAmounts,
               TransferTokensWithRelay(sender, c, amount, dst, refund_addr, exec)
        PROVE  Finite' /\ Purses' /\ Vault'
    BY <2>1, TransferBooks
  <2>2. ASSUME NEW sender \in Users, NEW vaa \in Inbound, NEW c \in CoinTypes,
               Redeem(sender, vaa, c)
        PROVE  Finite' /\ Purses' /\ Vault'
    BY <2>2, RedeemBooks
  <2>3. ASSUME NEW to \in Users, NEW vaa \in Inbound, NEW c \in CoinTypes,
               RedeemElsewhere(vaa, c, to)
        PROVE  Finite' /\ Purses' /\ Vault'
    BY <2>3, ElsewhereBooks
  <2>4. CASE OtherStep
    <3>1. UNCHANGED <<coins, custody, messages, requests, consumed, payouts,
                      elsewhere>>
      BY <2>4 DEF OtherStep, CreateState, Register, OthersPublish, vars
    <3>2. QED
      BY <3>1 DEF Finite, Purses, Vault, CarriedBy, ReleasedFor, AmountsOf,
                  FeesOf, Fees, SentBy, Sent, Outward, Got, Of, Inward, Total
  <2>5. QED
    BY <2>1, <2>2, <2>3, <2>4 DEF Next, OtherStep
<1>3. QED
  BY <1>1, <1>2, Invariant, PTL DEF Spec

\* No coin is lost: purses, what messages carry, fees and payouts add up,
\* whoever redeems, and the Token Bridge holds the rest.
THEOREM CoinsAddUp == Spec => []CoinsAccounted
<1>1. IInv /\ Finite /\ Purses /\ Vault => CoinsAccounted
  BY BooksKept DEF IInv
<1>2. QED
  BY <1>1, Invariant, BooksInvariant, PTL

-----------------------------------------------------------------------------
(* The resolver.                                                           *)

\* What look-ups for v may have found, and all of them.
Found(v, found) ==
  /\ found = [key \in Lookups |-> found[key]]
  /\ \A key \in Lookups \ {"coin_type"} :
       found[key] # Unknown => found[key][1] = key
  /\ found["coin_type"] \in {Unknown, v.coin}

Complete(found) == \A key \in Lookups : found[key] # Unknown

\* Look-ups are kept as they were found, and a plan is made of all of them.
PlansInv ==
  /\ discovered = [v \in Inbound |-> discovered[v]]
  /\ plan = [v \in Inbound |-> plan[v]]
  /\ \A v \in Inbound :
       /\ Found(v, discovered[v])
       /\ plan[v] # NoPlan =>
            \E found : /\ Found(v, found) /\ Complete(found)
                       /\ plan[v] = RedemptionPtb(found)

-----------------------------------------------------------------------------
(* The transaction.                                                        *)

\* The four commands, field by field.
Commands(ptb, found) ==
  /\ DOMAIN ptb = 1..4 /\ Len(ptb) = 4
  /\ ptb[1].package = found["wormhole_package"]
  /\ ptb[2].package = found["token_bridge_package"]
  /\ ptb[3].package = found["token_bridge_package"]
  /\ ptb[4].package = found["relayer_package"]
  /\ ptb[1].function = "parse_and_verify"
  /\ ptb[2].function = "verify_only_once"
  /\ ptb[3].function = "authorize_transfer"
  /\ ptb[4].function = "execute_vaa_v1"
  /\ ptb[4].type = found["coin_type"]

Arguments(ptb) ==
  /\ ptb[1].args =
       <<Input("wormhole_state"), Input("vaa_bytes"), Input("clock")>>
  /\ ptb[2].args = <<Input("token_bridge_state"), Result(1)>>
  /\ ptb[3].args = <<Input("token_bridge_state"), Result(2)>>
  /\ ptb[4].args = <<Input("relayer_state"), Result(3)>>

LEMMA PtbCommands ==
  ASSUME NEW found, NEW ptb, ptb = RedemptionPtb(found)
  PROVE  Commands(ptb, found) /\ Arguments(ptb)
BY DEF Commands, Arguments, RedemptionPtb, Call

LEMMA CommandsTyped ==
  ASSUME NEW v, NEW found, Found(v, found), Complete(found),
         NEW ptb, Commands(ptb, found), Arguments(ptb), NEW i \in 1..4
  PROVE  WellTyped(ptb, i)
<1> DEFINE Kind(arg) == IF arg.result = 0 THEN arg.input
                          ELSE Returns[ptb[arg.result].function]
           args == ptb[i].args
<1>1. \A key \in Lookups \ {"coin_type"} :
        found[key] # Unknown /\ found[key][1] = key
  BY DEF Found, Complete
<1>2. ptb[i].package # Unknown /\ ptb[i].package[1] = Package[ptb[i].function]
  <2>1. /\ found["wormhole_package"] # Unknown
        /\ found["wormhole_package"][1] = "wormhole_package"
        /\ found["token_bridge_package"] # Unknown
        /\ found["token_bridge_package"][1] = "token_bridge_package"
        /\ found["relayer_package"] # Unknown
        /\ found["relayer_package"][1] = "relayer_package"
    BY <1>1 DEF Lookups, Upgradable
  <2>2. /\ Package["parse_and_verify"] = "wormhole_package"
        /\ Package["verify_only_once"] = "token_bridge_package"
        /\ Package["authorize_transfer"] = "token_bridge_package"
        /\ Package["execute_vaa_v1"] = "relayer_package"
    BY DEF Package
  <2>3. QED
    BY <2>1, <2>2 DEF Commands
<1>3. \A name : Input(name).result = 0 /\ Kind(Input(name)) = name
  BY DEF Input
<1>4. /\ Result(1).result = 1 /\ Result(2).result = 2 /\ Result(3).result = 3
      /\ Kind(Result(1)) = "VAA" /\ Kind(Result(2)) = "TokenBridgeMessage"
      /\ Kind(Result(3)) = "RedeemerReceipt"
  BY DEF Result, Returns, Commands
<1> HIDE DEF Kind, args
<1>5. CASE i = 1
  <2>1. /\ args = <<Input("wormhole_state"), Input("vaa_bytes"), Input("clock")>>
        /\ ptb[i].function = "parse_and_verify"
    BY <1>5 DEF Arguments, Commands, args
  <2>2. [k \in DOMAIN args |-> Kind(args[k])]
          = <<"wormhole_state", "vaa_bytes", "clock">>
    BY <1>3, <2>1
  <2>3. /\ \A k \in DOMAIN args : args[k].result < i
        /\ [k \in DOMAIN args |-> Kind(args[k])] = Parameters[ptb[i].function]
    BY <1>3, <1>5, <2>1, <2>2 DEF Parameters
  <2>4. QED
    BY <1>2, <2>3 DEF WellTyped, Kind, args
<1>6. CASE i = 2
  <2>1. /\ args = <<Input("token_bridge_state"), Result(1)>>
        /\ ptb[i].function = "verify_only_once"
    BY <1>6 DEF Arguments, Commands, args
  <2>2. [k \in DOMAIN args |-> Kind(args[k])] = <<"token_bridge_state", "VAA">>
    BY <1>3, <1>4, <2>1
  <2>3. /\ \A k \in DOMAIN args : args[k].result < i
        /\ [k \in DOMAIN args |-> Kind(args[k])] = Parameters[ptb[i].function]
    BY <1>3, <1>4, <1>6, <2>1, <2>2 DEF Parameters
  <2>4. QED
    BY <1>2, <2>3 DEF WellTyped, Kind, args
<1>7. CASE i = 3
  <2>1. /\ args = <<Input("token_bridge_state"), Result(2)>>
        /\ ptb[i].function = "authorize_transfer"
    BY <1>7 DEF Arguments, Commands, args
  <2>2. [k \in DOMAIN args |-> Kind(args[k])]
          = <<"token_bridge_state", "TokenBridgeMessage">>
    BY <1>3, <1>4, <2>1
  <2>3. /\ \A k \in DOMAIN args : args[k].result < i
        /\ [k \in DOMAIN args |-> Kind(args[k])] = Parameters[ptb[i].function]
    BY <1>3, <1>4, <1>7, <2>1, <2>2 DEF Parameters
  <2>4. QED
    BY <1>2, <2>3 DEF WellTyped, Kind, args
<1>8. CASE i = 4
  <2>1. /\ args = <<Input("relayer_state"), Result(3)>>
        /\ ptb[i].function = "execute_vaa_v1"
    BY <1>8 DEF Arguments, Commands, args
  <2>2. [k \in DOMAIN args |-> Kind(args[k])]
          = <<"relayer_state", "RedeemerReceipt">>
    BY <1>3, <1>4, <2>1
  <2>3. /\ \A k \in DOMAIN args : args[k].result < i
        /\ [k \in DOMAIN args |-> Kind(args[k])] = Parameters[ptb[i].function]
    BY <1>3, <1>4, <1>8, <2>1, <2>2 DEF Parameters
  <2>4. QED
    BY <1>2, <2>3 DEF WellTyped, Kind, args
<1>9. QED
  BY <1>5, <1>6, <1>7, <1>8

\* Each result is used as the second argument of the next command only.
LEMMA ResultsUsedOnce ==
  ASSUME NEW found, NEW ptb, Commands(ptb, found), Arguments(ptb),
         NEW i \in 1..4
  PROVE  UsedOnce(ptb, i)
<1> DEFINE uses == {place \in (DOMAIN ptb) \X (1..3) :
                      LET args == ptb[place[1]].args
                      IN place[2] \in DOMAIN args /\ args[place[2]].result = i}
<1>1. CASE i = 4
  BY <1>1 DEF UsedOnce, Returns, Commands
<1>2. CASE i # 4
  <2>1. \A name : Input(name).result = 0
    BY DEF Input
  <2>2. \A n : Result(n).result = n
    BY DEF Result
  <2>3. ASSUME NEW j \in 1..4, NEW k \in 1..3,
               k \in DOMAIN ptb[j].args, ptb[j].args[k].result = i
        PROVE  j = i + 1 /\ k = 2
    <3>1. CASE j = 1
      BY <2>1, <2>3, <3>1 DEF Arguments
    <3>2. CASE j # 1
      <4>1. /\ ptb[j].args[1].result = 0
            /\ ptb[j].args[2].result = j - 1
            /\ DOMAIN ptb[j].args = 1..2
        BY <2>1, <2>2, <3>2 DEF Arguments
      <4>2. QED
        BY <2>3, <4>1
    <3>3. QED
      BY <3>1, <3>2
  <2>4. /\ i + 1 \in 1..4 /\ 2 \in DOMAIN ptb[i + 1].args
        /\ ptb[i + 1].args[2].result = i
    <3>1. CASE i = 1
      BY <2>2, <3>1 DEF Arguments
    <3>2. CASE i = 2
      BY <2>2, <3>2 DEF Arguments
    <3>3. CASE i = 3
      BY <2>2, <3>3 DEF Arguments
    <3>4. QED
      BY <1>2, <3>1, <3>2, <3>3
  <2>5. DOMAIN ptb = 1..4
    BY DEF Commands
  <2>6. uses = {<<i + 1, 2>>}
    BY <2>3, <2>4, <2>5
  <2>7. Cardinality({<<i + 1, 2>>}) = 1
    BY FS_Singleton
  <2>8. QED
    BY <2>6, <2>7 DEF UsedOnce
<1>3. QED
  BY <1>1, <1>2

LEMMA PtbRuns ==
  ASSUME NEW v, NEW found, Found(v, found), Complete(found),
         NEW ptb, ptb = RedemptionPtb(found)
  PROVE  Runs(ptb) /\ PaidIn(ptb) = v.coin
<1>1. Runs(ptb)
  <2>1. Commands(ptb, found) /\ Arguments(ptb) /\ DOMAIN ptb = 1..4
    BY PtbCommands DEF Commands
  <2>2. QED
    BY <2>1, CommandsTyped, ResultsUsedOnce DEF Runs
<1>2. PaidIn(ptb) = found["coin_type"]
  BY PtbCommands DEF Commands, PaidIn, Last
<1>3. found["coin_type"] = v.coin
  BY DEF Found, Complete, Lookups
<1>4. QED
  BY <1>1, <1>2, <1>3

-----------------------------------------------------------------------------
(* The rounds.                                                             *)

LEMMA LookupFinds ==
  ASSUME NEW v \in Inbound, NEW key \in Lookups, NEW found, Found(v, found)
  PROVE  Found(v, [found EXCEPT ![key] = OnChain(v, key)])
<1> DEFINE now == [found EXCEPT ![key] = OnChain(v, key)]
<1>1. /\ now = [k \in Lookups |-> now[k]]
      /\ now[key] = OnChain(v, key)
      /\ \A k \in Lookups : k # key => now[k] = found[k]
  BY DEF Found
<1>2. /\ key # "coin_type" /\ OnChain(v, key) # Unknown
           => OnChain(v, key)[1] = key
      /\ key = "coin_type" => OnChain(v, key) \in {Unknown, v.coin}
  BY DEF OnChain, Lookups, Upgradable
<1> HIDE DEF now
<1>3. Found(v, now)
  BY <1>1, <1>2 DEF Found, Lookups
<1>4. QED
  BY <1>3 DEF now

LEMMA PlansKept ==
  ASSUME PlansInv, [ResolverNext]_allVars
  PROVE  PlansInv'
<1>1. ASSUME discovered' = discovered, plan' = plan PROVE PlansInv'
  BY <1>1 DEF PlansInv
<1>2. ASSUME NEW vaa \in Inbound, Ask(vaa) PROVE PlansInv'
  <2> DEFINE answer == Resolution(vaa, discovered[vaa])
  <2>1. /\ discovered' = discovered
        /\ \/ plan' = plan
           \/ /\ answer.kind = "resolved"
              /\ plan' = [plan EXCEPT ![vaa] = answer.ptb]
    BY <1>2 DEF Ask
  <2>2. CASE answer.kind = "resolved" /\ plan' = [plan EXCEPT ![vaa] = answer.ptb]
    <3>1. /\ PendingLookups(discovered[vaa]) = {}
          /\ answer.ptb = RedemptionPtb(discovered[vaa])
      BY <2>2 DEF Resolution
    <3>2. Complete(discovered[vaa])
      BY <3>1 DEF PendingLookups, Complete, Lookups, Upgradable
    <3>3. /\ plan'[vaa] = RedemptionPtb(discovered[vaa])
          /\ \A v \in Inbound : v # vaa => plan'[v] = plan[v]
          /\ plan' = [v \in Inbound |-> plan'[v]]
      BY <2>2, <3>1 DEF PlansInv
    <3>4. QED
      BY <2>1, <3>2, <3>3 DEF PlansInv
  <2>3. QED
    BY <1>1, <2>1, <2>2
<1>3. ASSUME NEW vaa \in Inbound, SubmitFails(vaa) PROVE PlansInv'
  <2>1. /\ plan' = [plan EXCEPT ![vaa] = NoPlan]
        /\ discovered' = [discovered EXCEPT ![vaa] = Nothing]
    BY <1>3 DEF SubmitFails
  <2>2. /\ plan'[vaa] = NoPlan /\ discovered'[vaa] = Nothing
        /\ \A v \in Inbound : v # vaa => /\ plan'[v] = plan[v]
                                         /\ discovered'[v] = discovered[v]
        /\ plan' = [v \in Inbound |-> plan'[v]]
        /\ discovered' = [v \in Inbound |-> discovered'[v]]
    BY <2>1 DEF PlansInv
  <2>3. Found(vaa, Nothing)
    BY DEF Found, Nothing, Lookups
  <2>4. QED
    BY <2>2, <2>3 DEF PlansInv
<1>4. ASSUME NEW vaa \in Inbound, NEW key \in Lookups, Discover(vaa, key)
      PROVE  PlansInv'
  <2>1. /\ discovered' = [discovered EXCEPT ![vaa][key] = OnChain(vaa, key)]
        /\ plan' = plan
    BY <1>4 DEF Discover
  <2>2. /\ discovered'[vaa]
             = [discovered[vaa] EXCEPT ![key] = OnChain(vaa, key)]
        /\ \A v \in Inbound : v # vaa => discovered'[v] = discovered[v]
        /\ discovered' = [v \in Inbound |-> discovered'[v]]
    BY <2>1 DEF PlansInv
  <2>3. Found(vaa, discovered'[vaa])
    <3>1. Found(vaa, discovered[vaa])
      BY DEF PlansInv
    <3>2. Found(vaa, [discovered[vaa] EXCEPT ![key] = OnChain(vaa, key)])
      BY <3>1, LookupFinds
    <3>3. QED
      BY <2>2, <3>2
  <2>4. QED
    BY <2>1, <2>2, <2>3 DEF PlansInv
<1>5. QED
  BY <1>1, <1>2, <1>3, <1>4
  DEF ResolverNext, Submit, Upgrade, resolverVars, allVars

-----------------------------------------------------------------------------
(* The theorems.                                                           *)

\* Whatever was upgraded, registered or redeemed between two look-ups or after
\* the last, a transaction the resolver returned is well typed, passes on what
\* cannot be dropped, calls discovered packages and pays in the message's coin.
THEOREM TransactionsRun == ResolverSpec => []PlansRun
<1>1. ResolverInit => PlansInv
  BY DEF ResolverInit, PlansInv, Found, Nothing, Lookups
<1>2. PlansInv => PlansRun
  BY PtbRuns DEF PlansInv, PlansRun
<1>3. QED
  BY <1>1, <1>2, PlansKept, PTL DEF ResolverSpec

\* The resolver and its executor do nothing on chain that the package does not
\* allow everybody: all that is proved of the package holds beside them.
THEOREM ProgramKept == ResolverSpec => Spec
<1>1. ResolverInit => Init
  BY DEF ResolverInit
<1>2. ASSUME [ResolverNext]_allVars PROVE [Next]_vars
  <2>1. ASSUME NEW vaa \in Inbound, Submit(vaa) PROVE Next
    <3>1. Redeem(executor, vaa, vaa.coin)
      BY <2>1 DEF Submit, Redeem, RedeemCoin, Authorized
    <3>2. executor \in Users /\ vaa.coin \in CoinTypes
      BY SuiAssumption, ResolverAssumption
    <3>3. QED
      BY <3>1, <3>2 DEF Next
  <2>2. QED
    BY <1>2, <2>1
    DEF ResolverNext, Ask, SubmitFails, Discover, Upgrade, allVars
<1>3. QED
  BY <1>1, <1>2, PTL DEF ResolverSpec, Spec
=============================================================================
