----------------------------- MODULE SvmProofs ------------------------------
(***************************************************************************)
(* Proofs about SvmRelayer and SvmResolver, for any users, mints,          *)
(* decimals, rents, fees, amounts, messages and slots of a lookup table.   *)
(***************************************************************************)
EXTENDS SvmResolver, TokenAmountsProofs, Sums, FiniteSetTheorems,
        SequenceTheorems, TLAPS

-----------------------------------------------------------------------------
(* The inductive invariant.                                                *)

\* The bridge has not come to the next number yet.
Numbered == \A m \in messages : m.sequence < sequence

IInv == TypeOK /\ LutServes /\ Numbered /\ RelayRequested /\ PaidOnceInFull

-----------------------------------------------------------------------------
(* The temporary account.                                                  *)

LEMMA MintDecimals ==
  /\ \A t \in Mints : Decimals[t] \in Uint8
  /\ \A t \in Wrapped : Decimals[t] \in Uint8 /\ ~(Decimals[t] > 8)
BY SvmAssumption DEF Uint8

LEMMA OpenedType ==
  ASSUME TypeOK, NEW t \in Mints
  PROVE  /\ Opened(t) \in [lamports : Nat, amount : Nat]
         /\ Opened(t).lamports >= prefunded[t]
         /\ t # nativeMint => Opened(t).amount = 0
         /\ RentDue(t) \in Nat
<1>1. prefunded[t] \in Nat /\ TmpRent \in Nat
  BY SvmAssumption DEF TypeOK
<1>2. QED
  BY <1>1 DEF Opened, RentDue

LEMMA ReleasedType ==
  ASSUME NEW v \in Inbound
  PROVE  /\ v.token \in Mints /\ v.amount \in Nat
         /\ Released(v) \in Nat /\ RedeemAmount(v) = Released(v)
<1>1. v.token \in Mints /\ v.amount \in Nat /\ Decimals[v.token] \in Uint8
  BY SvmAssumption, MintDecimals
<1>2. Released(v) \in Nat
  BY <1>1, Units DEF Released
<1>3. CASE v.token \in Wrapped
  <2>1. ~(Decimals[v.token] > 8)
    BY <1>3, MintDecimals
  <2>2. QED
    BY <1>1, <1>2, <1>3, <2>1 DEF RedeemAmount, Released, denormalizeAmount
<1>4. CASE v.token \notin Wrapped
  BY <1>1, <1>2, <1>4 DEF RedeemAmount, Released
<1>5. QED
  BY <1>3, <1>4

\* What either inbound instruction leaves in the temporary account.
LEMMA LeftOverType ==
  ASSUME TypeOK, NEW v \in Inbound
  PROVE  /\ LeftOver(v).lamports \in Nat
         /\ v.token = nativeMint => LeftOver(v).lamports >= Released(v)
         /\ v.token # nativeMint => LeftOver(v).amount = 0
<1>1. /\ v.token \in Mints /\ Released(v) \in Nat
      /\ RedeemAmount(v) = Released(v)
  BY ReleasedType
<1>2. /\ Opened(v.token).lamports \in Nat /\ Opened(v.token).amount \in Nat
      /\ v.token # nativeMint => Opened(v.token).amount = 0
  BY <1>1, OpenedType
<1>3. CASE v.token = nativeMint
  BY <1>1, <1>2, <1>3 DEF LeftOver, Filled, Moved
<1>4. CASE v.token # nativeMint
  BY <1>1, <1>2, <1>4 DEF LeftOver, Filled, Moved
<1>5. QED
  BY <1>3, <1>4

\* An amount the bridge takes as a whole.
Whole(mint, amount) ==
  amount \in Nat /\ truncateAmount(amount, Decimals[mint]) = amount

LEMMA BridgedWhole ==
  ASSUME NEW t \in Mints, NEW a \in Nat
  PROVE  /\ Whole(t, BridgedAmount(t, a))
         /\ t \in Wrapped => Whole(t, a)
<1>1. Decimals[t] \in Uint8
  BY MintDecimals
<1>2. Whole(t, BridgedAmount(t, a))
  BY <1>1, Truncation DEF Whole, BridgedAmount
<1>3. ASSUME t \in Wrapped PROVE Whole(t, a)
  <2>1. ~(Decimals[t] > 8)
    BY <1>3, MintDecimals
  <2>2. QED
    BY <2>1 DEF Whole, truncateAmount, normalizeAmount, denormalizeAmount
<1>4. QED
  BY <1>2, <1>3

\* What either outbound instruction leaves there: what was found and the rent.
LEMMA EmptiedType ==
  ASSUME TypeOK, NEW t \in Mints, NEW a, Whole(t, a)
  PROVE  /\ Emptied(t, a).lamports = Opened(t).lamports
         /\ Emptied(t, a).amount = Opened(t).amount
         /\ Closable(Emptied(t, a), t)
<1>1. a \in Nat /\ truncateAmount(a, Decimals[t]) = a
  BY DEF Whole
<1>2. /\ Opened(t).lamports \in Nat /\ Opened(t).amount \in Nat
      /\ t # nativeMint => Opened(t).amount = 0
  BY OpenedType
<1>3. /\ Emptied(t, a).lamports = Opened(t).lamports
      /\ Emptied(t, a).amount = Opened(t).amount
  BY <1>1, <1>2 DEF Emptied, Moved
<1>4. QED
  BY <1>2, <1>3 DEF Closable

-----------------------------------------------------------------------------
(* What the steps of Next come down to for the ledgers: a transfer, a       *)
(* redemption, or neither.                                                  *)

SentWith(payer, mint, asked, amount, wrap, dst, exec) ==
  /\ Whole(mint, amount)
  /\ wrap => mint = nativeMint
  /\ SendThroughTmp(payer, mint, asked, amount, wrap, dst, exec, "Sequence")

Outbound ==
  \E payer \in Users, mint \in Mints, asked \in Amounts, amount \in Nat,
     wrap \in BOOLEAN, dst \in Destinations, exec \in ExecAmounts :
    SentWith(payer, mint, asked, amount, wrap, dst, exec)

Inward ==
  \E payer, recipient \in Users, vaa \in Inbound, mint \in Mints :
    RedeemThroughTmp(payer, vaa, mint, recipient)

Aside ==
  /\ UNCHANGED <<messages, requests, claims, payouts>>
  /\ sequence' \in {sequence, sequence + 1}

LEMMA SequenceAccount ==
  ASSUME NEW payer, NEW mint, NEW asked, NEW amount, NEW wrap, NEW dst,
         NEW exec, NEW account,
         SendThroughTmp(payer, mint, asked, amount, wrap, dst, exec, account)
  PROVE  account = "Sequence"
BY DEF SendThroughTmp, wormhole_sequence

LEMMA TransferOutbound ==
  ASSUME NEW payer \in Users, NEW mint \in Mints, NEW asked \in Amounts,
         NEW dst \in Destinations, NEW exec \in ExecAmounts,
         NEW account \in {"Sequence", "another"},
         \/ \E wrap \in BOOLEAN :
              TransferNative(payer, mint, asked, wrap, dst, exec, account)
         \/ TransferWrapped(payer, mint, asked, dst, exec, account)
  PROVE  Outbound
<1>1. asked \in Nat
  BY SvmAssumption
<1>2. ASSUME NEW wrap \in BOOLEAN,
             TransferNative(payer, mint, asked, wrap, dst, exec, account)
      PROVE  Outbound
  <2> DEFINE amount == BridgedAmount(mint, asked)
  <2>1. Whole(mint, amount) /\ amount \in Nat
    BY <1>1, BridgedWhole DEF Whole
  <2>2. account = "Sequence"
    BY <1>2, SequenceAccount DEF TransferNative
  <2>3. SentWith(payer, mint, asked, amount, wrap, dst, exec)
    BY <1>2, <2>1, <2>2 DEF TransferNative, SentWith
  <2>4. QED
    BY <2>1, <2>3 DEF Outbound
<1>3. ASSUME TransferWrapped(payer, mint, asked, dst, exec, account)
      PROVE  Outbound
  <2>1. Whole(mint, asked)
    BY <1>1, <1>3, BridgedWhole DEF TransferWrapped
  <2>2. account = "Sequence"
    BY <1>3, SequenceAccount DEF TransferWrapped
  <2>3. SentWith(payer, mint, asked, asked, FALSE, dst, exec)
    BY <1>3, <2>1, <2>2 DEF TransferWrapped, SentWith
  <2>4. QED
    BY <1>1, <2>3 DEF Outbound
<1>4. QED
  BY <1>2, <1>3

-----------------------------------------------------------------------------
(* Types.                                                                  *)

LEMMA HeldType ==
  ASSUME TypeOK, NEW u \in Users, NEW t \in Mints
  PROVE  Held(u, t) \in Nat /\ AtaRent(u, t) \in Nat
BY SvmAssumption DEF TypeOK, Held, AtaRent

LEMMA ReceivedType ==
  ASSUME TypeOK, NEW u \in Users, NEW t \in Mints, NEW n \in Int,
         Held(u, t) + n \in Nat
  PROVE  Received(u, t, n) \in [Users -> [Mints -> Nat \cup {NoAccount}]]
BY DEF TypeOK, Received

LEMMA OutboundType ==
  ASSUME TypeOK, NEW payer \in Users, NEW mint \in Mints, NEW asked \in Amounts,
         NEW amount \in Nat, NEW wrap \in BOOLEAN, NEW dst \in Destinations,
         NEW exec \in ExecAmounts,
         SentWith(payer, mint, asked, amount, wrap, dst, exec)
  PROVE  TypeOK'
<1> DEFINE outlay  == Outlay(payer, mint, amount, wrap)
           emptied == Emptied(mint, amount)
           bridged == truncateAmount(amount, Decimals[mint])
           left    == lamports[payer] - outlay + ReturnedToPayer(emptied) - exec
           units   == normalizeAmount(bridged, Decimals[mint])
           moved   == IF wrap THEN 0 ELSE -amount
           new     == [sequence |-> sequence, token |-> mint, dst |-> dst,
                       amount |-> units, payer |-> payer, asked |-> asked,
                       wrap |-> wrap]
           req     == RequestFor(Tracker("Sequence"), payer, dst, exec)
<1>1. /\ ~wrap => Held(payer, mint) >= amount
      /\ lamports[payer] - outlay + ReturnedToPayer(emptied) >= exec
      /\ lamports' = [lamports EXCEPT ![payer] =
                        @ - outlay + ReturnedToPayer(emptied) - exec]
      /\ tokens' = Received(payer, mint, moved)
      /\ prefunded' = [prefunded EXCEPT ![mint] = 0]
      /\ custody' = IF mint \in Wrapped THEN custody
                      ELSE [custody EXCEPT ![mint] = @ + bridged]
      /\ sequence' = sequence + 1
      /\ messages' = messages \cup {new}
      /\ requests' = requests \cup {req}
      /\ UNCHANGED <<lut, tables, attested, claims, payouts>>
  BY DEF SentWith, SendThroughTmp
<1>2. bridged = amount /\ units \in Nat
  BY MintDecimals, Units DEF SentWith, Whole
<1>3. /\ asked \in Nat /\ exec \in Nat /\ MessageFee \in Nat
      /\ sequence \in Nat
  BY SvmAssumption DEF TypeOK
<1>4. lamports[payer] \in Nat /\ outlay \in Nat /\ ReturnedToPayer(emptied) \in Nat
  BY <1>3, HeldType, OpenedType, EmptiedType
  DEF TypeOK, Outlay, ReturnedToPayer, SentWith
<1>5. new \in Message
  BY <1>2, <1>3 DEF Message
<1>6. req \in Request
  BY <1>3 DEF Request, RequestFor, Tracker
<1> HIDE DEF outlay, emptied, bridged, new, req, units
<1>7. lamports' \in [Users -> Nat]
  <2>1. left \in Nat
    BY <1>1, <1>3, <1>4
  <2>2. QED
    BY <1>1, <2>1 DEF TypeOK
<1>8. tokens' \in [Users -> [Mints -> Nat \cup {NoAccount}]]
  <2>1. moved \in Int /\ Held(payer, mint) + moved \in Nat
    BY <1>1, HeldType
  <2>2. QED
    BY <1>1, <2>1, ReceivedType
<1>9. custody' \in [Mints -> Nat] /\ prefunded' \in [Mints -> Nat]
  BY <1>1, <1>2 DEF TypeOK
<1>10. QED
  BY <1>1, <1>3, <1>5, <1>6, <1>7, <1>8, <1>9 DEF TypeOK

LEMMA InwardType ==
  ASSUME TypeOK, NEW payer \in Users, NEW recipient \in Users,
         NEW vaa \in Inbound, NEW mint \in Mints,
         RedeemThroughTmp(payer, vaa, mint, recipient)
  PROVE  TypeOK'
<1> DEFINE outlay == RentDue(mint) + AtaRent(recipient, mint)
           close  == mint = nativeMint
           paid   == [lamports EXCEPT ![payer] = @ - outlay]
           come   == IF close THEN 0 ELSE RedeemAmount(vaa)
           payout == [vaa |-> vaa, to |-> recipient, sol |-> close,
                      mint |-> mint,
                      amount |-> IF close THEN LeftOver(vaa).lamports
                                          ELSE RedeemAmount(vaa)]
<1>1. /\ mint = vaa.token
      /\ lamports[payer] >= outlay
      /\ vaa.token \notin Wrapped => custody[vaa.token] >= Released(vaa)
      /\ lamports' = [paid EXCEPT ![IF close THEN recipient ELSE payer] =
                        @ + LeftOver(vaa).lamports]
      /\ tokens' = Received(recipient, mint, come)
      /\ prefunded' = [prefunded EXCEPT ![mint] = 0]
      /\ custody' = IF mint \in Wrapped THEN custody
                      ELSE [custody EXCEPT ![mint] = @ - Released(vaa)]
      /\ claims' = claims \cup {vaa}
      /\ payouts' = payouts \cup {payout}
      /\ UNCHANGED <<lut, tables, attested, sequence, messages, requests>>
  BY DEF RedeemThroughTmp, CanRedeem
<1>2. /\ Released(vaa) \in Nat /\ RedeemAmount(vaa) \in Nat
      /\ LeftOver(vaa).lamports \in Nat
  BY ReleasedType, LeftOverType
<1>3. payout \in Payout
  BY <1>2 DEF Payout
<1>4. outlay \in Nat
  BY HeldType, OpenedType
<1> HIDE DEF outlay, close, payout
<1>5. paid \in [Users -> Nat]
  BY <1>1, <1>4 DEF TypeOK
<1>6. lamports' \in [Users -> Nat]
  BY <1>1, <1>2, <1>5
<1>7. tokens' \in [Users -> [Mints -> Nat \cup {NoAccount}]]
  <2>1. come \in Int /\ Held(recipient, mint) + come \in Nat
    BY <1>2, HeldType
  <2>2. QED
    BY <1>1, <2>1, ReceivedType
<1>8. custody' \in [Mints -> Nat] /\ prefunded' \in [Mints -> Nat]
  BY <1>1, <1>2 DEF TypeOK
<1>9. QED
  BY <1>1, <1>3, <1>6, <1>7, <1>8 DEF TypeOK

\* Every other step.
OtherStep ==
  \/ \E slot \in Slots : Initialize(slot) \/ CreateTable(slot)
  \/ \E user \in Users, mint \in Mints, n \in 1..MaxPrefund :
       Prefund(user, mint, n)
  \/ \E mint \in Wrapped : Attest(mint)
  \/ OthersPublish
  \/ UNCHANGED vars

LEMMA StepForms ==
  ASSUME [Next]_vars PROVE Outbound \/ Inward \/ OtherStep
<1>1. ASSUME NEW payer \in Users, NEW mint \in Mints, NEW asked \in Amounts,
             NEW dst \in Destinations, NEW exec \in ExecAmounts,
             NEW account \in {"Sequence", "another"},
             \/ \E wrap \in BOOLEAN :
                  TransferNative(payer, mint, asked, wrap, dst, exec, account)
             \/ TransferWrapped(payer, mint, asked, dst, exec, account)
      PROVE  Outbound
  BY <1>1, TransferOutbound
<1>2. ASSUME NEW payer \in Users, NEW recipient \in Users, NEW vaa \in Inbound,
             NEW mint \in Mints,
             \/ CompleteNative(payer, vaa, mint, recipient)
             \/ CompleteWrapped(payer, vaa, mint, recipient)
      PROVE  Inward
  BY <1>2 DEF CompleteNative, CompleteWrapped, Inward
<1>3. QED
  BY <1>1, <1>2 DEF Next, OtherStep

LEMMA OtherType ==
  ASSUME TypeOK, LutServes, OtherStep
  PROVE  TypeOK' /\ LutServes' /\ Aside
<1>1. ASSUME NEW slot \in Slots, Initialize(slot)
      PROVE  TypeOK' /\ LutServes' /\ Aside
  <2>1. Extended(slot) = Entries
    BY DEF Extended, TypeOK
  <2>2. tables' = [tables EXCEPT ![slot] = Entries] /\ lut' = slot
    BY <1>1, <2>1 DEF Initialize
  <2>3. tables' \in [Slots -> (SUBSET Entries) \cup {NoTable}]
    BY <2>2 DEF TypeOK
  <2>4. TypeOK'
    BY <1>1, <2>2, <2>3 DEF Initialize, TypeOK
  <2>5. LutServes' /\ Aside
    BY <1>1, <2>2 DEF Initialize, LutServes, Aside, TypeOK
  <2>6. QED
    BY <2>4, <2>5
<1>2. ASSUME NEW slot \in Slots, CreateTable(slot)
      PROVE  TypeOK' /\ LutServes' /\ Aside
  <2>1. Initialized => slot # lut
    BY <1>2, TableAssumption DEF CreateTable, LutServes
  <2>2. TypeOK'
    BY <1>2 DEF CreateTable, TypeOK
  <2>3. LutServes'
    BY <1>2, <2>1 DEF CreateTable, LutServes, Initialized, TypeOK
  <2>4. QED
    BY <1>2, <2>2, <2>3 DEF CreateTable, Aside
<1>3. ASSUME NEW user \in Users, NEW mint \in Mints, NEW n \in 1..MaxPrefund,
             Prefund(user, mint, n)
      PROVE  TypeOK' /\ LutServes' /\ Aside
  <2>1. n \in Nat /\ lamports[user] >= n
    BY <1>3, SvmAssumption DEF Prefund
  <2>2. TypeOK'
    BY <1>3, <2>1 DEF Prefund, TypeOK
  <2>3. QED
    BY <1>3, <2>2 DEF Prefund, Aside, LutServes, Initialized
<1>4. ASSUME NEW mint \in Wrapped, Attest(mint)
      PROVE  TypeOK' /\ LutServes' /\ Aside
  BY <1>4 DEF Attest, TypeOK, Aside, LutServes, Initialized
<1>5. CASE OthersPublish
  BY <1>5 DEF OthersPublish, TypeOK, Aside, LutServes, Initialized
<1>6. CASE UNCHANGED vars
  BY <1>6 DEF vars, TypeOK, Aside, LutServes, Initialized
<1>7. QED
  BY <1>1, <1>2, <1>3, <1>4, <1>5, <1>6 DEF OtherStep

-----------------------------------------------------------------------------
(* The ledgers.                                                            *)

\* A transfer adds one message and the request for it, both under the number
\* the bridge had come to.
LEMMA OutboundLedgers ==
  ASSUME TypeOK, Outbound
  PROVE  \E new \in Message, req \in Request :
           /\ new.sequence = sequence /\ req.sequence = sequence
           /\ req.refund = new.payer
           /\ req.targetChain = new.dst.targetChain
           /\ req.dstExecutionAddress = new.dst.dstExecutionAddress
           /\ sequence' = sequence + 1
           /\ messages' = messages \cup {new}
           /\ requests' = requests \cup {req}
           /\ UNCHANGED <<lut, tables, claims, payouts>>
<1>1. PICK payer \in Users, mint \in Mints, asked \in Amounts, amount \in Nat,
           wrap \in BOOLEAN, dst \in Destinations, exec \in ExecAmounts :
         SentWith(payer, mint, asked, amount, wrap, dst, exec)
  BY DEF Outbound
<1> DEFINE new == [sequence |-> sequence, token |-> mint, dst |-> dst,
                   amount |-> normalizeAmount(
                                truncateAmount(amount, Decimals[mint]),
                                Decimals[mint]),
                   payer |-> payer, asked |-> asked, wrap |-> wrap]
           req == RequestFor(Tracker("Sequence"), payer, dst, exec)
<1>2. asked \in Nat /\ exec \in Nat /\ sequence \in Nat
  BY SvmAssumption DEF TypeOK
<1>3. truncateAmount(amount, Decimals[mint]) = amount
  BY <1>1 DEF SentWith, Whole
<1>4. new \in Message
  BY <1>2, <1>3, MintDecimals, Units DEF Message
<1>5. req \in Request
  BY <1>2 DEF Request, RequestFor, Tracker
<1>6. /\ new.sequence = sequence /\ req.sequence = sequence
      /\ req.refund = new.payer
      /\ req.targetChain = new.dst.targetChain
      /\ req.dstExecutionAddress = new.dst.dstExecutionAddress
  BY <1>2 DEF RequestFor, Tracker
<1>7. /\ sequence' = sequence + 1
      /\ messages' = messages \cup {new}
      /\ requests' = requests \cup {req}
      /\ UNCHANGED <<lut, tables, claims, payouts>>
  BY <1>1 DEF SentWith, SendThroughTmp
<1> HIDE DEF new, req
<1>8. QED
  BY <1>4, <1>5, <1>6, <1>7

\* A redemption claims a message nobody has claimed and pays it out once, to
\* the recipient it names.
LEMMA InwardLedgers ==
  ASSUME TypeOK, Inward
  PROVE  \E vaa \in Inbound, payout \in Payout :
           /\ vaa \notin claims
           /\ payout.vaa = vaa /\ payout.to = vaa.recipient
           /\ payout.mint = vaa.token /\ payout.amount >= Released(vaa)
           /\ claims' = claims \cup {vaa}
           /\ payouts' = payouts \cup {payout}
           /\ UNCHANGED <<lut, tables, sequence, messages, requests>>
<1>1. PICK payer \in Users, recipient \in Users, vaa \in Inbound,
           mint \in Mints : RedeemThroughTmp(payer, vaa, mint, recipient)
  BY DEF Inward
<1> DEFINE close == mint = nativeMint
           out == [vaa |-> vaa, to |-> recipient, sol |-> close,
                   mint |-> mint,
                   amount |-> IF close THEN LeftOver(vaa).lamports
                                       ELSE RedeemAmount(vaa)]
<1>2. /\ vaa \notin claims /\ recipient = vaa.recipient /\ mint = vaa.token
      /\ claims' = claims \cup {vaa}
      /\ payouts' = payouts \cup {out}
      /\ UNCHANGED <<lut, tables, sequence, messages, requests>>
  BY <1>1 DEF RedeemThroughTmp, CanRedeem, RecipientAgrees
<1>3. /\ Released(vaa) \in Nat /\ RedeemAmount(vaa) = Released(vaa)
      /\ LeftOver(vaa).lamports \in Nat
      /\ vaa.token = nativeMint => LeftOver(vaa).lamports >= Released(vaa)
  BY ReleasedType, LeftOverType
<1>4. out \in Payout
  BY <1>3 DEF Payout
<1>5. /\ out.vaa = vaa /\ out.to = vaa.recipient /\ out.mint = vaa.token
      /\ out.amount >= Released(vaa)
  BY <1>2, <1>3
<1> HIDE DEF out
<1>6. QED
  BY <1>2, <1>4, <1>5

LEMMA OutboundKeeps ==
  ASSUME IInv, Outbound
  PROVE  IInv'
<1>1. TypeOK'
  BY OutboundType DEF IInv, Outbound, SentWith
<1>2. PICK new \in Message, req \in Request :
           /\ new.sequence = sequence /\ req.sequence = sequence
           /\ req.refund = new.payer
           /\ req.targetChain = new.dst.targetChain
           /\ req.dstExecutionAddress = new.dst.dstExecutionAddress
           /\ sequence' = sequence + 1
           /\ messages' = messages \cup {new}
           /\ requests' = requests \cup {req}
           /\ UNCHANGED <<lut, tables, claims, payouts>>
  BY OutboundLedgers DEF IInv
<1>3. sequence \in Nat /\ \A m \in messages : m.sequence \in Nat
  BY DEF IInv, TypeOK, Message
<1>4. Numbered'
  BY <1>2, <1>3 DEF IInv, Numbered
<1>5. /\ \A m \in messages : m.sequence # sequence
      /\ \A r \in requests : r.sequence # sequence
  BY <1>3 DEF IInv, Numbered, RelayRequested
<1>6. RelayRequested'
  BY <1>2, <1>5 DEF IInv, RelayRequested
<1>7. LutServes' /\ PaidOnceInFull'
  BY <1>2 DEF IInv, LutServes, Initialized, PaidOnceInFull, Released
<1>8. QED
  BY <1>1, <1>4, <1>6, <1>7 DEF IInv

LEMMA InwardKeeps ==
  ASSUME IInv, Inward
  PROVE  IInv'
<1>1. TypeOK'
  BY InwardType DEF IInv, Inward
<1>2. PICK vaa \in Inbound, payout \in Payout :
           /\ vaa \notin claims
           /\ payout.vaa = vaa /\ payout.to = vaa.recipient
           /\ payout.mint = vaa.token /\ payout.amount >= Released(vaa)
           /\ claims' = claims \cup {vaa}
           /\ payouts' = payouts \cup {payout}
           /\ UNCHANGED <<lut, tables, sequence, messages, requests>>
  BY InwardLedgers DEF IInv
<1>3. LutServes' /\ Numbered' /\ RelayRequested'
  BY <1>2 DEF IInv, LutServes, Initialized, Numbered, RelayRequested
<1>4. \A p \in payouts : p.vaa # vaa
  BY <1>2 DEF IInv, PaidOnceInFull
<1>5. PaidOnceInFull'
  BY <1>2, <1>4 DEF IInv, PaidOnceInFull, Released
<1>6. QED
  BY <1>1, <1>3, <1>5 DEF IInv

LEMMA OtherKeeps ==
  ASSUME IInv, OtherStep
  PROVE  IInv'
<1>1. TypeOK' /\ LutServes' /\ Aside
  BY OtherType DEF IInv
<1>2. sequence \in Nat /\ \A m \in messages : m.sequence \in Nat
  BY DEF IInv, TypeOK, Message
<1>3. Numbered'
  BY <1>1, <1>2 DEF IInv, Numbered, Aside
<1>4. RelayRequested' /\ PaidOnceInFull'
  BY <1>1 DEF IInv, Aside, RelayRequested, PaidOnceInFull, Released
<1>5. QED
  BY <1>1, <1>3, <1>4 DEF IInv

LEMMA InitInvariant == Init => IInv
<1> SUFFICES ASSUME Init PROVE IInv
  OBVIOUS
<1>1. TypeOK
  BY SvmAssumption DEF Init, TypeOK
<1>2. LutServes /\ Numbered /\ RelayRequested /\ PaidOnceInFull
  BY DEF Init, LutServes, Initialized, Numbered, RelayRequested,
         PaidOnceInFull
<1>3. QED
  BY <1>1, <1>2 DEF IInv

LEMMA Invariant == Spec => []IInv
<1>1. IInv /\ [Next]_vars => IInv'
  BY StepForms, OutboundKeeps, InwardKeeps, OtherKeeps
<1>2. QED
  BY <1>1, InitInvariant, PTL DEF Spec

-----------------------------------------------------------------------------
(* The theorems on states.                                                 *)

\* Every variable has its type: no instruction overdraws a wallet, a token
\* account or the bridge's custody.
THEOREM TypeCorrect == Spec => []TypeOK
<1>1. IInv => TypeOK
  BY DEF IInv
<1>2. QED
  BY <1>1, Invariant, PTL

\* Whichever slot initialize is given, and whoever created a table there
\* before, the table the LUT account points to holds the program's entries and
\* nothing else.
THEOREM TableServes == Spec => []LutServes
<1>1. IInv => LutServes
  BY DEF IInv
<1>2. QED
  BY <1>1, Invariant, PTL

\* Every request names one message and every message has one request, for its
\* destination and refunding its payer.
THEOREM RequestsMatch == Spec => []RelayRequested
<1>1. IInv => RelayRequested
  BY DEF IInv
<1>2. QED
  BY <1>1, Invariant, PTL

\* A completed message was paid once, to the recipient it names, in full.
THEOREM PaysOnce == Spec => []PaidOnceInFull
<1>1. IInv => PaidOnceInFull
  BY DEF IInv
<1>2. QED
  BY <1>1, Invariant, PTL

-----------------------------------------------------------------------------
(* What a transfer costs.                                                  *)

LEMMA SentCharges ==
  ASSUME TypeOK, NEW payer \in Users, NEW mint \in Mints, NEW asked \in Amounts,
         NEW amount \in Nat, NEW wrap \in BOOLEAN, NEW dst \in Destinations,
         NEW exec \in ExecAmounts,
         SentWith(payer, mint, asked, amount, wrap, dst, exec),
         NEW m \in messages' \ messages, NEW r \in requests' \ requests
  PROVE  lamports'[m.payer] =
           lamports[m.payer] + prefunded[m.token]
           - (IF m.wrap THEN Carried(m) ELSE 0)
           - MessageFee - r.payment - AtaRent(m.payer, m.token)
<1> DEFINE units == normalizeAmount(truncateAmount(amount, Decimals[mint]),
                                    Decimals[mint])
           emptied == Emptied(mint, amount)
<1>1. /\ m = [sequence |-> sequence, token |-> mint, dst |-> dst,
              amount |-> units, payer |-> payer, asked |-> asked,
              wrap |-> wrap]
      /\ r = RequestFor(Tracker("Sequence"), payer, dst, exec)
      /\ lamports' = [lamports EXCEPT ![payer] =
                        @ - Outlay(payer, mint, amount, wrap)
                          + ReturnedToPayer(emptied) - exec]
  BY DEF SentWith, SendThroughTmp
<1>2. truncateAmount(amount, Decimals[mint]) = amount
  BY DEF SentWith, Whole
<1>3. /\ m.payer = payer /\ m.token = mint /\ m.wrap = wrap
      /\ r.payment = exec /\ Carried(m) = amount
  BY <1>1, <1>2 DEF Carried, RequestFor, truncateAmount
<1>4. /\ Opened(mint).lamports \in Nat /\ prefunded[mint] \in Nat
      /\ lamports[payer] \in Nat /\ AtaRent(payer, mint) \in Nat
      /\ exec \in Nat /\ MessageFee \in Nat
  BY SvmAssumption, OpenedType, HeldType DEF TypeOK
<1>5. ReturnedToPayer(emptied) = Opened(mint).lamports
  BY EmptiedType DEF ReturnedToPayer, SentWith
<1>6. Outlay(payer, mint, amount, wrap) =
        Opened(mint).lamports - prefunded[mint] + AtaRent(payer, mint)
        + (IF wrap THEN amount ELSE 0) + MessageFee
  BY DEF Outlay, RentDue
<1>7. lamports'[payer] =
        lamports[payer] - Outlay(payer, mint, amount, wrap)
        + Opened(mint).lamports - exec
  BY <1>1, <1>5 DEF TypeOK
<1> HIDE DEF units, emptied
<1>8. CASE wrap
  BY <1>3, <1>4, <1>6, <1>7, <1>8
<1>9. CASE ~wrap
  BY <1>3, <1>4, <1>6, <1>7, <1>9
<1>10. QED
  BY <1>8, <1>9

Charged ==
  \A m \in messages' \ messages, r \in requests' \ requests :
    lamports'[m.payer] =
      lamports[m.payer] + prefunded[m.token]
      - (IF m.wrap THEN Carried(m) ELSE 0)
      - MessageFee - r.payment - AtaRent(m.payer, m.token)

LEMMA StepCharges ==
  ASSUME IInv, [Next]_vars
  PROVE  Charged
<1>1. CASE Outbound
  BY <1>1, SentCharges DEF IInv, Outbound, Charged
<1>2. CASE Inward
  BY <1>2, InwardLedgers DEF IInv, Charged
<1>3. CASE OtherStep
  BY <1>3, OtherType DEF IInv, Aside, Charged
<1>4. QED
  BY <1>1, <1>2, <1>3, StepForms

\* A transfer costs its payer the message fee, the Executor's payment, SOL it
\* wraps and at most the rent of its own token account: the temporary account
\* costs nothing, and whatever lay at its address comes to the payer.
THEOREM TransferCharged == Spec => ChargedAsAsked
<1>1. IInv /\ [Next]_vars => Charged
  BY StepCharges
<1>2. QED
  BY <1>1, Invariant, PTL DEF Spec, ChargedAsAsked, Charged

-----------------------------------------------------------------------------
(* The program keeps the promises of Shim.                                 *)

\* In every state the ledgers of Shim pair up.
Paired ==
  /\ {Asked(r) : r \in requests} = {Announced(m) : m \in messages}
  /\ {PaidTo(p) : p \in payouts} = {Promise!PayoutOf(v) : v \in claims}

LEMMA LedgersPair ==
  ASSUME RelayRequested, PaidOnceInFull
  PROVE  Paired
<1>1. ASSUME NEW m \in messages
      PROVE  \E r \in requests : Asked(r) = Announced(m)
  BY DEF RelayRequested, Asked, Announced
<1>2. ASSUME NEW r \in requests
      PROVE  \E m \in messages : Asked(r) = Announced(m)
  <2>1. PICK m \in messages : m.sequence = r.sequence
    BY DEF RelayRequested
  <2>2. PICK q \in requests : q.sequence = m.sequence /\ Asked(q) = Announced(m)
    BY DEF RelayRequested, Asked, Announced
  <2>3. q = r
    BY <2>1, <2>2 DEF RelayRequested
  <2>4. QED
    BY <2>2, <2>3
<1>3. ASSUME NEW p \in payouts
      PROVE  \E v \in claims : PaidTo(p) = Promise!PayoutOf(v)
  BY DEF PaidOnceInFull, PaidTo, Promise!PayoutOf
<1>4. ASSUME NEW v \in claims
      PROVE  \E p \in payouts : PaidTo(p) = Promise!PayoutOf(v)
  BY DEF PaidOnceInFull, PaidTo, Promise!PayoutOf
<1>5. {Asked(r) : r \in requests} = {Announced(m) : m \in messages}
  BY <1>1, <1>2
<1>6. {PaidTo(p) : p \in payouts} = {Promise!PayoutOf(v) : v \in claims}
  BY <1>3, <1>4
<1>7. QED
  BY <1>5, <1>6 DEF Paired

\* Every step adds to the ledgers, messages under the bridge's number.
LEMMA StepAdds ==
  ASSUME IInv, [Next]_vars
  PROVE  /\ messages \subseteq messages' /\ claims \subseteq claims'
         /\ \A m \in messages' \ messages : m.sequence = sequence
<1>1. CASE Outbound
  BY <1>1, OutboundLedgers DEF IInv
<1>2. CASE Inward
  BY <1>2, InwardLedgers DEF IInv
<1>3. CASE OtherStep
  BY <1>3, OtherType DEF IInv, Aside
<1>4. QED
  BY <1>1, <1>2, <1>3, StepForms

LEMMA ShimStep ==
  ASSUME IInv, IInv', Paired, Paired', [Next]_vars
  PROVE  Promise!Next
<1> DEFINE Pub(ms) == {Announced(m) : m \in ms}
           Paid(vs) == {Promise!PayoutOf(v) : v \in vs}
           new  == Pub(messages') \ Pub(messages)
           done == claims' \ claims
<1>1. /\ messages \subseteq messages' /\ claims \subseteq claims'
      /\ \A m \in messages' \ messages : m.sequence = sequence
  BY StepAdds
<1>2. \A m \in new, old \in Pub(messages) : old.sequence < m.sequence
  <2> SUFFICES ASSUME NEW n \in messages', NEW o \in messages,
                      n \notin messages
               PROVE  Announced(o).sequence < Announced(n).sequence
    OBVIOUS
  <2>1. o.sequence < sequence /\ n.sequence = sequence
    BY <1>1 DEF IInv, Numbered
  <2>2. QED
    BY <2>1 DEF Announced
<1>3. \A m1, m2 \in new : m1.sequence = m2.sequence => m1 = m2
  <2> SUFFICES ASSUME NEW n1 \in messages', NEW n2 \in messages',
                      Announced(n1).sequence = Announced(n2).sequence
               PROVE  Announced(n1) = Announced(n2)
    OBVIOUS
  <2>1. n1.sequence = n2.sequence
    BY DEF Announced
  <2>2. QED
    BY <2>1 DEF IInv, RelayRequested
<1>4. Pub(messages) \subseteq Pub(messages')
  BY <1>1
<1>5. Pub(messages') = Pub(messages) \cup new
  BY <1>4
<1>6. claims' = claims \cup done
  BY <1>1
<1>7. Paid(claims') = Paid(claims) \cup Paid(done)
  BY <1>6
<1>8. /\ {Asked(r) : r \in requests} = Pub(messages)
      /\ {PaidTo(p) : p \in payouts} = Paid(claims)
  BY DEF Paired
<1>9. /\ {Asked(r) : r \in requests'} = Pub(messages')
      /\ {PaidTo(p) : p \in payouts'} = Paid(claims')
  BY DEF Paired
<1>10. QED
  BY <1>2, <1>3, <1>5, <1>6, <1>7, <1>8, <1>9
  DEF Promise!Next, Promise!Commit

\* The program implements Shim: an instruction publishes a fresh transfer with
\* its one request, or completes a message with its one payout to the
\* recipient it names, or does neither.
THEOREM ShimImplemented == Spec => ImplementsShim
<1>1. Init => Promise!Init
  BY DEF Init, Promise!Init
<1>2. IInv => Paired
  BY LedgersPair DEF IInv
<1>3. IInv /\ IInv' /\ Paired /\ Paired' /\ [Next]_vars
        => [Promise!Next]_(Promise!shimVars)
  BY ShimStep
<1>4. QED
  BY <1>1, <1>2, <1>3, Invariant, PTL DEF Spec, ImplementsShim, Promise!Spec

-----------------------------------------------------------------------------
(* The books: TokensAccounted.                                             *)

Finite == IsFiniteSet(messages) /\ IsFiniteSet(claims) /\ IsFiniteSet(payouts)

\* The totals of TokensAccounted, by what they add up.
CarriedBy(ms)   == Sum(ms, Carried)
ReleasedFor(vs) == Sum(vs, Released)
AmountsOf(ps)   == Sum(ps, LAMBDA p : p.amount)

Got(u, t)    == {p \in payouts : p.to = u /\ p.mint = t /\ ~p.sol}
Sent(u, t)   == {m \in messages : m.payer = u /\ m.token = t /\ ~m.wrap}
Departed(t)  == {m \in messages : m.token = t}
Claimed(t)   == {v \in claims : v.token = t}

\* What a user's token account held at the start.
Opening(t) == IF Purse[t] = NoAccount THEN 0 ELSE Purse[t]

Purses ==
  \A t \in Mints, u \in Users :
    Held(u, t) = Opening(t) + AmountsOf(Got(u, t)) - CarriedBy(Sent(u, t))

\* Nothing but messages for this program is claimed.
ForUs == \A v \in claims : Addressed(v)

Vault ==
  \A t \in Mints \ Wrapped :
    custody[t] = Custody[t] + CarriedBy(Departed(t)) - ReleasedFor(Claimed(t))

LEMMA BooksKept == TokensAccounted <=> Purses /\ Vault
BY DEF TokensAccounted, Purses, Vault, CarriedBy, ReleasedFor, AmountsOf,
       Sent, Departed, Got, Claimed, Opening

LEMMA CarriedType == \A m \in Message : Carried(m) \in Nat
BY MintDecimals, Units DEF Carried, Message

LEMMA CarriedNat ==
  ASSUME NEW ms \in SUBSET Message, IsFiniteSet(ms)
  PROVE  CarriedBy(ms) \in Nat
<1> DEFINE f == [x \in ms |-> Carried(x)]
<1>1. \A x \in ms : f[x] \in Nat
  BY CarriedType
<1>2. CarriedBy(ms) = SumFunctionOnSet(f, ms)
  BY DEF CarriedBy, Sum
<1> HIDE DEF f
<1>3. QED
  BY <1>1, <1>2, SumNat

LEMMA ReleasedInt ==
  ASSUME NEW vs \in SUBSET Inbound, IsFiniteSet(vs)
  PROVE  ReleasedFor(vs) \in Int
<1> DEFINE f == [x \in vs |-> Released(x)]
<1>1. \A x \in vs : f[x] \in Int
  BY ReleasedType
<1>2. ReleasedFor(vs) = SumFunctionOnSet(f, vs)
  BY DEF ReleasedFor, Sum
<1> HIDE DEF f
<1>3. QED
  BY <1>1, <1>2, SumInt

LEMMA AmountsInt ==
  ASSUME NEW ps \in SUBSET Payout, IsFiniteSet(ps)
  PROVE  AmountsOf(ps) \in Int
<1> DEFINE f == [x \in ps |-> x.amount]
<1>1. \A x \in ps : f[x] \in Int
  BY DEF Payout
<1>2. AmountsOf(ps) = SumFunctionOnSet(f, ps)
  BY DEF AmountsOf, Sum
<1> HIDE DEF f
<1>3. QED
  BY <1>1, <1>2, SumInt

\* What one more adds to each total.
LEMMA CarriedAdds ==
  ASSUME NEW ms \in SUBSET Message, IsFiniteSet(ms),
         NEW m \in Message, m \notin ms
  PROVE  CarriedBy(ms \cup {m}) = CarriedBy(ms) + Carried(m)
<1> DEFINE f == [x \in ms |-> Carried(x)]
           g == [x \in ms \cup {m} |-> Carried(x)]
           T == ms \cup {m}
<1>1. /\ \A x \in T : g[x] \in Int
      /\ \A x \in ms : f[x] = g[x]
      /\ g[m] = Carried(m)
  BY CarriedType
<1>2. CarriedBy(ms) = SumFunctionOnSet(f, ms)
  BY DEF CarriedBy, Sum
<1>3. CarriedBy(ms \cup {m}) = SumFunctionOnSet(g, T)
  BY DEF CarriedBy, Sum
<1>4. T = ms \cup {m}
  OBVIOUS
<1> HIDE DEF f, g, T
<1>5. SumFunctionOnSet(g, T) = SumFunctionOnSet(f, ms) + g[m]
  BY <1>1, <1>4, SumAdds
<1>6. QED
  BY <1>1, <1>2, <1>3, <1>4, <1>5

LEMMA ReleasedAdds ==
  ASSUME NEW vs \in SUBSET Inbound, IsFiniteSet(vs),
         NEW v \in Inbound, v \notin vs
  PROVE  ReleasedFor(vs \cup {v}) = ReleasedFor(vs) + Released(v)
<1> DEFINE f == [x \in vs |-> Released(x)]
           g == [x \in vs \cup {v} |-> Released(x)]
           T == vs \cup {v}
<1>1. /\ \A x \in T : g[x] \in Int
      /\ \A x \in vs : f[x] = g[x]
      /\ g[v] = Released(v)
  BY ReleasedType
<1>2. ReleasedFor(vs) = SumFunctionOnSet(f, vs)
  BY DEF ReleasedFor, Sum
<1>3. ReleasedFor(vs \cup {v}) = SumFunctionOnSet(g, T)
  BY DEF ReleasedFor, Sum
<1>4. T = vs \cup {v}
  OBVIOUS
<1> HIDE DEF f, g, T
<1>5. /\ SumFunctionOnSet(f, vs) \in Int
      /\ SumFunctionOnSet(g, T) = SumFunctionOnSet(f, vs) + g[v]
  BY <1>1, <1>4, SumAdds
<1>6. QED
  BY <1>1, <1>2, <1>3, <1>4, <1>5

LEMMA AmountsAdd ==
  ASSUME NEW ps \in SUBSET Payout, IsFiniteSet(ps),
         NEW p \in Payout, p \notin ps
  PROVE  AmountsOf(ps \cup {p}) = AmountsOf(ps) + p.amount
<1> DEFINE f == [x \in ps |-> x.amount]
           g == [x \in ps \cup {p} |-> x.amount]
           T == ps \cup {p}
<1>1. /\ \A x \in T : g[x] \in Int
      /\ \A x \in ps : f[x] = g[x]
      /\ g[p] = p.amount
  BY DEF Payout
<1>2. AmountsOf(ps) = SumFunctionOnSet(f, ps)
  BY DEF AmountsOf, Sum
<1>3. AmountsOf(ps \cup {p}) = SumFunctionOnSet(g, T)
  BY DEF AmountsOf, Sum
<1>4. T = ps \cup {p}
  OBVIOUS
<1> HIDE DEF f, g, T
<1>5. SumFunctionOnSet(g, T) = SumFunctionOnSet(f, ps) + g[p]
  BY <1>1, <1>4, SumAdds
<1>6. QED
  BY <1>1, <1>2, <1>3, <1>4, <1>5

\* The totals of a state are integers.
LEMMA TotalsType ==
  ASSUME TypeOK, Finite, NEW u, NEW t
  PROVE  /\ Got(u, t) \in SUBSET Payout /\ IsFiniteSet(Got(u, t))
         /\ Sent(u, t) \in SUBSET Message /\ IsFiniteSet(Sent(u, t))
         /\ Departed(t) \in SUBSET Message /\ IsFiniteSet(Departed(t))
         /\ Claimed(t) \in SUBSET Inbound /\ IsFiniteSet(Claimed(t))
         /\ AmountsOf(Got(u, t)) \in Int /\ CarriedBy(Sent(u, t)) \in Int
         /\ CarriedBy(Departed(t)) \in Int /\ ReleasedFor(Claimed(t)) \in Int
<1>1. /\ Got(u, t) \in SUBSET Payout /\ IsFiniteSet(Got(u, t))
      /\ Sent(u, t) \in SUBSET Message /\ IsFiniteSet(Sent(u, t))
      /\ Departed(t) \in SUBSET Message /\ IsFiniteSet(Departed(t))
      /\ Claimed(t) \in SUBSET Inbound /\ IsFiniteSet(Claimed(t))
  BY FS_Subset DEF TypeOK, Finite, Got, Sent, Departed, Claimed
<1>2. QED
  BY <1>1, AmountsInt, CarriedNat, ReleasedInt

LEMMA HeldAfter ==
  ASSUME TypeOK, NEW user \in Users, NEW mint \in Mints, NEW n \in Int,
         tokens' = Received(user, mint, n), Held(user, mint) + n \in Nat,
         NEW u \in Users, NEW t \in Mints
  PROVE  Held(u, t)' = Held(u, t) + IF u = user /\ t = mint THEN n ELSE 0
<1>1. /\ tokens \in [Users -> [Mints -> Nat \cup {NoAccount}]]
      /\ NoAccount \notin Nat /\ Held(u, t) \in Nat
  BY SvmAssumption, HeldType DEF TypeOK
<1> DEFINE now == Held(user, mint) + n
<1>2. tokens' = [tokens EXCEPT ![user][mint] = now] /\ now \in Nat
  BY DEF Received
<1> HIDE DEF now
<1>3. CASE u = user /\ t = mint
  <2>1. tokens'[u][t] = now
    BY <1>1, <1>2, <1>3
  <2>2. QED
    BY <1>1, <1>2, <1>3, <2>1 DEF Held, now
<1>4. CASE ~(u = user /\ t = mint)
  <2>1. tokens'[u][t] = tokens[u][t]
    BY <1>1, <1>2, <1>4
  <2>2. QED
    BY <1>1, <1>4, <2>1 DEF Held
<1>5. QED
  BY <1>3, <1>4

\* What a transfer moves: its message carries all that left the account.
LEMMA OutboundEffect ==
  ASSUME TypeOK, TypeOK', Outbound
  PROVE  \E payer \in Users, mint \in Mints, amount \in Nat,
            wrap \in BOOLEAN, new \in Message :
           /\ new.sequence = sequence /\ new.token = mint
           /\ new.payer = payer /\ new.wrap = wrap
           /\ Carried(new) = amount
           /\ messages' = messages \cup {new}
           /\ ~wrap => Held(payer, mint) >= amount
           /\ tokens' = Received(payer, mint, IF wrap THEN 0 ELSE -amount)
           /\ custody' = IF mint \in Wrapped THEN custody
                           ELSE [custody EXCEPT ![mint] = @ + amount]
           /\ UNCHANGED <<claims, payouts>>
<1>1. PICK payer \in Users, mint \in Mints, asked \in Amounts, amount \in Nat,
           wrap \in BOOLEAN, dst \in Destinations, exec \in ExecAmounts :
         SentWith(payer, mint, asked, amount, wrap, dst, exec)
  BY DEF Outbound
<1> DEFINE new == [sequence |-> sequence, token |-> mint, dst |-> dst,
                   amount |-> normalizeAmount(amount, Decimals[mint]),
                   payer |-> payer, asked |-> asked, wrap |-> wrap]
<1>2. truncateAmount(amount, Decimals[mint]) = amount
  BY <1>1 DEF SentWith, Whole
<1>3. /\ messages' = messages \cup {new}
      /\ ~wrap => Held(payer, mint) >= amount
      /\ tokens' = Received(payer, mint, IF wrap THEN 0 ELSE -amount)
      /\ custody' = IF mint \in Wrapped THEN custody
                      ELSE [custody EXCEPT ![mint] = @ + amount]
      /\ UNCHANGED <<claims, payouts>>
  BY <1>1, <1>2 DEF SentWith, SendThroughTmp
<1>4. Carried(new) = amount
  BY <1>2 DEF Carried, truncateAmount
<1>5. /\ new.sequence = sequence /\ new.token = mint
      /\ new.payer = payer /\ new.wrap = wrap
  OBVIOUS
<1> HIDE DEF new
<1>6. new \in Message
  BY <1>3 DEF TypeOK
<1>7. QED
  BY <1>3, <1>4, <1>5, <1>6

LEMMA OutboundBooks ==
  ASSUME IInv, Finite, Purses, Vault, ForUs, Outbound
  PROVE  Finite' /\ Purses' /\ Vault' /\ ForUs'
<1>1. TypeOK /\ TypeOK'
  BY OutboundKeeps DEF IInv
<1>2. PICK payer \in Users, mint \in Mints, amount \in Nat,
           wrap \in BOOLEAN, new \in Message :
        /\ new.sequence = sequence /\ new.token = mint
        /\ new.payer = payer /\ new.wrap = wrap
        /\ Carried(new) = amount
        /\ messages' = messages \cup {new}
        /\ ~wrap => Held(payer, mint) >= amount
        /\ tokens' = Received(payer, mint, IF wrap THEN 0 ELSE -amount)
        /\ custody' = IF mint \in Wrapped THEN custody
                        ELSE [custody EXCEPT ![mint] = @ + amount]
        /\ UNCHANGED <<claims, payouts>>
  BY <1>1, OutboundEffect
<1>3. new \in Message
  OBVIOUS
<1>4. new \notin messages
  <2>1. sequence \in Nat
    BY <1>1 DEF TypeOK
  <2>2. QED
    BY <1>2, <2>1 DEF IInv, Numbered
<1>5. Finite'
  BY <1>2, FS_AddElement DEF Finite
<1>6. ASSUME NEW u \in Users, NEW t \in Mints
      PROVE  CarriedBy(Sent(u, t)') = CarriedBy(Sent(u, t))
               + IF u = payer /\ t = mint /\ ~wrap THEN amount ELSE 0
  <2>1. /\ Sent(u, t) \in SUBSET Message /\ IsFiniteSet(Sent(u, t))
        /\ CarriedBy(Sent(u, t)) \in Int
    BY <1>1, TotalsType
  <2>2. new \notin Sent(u, t)
    BY <1>4 DEF Sent
  <2>3. CASE u = payer /\ t = mint /\ ~wrap
    <3>1. Sent(u, t)' = Sent(u, t) \cup {new}
      BY <1>2, <2>3 DEF Sent
    <3>2. QED
      BY <1>2, <1>3, <2>1, <2>2, <2>3, <3>1, CarriedAdds
  <2>4. CASE ~(u = payer /\ t = mint /\ ~wrap)
    <3>1. Sent(u, t)' = Sent(u, t)
      BY <1>2, <2>4 DEF Sent
    <3>2. QED
      BY <2>1, <2>4, <3>1
  <2>5. QED
    BY <2>3, <2>4
<1>7. ASSUME NEW t \in Mints
      PROVE  CarriedBy(Departed(t)') = CarriedBy(Departed(t))
               + IF t = mint THEN amount ELSE 0
  <2>1. /\ Departed(t) \in SUBSET Message /\ IsFiniteSet(Departed(t))
        /\ CarriedBy(Departed(t)) \in Int
    BY <1>1, TotalsType
  <2>2. new \notin Departed(t)
    BY <1>4 DEF Departed
  <2>3. CASE t = mint
    <3>1. Departed(t)' = Departed(t) \cup {new}
      BY <1>2, <2>3 DEF Departed
    <3>2. QED
      BY <1>2, <1>3, <2>1, <2>2, <2>3, <3>1, CarriedAdds
  <2>4. CASE t # mint
    <3>1. Departed(t)' = Departed(t)
      BY <1>2, <2>4 DEF Departed
    <3>2. QED
      BY <2>1, <2>4, <3>1
  <2>5. QED
    BY <2>3, <2>4
<1>8. Purses'
  <2> SUFFICES ASSUME NEW t \in Mints, NEW u \in Users
               PROVE  Held(u, t)' = Opening(t) + AmountsOf(Got(u, t))
                                    - CarriedBy(Sent(u, t)')
    BY <1>2 DEF Purses, Got, Opening
  <2> DEFINE n == IF wrap THEN 0 ELSE -amount
  <2>1. n \in Int /\ Held(payer, mint) + n \in Nat
    BY <1>1, <1>2, HeldType
  <2>2. tokens' = Received(payer, mint, n)
    BY <1>2
  <2>3. /\ n = IF wrap THEN 0 ELSE -amount
        /\ wrap \in BOOLEAN
    OBVIOUS
  <2> HIDE DEF n
  <2>4. Held(u, t)' = Held(u, t) + IF u = payer /\ t = mint THEN n ELSE 0
    BY <1>1, <2>1, <2>2, HeldAfter
  <2>5. Held(u, t) = Opening(t) + AmountsOf(Got(u, t)) - CarriedBy(Sent(u, t))
    BY DEF Purses
  <2>6. /\ AmountsOf(Got(u, t)) \in Int /\ CarriedBy(Sent(u, t)) \in Int
        /\ Opening(t) \in Int
    BY <1>1, TotalsType, SvmAssumption DEF Opening
  <2>7. QED
    BY <1>6, <2>1, <2>3, <2>4, <2>5, <2>6
<1>9. Vault'
  <2> SUFFICES ASSUME NEW t \in Mints \ Wrapped
               PROVE  custody'[t] = Custody[t] + CarriedBy(Departed(t)')
                                    - ReleasedFor(Claimed(t))
    BY <1>2 DEF Vault, Claimed
  <2>1. custody'[t] = custody[t] + IF t = mint THEN amount ELSE 0
    BY <1>1, <1>2 DEF TypeOK
  <2>2. custody[t] = Custody[t] + CarriedBy(Departed(t)) - ReleasedFor(Claimed(t))
    BY DEF Vault
  <2>3. /\ Custody[t] \in Int /\ CarriedBy(Departed(t)) \in Int
        /\ ReleasedFor(Claimed(t)) \in Int
    BY <1>1, TotalsType, SvmAssumption
  <2>4. QED
    BY <1>7, <2>1, <2>2, <2>3
<1>10. ForUs'
  BY <1>2 DEF ForUs, Addressed
<1>11. QED
  BY <1>5, <1>8, <1>9, <1>10

\* What a redemption moves: tokens into the recipient's account unless they
\* are SOL, in which case the account itself goes to the recipient.
LEMMA InwardEffect ==
  ASSUME TypeOK, TypeOK', Inward
  PROVE  \E vaa \in Inbound, mint \in Mints, user \in Users, out \in Payout :
           /\ vaa \notin claims /\ mint = vaa.token /\ Addressed(vaa)
           /\ out.vaa = vaa /\ out.to = user /\ out.mint = mint
           /\ out.sol = (mint = nativeMint)
           /\ ~out.sol => out.amount = Released(vaa)
           /\ claims' = claims \cup {vaa}
           /\ payouts' = payouts \cup {out}
           /\ tokens' = Received(user, mint,
                                 IF out.sol THEN 0 ELSE Released(vaa))
           /\ custody' = IF mint \in Wrapped THEN custody
                           ELSE [custody EXCEPT ![mint] = @ - Released(vaa)]
           /\ UNCHANGED messages
<1>1. PICK payer \in Users, recipient \in Users, vaa \in Inbound,
           mint \in Mints : RedeemThroughTmp(payer, vaa, mint, recipient)
  BY DEF Inward
<1> DEFINE close == mint = nativeMint
           out == [vaa |-> vaa, to |-> recipient, sol |-> close,
                   mint |-> mint,
                   amount |-> IF close THEN LeftOver(vaa).lamports
                                       ELSE RedeemAmount(vaa)]
<1>2. RedeemAmount(vaa) = Released(vaa)
  BY ReleasedType
<1>3. /\ vaa \notin claims /\ mint = vaa.token /\ Addressed(vaa)
      /\ claims' = claims \cup {vaa}
      /\ payouts' = payouts \cup {out}
      /\ tokens' = Received(recipient, mint,
                            IF close THEN 0 ELSE Released(vaa))
      /\ custody' = IF mint \in Wrapped THEN custody
                      ELSE [custody EXCEPT ![mint] = @ - Released(vaa)]
      /\ UNCHANGED messages
  BY <1>1, <1>2 DEF RedeemThroughTmp, CanRedeem
<1>4. /\ out.vaa = vaa /\ out.to = recipient /\ out.mint = mint
      /\ out.sol = close
      /\ ~close => out.amount = Released(vaa)
  BY <1>2
<1> HIDE DEF out
<1>5. out \in Payout
  BY <1>3 DEF TypeOK
<1>6. QED
  BY <1>3, <1>4, <1>5

LEMMA InwardBooks ==
  ASSUME IInv, Finite, Purses, Vault, ForUs, Inward
  PROVE  Finite' /\ Purses' /\ Vault' /\ ForUs'
<1>1. TypeOK /\ TypeOK'
  BY InwardKeeps DEF IInv
<1>2. PICK vaa \in Inbound, mint \in Mints, user \in Users, out \in Payout :
        /\ vaa \notin claims /\ mint = vaa.token /\ Addressed(vaa)
        /\ out.vaa = vaa /\ out.to = user /\ out.mint = mint
        /\ out.sol = (mint = nativeMint)
        /\ ~out.sol => out.amount = Released(vaa)
        /\ claims' = claims \cup {vaa}
        /\ payouts' = payouts \cup {out}
        /\ tokens' = Received(user, mint, IF out.sol THEN 0 ELSE Released(vaa))
        /\ custody' = IF mint \in Wrapped THEN custody
                        ELSE [custody EXCEPT ![mint] = @ - Released(vaa)]
        /\ UNCHANGED messages
  BY <1>1, InwardEffect
<1>3. PICK n \in Nat : n = Released(vaa)
  BY ReleasedType
<1>4. out \notin payouts /\ out \in Payout
  BY <1>1, <1>2 DEF IInv, PaidOnceInFull, TypeOK
<1>5. Finite'
  BY <1>2, FS_AddElement DEF Finite
<1>6. ASSUME NEW u \in Users, NEW t \in Mints
      PROVE  AmountsOf(Got(u, t)') = AmountsOf(Got(u, t))
               + IF u = user /\ t = mint /\ ~out.sol THEN n ELSE 0
  <2>1. /\ Got(u, t) \in SUBSET Payout /\ IsFiniteSet(Got(u, t))
        /\ AmountsOf(Got(u, t)) \in Int
    BY <1>1, TotalsType
  <2>2. out \notin Got(u, t)
    BY <1>4 DEF Got
  <2>3. CASE u = user /\ t = mint /\ ~out.sol
    <3>1. Got(u, t)' = Got(u, t) \cup {out}
      BY <1>2, <2>3 DEF Got
    <3>2. QED
      BY <1>2, <1>3, <1>4, <2>1, <2>2, <2>3, <3>1, AmountsAdd
  <2>4. CASE ~(u = user /\ t = mint /\ ~out.sol)
    <3>1. Got(u, t)' = Got(u, t)
      BY <1>2, <2>4 DEF Got
    <3>2. QED
      BY <2>1, <2>4, <3>1
  <2>5. QED
    BY <2>3, <2>4
<1>7. ASSUME NEW t \in Mints
      PROVE  ReleasedFor(Claimed(t)') = ReleasedFor(Claimed(t))
               + IF t = mint THEN n ELSE 0
  <2>1. /\ Claimed(t) \in SUBSET Inbound /\ IsFiniteSet(Claimed(t))
        /\ ReleasedFor(Claimed(t)) \in Int
    BY <1>1, TotalsType
  <2>2. vaa \notin Claimed(t)
    BY <1>2 DEF Claimed
  <2>3. CASE t = mint
    <3>1. Claimed(t)' = Claimed(t) \cup {vaa}
      BY <1>2, <2>3 DEF Claimed
    <3>2. QED
      BY <1>3, <2>1, <2>2, <2>3, <3>1, ReleasedAdds
  <2>4. CASE t # mint
    <3>1. Claimed(t)' = Claimed(t)
      BY <1>2, <2>4 DEF Claimed
    <3>2. QED
      BY <2>1, <2>4, <3>1
  <2>5. QED
    BY <2>3, <2>4
<1>8. Purses'
  <2> SUFFICES ASSUME NEW t \in Mints, NEW u \in Users
               PROVE  Held(u, t)' = Opening(t) + AmountsOf(Got(u, t)')
                                    - CarriedBy(Sent(u, t))
    BY <1>2 DEF Purses, Sent, Opening
  <2> DEFINE come == IF out.sol THEN 0 ELSE n
  <2>1. come \in Int /\ Held(user, mint) + come \in Nat
    BY <1>1, HeldType
  <2>2. tokens' = Received(user, mint, come)
    BY <1>2, <1>3
  <2>3. come = IF out.sol THEN 0 ELSE n
    OBVIOUS
  <2> HIDE DEF come
  <2>4. Held(u, t)' = Held(u, t) + IF u = user /\ t = mint THEN come ELSE 0
    BY <1>1, <2>1, <2>2, HeldAfter
  <2>5. Held(u, t) = Opening(t) + AmountsOf(Got(u, t)) - CarriedBy(Sent(u, t))
    BY DEF Purses
  <2>6. /\ AmountsOf(Got(u, t)) \in Int /\ CarriedBy(Sent(u, t)) \in Int
        /\ Opening(t) \in Int
    BY <1>1, TotalsType, SvmAssumption DEF Opening
  <2>7. QED
    BY <1>6, <2>1, <2>3, <2>4, <2>5, <2>6
<1>9. Vault'
  <2> SUFFICES ASSUME NEW t \in Mints \ Wrapped
               PROVE  custody'[t] = Custody[t] + CarriedBy(Departed(t))
                                    - ReleasedFor(Claimed(t)')
    BY <1>2 DEF Vault, Departed
  <2>1. custody'[t] = custody[t] - IF t = mint THEN n ELSE 0
    BY <1>1, <1>2, <1>3 DEF TypeOK
  <2>2. custody[t] = Custody[t] + CarriedBy(Departed(t)) - ReleasedFor(Claimed(t))
    BY DEF Vault
  <2>3. /\ Custody[t] \in Int /\ CarriedBy(Departed(t)) \in Int
        /\ ReleasedFor(Claimed(t)) \in Int
    BY <1>1, TotalsType, SvmAssumption
  <2>4. QED
    BY <1>7, <2>1, <2>2, <2>3
<1>10. ForUs'
  BY <1>2 DEF ForUs, Addressed
<1>11. QED
  BY <1>5, <1>8, <1>9, <1>10

\* The books are kept, the ledgers stay finite.
LEMMA BooksInvariant == Spec => [](Finite /\ Purses /\ Vault /\ ForUs)
<1>1. Init => Finite /\ Purses /\ Vault /\ ForUs
  <2> SUFFICES ASSUME Init PROVE Finite /\ Purses /\ Vault /\ ForUs
    OBVIOUS
  <2>1. Finite
    BY FS_EmptySet DEF Init, Finite
  <2>2. \A u, t : /\ Sent(u, t) = {} /\ Got(u, t) = {}
                  /\ Claimed(t) = {} /\ Departed(t) = {}
    BY DEF Init, Sent, Got, Claimed, Departed
  <2>3. CarriedBy({}) = 0 /\ ReleasedFor({}) = 0 /\ AmountsOf({}) = 0
    BY SumEmpty DEF CarriedBy, ReleasedFor, AmountsOf, Sum
  <2>4. \A u \in Users, t \in Mints : Held(u, t) = Opening(t)
    BY DEF Init, Held, Opening
  <2>5. \A t \in Mints : /\ Opening(t) \in Nat /\ Custody[t] \in Nat
                         /\ custody[t] = Custody[t]
    BY SvmAssumption DEF Init, Opening
  <2>6. Purses
    <3> SUFFICES ASSUME NEW t \in Mints, NEW u \in Users
                 PROVE  Held(u, t) = Opening(t) + AmountsOf(Got(u, t))
                                     - CarriedBy(Sent(u, t))
      BY DEF Purses
    <3>1. AmountsOf(Got(u, t)) = 0 /\ CarriedBy(Sent(u, t)) = 0
      BY <2>2, <2>3
    <3>2. QED
      BY <2>4, <2>5, <3>1
  <2>7. Vault
    BY <2>2, <2>3, <2>5 DEF Vault
  <2>8. ForUs
    BY DEF Init, ForUs
  <2>9. QED
    BY <2>1, <2>6, <2>7, <2>8
<1>2. IInv /\ Finite /\ Purses /\ Vault /\ ForUs /\ [Next]_vars
        => (Finite /\ Purses /\ Vault /\ ForUs)'
  <2> SUFFICES ASSUME IInv, Finite, Purses, Vault, ForUs, [Next]_vars
               PROVE  (Finite /\ Purses /\ Vault /\ ForUs)'
    OBVIOUS
  <2>1. CASE Outbound
    BY <2>1, OutboundBooks
  <2>2. CASE Inward
    BY <2>2, InwardBooks
  <2>3. CASE OtherStep
    <3>1. UNCHANGED <<tokens, custody, messages, claims, payouts>>
      BY <2>3 DEF OtherStep, Initialize, CreateTable, Prefund, Attest,
                  OthersPublish, vars
    <3>2. QED
      BY <3>1 DEF Finite, Purses, Vault, ForUs, CarriedBy, ReleasedFor, AmountsOf,
                  Sent, Got, Claimed, Departed, Held, Opening, Sum,
                  Addressed
  <2>4. QED
    BY <2>1, <2>2, <2>3, StepForms
<1>3. QED
  BY <1>1, <1>2, Invariant, PTL DEF Spec

\* No token is lost, created or left behind: what a user holds is what it
\* started with, was paid and did not send, and the bridge holds the rest.
THEOREM TokensAddUp == Spec => []TokensAccounted
BY BooksInvariant, BooksKept, PTL

-----------------------------------------------------------------------------
(* Nothing stands in the way of a transfer or of a redemption.             *)

\* The transfers have the rights for the calls they make.
LEMMA TransfersMayCall ==
  ASSUME NEW wrap \in BOOLEAN
  PROVE  MayTransferNative[wrap] /\ MayTransferWrapped
<1>1. Permitted(TransferNativeWithRelay, transfer_native_tokens_with_relay(wrap))
  BY DEF Permitted, TransferNativeWithRelay, transfer_native_tokens_with_relay,
     BothTransfers, InitAta, InitTmp, Fill, Approve, CloseAccount,
     TransferChecked, transfer_native_with_payload, request_for_execution, Call
<1>2. MayTransferWrapped
  BY DEF Permitted, TransferWrappedWithRelay, transfer_wrapped_tokens_with_relay,
     BothTransfers, InitTmp, Fill, Approve, CloseAccount, TransferChecked,
     transfer_wrapped_with_payload, request_for_execution, Call,
     MayTransferWrapped
<1>3. QED
  BY <1>1, <1>2 DEF MayTransferNative

\* So have the completions.
LEMMA CompletionsMayCall ==
  ASSUME NEW unwrap \in BOOLEAN
  PROVE  MayCompleteNative[unwrap] /\ MayCompleteWrapped
<1>1. Permitted(CompleteNativeWithRelay,
                complete_native_transfer_with_relay(unwrap))
  BY DEF Permitted, CompleteNativeWithRelay, BothCompletions,
     complete_native_transfer_with_relay, InitAta, InitTmp, CloseAccount,
     redeem_token, TransferChecked, complete_transfer_native_with_payload, Call
<1>2. MayCompleteWrapped
  BY DEF Permitted, CompleteWrappedWithRelay, BothCompletions,
     complete_wrapped_transfer_with_relay, InitAta, InitTmp, CloseAccount,
     redeem_token, TransferChecked, complete_transfer_wrapped_with_payload,
     Call, MayCompleteWrapped
<1>3. QED
  BY <1>1, <1>2 DEF MayCompleteNative

\* The bridge still holds what the messages not yet redeemed release.
Solvent ==
  \A v \in Inbound \ claims :
    v.token \notin Wrapped /\ Addressed(v) => custody[v.token] >= Released(v)

\* It does by the books: what was claimed and v are part of what it has to back.
LEMMA StaysSolvent ==
  ASSUME TypeOK, Finite, Vault, ForUs
  PROVE  Solvent
<1> SUFFICES ASSUME NEW v \in Inbound \ claims, v.token \notin Wrapped,
                    Addressed(v)
             PROVE  custody[v.token] >= Released(v)
  BY DEF Solvent
<1> DEFINE t    == v.token
           all  == {w \in Inbound : Addressed(w) /\ w.token = t}
           some == Claimed(t) \cup {v}
           f    == [w \in all |-> Released(w)]
           g    == [w \in some |-> Released(w)]
<1>1. t \in Mints \ Wrapped
  BY SvmAssumption
<1>2. some \in SUBSET all
  BY DEF Claimed, ForUs, TypeOK
<1>3. IsFiniteSet(all) /\ IsFiniteSet(some)
  <2>1. IsFiniteSet(all)
    BY BackingAssumption, FS_Subset
  <2>2. QED
    BY <1>2, <2>1, FS_Subset
<1>4. Custody[t] >= SumFunctionOnSet(f, all) /\ Custody[t] \in Nat
  BY <1>1, BackingAssumption, SvmAssumption DEF Sum
<1>5. ReleasedFor(some) = SumFunctionOnSet(g, some)
  BY DEF ReleasedFor, Sum
<1>6. /\ \A w \in all : f[w] \in Nat
      /\ \A w \in some : f[w] = g[w]
  BY <1>2, ReleasedType
<1>7. /\ ReleasedFor(Claimed(t)) \in Int /\ CarriedBy(Departed(t)) \in Nat
      /\ ReleasedFor(some) = ReleasedFor(Claimed(t)) + Released(v)
  <2>1. /\ Claimed(t) \in SUBSET Inbound /\ IsFiniteSet(Claimed(t))
        /\ ReleasedFor(Claimed(t)) \in Int
        /\ Departed(t) \in SUBSET Message /\ IsFiniteSet(Departed(t))
    BY TotalsType
  <2>2. v \notin Claimed(t)
    BY DEF Claimed
  <2>3. QED
    BY <2>1, <2>2, ReleasedAdds, CarriedNat
<1>8. custody[t] = Custody[t] + CarriedBy(Departed(t)) - ReleasedFor(Claimed(t))
  BY <1>1 DEF Vault
<1>9. Released(v) \in Nat
  BY ReleasedType
<1>10. t = v.token
  OBVIOUS
<1> HIDE DEF t, all, some, f, g
<1>11. /\ SumFunctionOnSet(f, some) = SumFunctionOnSet(g, some)
       /\ SumFunctionOnSet(f, some) <= SumFunctionOnSet(f, all)
       /\ SumFunctionOnSet(f, all) \in Nat
  BY <1>2, <1>3, <1>6, SumSame, SumGrows, SumNat
<1>12. ReleasedFor(some) <= Custody[t] /\ ReleasedFor(some) \in Int
  <2>1. ReleasedFor(some) \in Int
    BY <1>7, <1>9
  <2>2. PICK x \in Int : x = ReleasedFor(some)
    BY <2>1
  <2>3. PICK y \in Nat : y = SumFunctionOnSet(f, all)
    BY <1>11
  <2>4. PICK z \in Nat : z = Custody[t]
    BY <1>4
  <2>5. x <= y
    BY <1>5, <1>11, <2>2, <2>3
  <2>6. z >= y
    BY <1>4, <2>3, <2>4
  <2>7. x <= z
    BY <2>5, <2>6
  <2>8. QED
    BY <2>1, <2>2, <2>4, <2>7
<1>13. custody[t] >= Released(v)
  <2>1. PICK held \in Int, came \in Nat, went \in Int, n \in Nat :
          /\ held = Custody[t] /\ came = CarriedBy(Departed(t))
          /\ went = ReleasedFor(Claimed(t)) /\ n = Released(v)
    BY <1>4, <1>7, <1>9
  <2>2. went + n <= held
    BY <1>7, <1>12, <2>1
  <2>3. held + came - went >= n
    BY <2>2
  <2>4. QED
    BY <1>8, <2>1, <2>3
<1>14. QED
  BY <1>10, <1>13

LEMMA AmountsLeave ==
  ASSUME TypeOK, NEW t \in Mints, NEW a \in Amounts, NEW wrap \in BOOLEAN
  PROVE  /\ TransferMayCall(t, wrap)
         /\ Closable(Emptied(t, IF t \in Wrapped THEN a
                                  ELSE BridgedAmount(t, a)), t)
<1>1. TransferMayCall(t, wrap)
  BY TransfersMayCall DEF TransferMayCall
<1>2. a \in Nat
  BY SvmAssumption
<1>3. CASE t \in Wrapped
  BY <1>1, <1>2, <1>3, BridgedWhole, EmptiedType
<1>4. CASE t \notin Wrapped
  BY <1>1, <1>2, <1>4, BridgedWhole, EmptiedType
<1>5. QED
  BY <1>3, <1>4

LEMMA MessageRedeemable ==
  ASSUME TypeOK, Solvent, NEW v \in Inbound \ claims,
         Initialized, Exists(v.token), Addressed(v)
  PROVE  CanRedeem(v)
<1>1. v.token \in Mints
  BY SvmAssumption
<1>2. Closable(LeftOver(v), v.token)
  BY LeftOverType DEF Closable
<1>3. CompletionMayCall(v)
  BY CompletionsMayCall DEF CompletionMayCall
<1>4. QED
  BY <1>1, <1>2, <1>3 DEF CanRedeem, Solvent

\* No lamports sent to a temporary account, no earlier transfer or redemption
\* and no missing right stops the next transfer or redemption, and the bridge
\* does not run out of what they release.
THEOREM NobodyBlocks == Spec => []NothingBlocked
<1>1. IInv /\ Finite /\ Purses /\ Vault /\ ForUs => NothingBlocked
  BY AmountsLeave, MessageRedeemable, StaysSolvent DEF IInv, NothingBlocked
<1>2. QED
  BY <1>1, Invariant, BooksInvariant, PTL

-----------------------------------------------------------------------------
(* The resolver.                                                           *)

\* What is resolved: the accounts the resolver lists for the instruction, and
\* a table that holds the program's entries.
Planned(v) ==
  /\ plan[v].table \in Slots /\ tables[plan[v].table] = Entries
  /\ plan[v].program \in {Static("Token"), Static("System")}
  /\ plan[v].accounts =
       IF plan[v].native THEN NativeAccounts(v, v.token, plan[v].program)
                         ELSE WrappedAccounts(v, v.token, plan[v].program)

PlansInv ==
  /\ plan = [v \in Inbound |-> plan[v]]
  /\ \A v \in Inbound : plan[v] # NoPlan => Planned(v)

-----------------------------------------------------------------------------
(* On chain the executor does nothing the program does not allow everybody. *)

LEMMA ProgramStep ==
  ASSUME [ResolverNext]_<<vars, resolverVars>>
  PROVE  [Next]_vars
<1>1. ASSUME NEW vaa \in Inbound, Resolve(vaa) PROVE [Next]_vars
  BY <1>1 DEF Resolve
<1>2. ASSUME NEW vaa \in Inbound, SubmitFails(vaa) PROVE [Next]_vars
  BY <1>2 DEF SubmitFails
<1>3. ASSUME NEW vaa \in Inbound, Submit(vaa) PROVE [Next]_vars
  <2>1. \/ CompleteNative(executor, vaa, vaa.token, vaa.recipient)
        \/ CompleteWrapped(executor, vaa, vaa.token, vaa.recipient)
    BY <1>3 DEF Submit
  <2>2. vaa.recipient # Malformed
    BY <2>1 DEF CompleteNative, CompleteWrapped, RedeemThroughTmp, CanRedeem,
                Addressed
  <2>3. executor \in Users /\ vaa.recipient \in Users /\ vaa.token \in Mints
    BY <2>2, SvmAssumption, ResolverAssumption
  <2>4. QED
    BY <2>1, <2>3 DEF Next
<1>4. QED
  BY <1>1, <1>2, <1>3 DEF ResolverNext

\* A table that holds the entries keeps them.
LEMMA TablesKept ==
  ASSUME TypeOK, [Next]_vars, NEW s \in Slots, tables[s] = Entries
  PROVE  tables'[s] = Entries
<1>1. CASE Outbound
  BY <1>1, OutboundLedgers
<1>2. CASE Inward
  BY <1>2, InwardLedgers
<1>3. CASE OtherStep
  <2>1. ASSUME NEW slot \in Slots, Initialize(slot)
        PROVE  tables'[s] = Entries
    <3>1. Extended(slot) = Entries
      BY DEF Extended, TypeOK
    <3>2. QED
      BY <2>1, <3>1 DEF Initialize, TypeOK
  <2>2. ASSUME NEW slot \in Slots, CreateTable(slot)
        PROVE  tables'[s] = Entries
    BY <2>2, TableAssumption DEF CreateTable, TypeOK
  <2>3. QED
    BY <1>3, <2>1, <2>2 DEF OtherStep, Prefund, Attest, OthersPublish, vars
<1>4. QED
  BY <1>1, <1>2, <1>3, StepForms

-----------------------------------------------------------------------------
(* Plans.                                                                  *)

LEMMA ResolvedIsPlanned ==
  ASSUME IInv, PlansInv, NEW vaa \in Inbound, Resolve(vaa)
  PROVE  PlansInv'
<1> DEFINE answer == Resolution(vaa, known[vaa])
<1>1. plan' = plan \/ plan' = [plan EXCEPT ![vaa] = answer]
  BY DEF Resolve, resolverVars
<1>2. tables' = tables
  BY DEF Resolve, vars
<1>3. CASE plan' = plan
  BY <1>2, <1>3 DEF PlansInv, Planned, NativeAccounts, WrappedAccounts, Programs
<1>4. CASE plan' = [plan EXCEPT ![vaa] = answer] /\ answer.kind = "resolved"
  <2>1. /\ Initialized
        /\ answer = [kind |-> "resolved", native |-> Native(vaa), table |-> lut,
                     program |-> Owner(vaa.token),
                     accounts |->
                       IF Native(vaa)
                         THEN NativeAccounts(vaa, vaa.token, Owner(vaa.token))
                         ELSE WrappedAccounts(vaa, vaa.token, Owner(vaa.token))]
    BY <1>4 DEF Resolution
  <2>2. lut \in Slots /\ tables[lut] = Entries
    BY <2>1 DEF IInv, TypeOK, LutServes, Initialized
  <2>3. Owner(vaa.token) \in {Static("Token"), Static("System")}
    BY DEF Owner
  <2> HIDE DEF answer
  <2>4. plan'[vaa] = answer /\ \A v \in Inbound : v # vaa => plan'[v] = plan[v]
    BY <1>4 DEF PlansInv
  <2>5. Planned(vaa)'
    BY <1>2, <2>1, <2>2, <2>3, <2>4 DEF Planned
  <2>6. ASSUME NEW v \in Inbound, v # vaa, plan'[v] # NoPlan
        PROVE  Planned(v)'
    BY <1>2, <2>4, <2>6 DEF PlansInv, Planned
  <2>7. plan' = [v \in Inbound |-> plan'[v]]
    BY <1>4 DEF PlansInv
  <2>8. QED
    BY <2>5, <2>6, <2>7 DEF PlansInv
<1>5. QED
  BY <1>1, <1>3, <1>4 DEF Resolve, resolverVars

LEMMA PlansKept ==
  ASSUME IInv, PlansInv, [ResolverNext]_<<vars, resolverVars>>
  PROVE  PlansInv'
<1>1. \A s \in Slots : tables[s] = Entries => tables'[s] = Entries
  BY ProgramStep, TablesKept DEF IInv
<1>2. ASSUME plan' = plan PROVE PlansInv'
  BY <1>1, <1>2 DEF PlansInv, Planned
<1>3. ASSUME NEW vaa \in Inbound, Resolve(vaa) PROVE PlansInv'
  BY <1>3, ResolvedIsPlanned
<1>4. ASSUME NEW vaa \in Inbound, SubmitFails(vaa) PROVE PlansInv'
  <2>1. plan' = [plan EXCEPT ![vaa] = NoPlan]
    BY <1>4 DEF SubmitFails
  <2>2. /\ plan'[vaa] = NoPlan
        /\ \A v \in Inbound : v # vaa => plan'[v] = plan[v]
        /\ plan' = [v \in Inbound |-> plan'[v]]
    BY <2>1 DEF PlansInv
  <2>3. QED
    BY <1>1, <2>2 DEF PlansInv, Planned
<1>5. QED
  BY <1>2, <1>3, <1>4 DEF ResolverNext, Submit, resolverVars

LEMMA ResolverInvariant == ResolverSpec => [](IInv /\ PlansInv)
<1>1. ResolverInit => IInv /\ PlansInv
  BY InitInvariant DEF ResolverInit, PlansInv
<1>2. IInv /\ [ResolverNext]_<<vars, resolverVars>> => IInv'
  BY ProgramStep, StepForms, OutboundKeeps, InwardKeeps, OtherKeeps
<1>3. IInv /\ PlansInv /\ [ResolverNext]_<<vars, resolverVars>> => PlansInv'
  BY PlansKept
<1>4. QED
  BY <1>1, <1>2, <1>3, PTL DEF ResolverSpec

-----------------------------------------------------------------------------
(* The theorems.                                                           *)

LEMMA FitsConcat ==
  ASSUME NEW S, NEW a \in Seq(S), NEW b \in Seq(S), NEW p \in Seq(S),
         Fits(a, b)
  PROVE  Fits(a \o p, b \o p)
<1>1. Len(a) = Len(b) /\ Len(a) \in Nat /\ Len(p) \in Nat
  BY DEF Fits
<1>2. Len(a \o p) = Len(a) + Len(p) /\ Len(b \o p) = Len(a) + Len(p)
  BY <1>1
<1>3. ASSUME NEW i \in 1..Len(b \o p)
      PROVE  /\ (a \o p)[i].key = (b \o p)[i].key
             /\ (b \o p)[i].writable => (a \o p)[i].writable
  <2>1. CASE i <= Len(a)
    <3>1. (a \o p)[i] = a[i] /\ (b \o p)[i] = b[i] /\ i \in 1..Len(b)
      BY <1>1, <1>2, <2>1
    <3>2. QED
      BY <3>1 DEF Fits
  <2>2. CASE ~(i <= Len(a))
    <3>1. (a \o p)[i] = p[i - Len(a)] /\ (b \o p)[i] = p[i - Len(a)]
      BY <1>1, <1>2, <2>2
    <3>2. QED
      BY <3>1
  <2>3. QED
    BY <2>1, <2>2
<1>4. QED
  BY <1>2, <1>3 DEF Fits

\* The resolver asks for write access to the mint authority, which the program
\* does not need; everything else is as declared.
LEMMA AccountsFit ==
  ASSUME NEW v
  PROVE  /\ Fits(NativeAccounts(v, v.token, Static("Token")), NativeLayout(v))
         /\ Fits(WrappedAccounts(v, v.token, Static("Token")), WrappedLayout(v))
<1>1. NativeAccounts(v, v.token, Static("Token")) = NativeLayout(v)
  BY DEF NativeAccounts, NativeLayout
<1>2. Fits(NativeLayout(v), NativeLayout(v))
  BY DEF Fits
<1> DEFINE mint  == v.token
           token == Static("Token")
           front(last) ==
             << W(Of("payer", v)), R(Static("redeemer")), W(Of("mint", mint)),
                W(Ata(v.recipient, mint, token)), W(Of("user", v.recipient)),
                W(Of("tmp", mint)), R(Of("meta", mint)), R(Static("config")),
                R(Of("posted", v)), W(Of("claim", v)), R(Of("endpoint", v)),
                last >>
           lists  == front(W(Static("mint_signer")))
           wants  == front(R(Static("mint_signer")))
           S == { W(Of("payer", v)), R(Static("redeemer")), W(Of("mint", mint)),
                  W(Ata(v.recipient, mint, token)), W(Of("user", v.recipient)),
                  W(Of("tmp", mint)), R(Of("meta", mint)), R(Static("config")),
                  R(Of("posted", v)), W(Of("claim", v)), R(Of("endpoint", v)),
                  W(Static("mint_signer")), R(Static("mint_signer")),
                  R(Static("Wormhole")), R(Static("TokenBridge")), R(token),
                  R(Static("AssociatedToken")), R(Static("System")),
                  R(Static("rent")) }
<1>3. /\ WrappedAccounts(v, mint, token) = lists \o Programs(token)
      /\ WrappedLayout(v) = wants \o Programs(token)
  BY DEF WrappedAccounts, WrappedLayout
<1>4. lists \in Seq(S) /\ wants \in Seq(S) /\ Programs(token) \in Seq(S)
  BY DEF Programs
<1>5. Fits(lists, wants)
  BY DEF Fits, W, R
<1>6. QED
  BY <1>1, <1>2, <1>3, <1>4, <1>5, FitsConcat

\* An instruction resolved while its mint existed names every account in the
\* place, and with the rights, the instruction asks for, at any later time.
THEOREM PlansMatch == ResolverSpec => []PlansFit
<1>1. PlansInv => PlansFit
  BY AccountsFit DEF PlansInv, Planned, PlansFit, PlanFits
<1>2. QED
  BY <1>1, ResolverInvariant, PTL

-----------------------------------------------------------------------------
(* The lookup table serves the plans.                                      *)

Served(key) == IsStatic(key) => Head(key) \in Entries
AllServed(accounts) ==
  \A i \in DOMAIN accounts : Served(accounts[i].key)

LEMMA KeysServed ==
  /\ \A name \in Entries : Served(Static(name))
  /\ \A name, what : Served(Of(name, what))
  /\ \A user, mint, program : Served(Ata(user, mint, program))
BY DEF Served, IsStatic, Static, Of, Ata

LEMMA AccountsServed ==
  ASSUME NEW v, NEW program \in {Static("Token"), Static("System")}
  PROVE  /\ AllServed(NativeAccounts(v, v.token, program))
         /\ AllServed(WrappedAccounts(v, v.token, program))
<1> DEFINE mint == v.token
           S == [key : {Static(name) : name \in Entries}
                       \cup {Of("payer", v), Of("mint", mint), Of("tmp", mint),
                             Of("user", v.recipient), Of("posted", v),
                             Of("claim", v), Of("endpoint", v),
                             Of("custody", mint), Of("meta", mint),
                             Ata(v.recipient, mint, program)},
                 writable : BOOLEAN]
           natives ==
             << W(Of("payer", v)), R(Static("redeemer")), R(Of("mint", mint)),
                W(Ata(v.recipient, mint, program)), W(Of("user", v.recipient)),
                W(Of("tmp", mint)), R(Static("config")), R(Of("posted", v)),
                W(Of("claim", v)), R(Of("endpoint", v)),
                W(Of("custody", mint)), R(Static("custody_signer")) >>
           wrappeds ==
             << W(Of("payer", v)), R(Static("redeemer")), W(Of("mint", mint)),
                W(Ata(v.recipient, mint, program)), W(Of("user", v.recipient)),
                W(Of("tmp", mint)), R(Of("meta", mint)), R(Static("config")),
                R(Of("posted", v)), W(Of("claim", v)), R(Of("endpoint", v)),
                W(Static("mint_signer")) >>
<1>1. \A s \in S : Served(s.key)
  BY KeysServed DEF Entries
<1>2. program \in {Static(name) : name \in Entries}
  BY DEF Entries
<1>3. /\ natives \in Seq(S) /\ wrappeds \in Seq(S)
      /\ Programs(program) \in Seq(S)
  BY <1>2 DEF Entries, Programs, R, W
<1>4. /\ NativeAccounts(v, mint, program) = natives \o Programs(program)
      /\ WrappedAccounts(v, mint, program) = wrappeds \o Programs(program)
  BY DEF NativeAccounts, WrappedAccounts
<1> HIDE DEF natives, wrappeds, S
<1>5. ASSUME NEW a \in Seq(S) PROVE AllServed(a)
  BY <1>1 DEF AllServed
<1>6. /\ natives \o Programs(program) \in Seq(S)
      /\ wrappeds \o Programs(program) \in Seq(S)
  BY <1>3
<1>7. QED
  BY <1>4, <1>5, <1>6

\* Every account of a plan that is not particular to its transfer is in the
\* lookup table the plan names, for as long as the plan is kept.
THEOREM TableServesPlans == ResolverSpec => []PlansUseTable
<1>1. PlansInv => PlansUseTable
  <2> SUFFICES ASSUME PlansInv, NEW v \in Inbound, plan[v] # NoPlan,
                      NEW i \in DOMAIN plan[v].accounts,
                      IsStatic(plan[v].accounts[i].key)
               PROVE  Head(plan[v].accounts[i].key) \in tables[plan[v].table]
    BY DEF PlansUseTable
  <2>1. AllServed(plan[v].accounts) /\ tables[plan[v].table] = Entries
    BY AccountsServed DEF PlansInv, Planned
  <2>2. QED
    BY <2>1 DEF AllServed, Served
<1>2. QED
  BY <1>1, ResolverInvariant, PTL

\* The resolver and its executor do nothing on chain that the program does not
\* allow everybody: all that is proved of the program holds beside them.
THEOREM ProgramKept == ResolverSpec => Spec
<1>1. ResolverInit => Init
  BY DEF ResolverInit
<1>2. [ResolverNext]_<<vars, resolverVars>> => [Next]_vars
  BY ProgramStep
<1>3. QED
  BY <1>1, <1>2, PTL DEF ResolverSpec, Spec
=============================================================================
