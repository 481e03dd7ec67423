------------------------- MODULE RelayNetworkProofs -------------------------
(***************************************************************************)
(* Proofs about RelayNetwork, for any number of chains of each kind, any   *)
(* tokens, decimals, amounts and destinations: requests find their         *)
(* messages, and the network implements Delivery.                          *)
(***************************************************************************)
EXTENDS RelayNetwork, TokenAmountsProofs, TLAPS

-----------------------------------------------------------------------------
(* The inductive invariant.                                                *)

\* The messages of a bridge are numbered below the next one, each number once.
Numbered ==
  /\ \A m \in messages : m.sequence < sequence[m.chain]
  /\ \A m1, m2 \in messages :
       m1.chain = m2.chain /\ m1.sequence = m2.sequence => m1 = m2

\* A request is about a message of a relayer to the chain it is sent to, and
\* there is one for each.
RequestsMade ==
  /\ \A r \in requests : \E m \in relayed :
       Names(r, m) /\ r.targetChain = m.toChain
  /\ \A m \in relayed : \E r \in requests :
       Names(r, m) /\ r.targetChain = m.toChain

\* A chain completes what is for it, and its relayer pays words.
ClaimsAtHome ==
  \A c \in Chains : \A m \in claims[c] :
    m.toChain = c /\ (m \in elsewhere \/ m.recipient \in Words)

IInv == TypeOK /\ Numbered /\ RequestsMade /\ ClaimsAtHome

-----------------------------------------------------------------------------
(* Amounts.                                                                *)

LEMMA Amounted ==
  ASSUME NEW c \in Chains, NEW t \in Tokens, NEW a \in Nat
  PROVE  /\ Decimals[c][t] \in Uint8
         /\ normalizeAmount(a, Decimals[c][t]) \in Nat
         /\ truncateAmount(a, Decimals[c][t]) \in Nat
<1>1. Decimals[c][t] \in Uint8
  BY NetworkAssumption
<1>2. QED
  BY <1>1, Units DEF truncateAmount

\* What the SVM program works out is what its bridge released.
LEMMA SvmAmountReleased ==
  ASSUME NEW c \in SvmChains, NEW m, m.token \in Tokens
  PROVE  SvmAmount(c, m) = Released(c, m)
<1>1. CASE c = Home[m.token]
  BY <1>1 DEF SvmAmount
<1>2. CASE c # Home[m.token]
  <2>1. Decimals[c][m.token] <= 8 /\ Decimals[c][m.token] \in Uint8
    BY <1>2, NetworkAssumption DEF Chains
  <2>2. ~(Decimals[c][m.token] > 8)
    BY <2>1 DEF Uint8
  <2>3. QED
    BY <1>2, <2>2 DEF SvmAmount, Released, denormalizeAmount
<1>3. QED
  BY <1>1, <1>2

-----------------------------------------------------------------------------
(* What the steps of Next come down to: a message is published, with its    *)
(* request or without; a signed message is paid, or completed past the      *)
(* relayer; or nothing but the queue and the signatures changes.            *)

Publishes(c, t, amount, dst, redeemer) ==
  /\ Publish(c, t, amount, dst, redeemer)
  /\ \/ UNCHANGED <<relayed, requests>>
     \/ /\ relayed' = relayed \cup {Message(c, t, amount, dst, redeemer)}
        /\ requests' = requests \cup {RequestFor(c, sequence[c], dst)}

Published ==
  \E c \in Chains, t \in Tokens, amount \in Nat, dst \in Destinations,
     redeemer \in Words : Publishes(c, t, amount, dst, redeemer)

Paid ==
  \E c \in Chains : \E m \in messages :
    /\ Completes(c, m) /\ m.recipient \in Words
    /\ Pay(c, m, Released(c, m))
    /\ queue' \subseteq queue

Diverted ==
  \E c \in SuiChains : \E m \in messages : SuiRedeemElsewhere(c, m)

Passed ==
  /\ UNCHANGED <<sequence, messages, relayed, requests, claims, elsewhere,
                 received>>
  /\ signed \subseteq signed' /\ signed' \subseteq messages
  /\ queue' \subseteq requests

LEMMA RedeemPays ==
  ASSUME IInv, NEW c \in Chains, NEW m \in messages, Redeem(c, m),
         queue' \subseteq queue
  PROVE  Paid
<1>1. m.token \in Tokens /\ m.recipient \in Words \cup {Malformed}
  BY DEF IInv, TypeOK, MessageType
<1>2. CASE EvmRedeem(c, m)
  BY <1>2, NetworkAssumption DEF EvmRedeem, Paid
<1>3. CASE SvmRedeem(c, m)
  BY <1>1, <1>3, SvmAmountReleased DEF SvmRedeem, Paid
<1>4. CASE SuiRedeem(c, m)
  BY <1>4 DEF SuiRedeem, Paid
<1>5. QED
  BY <1>2, <1>3, <1>4 DEF Redeem

LEMMA RelayPublishes ==
  ASSUME NEW c \in Chains, NEW t \in Tokens, NEW amount \in Nat,
         NEW dst \in Destinations, NEW redeemer \in Words,
         Relay(c, t, amount, dst, redeemer)
  PROVE  Published
BY DEF Relay, Published, Publishes

LEMMA TransferPublishes ==
  ASSUME NEW c \in Chains, NEW t \in Tokens, NEW asked \in Amounts,
         NEW dst \in Destinations,
         \/ EvmTransfer(c, t, asked, dst) \/ SvmTransfer(c, t, asked, dst)
         \/ SuiTransfer(c, t, asked, dst) \/ SendDirectly(c, t, asked, dst)
  PROVE  Published
<1>1. asked \in Nat
  BY NetworkAssumption
<1>2. truncateAmount(asked, Decimals[c][t]) \in Nat
  BY <1>1, Amounted
<1>3. dst.dstTransferRecipient \in Words /\ dst.dstExecutionAddress \in Words
  BY NetworkAssumption
<1>4. CASE EvmTransfer(c, t, asked, dst)
  BY <1>2, <1>3, <1>4, RelayPublishes DEF EvmTransfer
<1>5. CASE SvmTransfer(c, t, asked, dst)
  BY <1>1, <1>2, <1>3, <1>5, RelayPublishes DEF SvmTransfer
<1>6. CASE SuiTransfer(c, t, asked, dst)
  BY <1>2, <1>3, <1>6, RelayPublishes DEF SuiTransfer
<1>7. CASE SendDirectly(c, t, asked, dst)
  BY <1>1, <1>3, <1>7 DEF SendDirectly, Published, Publishes
<1>8. QED
  BY <1>4, <1>5, <1>6, <1>7

LEMMA StepForms ==
  ASSUME IInv, [Next]_vars
  PROVE  Published \/ Paid \/ Diverted \/ Passed
<1>0. signed \subseteq messages /\ queue \subseteq requests
  BY DEF IInv, TypeOK
<1>1. ASSUME NEW c \in Chains, NEW t \in Tokens, NEW asked \in Amounts,
             NEW dst \in Destinations,
             \/ EvmTransfer(c, t, asked, dst) \/ SvmTransfer(c, t, asked, dst)
             \/ SuiTransfer(c, t, asked, dst) \/ SendDirectly(c, t, asked, dst)
      PROVE  Published
  BY <1>1, TransferPublishes
<1>2. ASSUME NEW m \in messages, Sign(m)
      PROVE  Passed
  BY <1>0, <1>2 DEF Sign, Passed
<1>3. ASSUME NEW m \in messages, NEW c \in Chains, RedeemAlone(c, m)
      PROVE  Paid
  BY <1>3, RedeemPays DEF RedeemAlone
<1>4. ASSUME NEW r \in requests, Observe(r)
      PROVE  Passed
  BY <1>0, <1>4 DEF Observe, Passed
<1>5. ASSUME NEW r \in requests, Deliver(r)
      PROVE  Paid
  <2>1. PICK m \in signed : Deliverable(r, m) /\ Redeem(r.targetChain, m)
    BY <1>5 DEF Deliver
  <2>2. r.targetChain \in Chains /\ m \in messages /\ queue' \subseteq queue
    BY <1>0, <1>5, <2>1 DEF Deliverable, Deliver
  <2>3. QED
    BY <2>1, <2>2, RedeemPays
<1>6. ASSUME NEW r \in requests, GiveUp(r)
      PROVE  Passed
  BY <1>0, <1>6 DEF GiveUp, Passed
<1>7. CASE Restart
  BY <1>0, <1>7 DEF Restart, Passed
<1>8. CASE UNCHANGED vars
  BY <1>0, <1>8 DEF vars, Passed
<1>9. ASSUME NEW m \in messages, NEW c \in Chains, SuiRedeemElsewhere(c, m)
      PROVE  Diverted
  BY <1>9 DEF SuiRedeemElsewhere, Diverted
<1>10. QED
  BY <1>1, <1>2, <1>3, <1>4, <1>5, <1>6, <1>7, <1>8, <1>9 DEF Next

-----------------------------------------------------------------------------
(* The invariant is kept.                                                  *)

LEMMA MessageTyped ==
  ASSUME TypeOK, NEW c \in Chains, NEW t \in Tokens, NEW amount \in Nat,
         NEW dst \in Destinations, NEW redeemer \in Words
  PROVE  Message(c, t, amount, dst, redeemer) \in MessageType
<1>1. normalizeAmount(amount, Decimals[c][t]) \in Nat
  BY Amounted
<1>2. sequence[c] \in Nat
  BY DEF TypeOK
<1>3. /\ dst.targetChain \in Nat
      /\ dst.targetRecipient \in Words \cup {Malformed}
  BY NetworkAssumption
<1>4. QED
  BY <1>1, <1>2, <1>3 DEF Message, MessageType

LEMMA RequestTyped ==
  ASSUME TypeOK, NEW c \in Chains, NEW dst \in Destinations
  PROVE  RequestFor(c, sequence[c], dst) \in RequestType
<1>1. sequence[c] \in Nat
  BY DEF TypeOK
<1>2. dst.targetChain \in Nat /\ dst.dstExecutionAddress \in Words
  BY NetworkAssumption
<1>3. TokenBridge[c] \in Words
  BY NetworkAssumption
<1>4. QED
  BY <1>1, <1>2, <1>3 DEF RequestFor, RequestType

\* What a published message adds to the ledgers.
LEMMA Appended ==
  ASSUME IInv, NEW c \in Chains, NEW t \in Tokens, NEW amount \in Nat,
         NEW dst \in Destinations, NEW redeemer \in Words,
         Publishes(c, t, amount, dst, redeemer)
  PROVE  /\ sequence \in [Chains -> Nat]
         /\ sequence' = [sequence EXCEPT ![c] = @ + 1]
         /\ messages' = messages \cup {Message(c, t, amount, dst, redeemer)}
         /\ \A m \in messages : m.chain \in Chains /\ m.sequence \in Nat
         /\ UNCHANGED <<signed, claims, elsewhere, received, queue>>
BY DEF Publishes, Publish, IInv, TypeOK, MessageType

LEMMA PublishedKeeps == IInv /\ Published => IInv'
<1> SUFFICES ASSUME IInv, NEW c \in Chains, NEW t \in Tokens,
                    NEW amount \in Nat, NEW dst \in Destinations,
                    NEW redeemer \in Words,
                    Publishes(c, t, amount, dst, redeemer)
             PROVE  IInv'
  BY DEF Published
<1> DEFINE new == Message(c, t, amount, dst, redeemer)
           req == RequestFor(c, sequence[c], dst)
<1>1. /\ sequence \in [Chains -> Nat]
      /\ sequence' = [sequence EXCEPT ![c] = @ + 1]
      /\ messages' = messages \cup {new}
      /\ \A m \in messages : m.chain \in Chains /\ m.sequence \in Nat
      /\ UNCHANGED <<signed, claims, elsewhere, received, queue>>
  BY Appended
<1>2. \/ UNCHANGED <<relayed, requests>>
      \/ relayed' = relayed \cup {new} /\ requests' = requests \cup {req}
  BY DEF Publishes
<1>3. new \in MessageType /\ req \in RequestType
  BY MessageTyped, RequestTyped DEF IInv
<1>4. new.chain = c /\ new.sequence = sequence[c] /\ new.toChain = dst.targetChain
  BY DEF Message
<1>5. Names(req, new) /\ req.targetChain = new.toChain
  BY DEF Names, RequestFor, Message
<1> HIDE DEF new, req
<1>6. TypeOK'
  <2>1. relayed' \subseteq messages' /\ requests' \subseteq RequestType
    BY <1>1, <1>2, <1>3 DEF IInv, TypeOK
  <2>2. queue' \subseteq requests'
    BY <1>1, <1>2 DEF IInv, TypeOK
  <2>3. QED
    BY <1>1, <1>3, <2>1, <2>2 DEF IInv, TypeOK
<1>7. Numbered'
  <2>1. \A m \in messages : m.sequence < sequence[m.chain]
    BY DEF IInv, Numbered
  <2>2. \A d \in Chains : sequence'[d] = IF d = c THEN sequence[c] + 1 ELSE sequence[d]
    BY <1>1
  <2>3. \A m \in messages' : m.sequence < sequence'[m.chain]
    BY <1>1, <1>4, <2>1, <2>2
  <2>4. \A m \in messages : ~(m.chain = c /\ m.sequence = sequence[c])
    BY <1>1, <2>1
  <2>5. QED
    BY <1>1, <1>4, <2>3, <2>4 DEF IInv, Numbered
<1>8. RequestsMade'
  BY <1>1, <1>2, <1>5 DEF IInv, RequestsMade, Names
<1>9. ClaimsAtHome'
  BY <1>1 DEF IInv, ClaimsAtHome
<1>10. QED
  BY <1>6, <1>7, <1>8, <1>9 DEF IInv

\* What a payment does, and what is known of the message.
LEMMA PayTyped ==
  ASSUME IInv, NEW c \in Chains, NEW m \in messages, Completes(c, m),
         m.recipient \in Words
  PROVE  /\ m.token \in Tokens /\ m.units \in Nat
         /\ Decimals[c][m.token] \in Uint8
         /\ Released(c, m) \in Nat
         /\ m \in signed /\ m.toChain = c /\ m \notin claims[c]
<1>1. m.token \in Tokens /\ m.units \in Nat
  BY DEF IInv, TypeOK, MessageType
<1>2. Decimals[c][m.token] \in Uint8
  BY <1>1, NetworkAssumption
<1>3. Released(c, m) \in Nat
  BY <1>1, <1>2, Units DEF Released
<1>4. QED
  BY <1>1, <1>2, <1>3 DEF Completes

LEMMA PaidKeeps == IInv /\ Paid => IInv'
<1> SUFFICES ASSUME IInv, NEW c \in Chains, NEW m \in messages,
                    Completes(c, m), m.recipient \in Words,
                    Pay(c, m, Released(c, m)), queue' \subseteq queue
             PROVE  IInv'
  BY DEF Paid
<1> DEFINE a == Released(c, m)
<1>1. /\ m.token \in Tokens /\ a \in Nat
      /\ m \in signed /\ m.toChain = c
  BY PayTyped
<1>2. /\ UNCHANGED <<sequence, messages, relayed, signed, requests, elsewhere>>
      /\ claims' = [claims EXCEPT ![c] = @ \cup {m}]
      /\ received' = [received EXCEPT ![c][m.recipient][m.token] = @ + a]
  BY DEF Pay
<1> HIDE DEF a
<1>3. TypeOK'
  <2>1. claims' \in [Chains -> SUBSET signed]
    BY <1>1, <1>2 DEF IInv, TypeOK
  <2>2. received' \in [Chains -> [Words -> [Tokens -> Nat]]]
    BY <1>1, <1>2 DEF IInv, TypeOK
  <2>3. elsewhere \subseteq UNION {claims'[d] : d \in SuiChains}
    <3>1. \A d \in SuiChains : claims[d] \subseteq claims'[d]
      BY <1>2 DEF IInv, TypeOK, Chains
    <3>2. QED
      BY <3>1 DEF IInv, TypeOK
  <2>4. QED
    BY <1>2, <2>1, <2>2, <2>3 DEF IInv, TypeOK
<1>4. Numbered' /\ RequestsMade'
  BY <1>2 DEF IInv, Numbered, RequestsMade, Names
<1>5. ClaimsAtHome'
  <2>1. \A d \in Chains : claims'[d] = IF d = c THEN claims[c] \cup {m} ELSE claims[d]
    BY <1>2 DEF IInv, TypeOK
  <2>2. QED
    BY <1>1, <1>2, <2>1 DEF IInv, ClaimsAtHome
<1>6. QED
  BY <1>3, <1>4, <1>5 DEF IInv

LEMMA DivertedKeeps == IInv /\ Diverted => IInv'
<1> SUFFICES ASSUME IInv, NEW c \in SuiChains, NEW m \in messages,
                    SuiRedeemElsewhere(c, m)
             PROVE  IInv'
  BY DEF Diverted
<1>1. /\ m \in signed /\ m.toChain = c /\ c \in Chains
      /\ claims' = [claims EXCEPT ![c] = @ \cup {m}]
      /\ elsewhere' = elsewhere \cup {m}
      /\ UNCHANGED <<sequence, messages, relayed, signed, requests, received,
                     queue>>
  BY DEF SuiRedeemElsewhere, Completes, Chains
<1>2. \A d \in Chains : claims'[d] = IF d = c THEN claims[c] \cup {m} ELSE claims[d]
  BY <1>1 DEF IInv, TypeOK
<1>3. TypeOK'
  <2>1. claims' \in [Chains -> SUBSET signed]
    BY <1>1 DEF IInv, TypeOK
  <2>2. elsewhere' \subseteq UNION {claims'[d] : d \in SuiChains}
    <3>1. /\ \A d \in SuiChains : claims[d] \subseteq claims'[d]
          /\ m \in claims'[c]
      BY <1>1, <1>2 DEF Chains
    <3>2. QED
      BY <1>1, <3>1 DEF IInv, TypeOK
  <2>3. QED
    BY <1>1, <2>1, <2>2 DEF IInv, TypeOK
<1>4. Numbered' /\ RequestsMade'
  BY <1>1 DEF IInv, Numbered, RequestsMade, Names
<1>5. ClaimsAtHome'
  BY <1>1, <1>2 DEF IInv, ClaimsAtHome
<1>6. QED
  BY <1>3, <1>4, <1>5 DEF IInv

LEMMA PassedKeeps == IInv /\ Passed => IInv'
<1> SUFFICES ASSUME IInv, Passed PROVE IInv'
  OBVIOUS
<1>1. claims \in [Chains -> SUBSET signed']
  BY DEF IInv, TypeOK, Passed
<1>2. TypeOK'
  BY <1>1 DEF IInv, TypeOK, Passed
<1>3. Numbered' /\ RequestsMade' /\ ClaimsAtHome'
  BY DEF IInv, Numbered, RequestsMade, ClaimsAtHome, Names, Passed
<1>4. QED
  BY <1>2, <1>3 DEF IInv

LEMMA InitInv == Init => IInv
BY DEF Init, IInv, TypeOK, Numbered, RequestsMade, ClaimsAtHome

LEMMA Invariant == Spec => []IInv
<1>1. IInv /\ [Next]_vars => IInv'
  BY StepForms, PublishedKeeps, PaidKeeps, DivertedKeeps, PassedKeeps
<1>2. QED
  BY <1>1, InitInv, PTL DEF Spec

-----------------------------------------------------------------------------
(* The network implements Delivery.                                        *)

SentOf(ms) == {Sent(m) : m \in ms}
Claimed == UNION {claims[c] : c \in Chains}

\* Messages are told apart by their id.
LEMMA SentOnce ==
  ASSUME Numbered, NEW m1 \in messages, NEW m2 \in messages,
         Sent(m1).id = Sent(m2).id
  PROVE  m1 = m2
<1>1. m1.chain = m2.chain /\ m1.sequence = m2.sequence
  BY DEF Sent
<1>2. QED
  BY <1>1 DEF Numbered

LEMMA SendStep ==
  ASSUME IInv, IInv', Published
  PROVE  Promised!Send
<1>1. /\ messages \subseteq messages'
      /\ UNCHANGED <<claims, elsewhere, received>>
  BY DEF Published, Publishes, Publish
<1>2. SentOf(messages) \subseteq SentOf(messages')
  BY <1>1 DEF SentOf
<1>3. \A m1, m2 \in messages' :
        m1.chain = m2.chain /\ m1.sequence = m2.sequence => m1 = m2
  BY DEF IInv, Numbered
<1>4. \A m1, m2 \in messages' : Sent(m1).id = Sent(m2).id => Sent(m1) = Sent(m2)
  <2> SUFFICES ASSUME NEW m1 \in messages', NEW m2 \in messages',
                      Sent(m1).id = Sent(m2).id
               PROVE  Sent(m1) = Sent(m2)
    OBVIOUS
  <2>1. m1.chain = m2.chain /\ m1.sequence = m2.sequence
    BY DEF Sent
  <2>2. QED
    BY <1>3, <2>1
<1>5. \A s1, s2 \in SentOf(messages') : s1.id = s2.id => s1 = s2
  BY <1>4 DEF SentOf
<1>6. UNCHANGED <<SentOf(Completed), Credit>>
  BY <1>1 DEF SentOf, Completed, Credit
<1>7. QED
  BY <1>2, <1>5, <1>6 DEF Promised!Send, SentOf, Completed

LEMMA ArriveStep ==
  ASSUME IInv, NEW c \in Chains, NEW m \in messages, Completes(c, m),
         m.recipient \in Words, Pay(c, m, Released(c, m))
  PROVE  Promised!Arrive(Sent(m)) /\ Sent(m) \in SentOf(messages)
<1>1. /\ m.token \in Tokens /\ m.units \in Nat
      /\ Decimals[c][m.token] \in Uint8
      /\ m \in signed /\ m.toChain = c /\ m \notin claims[c]
  BY PayTyped
<1>2. claims \in [Chains -> SUBSET messages]
  BY DEF IInv, TypeOK
<1>3. Completed \subseteq messages /\ m \notin Claimed /\ m \notin elsewhere
  <2>1. Claimed \subseteq messages /\ m \notin Claimed
    BY <1>1, <1>2 DEF Claimed, IInv, ClaimsAtHome
  <2>2. elsewhere \subseteq Claimed
    BY DEF Claimed, IInv, TypeOK, Chains
  <2>3. QED
    BY <2>1, <2>2 DEF Completed, Claimed
<1>4. Sent(m) \notin SentOf(Completed)
  <2> SUFFICES ASSUME NEW m1 \in Completed, Sent(m1) = Sent(m) PROVE FALSE
    BY DEF SentOf
  <2>1. m1 = m
    BY <1>3, SentOnce DEF IInv
  <2>2. QED
    BY <1>3, <2>1 DEF Completed, Claimed
<1>5. Completed' = Completed \cup {m}
  <2>1. \A d \in Chains : claims'[d] = IF d = c THEN claims[c] \cup {m} ELSE claims[d]
    BY <1>2 DEF Pay
  <2>2. Claimed' = Claimed \cup {m} /\ elsewhere' = elsewhere
    BY <2>1 DEF Claimed, Pay
  <2>3. QED
    BY <1>3, <2>2 DEF Completed, Claimed
<1>6. SentOf(Completed)' = SentOf(Completed) \cup {Sent(m)}
  BY <1>5 DEF SentOf
<1>7. UNCHANGED SentOf(messages)
  BY DEF Pay, SentOf
<1>8. Credit' = [Credit EXCEPT ![c][m.recipient][m.token] = @ + m.units]
  <2> DEFINE a == Released(c, m)
  <2>1. received \in [Chains -> [Words -> [Tokens -> Nat]]]
    BY DEF IInv, TypeOK
  <2>2. received' = [received EXCEPT ![c][m.recipient][m.token] = @ + a]
    BY DEF Pay
  <2>3. received[c][m.recipient][m.token] \in Nat
    BY <1>1, <2>1
  <2>4. normalizeAmount(received[c][m.recipient][m.token] + a, Decimals[c][m.token])
          = normalizeAmount(received[c][m.recipient][m.token], Decimals[c][m.token])
              + m.units
    BY <1>1, <2>3, CreditAdds DEF Released
  <2> HIDE DEF a
  <2>5. \A d \in Chains, w \in Words, t \in Tokens :
          received'[d][w][t] =
            IF d = c /\ w = m.recipient /\ t = m.token
              THEN received[c][m.recipient][m.token] + a
              ELSE received[d][w][t]
    BY <1>1, <2>1, <2>2
  <2> DEFINE N(x, d, t) == normalizeAmount(x, Decimals[d][t])
  <2>6. \A d \in Chains, w \in Words, t \in Tokens :
          N(received'[d][w][t], d, t) =
            IF d = c /\ w = m.recipient /\ t = m.token
              THEN N(received[c][m.recipient][m.token], c, m.token) + m.units
              ELSE N(received[d][w][t], d, t)
    BY <2>4, <2>5
  <2>7. /\ Credit = [d \in Chains |-> [w \in Words |-> [t \in Tokens |->
                       N(received[d][w][t], d, t)]]]
        /\ Credit' = [d \in Chains |-> [w \in Words |-> [t \in Tokens |->
                       N(received'[d][w][t], d, t)]]]
    BY DEF Credit
  <2> HIDE DEF N
  <2>8. [Credit EXCEPT ![c][m.recipient][m.token] = @ + m.units]
          = [d \in Chains |-> [w \in Words |-> [t \in Tokens |->
               IF d = c /\ w = m.recipient /\ t = m.token
                 THEN N(received[c][m.recipient][m.token], c, m.token) + m.units
                 ELSE N(received[d][w][t], d, t)]]]
    BY <1>1, <2>7
  <2> DEFINE B(d, w, t) ==
        IF d = c /\ w = m.recipient /\ t = m.token
          THEN N(received[c][m.recipient][m.token], c, m.token) + m.units
          ELSE N(received[d][w][t], d, t)
  <2>9. \A d \in Chains, w \in Words, t \in Tokens :
          N(received'[d][w][t], d, t) = B(d, w, t)
    BY <2>6
  <2>10. [Credit EXCEPT ![c][m.recipient][m.token] = @ + m.units]
           = [d \in Chains |-> [w \in Words |-> [t \in Tokens |-> B(d, w, t)]]]
    BY <2>8
  <2> HIDE DEF B
  <2>11. \A d \in Chains, w \in Words :
           [t \in Tokens |-> N(received'[d][w][t], d, t)]
             = [t \in Tokens |-> B(d, w, t)]
    BY <2>9
  <2>12. \A d \in Chains :
           [w \in Words |-> [t \in Tokens |-> N(received'[d][w][t], d, t)]]
             = [w \in Words |-> [t \in Tokens |-> B(d, w, t)]]
    BY <2>11
  <2>13. QED
    BY <2>7, <2>10, <2>12
<1>9. /\ Sent(m).targetChain = c /\ Sent(m).recipient = m.recipient
      /\ Sent(m).token = m.token /\ Sent(m).units = m.units
  BY <1>1 DEF Sent
<1>10. Promised!Arrive(Sent(m))
  BY <1>4, <1>6, <1>7, <1>8, <1>9 DEF Promised!Arrive, SentOf, Completed
<1>11. QED
  BY <1>10 DEF SentOf

\* What is completed past the relayer does not show in Delivery.
LEMMA DivertedStep ==
  ASSUME IInv, Diverted
  PROVE  UNCHANGED Promised!deliveryVars
<1>1. PICK c \in SuiChains, m \in messages : SuiRedeemElsewhere(c, m)
  BY DEF Diverted
<1>2. /\ m.toChain = c /\ c \in Chains /\ m \notin claims[c]
      /\ claims' = [claims EXCEPT ![c] = @ \cup {m}]
      /\ elsewhere' = elsewhere \cup {m}
      /\ UNCHANGED <<messages, received>>
  BY <1>1 DEF SuiRedeemElsewhere, Completes, Chains
<1>3. \A d \in Chains : claims'[d] = IF d = c THEN claims[c] \cup {m} ELSE claims[d]
  BY <1>2 DEF IInv, TypeOK
<1>4. Claimed' = Claimed \cup {m}
  BY <1>2, <1>3 DEF Claimed
<1>5. m \notin Claimed
  BY <1>2 DEF Claimed, IInv, ClaimsAtHome
<1>6. Completed' = Completed
  BY <1>2, <1>4, <1>5 DEF Completed, Claimed
<1>7. QED
  BY <1>2, <1>6 DEF Promised!deliveryVars, Credit

LEMMA DeliveryStep ==
  ASSUME IInv, IInv', [Next]_vars
  PROVE  [Promised!Next]_(Promised!deliveryVars)
<1>1. CASE Published
  BY <1>1, SendStep DEF Promised!Next
<1>2. CASE Paid
  BY <1>2, ArriveStep DEF Paid, Promised!Next, SentOf
<1>3. CASE Diverted
  BY <1>3, DivertedStep
<1>4. CASE Passed
  BY <1>4 DEF Passed, Promised!deliveryVars, Credit, Completed
<1>5. QED
  BY <1>1, <1>2, <1>3, <1>4, StepForms

LEMMA DeliveryInit == Init => Promised!Init
<1> SUFFICES ASSUME Init PROVE Promised!Init
  OBVIOUS
<1>1. \A c \in Chains, t \in Tokens : normalizeAmount(0, Decimals[c][t]) = 0
  <2> SUFFICES ASSUME NEW d \in Uint8 PROVE normalizeAmount(0, d) = 0
    BY NetworkAssumption
  <2>1. ASSUME NEW p \in Nat \ {0} PROVE 0 \div p = 0
    OBVIOUS
  <2>2. QED
    BY <2>1, Pow10Assumption DEF normalizeAmount, Uint8
<1>2. Credit =
        [c \in Chains |-> [w \in Words |-> [t \in Tokens |-> 0]]]
  BY <1>1 DEF Init, Credit
<1>3. QED
  BY <1>2 DEF Init, Promised!Init, Completed

-----------------------------------------------------------------------------
(* The theorems.                                                           *)

\* Every variable has its type, whatever is sent, lost, repeated or completed by
\* others; no relayer makes the request before the bridge has given the number.
THEOREM TypeCorrect == Spec => []TypeOK
<1>1. IInv => TypeOK
  BY DEF IInv
<1>2. QED
  BY <1>1, Invariant, PTL

\* Whatever is published where, every message of a relayer has a request that
\* finds it and no other and is sent to the chain the message is for, and every
\* request is about such a message.
THEOREM RequestsAnswered == Spec => []RequestsFindMessages
<1>1. IInv => RequestsFindMessages
  <2> SUFFICES ASSUME IInv PROVE RequestsFindMessages
    OBVIOUS
  <2>1. \A r \in requests, m1, m2 \in messages :
          Names(r, m1) /\ Names(r, m2) => m1 = m2
    BY DEF IInv, Numbered, Names
  <2>2. QED
    BY <2>1 DEF IInv, RequestsMade, RequestsFindMessages
<1>2. QED
  BY <1>1, Invariant, PTL

\* Whatever the Executor and anybody else do, the relayers pay a message at most
\* once, on the chain and to the recipient it names, and it is worth there what
\* it was worth where it left.
THEOREM DeliveryImplemented == Spec => ImplementsDelivery
<1>1. Init => Promised!Init
  BY DeliveryInit
<1>2. IInv /\ IInv' /\ [Next]_vars => [Promised!Next]_(Promised!deliveryVars)
  BY DeliveryStep
<1>3. QED
  BY <1>1, <1>2, Invariant, PTL DEF Spec, ImplementsDelivery, Promised!Spec
=============================================================================
