------------------------------ MODULE Delivery ------------------------------
(***************************************************************************)
(* What the relayers, the Token Bridge and the Executor promise together,  *)
(* as a user of any two chains sees it: a transfer that was sent arrives   *)
(* at most once, on the chain and at the recipient it names, with all the  *)
(* units it carries, and nothing else ever arrives.                        *)
(***************************************************************************)
EXTENDS Integers

CONSTANTS Chains, Recipients, Tokens

VARIABLES
  sent,          \* transfers: id, token, units, target chain, recipient
  arrived,       \* those that were paid out
  credit         \* units received: credit[chain][recipient][token]

deliveryVars == <<sent, arrived, credit>>

Init ==
  /\ sent = {} /\ arrived = {}
  /\ credit = [c \in Chains |-> [w \in Recipients |-> [t \in Tokens |-> 0]]]

Send ==
  /\ sent \subseteq sent'
  /\ \A new \in sent' \ sent, m \in sent' : new.id = m.id => new = m
  /\ UNCHANGED <<arrived, credit>>

Arrive(m) ==
  /\ m \notin arrived
  /\ arrived' = arrived \cup {m}
  /\ credit' =
       [credit EXCEPT ![m.targetChain][m.recipient][m.token] = @ + m.units]
  /\ UNCHANGED sent

Next == Send \/ \E m \in sent : Arrive(m)

Spec == Init /\ [][Next]_deliveryVars
=============================================================================
