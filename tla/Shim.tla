-------------------------------- MODULE Shim --------------------------------
(***************************************************************************)
(* What the relayer of every chain promises, seen between transactions.    *)
(*                                                                         *)
(* A transaction publishes transfers and completes inbound messages, none  *)
(* or several of each.  With every transfer goes the relay request for it, *)
(* with every completed message its payout, in the same transaction.       *)
(* Neither can be taken back, repeated or mistaken for another.            *)
(***************************************************************************)
EXTENDS Integers

VARIABLES
  published,     \* transfers: sequence, target chain, execution address
  requested,     \* what the Executor was asked to relay, in the same terms
  completed,     \* inbound messages completed through the relayer
  paid           \* what was paid for them: message and recipient

shimVars == <<published, requested, completed, paid>>

PayoutOf(vaa) == [vaa |-> vaa, to |-> vaa.recipient]

Init == published = {} /\ requested = {} /\ completed = {} /\ paid = {}

\* One transaction: the transfers ms go out and the messages vs are paid.
Commit(ms, vs) ==
  /\ \A m \in ms, old \in published : old.sequence < m.sequence
  /\ \A m1, m2 \in ms : m1.sequence = m2.sequence => m1 = m2
  /\ published' = published \cup ms
  /\ requested' = requested \cup ms
  /\ completed' = completed \cup vs
  /\ paid' = paid \cup {PayoutOf(v) : v \in vs}

Next == Commit(published' \ published, completed' \ completed)

Spec == Init /\ [][Next]_shimVars
=============================================================================
