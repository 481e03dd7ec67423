---------------------------- MODULE MCEvmRelayer ----------------------------
(* A small EVM chain: WETH, a token that moves in full, one that keeps a    *)
(* fee.  Each configuration picks its tokens, messages and destinations.    *)
EXTENDS EvmRelayer

\* Three grains of dust to a unit the bridge carries, in place of 10^k.
MCPow10 == [k \in 1..247 |-> 3]

CONSTANTS alice, bob, tkn, taxed

MCUsers == {alice, bob}
MCDecimals == [t \in Tokens |-> IF t = tkn THEN 9 ELSE 18]
MCTransferFee == [t \in Tokens |-> IF t = taxed THEN 1 ELSE 0]

MCVaa(token, recipient, redeemer) ==
  [token |-> token, amount |-> 1, recipient |-> recipient,
   redeemer |-> redeemer]

\* What the contract must refuse stays among the inputs everywhere.
MCRefused == { MCVaa(tkn, bob, alice), MCVaa(tkn, Malformed, Shim),
               MCVaa(NotAttested, bob, Shim) }

MCOnePerToken == {MCVaa(t, alice, Shim) : t \in Tokens} \cup MCRefused

MCTwoWeth ==
  {MCVaa(weth, u, Shim) : u \in MCUsers} \cup MCRefused

MCWallet == [targetChain |-> 1, targetRecipient |-> "wallet",
             dstTransferRecipient |-> "peer", dstExecutionAddress |-> "exec"]

MCOneDestination == {MCWallet}

MCDestinations ==
  { MCWallet, [MCWallet EXCEPT !.targetChain = 2],
    [MCWallet EXCEPT !.targetRecipient = ZeroRecipient] }
=============================================================================
