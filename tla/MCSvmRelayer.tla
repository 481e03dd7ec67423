---------------------------- MODULE MCSvmRelayer ----------------------------
(* A small SVM chain: wrapped SOL, a token of nine decimals and a mint of   *)
(* the Token Bridge.                                                        *)
EXTENDS SvmRelayer

\* Three grains of dust to a unit the bridge carries, in place of 10^k.
MCPow10 == [k \in 1..247 |-> 3]

CONSTANTS alice, bob, sol, spl, usdc

MCDecimals == [t \in Mints |-> IF t = usdc THEN 6 ELSE 9]
MCPurse == [t \in Mints |-> IF t = usdc THEN NoAccount ELSE 4]
MCCustody == [t \in Mints |-> IF t = usdc THEN 0 ELSE 3]

MCVaa(token, recipient) ==
  [token |-> token, amount |-> 1, recipient |-> recipient,
   to |-> ThisProgram, toChain |-> OUR_CHAIN,
   tokenChain |-> IF token \in Wrapped THEN 2 ELSE OUR_CHAIN]

\* What the program must refuse stays among the inputs.
MCRefused == { [MCVaa(spl, bob) EXCEPT !.to = "redeemer"],
               [MCVaa(spl, bob) EXCEPT !.toChain = 2],
               MCVaa(spl, Malformed) }

MCInbound == {MCVaa(t, bob) : t \in Mints} \cup MCRefused

MCWallet == [targetChain |-> 2, targetRecipient |-> "wallet",
             dstTransferRecipient |-> "peer", dstExecutionAddress |-> "exec"]

MCDestinations ==
  { MCWallet, [MCWallet EXCEPT !.targetChain = OUR_CHAIN],
    [MCWallet EXCEPT !.targetRecipient = ZeroAddress] }
=============================================================================
