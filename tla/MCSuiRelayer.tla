---------------------------- MODULE MCSuiRelayer ----------------------------
(* A small Sui: SUI with nine decimals, a native coin with ten, a wrapped    *)
(* one.                                                                     *)
EXTENDS SuiRelayer

CONSTANTS alice, bob, usdc, weth

\* Three grains of dust to a unit the bridge carries, in place of 10^k.
MCPow10 == [k \in 1..247 |-> 3]

MCDecimals == [c \in CoinTypes |-> IF c = SUI THEN 9
                                   ELSE IF c = usdc THEN 10 ELSE 8]
\* Nobody has the wrapped coin yet.
MCPurse == [c \in CoinTypes |-> IF c = weth THEN 0 ELSE 5]
MCCustody == [c \in CoinTypes |-> IF c = weth THEN 0 ELSE 3]

MCVaa(coin, recipient, redeemer) ==
  [payload_type |-> 3, coin |-> coin, amount |-> 1, recipient |-> recipient,
   redeemer |-> redeemer, toChain |-> CHAIN_ID]

MCInbound ==
  { MCVaa(SUI, alice, Relayer), MCVaa(weth, bob, Relayer),
    MCVaa(usdc, Malformed, Relayer), MCVaa(usdc, bob, TokenBridge),
    [MCVaa(usdc, bob, Relayer) EXCEPT !.toChain = CHAIN_ID + 1],
    [MCVaa(usdc, bob, Relayer) EXCEPT !.payload_type = 1] }

MCDestination == [targetChain |-> 1, recipient |-> "wallet",
                  dstExecutionAddress |-> "exec"]
MCDestinations ==
  { MCDestination, [MCDestination EXCEPT !.targetChain = 2],
    [MCDestination EXCEPT !.recipient = Malformed],
    [MCDestination EXCEPT !.dstExecutionAddress = ZeroAddress] }
=============================================================================
